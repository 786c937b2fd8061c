\* A dialog of each way of opening and saving, two handlers suspended at a time.
SPECIFICATION Spec
CONSTANTS
    Dialogs = {"acl", "stream", "site"}
    Tids = {1, 2}
    MaxFills = 2
    MaxLost = 1
    MaxRefresh = 1
INVARIANTS SavingExact CreatedOnce
PROPERTY SavesAreGated
