\* An object of each kind, one change at the server, lists that fail to load or are
\* older than the objects.
SPECIFICATION FormsSpec
CONSTANTS
    Objects <- MCObjects
    Lists <- MCLists
    Starts <- MCStarts
    Ids = {1}
    MaxChanges = 1
    MaxFills = 1
INVARIANTS Kept NoStrangers
