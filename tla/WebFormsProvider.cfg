\* The comment in refresh, with a list of providers that fails to load.
SPECIFICATION FormsSpec
CONSTANTS
    Objects <- MCObjects
    Lists <- MCLists
    Starts <- MCStarts
    Ids = {1}
    MaxChanges = 1
    MaxFills = 1
INVARIANT ProviderKept
