CONSTANTS
    Filters = {current, kept}
    Addrs = {0, 1, 2}
    Funcs <- MCFuncs
    FilterSize = 5
    CHAR_BIT = 2
    Builds = {TRUE, FALSE}
    Removing = {TRUE}
    MaxElements = 4
SPECIFICATION Spec
INVARIANTS TypeOK ConflictIsNeverMissed SetIsExact EmptyWhenNothingAdded
