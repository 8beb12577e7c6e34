CONSTANTS
    Assoc = 4
    Sets = 2
    Tags = {129, 131, 3, 256, 5, 7}
SPECIFICATION Spec
PROPERTY KeepsRecentBlocks
