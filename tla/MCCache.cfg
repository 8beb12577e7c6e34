CONSTANTS
    Assoc = 2
    Sets = 2
    NumCaches = 3
    Tids = {0, 1, 5}
    Tags = {1, 3, 5}
    StopOnError = TRUE
    PrintOnError = TRUE
    Instructions = {{"read"}, {"write"}, {"read", "write"}}
SPECIFICATION DriverSpec
INVARIANTS DriverTypeOK SingleWriter OneLinePerBlock NoFalseAlarm
PROPERTIES EvictsOnlyWhenFull ServicedByTheOwner ImplementsCoherence ComparisonChangesNothing
