SPECIFICATION FairSpec
CONSTANTS
    tale = tale
    comic = comic
    None = None
    Books = {tale, comic}
    Epubs = {comic}
    Covered = {comic}
    PageCount = 3
    PageBlocks = 2
    CoverBlocks = 2
    HistoryLength = 1
    ReadLength = 2
    CommandLength = 3
    EventLength = 2
    ResultLength = 1
    Faults = TRUE
    MaxSession = 2
    MaxGeneration = 1
    MaxRequest = 6
CHECK_DEADLOCK FALSE
INVARIANTS
    PageText
    HistoryLeadsBack
    PlaceRestored
PROPERTIES
    TurnsOnePage
    LoadingEnds
