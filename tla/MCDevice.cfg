SPECIFICATION Spec
CONSTANTS
    Components = {"apps", "frames", "debt", "touch", "buttons", "calendar", "rtc",
                  "battery", "epub", "files", "panel", "covers"}
    HistorySize = 8
    StatusLength = 2
    MaxMedium = 4
    PoolCapacity = 3
    QueueLength = 2
    MaxFrames = 4
    MaxFailures = 1
    MaxNews = 0
    NoSlot = NoSlot
    Nothing = Nothing
    FastestLimit = 3
    FastLimit = 2
    TextLimit = 2
    StatusLimit = 2
    TouchQueueLength = 2
    MaxContacts = 2
    MaxOpenings = 1
    DebounceTime = 2
    LongPressTime = 4
    ButtonQueueLength = 1
    Years <- AllYears
    MaxWalk = 366
    RtcQueueLength = 1
    TickModulus = 4
    MaxTicks = 5
    MaxSessions = 2
    MaxWrites = 1
    DebounceSamples = 2
    DetailInterval = 1
    BackgroundInterval = 2
    MaxPlugs = 2
    MaxVisits = 2
    MaxBatteryFailures = 1
    LastVersion = 3
    Fingerprint <- Fingerprints
    ContentSize <- TextSizes
    CoverSize <- CoverSizes
    SpineItems = 2
    LastPaging = 2
    Missing = Missing
    MaxSwaps = 2
    MaxPowerLosses = 1
    MaxEpubFailures = 1
    RowCount = 2
    Contents <- Cards
    StatusSlots = 2
    MaxMedia = 3
    MaxVisitsToFile = 8
    MonoImages = {"text"}
    GrayImages = {"cover"}
    Levels = {0, 1}
    ShelfPages = {1, 2}
    ShelfSlots = {1, 2}
    BookCovers = {1, 2, 3}
    BrokenCovers = {3}
    Blocks = 2
    Buffers = {1, 2, 3, 4}
    NoBuffer = NoBuffer
    GivenUp = 99
    MaxReads = 4
    ReadQueueLength = 1
    MaxBooks = 2
INVARIANTS
    PanelSafe
    StatusKnown
    FramesKept
    CoversKept
    GhostingBounded
    ActsOnItsPress
    CaptureEnds
    ButtonOnce
    CalendarExact
    ClockTrue
    BatteryKnown
    CacheSound
    ReturnsToPlace
PROPERTIES
    StackSpec
CHECK_DEADLOCK FALSE
