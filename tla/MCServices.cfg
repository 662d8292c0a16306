SPECIFICATION Spec

CONSTANTS
    Events = {"a", "b"}
    Capacity = 2
    MaxFile = 3
    FirstFiles <- MCFirst
    MaxSeq = 3
    Absent = Absent
    Torn = Torn

    Urls = 3
    Attempts = 2
    CallTime = 1
    Spacing = 1
    SlotDelay = 2
    Retry = 2
    MaxRetry = 4
    MaxAnnounce = 4
    FirmwareFloor = 5
    NoTokenRetry = 4
    FirstAfter <- MCFirstAfter
    Every <- MCEvery

    Builtin <- MCBuiltin
    Others = {"home"}
    MaxSaved = 1
    Timeout = 1
    Interval = 2
    Wrap = 7

    Requests = {1, 2, 3}
    Unknown = {3}
    TsWindow = 1
    Ahead = 1
    RingSlots = 2
    MaxToken = 1

INVARIANTS
    TypeOK
    NumbersIncrease
    OwnBoot
    CleanIsStored
    QuietAfterFailure
    TriedTwice
    EntriesKept
    PromptRejoin

PROPERTIES
    HistorySpec
    ActsOnce
    WrittenInTheEnd
    InTouch
    Rejoins

CHECK_DEADLOCK TRUE
