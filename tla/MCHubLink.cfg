SPECIFICATION LinkSpec

CONSTANTS
    Urls = 3
    Attempts = 2
    CallTime = 1
    Spacing = 1
    SlotDelay = 2
    Retry = 2
    MaxRetry = 4
    MaxAnnounce = 4
    FirmwareFloor = 5
    NoTokenRetry = 4
    FirstAfter <- MCFirstAfter
    Every <- MCEvery

PROPERTY EveryUrlReachable

CHECK_DEADLOCK TRUE
