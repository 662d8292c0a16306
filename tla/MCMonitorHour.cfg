SPECIFICATION HourSpec
CONSTANTS
    Profiles <- MCProfiles
    FirstProfile <- MCHasty
    Restore = "previous"
    Warmup = 1
    Interval = 1
    Hour = 14
    Cap <- MCCap
INVARIANT TwoWindows
