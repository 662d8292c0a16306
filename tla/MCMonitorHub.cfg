SPECIFICATION Spec
CONSTANTS
    Profiles <- MCTargets
    FirstProfile <- MCInternet
    Restore = "previous"
    Warmup = 1
    Interval = 1
    Hour = 4
    Cap <- MCCap
PROPERTY OwnEvidence
