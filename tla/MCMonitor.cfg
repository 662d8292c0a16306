SPECIFICATION FairSpec
CONSTANTS
    Profiles <- MCProfiles
    FirstProfile <- MCInternet
    Restore = "previous"
    Warmup = 1
    Interval = 1
    Hour = 4
    Cap <- MCCap
INVARIANTS TypeOK PhasesExclusive OffForAReason
PROPERTIES FreshEvidence PromiseKept PowerReturns KeepsTrying
