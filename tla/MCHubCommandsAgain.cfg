SPECIFICATION Spec
CONSTANTS
    Kinds = {"on", "off"}
    MaxIssued = 2
    MaxFaults = 1
    MaxRuns = 4
INVARIANT
    RedeliveryIsHarmless
