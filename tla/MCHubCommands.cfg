SPECIFICATION FairSpec
CONSTANTS
    Kinds = {"on", "off", "toggle", "cycle", "restart", "reset", "other"}
    MaxIssued = 3
    MaxFaults = 2
    MaxRuns = 4
INVARIANTS
    TypeOK
    RunsAccountedFor
    RelayAsOrdered
PROPERTIES
    DeliveredAtLeastOnce
    AllSettled
