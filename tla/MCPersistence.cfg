\* The configuration: one fault of either kind between two moments at rest.  The
\* boot record: power losses and full disks between any two file operations.  The
\* heap watch: three levels, a cooldown of two ticks, an uptime that wraps at four.
CONSTANTS
    Behaviors <- MCBehaviors
    Clamp <- MCClamp
    DefaultBehavior = "factory"
    Identities = {none, home, office}
    NoIdentity = none
    Absent = Absent
    Torn = Torn
    MaxFaults = 1

    Records = {r0, r1, r2, r3}
    NoRecord = r0
    NoWrite = NoWrite

    Levels = 2
    Enough = 2
    Delta = 2
    Debounce = 2
    RingSize = 3
    MinSamples = 2
    Cooldown = 2
    UptimeWrap = 4

SPECIFICATION PersistenceSpec

INVARIANTS
    PersistentTypeOK
    AlwaysRecoverable
    BootsWithItsConfig
    StoreInv

PROPERTIES
    CellSpec
    RestartsApart
    PressureLasted
    ClosedByTheClock
