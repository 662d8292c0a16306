\* Two faults: during a save, and again while the next boot repairs it.
CONSTANTS
    Behaviors <- MCBehaviors
    Clamp <- MCClamp
    DefaultBehavior = "factory"
    Identities = {none, home, office}
    NoIdentity = none
    Absent = Absent
    Torn = Torn
    MaxFaults = 2
SPECIFICATION Spec
INVARIANT BootsWithItsConfig
