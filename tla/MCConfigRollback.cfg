\* One fault, in the middle of a rollback.
CONSTANTS
    Behaviors <- MCBehaviors
    Clamp <- MCClamp
    DefaultBehavior = "factory"
    Identities = {none, home, office}
    NoIdentity = none
    Absent = Absent
    Torn = Torn
    MaxFaults = 1
SPECIFICATION Spec
PROPERTY RollbackKeepsIdentity
