SPECIFICATION FairSpec
CONSTANTS
    Settings = {plain, strict, broken}
    BadSettings = {broken}
    FirstSettings = plain
    NoSettings = NoSettings
    Firmwares = {v1, v2}
    FirstFirmware = v1
    NoFirmware = NoFirmware
    Threshold = 2
INVARIANTS TypeOK RecoveryIffCrashLoop PlannedIsEnded
PROPERTIES OneSaveRollback CrashLoopEnds
