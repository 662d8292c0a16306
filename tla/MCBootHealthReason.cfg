SPECIFICATION Spec
CONSTANTS
    Settings = {plain, strict, broken}
    BadSettings = {broken}
    FirstSettings = plain
    NoSettings = NoSettings
    Firmwares = {v1, v2}
    FirstFirmware = v1
    NoFirmware = NoFirmware
    Threshold = 2
INVARIANT ReasonTruthful
