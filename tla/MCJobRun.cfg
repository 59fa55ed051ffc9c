CONSTANTS
    Configs <- MCConfigs
    MaxFaulty = 2
    MaxFails = 2
SPECIFICATION Spec
INVARIANTS KeysAvailable  InstrumentIsTransparent  
