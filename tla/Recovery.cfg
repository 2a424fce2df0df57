SPECIFICATION Spec
CONSTANTS
    None = None
    Hotkeys = {"h1", "h2"}
    Lives = {1, 2}
    Mortality = 2
    Settings <- MCSettings
    MaxScan = 12
    MaxListed = 9
    MaxMortality = 2
    MinStake = 1
    MaxPast = 8
    MaxOld = 2
    MaxWait = 3
    MaxSigned = 2
    MaxTrouble = 1
INVARIANTS
    RecoveredExactly CleanImportable
CHECK_DEADLOCK FALSE
