SPECIFICATION Spec
CONSTANTS
    h1 = h1
    h2 = h2
    None = None
    Hotkeys = {h1}
    TreasuryHotkey = h2
    Options <- AllOptions
    MinAlpha = 2
    MinTao = 2
    Floor = 2
    MaxAttempts = 2
    MaxStake = 2
    MaxFree = 2
INVARIANTS
    TypeOK SettledComplete CallbackOrder EachOnce
PROPERTIES
    QuarantineStops
