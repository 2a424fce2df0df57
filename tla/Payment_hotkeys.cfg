SPECIFICATION FairSpec
CONSTANTS
    h1 = h1
    h2 = h2
    None = None
    Hotkeys = {h1, h2}
    TreasuryHotkey = h2
    Options <- LongOption
    MinAlpha = 2
    MinTao = None
    Floor = 2
    MaxAttempts = 2
    MaxStake = 2
    MaxFree = 0
INVARIANTS
    JournalFitsStage EachOnce SweepsBooked
PROPERTIES
    NoRegress  Reported
