SPECIFICATION FairSpec
CONSTANTS
    j1 = j1
    j2 = j2
    w1 = w1
    w2 = w2
    treasury = treasury
    wallet = wallet
    None = None
    Signers = {treasury, wallet}
    Calls = {"buy", "sweep"}
    Plan <- MCPlan
    Jobs = {j1}
    Workers = {w1, w2}
    Faulty = {w1}
    NSteps = 1
    MaxAttempts = 1
    MaxLag = 1
    MaxTokens = 2
    LastBirth = 1
    Mortality = 1
    MaxHead = 5
    MaxVersion = 4
PROPERTY
    JournalResolved SignerReleased OrphanCause
CHECK_DEADLOCK FALSE
