SPECIFICATION Spec
CONSTANTS
    j1 = j1
    j2 = j2
    w1 = w1
    w2 = w2
    treasury = treasury
    wallet = wallet
    None = None
    Signers = {treasury, wallet}
    Calls = {"buy", "sweep"}
    Plan <- MCPlan
    Jobs = {j1}
    Workers = {w1, w2}
    Faulty = {w1, w2}
    NSteps = 2
    MaxAttempts = 1
    MaxLag = 1
    MaxTokens = 3
    LastBirth = 2
    Mortality = 1
    MaxHead = 5
    MaxVersion = 5
INVARIANTS
    IInv NoStepTwice NoLostSpend
SYMMETRY WorkerSymmetry
CHECK_DEADLOCK FALSE
PROPERTY
    ImplementsLedger
