SPECIFICATION Spec
CONSTANTS
    None = None
    t1 = t1
    t2 = t2
    t3 = t3
    p1 = p1
    p2 = p2
    Tasks = {t1, t2, t3}
    Procs = {p1, p2}
    ProcOf <- MCProcOf
    Jobs = {"buy1", "buy2", "fund", "move"}
    Plan <- MCPlan
    Floor = 2
    Deposit = 1
    MaxFree = 6
INVARIANTS
    IInv
PROPERTY
    ReserveRace
