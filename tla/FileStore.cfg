SPECIFICATION Spec
CONSTANTS
    None = None
    Tasks = {t1, t2}
    MaxOps = 4
SYMMETRY TaskSymmetry
INVARIANTS
    IInv AckedKept NeverTorn VersionNames PolicyDurable
