SPECIFICATION Spec
CONSTANTS
    j1 = j1
    j2 = j2
    treasury = treasury
    wallet = wallet
    None = None
    Jobs = {j1, j2}
    Signers = {treasury, wallet}
    Treasury = treasury
    Wallet <- MCWallet
    Policies = {"keep", "burn"}
    Identities = {"main"}
    hash1 = hash1
    hash2 = hash2
    Hashes = {hash1, hash2}
    MaxTokens = 2
    MaxVersion = 2
INVARIANTS
    JournalOwned OneJournalPerSigner
PROPERTIES
    PolicyFrozen NoABA JournalKept
SYMMETRY JobHashSymmetry
CHECK_DEADLOCK FALSE
