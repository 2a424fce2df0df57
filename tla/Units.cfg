SPECIFICATION Spec
CONSTANTS
    Err = Err
    Width = 10
    BPS = 10
    Decimals = 2
    MinStake = 4
    Amounts <- MCAmounts
    Rates <- MCRates
    Reserves <- MCReserves
    Chars = {0, 9, 10}
    Frac = 3
    Bits <- MCBits
    MaxLen = 3
INVARIANTS
    BpsExact FundingCovers ReserveKept FloorSweepable AmountsExact PriceExact
