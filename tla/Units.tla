------------------------------- MODULE Units -------------------------------
(***************************************************************************)
(* The integer arithmetic of src/src/units.rs, the two checks of engine.rs *)
(* that decide with it (sweep_floor, strict_buyback_amount), and the       *)
(* moving price that chain.rs decodes.                                     *)
(* A u64 has Width bits: an addition wraps, as in a release build, unless  *)
(* the code saturates or checks it; products are u128 and do not overflow. *)
(*                                                                         *)
(* The behaviours are single calls: one function with one argument tuple.  *)
(***************************************************************************)
EXTENDS Integers, Sequences, SequencesExt

CONSTANTS
    Width,      \* bits of a u64
    BPS,        \* basis points in 100 %
    Decimals,   \* decimal places of an amount (9)
    MinStake,   \* MIN_STAKE_RAO
    Amounts,    \* arguments tried for an amount of rao or a price
    Rates,      \* arguments tried for basis points
    Reserves,   \* arguments tried for fee_reserve and existential deposit
    Chars,      \* characters of an amount: digits, 10 for any other
    Frac,       \* fraction bits of a moving price (32)
    Bits,       \* arguments tried for the bits of a moving price
    MaxLen,     \* bound on the length of either side of the decimal point
    Err         \* a returned error

\* b to the power n, as a recursive function so that it can be proved about.
Pow(b, n) ==
    LET power[k \in 0 .. n] == IF k = 0 THEN 1 ELSE b * power[k - 1]
    IN  power[n]

RaoPerTao == Pow(10, Decimals)
U64Max == Pow(2, Width) - 1

(* A floor of one and a half MinStake survives two roundings from MinStake  *)
(* 2 on.                                                                    *)
ASSUME UnitsAssumption ==
    /\ {Width, BPS, Decimals, MinStake, MaxLen} \subseteq Nat \ {0}
    /\ MinStake > 1
    /\ BPS <= U64Max /\ ((MinStake * 3) \div 2) * RaoPerTao <= U64Max
    /\ Amounts \cup Rates \cup Reserves \subseteq 0 .. U64Max
    /\ Chars \subseteq 0 .. 10
    /\ Frac \in Nat /\ Bits \subseteq Int
    /\ Err \notin Nat

VARIABLE call   \* [op, in, out] of the last call, or None before it
None == [op |-> "none", in |-> <<>>, out |-> Err]

-----------------------------------------------------------------------------
Wrap(n) == n % Pow(2, Width)
Larger(a, b) == IF a >= b THEN a ELSE b
Saturated(n) == IF n > U64Max THEN U64Max ELSE n
SatSub(a, b) == Larger(a - b, 0)
DivCeil(n, d) == (n + d - 1) \div d

\* Mutant of AddBpsCeil: rounded down.
AddBpsFloor(value, bps) == Saturated((value * Wrap(BPS + bps)) \div BPS)

AddBpsCeil(value, bps) == Saturated(DivCeil(value * Wrap(BPS + bps), BPS))

\* Mutant of FundingNeeded: the balance is taken off before the deposit.
FundingReusesBalance(fees, margin, ed, free) ==
    Saturated(SatSub(AddBpsCeil(fees, margin), free) + ed)

FundingNeeded(fees, margin, ed, free) ==
    SatSub(Saturated(AddBpsCeil(fees, margin) + ed), free)

BuyLimitPrice(price, slippage) == Larger(AddBpsCeil(price, slippage), 1)

AlphaValueInTao(alpha, price) == Saturated((alpha * price) \div RaoPerTao)

\* Mutant of Spendable: the existential deposit is spent too.
SpendableToZero(free, reserve, ed) == SatSub(free, reserve)

Spendable(free, reserve, ed) == SatSub(SatSub(free, reserve), ed)

StrictBuybackAmount(requested, spendable) ==
    IF requested < MinStake \/ requested > spendable THEN Err ELSE requested

\* Mutant of SweepFloor: no headroom over the chain's minimum.
SweepFloorTight(price, dust) ==
    Larger(dust, Wrap((MinStake * RaoPerTao) \div Larger(price, 1)))

SweepFloor(price, dust) ==
    Larger(dust, Wrap((((MinStake * 3) \div 2) * RaoPerTao) \div Larger(price, 1)))

\* Mutant of FixedBitsToRao: the whole part is not masked off the fraction.
FixedUnmasked(bits) ==
    Saturated((bits \div Pow(2, Frac)) * RaoPerTao
              + (bits * RaoPerTao) \div Pow(2, Frac))

FixedBitsToRao(bits) ==
    Saturated((bits \div Pow(2, Frac)) * RaoPerTao
              + ((bits % Pow(2, Frac)) * RaoPerTao) \div Pow(2, Frac))

I96F32ToRao(bits) == IF bits <= 0 THEN 0 ELSE FixedBitsToRao(bits)

(* Decimal numbers: the characters before and after the first point. *)
Number(s) ==
    LET value[k \in 0 .. Len(s)] ==
            IF k = 0 THEN 0 ELSE 10 * value[k - 1] + s[k]
    IN  value[Len(s)]

\* Mutant of ParseAmount: the fraction is not padded.
ParseUnpadded(int, frac) ==
    IF \/ int = <<>> /\ frac = <<>>
       \/ Len(frac) > Decimals
       \/ \E c \in ToSet(int \o frac) : c = 10
       \/ Number(int) * RaoPerTao + Number(frac) > U64Max
    THEN Err ELSE Number(int) * RaoPerTao + Number(frac)

ParseAmount(int, frac) ==
    LET rao == Number(int) * RaoPerTao
                 + Number(frac) * Pow(10, Decimals - Len(frac))
    IN  IF \/ int = <<>> /\ frac = <<>>
           \/ Len(frac) > Decimals
           \/ \E c \in ToSet(int \o frac) : c = 10
           \/ rao > U64Max
        THEN Err ELSE rao

Digits(n, k) == [i \in 1 .. k |-> (n \div Pow(10, k - i)) % 10]
FormatAmount(rao) ==
    LET whole == rao \div RaoPerTao
        width == CHOOSE k \in 1 .. Width :
                    whole < Pow(10, k) /\ (k = 1 \/ whole >= Pow(10, k - 1))
    IN  <<Digits(whole, width), Digits(rao % RaoPerTao, Decimals)>>

-----------------------------------------------------------------------------
Called(op, in, out) ==
    call = None /\ call' = [op |-> op, in |-> in, out |-> out]

CallAddBps == \E v \in Amounts, r \in Rates :
    Called("add_bps", <<v, r>>, AddBpsCeil(v, r))

CallLimit == \E v \in Amounts, r \in Rates :
    Called("limit", <<v, r>>, BuyLimitPrice(v, r))

CallFunding == \E fees, free \in Amounts, r \in Rates, ed \in Reserves :
    Called("funding", <<fees, r, ed, free>>, FundingNeeded(fees, r, ed, free))

CallBudget == \E amount, free \in Amounts, reserve, ed \in Reserves :
    Called("budget", <<amount, free, reserve, ed>>,
           StrictBuybackAmount(amount, Spendable(free, reserve, ed)))

CallFloor == \E price, alpha \in Amounts, dust \in Reserves :
    Called("floor", <<price, alpha>>, SweepFloor(price, dust))

CallParse == \E int, frac \in BoundedSeq(Chars, MaxLen) :
    Called("parse", <<int, frac>>, ParseAmount(int, frac))

CallFormat == \E rao \in 0 .. U64Max :
    Called("format", <<rao>>, FormatAmount(rao))

CallPrice == \E bits \in Bits :
    Called("price", <<bits>>, I96F32ToRao(bits))

Return == call # None /\ call' = None

Init == call = None
Next == \/ CallAddBps \/ CallLimit \/ CallFunding \/ CallBudget
        \/ CallFloor \/ CallParse \/ CallFormat
        \/ CallPrice \/ Return

Spec == Init /\ [][Next]_call

-----------------------------------------------------------------------------
(* value * (1 + bps/BPS), rounded up and saturating, is the least amount    *)
(* that is not below it, or the largest u64; a limit price is that or 1.    *)
(* For rates that leave BPS + bps, a u64 sum, in range: above them it wraps *)
(* and the result is near 0.  (units.rs: add_bps_ceil, buy_limit_price.)    *)
BpsExact ==
    call.op \in {"add_bps", "limit"} /\ BPS + call.in[2] <= U64Max =>
        LET exact == call.in[1] * (BPS + call.in[2]) IN
        /\ call.out * BPS >= exact \/ call.out = U64Max
        /\ \/ (call.out - 1) * BPS < exact
           \/ call.op = "limit" /\ call.out = 1

(* With the TAO it is sent the wallet pays the fees with their margin and   *)
(* keeps the existential deposit, and it is sent nothing beyond that.       *)
(* (units.rs: funding_needed.)                                              *)
FundingCovers ==
    call.op = "funding" /\ BPS + call.in[2] <= U64Max =>
        LET fees == call.in[1]  free == call.in[4]
            goal == Saturated(Saturated(DivCeil(fees * (BPS + call.in[2]), BPS))
                                + call.in[3])
        IN  free + call.out = Larger(free, goal)

(* A purchase is the whole budget and leaves fee_reserve and the            *)
(* existential deposit in the treasury; a sufficient balance is not         *)
(* refused.  (engine.rs: strict_buyback_amount, spendable.)                 *)
ReserveKept ==
    call.op = "budget" =>
        LET amount == call.in[1]  keeps == call.in[2] - amount IN
        call.out = IF amount >= MinStake /\ keeps >= call.in[3] + call.in[4]
                   THEN amount ELSE Err

(* At a price of at most 1 TAO a position that reaches the floor is worth   *)
(* the chain's minimum stake, in spite of two roundings.  (engine.rs:       *)
(* sweep_floor "below which `transfer_stake` fails".)                       *)
FloorSweepable ==
    call.op = "floor" =>
        LET price == call.in[1]  alpha == call.in[2] IN
        price \in 1 .. RaoPerTao /\ alpha >= call.out =>
            AlphaValueInTao(alpha, price) >= MinStake

(* parse_amount reads a decimal number exactly, or refuses it, and reads    *)
(* back what format_amount writes.                                          *)
AmountsExact ==
    /\ call.op = "parse" /\ call.out # Err =>
         LET int == call.in[1]  frac == call.in[2] IN
         Number(int \o frac) * RaoPerTao = call.out * Pow(10, Len(frac))
    /\ call.op = "format" =>
         ParseAmount(call.out[1], call.out[2]) = call.in[1]

(* A moving price, computed in two parts, is the largest number of rao not  *)
(* above bits / 2^Frac TAO, or the largest u64; one that is not positive is *)
(* 0.  (chain.rs: i96f32_to_rao, fixed_bits_to_rao.)                        *)
PriceExact ==
    call.op = "price" =>
        LET exact == Larger(call.in[1], 0) * RaoPerTao IN
        /\ call.out * Pow(2, Frac) <= exact
        /\ (call.out + 1) * Pow(2, Frac) > exact \/ call.out = U64Max
=============================================================================
