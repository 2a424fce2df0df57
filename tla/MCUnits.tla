------------------------------ MODULE MCUnits ------------------------------
(* A u64 of ten bits, 100 rao to a TAO, 10 basis points to 100 %: amounts   *)
(* around the minimum stake, the sweep floor and the largest u64, rates up  *)
(* to and beyond the wrap of BPS + bps, prices from below 0 to beyond the   *)
(* largest u64.                                                             *)
EXTENDS Units

MCAmounts == (0 .. 7) \cup {13, 60, 85, 100, 600} \cup {U64Max - 1, U64Max}
MCReserves == {0, 1, 4, U64Max - 1}
MCBits == -2 .. 90
MCRates == {0, 1, 5, 10, 27, U64Max - BPS, U64Max}
=============================================================================
