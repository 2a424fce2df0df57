----------------------------- MODULE MCRecovery -----------------------------
(* Settings: everything on with a burn; a purchase that is kept; none.      *)
EXTENDS Recovery

Budget(destroy) == [amount |-> 1, destroy |-> destroy]

MCSettings ==
    {[consolidate |-> TRUE, return_dust |-> TRUE, budget |-> Budget("BurnAlpha")],
     [consolidate |-> FALSE, return_dust |-> FALSE, budget |-> Budget("Keep")],
     [consolidate |-> FALSE, return_dust |-> FALSE, budget |-> None]}
=============================================================================
