----------------------------- MODULE MCPayment -----------------------------
(* One hotkey with every option, or two hotkeys with the longest job that   *)
(* keeps its dust.                                                          *)
EXTENDS Payment

CONSTANTS h1, h2

AllOptions == [policy : {"none", "keep", "burn"}, consolidate : BOOLEAN,
               return_dust : BOOLEAN, hook : BOOLEAN]

LongOption == {o \in AllOptions : o.policy = "burn" /\ o.consolidate
                                  /\ ~o.return_dust /\ o.hook}
=============================================================================
