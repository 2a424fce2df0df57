----------------------------- MODULE JobLedger -----------------------------
(***************************************************************************)
(* What journaling promises (send_journaled and reconcile_journaled of     *)
(* src/src/engine.rs), without engines, reservations, versions, nonces or  *)
(* blocks.  A job goes through its economic steps in order.  For each it   *)
(* first records an intent; while the intent is open money may move, once; *)
(* the intent is closed by booking exactly what moved or, if nothing did   *)
(* and nothing ever will, by dropping it.  A mismatch halts the job with   *)
(* its receipt booked.                                                     *)
(***************************************************************************)
EXTENDS Naturals

CONSTANTS Jobs, NSteps

VARIABLES
    at,       \* job -> its current step
    open,     \* job -> an intent of the current step is recorded
    spent,    \* set of [job, step, tx] that took effect
    booked,   \* set of [job, step, tx] with a receipt
    halted    \* job -> stopped with a mismatched receipt

ledgerVars == <<at, open, spent, booked, halted>>

Init ==
    /\ at = [j \in Jobs |-> 0]
    /\ open = [j \in Jobs |-> FALSE]
    /\ spent = {} /\ booked = {}
    /\ halted = [j \in Jobs |-> FALSE]

\* What moved for the current step of a job.
Moved(j) == {x \in spent : x.job = j /\ x.step = at[j]}

Ready(j) == at[j] < NSteps /\ ~open[j] /\ ~halted[j]

Intend(j) ==
    /\ Ready(j)
    /\ Moved(j) = {}
    /\ open' = [open EXCEPT ![j] = TRUE]
    /\ UNCHANGED <<at, spent, booked, halted>>

Spend(j) ==
    /\ open[j]
    /\ Moved(j) = {}
    /\ \E x \in spent' : /\ x.job = j /\ x.step = at[j]
                         /\ spent' = spent \cup {x}
    /\ UNCHANGED <<at, open, booked, halted>>

Book(j) ==
    /\ open[j]
    /\ open' = [open EXCEPT ![j] = FALSE]
    /\ \E x \in Moved(j) : booked' = booked \cup {x}
    /\ \/ at' = [at EXCEPT ![j] = at[j] + 1] /\ UNCHANGED halted
       \/ halted' = [halted EXCEPT ![j] = TRUE] /\ UNCHANGED at
    /\ UNCHANGED spent

Drop(j) ==
    /\ open[j]
    /\ Moved(j) = {}
    /\ open' = [open EXCEPT ![j] = FALSE]
    /\ UNCHANGED <<at, spent, booked, halted>>

Skip(j) ==
    /\ Ready(j)
    /\ Moved(j) = {}
    /\ at' = [at EXCEPT ![j] = at[j] + 1]
    /\ UNCHANGED <<open, spent, booked, halted>>

Next == \E j \in Jobs : Intend(j) \/ Spend(j) \/ Book(j) \/ Drop(j) \/ Skip(j)

Spec == Init /\ [][Next]_ledgerVars
=============================================================================
