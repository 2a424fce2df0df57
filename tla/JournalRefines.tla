--------------------------- MODULE JournalRefines ---------------------------
(***************************************************************************)
(* Journal implements JobLedger: what the tables and the chain say of each *)
(* job, read through the map below, changes only by steps of the ledger.   *)
(***************************************************************************)
EXTENDS JournalInv

AtStep == [j \in Jobs |-> payments[j].step]
OpenIntent == [j \in Jobs |-> payments[j].pending # None]
SpentSteps == {e \in log : Effective(e)}
BookedOf(j) == {[job |-> j, step |-> a.step, tx |-> a.tx] :
                   a \in payments[j].txs}
BookedSteps == UNION {BookedOf(j) : j \in Jobs}
HaltedJob == [j \in Jobs |-> payments[j].quarantined # None]

Ledger == INSTANCE JobLedger WITH at <- AtStep, open <- OpenIntent,
             spent <- SpentSteps, booked <- BookedSteps, halted <- HaltedJob

(* Whatever engines, crashes, lost replies and lagging nodes do, a job's    *)
(* money moves only under an open intent and once for each step; the intent *)
(* is closed by booking that very extrinsic, or dropped when nothing moved; *)
(* a step is never skipped or signed again once its money moved.            *)
(* (engine.rs: step, send_journaled, reconcile_journaled.)                  *)
ImplementsLedger == Ledger!Spec
=============================================================================
