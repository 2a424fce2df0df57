----------------------------- MODULE MCJournal -----------------------------
(* Two jobs: step 0 is signed by the treasury (fund, buy), step 1 by the    *)
(* job's own wallet (sweep).  Both jobs buy with the same call.             *)
EXTENDS JournalRefines, TLC

CONSTANTS j1, j2, w1, w2, treasury, wallet

MCPlan == [p \in Jobs \X (0 .. NSteps - 1) |->
             [signer |-> IF p[2] = 0 THEN treasury ELSE wallet,
              call |-> IF p[2] = 0 THEN "buy" ELSE "sweep"]]

WorkerSymmetry == Permutations(Workers)
=============================================================================
