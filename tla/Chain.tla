------------------------------- MODULE Chain -------------------------------
(***************************************************************************)
(* The finalized chain as src/src/chain.rs sees it, and the two questions  *)
(* the engine asks it: prepare (nonce and birth block of a new mortal      *)
(* extrinsic) and find_pending (what became of a journaled one).           *)
(*                                                                         *)
(* Blocks 0..head are finalized.  A transaction enters block head+1, which *)
(* no reader sees before Finalize.  A transaction is identified by what is *)
(* signed and by its signature, as its hash is.  sr25519 signatures are    *)
(* randomised, so signing the same call twice gives two transactions: sig  *)
(* is a number no other signing has.                                       *)
(***************************************************************************)
EXTENDS Naturals, FiniteSets

CONSTANTS
    Mortality,   \* MORTALITY (64): blocks after its birth a tx stays valid
    MaxHead      \* bound on the number of finalized blocks

ASSUME MortalityAssumption == Mortality \in Nat
ASSUME MaxHeadAssumption == MaxHead \in Nat

VARIABLES
    head,        \* number of the last finalized block
    included,    \* set of [tx, block, outcome] of finalized and open blocks
    pool         \* transactions submitted to some node, dropped ones included

chainVars == <<head, included, pool>>

(* How an included extrinsic ended: the events the engine expects, an       *)
(* ExtrinsicFailed, or a success whose events do not match the intent.      *)
Outcomes == {"ok", "failed", "odd"}

-----------------------------------------------------------------------------
(* External: the nonce of an account at block n counts its transactions.    *)
NonceAt(signer, n) ==
    Cardinality({i \in included : i.tx.signer = signer /\ i.block <= n})

(* External: the runtime admits an extrinsic once, in nonce order, and only *)
(* in the mortality window that starts at its birth block.                  *)
Admissible(tx) ==
    /\ \A i \in included : i.tx # tx
    /\ tx.nonce = NonceAt(tx.signer, head + 1)
    /\ tx.birth < head + 1
    /\ head + 1 <= tx.birth + Mortality

Include(tx, outcome) ==
    /\ tx \in pool
    /\ Admissible(tx)
    /\ included' = included \cup
         {[tx |-> tx, block |-> head + 1, outcome |-> outcome]}
    /\ UNCHANGED <<head, pool>>

Finalize ==
    /\ head < MaxHead
    /\ head' = head + 1
    /\ UNCHANGED <<included, pool>>

(* submit_and_watch: the bytes reach a node. *)
Submit(tx) ==
    /\ pool' = pool \cup {tx}
    /\ UNCHANGED <<head, included>>

-----------------------------------------------------------------------------
(* prepare, at the finalized block the node answers from: account_nonce and *)
(* mortal(MORTALITY) of the same block.  It changes nothing.                *)
Prepared(call, signer, at, sig) ==
    [signer |-> signer, nonce |-> NonceAt(signer, at),
     birth |-> at, call |-> call, sig |-> sig]

\* Mutant of Horizon: the mortality window is forgotten.
HorizonEarly(tx) == tx.birth

(* find_pending with the finalized head it read first: every block that     *)
(* could hold the transaction is scanned, up to one block past mortality,   *)
(* and it is dead only when the whole window is final without it.           *)
Horizon(tx) == tx.birth + Mortality + 1

\* Mutant of Found: the signer's nonce is taken for the transaction's hash.
FoundByNonce(tx, at) ==
    {i \in included : /\ i.tx.signer = tx.signer
                      /\ i.tx.nonce = tx.nonce
                      /\ i.block <= at}

Found(tx, at) ==
    {i \in included : /\ i.tx = tx
                      /\ tx.birth <= i.block
                      /\ i.block <= at
                      /\ i.block <= Horizon(tx)}

\* Mutant of FindPending: a transaction outside the window still waits.
FindForever(tx, at) ==
    IF Found(tx, at) # {} THEN {i.outcome : i \in Found(tx, at)} ELSE {"wait"}

FindPending(tx, at) ==
    IF Found(tx, at) # {}
    THEN {i.outcome : i \in Found(tx, at)}
    ELSE IF at > Horizon(tx) THEN {"dead"} ELSE {"wait"}

\* What wait_for_finalized reports: the outcome in a finalized block.
FinalizedWith(tx, outcome) ==
    \E i \in included : i.tx = tx /\ i.block <= head /\ i.outcome = outcome
=============================================================================
