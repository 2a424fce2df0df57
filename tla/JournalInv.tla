---------------------------- MODULE JournalInv -----------------------------
(***************************************************************************)
(* The inductive invariant behind the safety properties of Journal, in     *)
(* named parts.  TLC checks it on small instances and Journal_proofs       *)
(* proves it for every instance.                                           *)
(***************************************************************************)
EXTENDS Journal

Entry(job, p) == [job |-> job, step |-> p.step, tx |-> p.tx]
Receipt(p) == [step |-> p.step, tx |-> p.tx]

\* The transaction can never take effect any more.
Spent(tx) ==
    /\ \A i \in included : i.tx = tx => i.outcome = "failed"
    /\ head > tx.birth + Mortality \/ \E i \in included : i.tx = tx

-----------------------------------------------------------------------------
(* What an engine holds at each await. *)
Holds(l) ==
    /\ l.pc # "idle" => l.job \in Jobs /\ l.rec \in Records
    /\ l.pc \in {"act", "prepare", "journal"} =>
         l.rec.pending = None /\ l.rec.quarantined = None /\ l.rec.step < NSteps
    /\ l.pc \in {"prepare", "journal"} => l.token \in Nat
    /\ l.pc = "journal" => l.tx \in Txs
    /\ l.pc \in {"broadcast", "watch", "apply"} =>
         l.rec.pending # None /\ l.tx = l.rec.pending.tx
    /\ l.pc \in {"scan", "resolve"} => l.rec.pending # None
    /\ l.pc = "resolve" => l.seen \in Outcomes \cup {"dead"}

(* The compare-and-swap has no ABA: a copy with the stored version is the   *)
(* stored record.                                                           *)
Current(l) ==
    l.pc # "idle" =>
        /\ l.rec.version <= payments[l.job].version
        /\ l.rec.version = payments[l.job].version => l.rec = payments[l.job]

(* A journal an engine holds a copy of was logged. *)
Logged(l) ==
    l.pc # "idle" /\ l.rec.pending # None => Entry(l.job, l.rec.pending) \in log

(* What an engine has observed on the chain stays true. *)
Observed(l) ==
    /\ l.pc = "apply" => FinalizedWith(l.tx, "ok")
    /\ l.pc = "resolve" =>
         IF l.seen = "dead" THEN Spent(l.rec.pending.tx)
         ELSE FinalizedWith(l.rec.pending.tx, l.seen)

LocalOK(l) == Holds(l) /\ Current(l) /\ Logged(l) /\ Observed(l)

-----------------------------------------------------------------------------
(* A journal is the current step's, was logged, and never coexists with a   *)
(* quarantine.                                                              *)
JournalLogged ==
    \A j \in Jobs : LET r == payments[j] IN
        r.pending # None => /\ r.pending.step = r.step
                            /\ r.quarantined = None
                            /\ Entry(j, r.pending) \in log

(* Nothing reaches the chain that was not journaled first. *)
JournaledFirst ==
    /\ \A tx \in pool : \E e \in log : e.tx = tx
    /\ \A i \in included : i.tx \in pool

(* A transaction is included once, inside its mortality window. *)
InWindow ==
    /\ \A i, k \in included : i.tx = k.tx => i = k
    /\ \A i \in included : /\ i.tx.birth < i.block
                           /\ i.block <= i.tx.birth + Mortality
                           /\ i.block <= head + 1

(* Every journaled transaction is still journaled, booked, or spent. *)
Accounted ==
    \A e \in log : LET r == payments[e.job] IN
        \/ r.pending # None /\ Entry(e.job, r.pending) = e
        \/ Receipt(e) \in r.txs
        \/ Spent(e.tx)

(* A receipt belongs to a step left behind, or to the quarantined one; a    *)
(* step has one receipt.                                                    *)
Booked ==
    \A j \in Jobs : LET r == payments[j] IN
        /\ \A a \in r.txs : a.step < r.step \/ r.quarantined # None
        /\ \A a, b \in r.txs : a.step = b.step => a = b

(* The inductive invariant: what the tables, the chain and the history have *)
(* in common, and what every engine knows of them.                          *)
SharedOK ==
    /\ JournalOwned /\ JournalLogged /\ JournaledFirst /\ InWindow
    /\ Accounted /\ Booked /\ ReceiptsFinal

IInv == TypeOK /\ SharedOK /\ \A w \in Workers : LocalOK(loc[w])

-----------------------------------------------------------------------------
(* Tokens are never reused: what the refinement of JobLedger and the cause  *)
(* of an orphan need beside IInv.                                           *)

\* The engine owns a token, in the table or lost, and has journaled nothing.
Signing(l) == l.pc \in {"prepare", "journal"}

(* A reservation's token was given out once.                                *)
TokensUnique ==
    /\ \A s \in Signers : reservations[s] # None => reservations[s].token < uuid
    /\ \A s, t \in Signers :
         /\ reservations[s] # None /\ reservations[t] # None
         /\ reservations[s].token = reservations[t].token
         => s = t

(* A token names one signature, so a transaction is journaled once, for one *)
(* step of one job.                                                         *)
SigsUnique ==
    /\ \A e \in log : e.tx.sig < uuid
    /\ \A e, f \in log : e.tx.sig = f.tx.sig => e = f

(* The token of an engine about to journal is its own, is in no journal,    *)
(* and is reserved for no other signer or job.                              *)
TokenOwn(l) ==
    Signing(l) =>
        /\ l.token < uuid
        /\ \A e \in log : e.tx.sig # l.token
        /\ l.pc = "journal" => /\ l.tx.sig = l.token
                               /\ l.tx.signer = Plan[<<l.job, l.rec.step>>].signer
        /\ \A s \in Signers :
             reservations[s] # None /\ reservations[s].token = l.token =>
                 /\ s = Plan[<<l.job, l.rec.step>>].signer
                 /\ reservations[s].job = l.job

TokensApart ==
    \A v, w \in Workers :
        /\ Signing(loc[v]) /\ Signing(loc[w])
        /\ loc[v].token = loc[w].token
        => v = w

TokenInv ==
    /\ TokensUnique /\ SigsUnique /\ TokensApart
    /\ \A w \in Workers : TokenOwn(loc[w])
=============================================================================
