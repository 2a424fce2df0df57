------------------------------ MODULE Journal ------------------------------
(***************************************************************************)
(* Journal-before-broadcast (src/src/engine.rs: tick, step, send_journaled, *)
(* reconcile_journaled) over the SQLite store and the chain.               *)
(*                                                                         *)
(* Several engines drive the same jobs.  A job is a list of NSteps economic *)
(* steps (fund, sweep a position, consolidate, return dust, buy, destroy);  *)
(* Plan says who signs a step and which call it is.  Which call a step      *)
(* needs, and whether it needs one at all, is Payment's subject: here an    *)
(* engine may find that a step needs no transaction and skip it.            *)
(*                                                                         *)
(* An engine is sequential.  Its state between two awaits is loc[w]: where  *)
(* it is, its copy of the record (read by list, maybe stale), the token it  *)
(* reserved, the transaction it signed, the outcome it observed.            *)
(***************************************************************************)
EXTENDS SqliteStore, Chain

CONSTANTS
    Workers,      \* engines (processes, or tasks of one) sharing the store
    Faulty,       \* engines that may crash and lose replies of the database
    NSteps,       \* economic steps of a job
    Calls,        \* chain calls
    Plan,         \* <<job, step>> -> [signer, call]
    MaxAttempts,  \* Config::max_attempts
    MaxLag,       \* blocks a node's finalized view may be behind the head
    MaxTokens,    \* bound on reservations taken in a behaviour
    LastBirth     \* bound on the birth block of a transaction

ASSUME JournalAssumption ==
    /\ NSteps \in Nat
    /\ MaxAttempts \in Nat \ {0}
    /\ MaxLag \in Nat
    /\ MaxTokens \in Nat
    /\ LastBirth \in Nat
    /\ Faulty \subseteq Workers
    /\ Plan \in [Jobs \X (0 .. NSteps - 1) -> [signer : Signers, call : Calls]]

VARIABLES
    loc,   \* engine -> local state
    log    \* history: every [job, step, tx] ever journaled

vars == <<payments, reservations, uuid, head, included, pool, loc, log>>

-----------------------------------------------------------------------------
(* The record, with the fields the protocol reads: the next economic step,  *)
(* attempts, state = Failed, quarantined, and txs with the step each        *)
(* receipt was booked for.                                                  *)
NewRecord ==
    [version |-> 0, policy |-> "set", identity |-> "set", pending |-> None,
     step |-> 0, attempts |-> 0, failed |-> FALSE, quarantined |-> None,
     txs |-> {}]

Idle == [pc |-> "idle", job |-> None, rec |-> None, token |-> None,
         tx |-> None, seen |-> None]

(* The values the variables range over. *)
Txs == [signer : Signers, nonce : Nat, birth : Nat, call : Calls,
        sig : Nat]
Pendings == [reservation : Nat, signer : Signers, tx : Txs, step : Nat]
Records == [version : Nat, policy : {"set"}, identity : {"set"},
            pending : Pendings \cup {None}, step : Nat, attempts : Nat,
            failed : BOOLEAN, quarantined : Pendings \cup {None},
            txs : SUBSET [step : Nat, tx : Txs]]
PCs == {"idle", "act", "prepare", "journal", "broadcast", "watch", "apply",
        "fail", "scan", "resolve"}
Locals == [pc : PCs, job : Jobs \cup {None}, rec : Records \cup {None},
           token : Nat \cup {None}, tx : Txs \cup {None},
           seen : Outcomes \cup {"dead", None}]

ASSUME NoneAssumption ==
    /\ None \notin Jobs /\ None \notin Nat /\ None \notin Txs
    /\ None \notin Pendings /\ None \notin Records
    /\ None \notin [job : Jobs, token : Nat]
    /\ None \notin Outcomes \cup {"dead"}

(* The tables, the chain and the engines hold values of their types.        *)
TypeOK ==
    /\ payments \in [Jobs -> Records]
    /\ reservations \in [Signers -> [job : Jobs, token : Nat] \cup {None}]
    /\ uuid \in Nat
    /\ head \in Nat
    /\ included \in SUBSET [tx : Txs, block : Nat, outcome : Outcomes]
    /\ IsFiniteSet(included)
    /\ pool \in SUBSET Txs
    /\ loc \in [Workers -> Locals]
    /\ log \in SUBSET [job : Jobs, step : Nat, tx : Txs]

Init ==
    /\ payments = [j \in Jobs |-> NewRecord]
    /\ reservations = [s \in Signers |-> None]
    /\ uuid = 0
    /\ head = 0 /\ included = {} /\ pool = {}
    /\ loc = [w \in Workers |-> Idle]
    /\ log = {}

-----------------------------------------------------------------------------
\* A finalized block some node answers from.
Views == {n \in 0 .. head : head <= n + MaxLag}

Goto(w, l) == loc' = [loc EXCEPT ![w] = l]
Done(w) == Goto(w, Idle)
Move(w, pc) == Goto(w, [loc[w] EXCEPT !.pc = pc])

\* record_failure; a failed or finished record stays in its state.
RecordFailure(rec, max) ==
    IF rec.attempts + 1 >= max /\ rec.step < NSteps
    THEN [rec EXCEPT !.attempts = rec.attempts + 1, !.failed = TRUE]
    ELSE [rec EXCEPT !.attempts = rec.attempts + 1]

\* apply, when the events match the journaled action.
Applied(rec) ==
    [rec EXCEPT !.pending = None, !.step = rec.step + 1, !.attempts = 0,
                !.txs = rec.txs \cup {[step |-> rec.pending.step,
                                       tx |-> rec.pending.tx]}]

\* Mutant of Quarantined: the receipt is not kept.
QuarantinedLost(rec) ==
    RecordFailure([rec EXCEPT !.pending = None, !.quarantined = rec.pending], 1)

\* apply returned Err on a finalized transaction (reconcile_journaled).
Quarantined(rec) ==
    RecordFailure([rec EXCEPT !.pending = None, !.quarantined = rec.pending,
                              !.txs = rec.txs \cup {[step |-> rec.pending.step,
                                                     tx |-> rec.pending.tx]}], 1)

\* reconcile_journaled's new record for each outcome but Wait.
Resolved(rec, outcome) ==
    CASE outcome = "dead"   -> [rec EXCEPT !.pending = None]
      [] outcome = "failed" ->
            RecordFailure([rec EXCEPT !.pending = None], MaxAttempts)
      [] outcome = "odd"    -> Quarantined(rec)
      [] OTHER              -> Applied(rec)

JournalOf(w) ==
    [loc[w].rec EXCEPT !.pending =
        [reservation |-> loc[w].token, signer |-> loc[w].tx.signer,
         tx |-> loc[w].tx, step |-> loc[w].rec.step]]

-----------------------------------------------------------------------------
(* tick lists the records and steps each with its listed copy; step ignores *)
(* a quarantined one; a journal is reconciled before anything else.         *)
Picked(rec) ==
    /\ rec.quarantined = None
    /\ rec.pending # None \/ (~rec.failed /\ rec.step < NSteps)

List(w, j) ==
    /\ loc[w].pc = "idle"
    /\ Picked(payments[j])
    /\ Goto(w, [Idle EXCEPT !.job = j, !.rec = payments[j],
                   !.pc = IF payments[j].pending # None THEN "scan" ELSE "act"])
    /\ UNCHANGED <<storeVars, chainVars, log>>

(* An update that is not committed: a version conflict abandons the step,   *)
(* any other error goes to step's error handler.                            *)
Refused(w, rec) ==
    /\ \/ Conflict(loc[w].job, rec) /\ Done(w)
       \/ /\ ~Conflict(loc[w].job, rec)
          /\ w \in Faulty \/ ~CanUpdate(loc[w].job, rec)
          /\ Move(w, "fail")
    /\ UNCHANGED storeVars

(* The write that ends a step: committed, though its reply may be lost, or  *)
(* refused.                                                                 *)
LastWrite(w, rec) ==
    \/ Update(loc[w].job, rec) /\ (Done(w) \/ (w \in Faulty /\ Move(w, "fail")))
    \/ Refused(w, rec)

(* The step needs no transaction: need = 0, nothing left above the floor,   *)
(* live = 0, no dust, no buyback.  A transition resets the attempts, the    *)
(* writes of consolidated and buyback_done leave them.                      *)
Skip(w) ==
    /\ loc[w].pc = "act"
    /\ \E a \in {0, loc[w].rec.attempts} :
         LastWrite(w, [loc[w].rec EXCEPT !.step = loc[w].rec.step + 1,
                                         !.attempts = a])
    /\ UNCHANGED <<chainVars, log>>

(* A read, the wallet or the budget check fails before send. *)
StepError(w) ==
    /\ loc[w].pc = "act"
    /\ Move(w, "fail")
    /\ UNCHANGED <<storeVars, chainVars, log>>

(* send_journaled, first write: own the signer before choosing a nonce. *)
ReserveSigner(w) ==
    LET signer == Plan[<<loc[w].job, loc[w].rec.step>>].signer IN
    /\ loc[w].pc = "act"
    /\ \/ /\ uuid < MaxTokens
          /\ ReserveForRecord(signer, loc[w].job, loc[w].rec)
          /\ \/ Goto(w, [loc[w] EXCEPT !.pc = "prepare", !.token = uuid])
             \/ w \in Faulty /\ Move(w, "fail")
       \/ /\ ~CanReserveForRecord(signer, loc[w].job, loc[w].rec)
          /\ Done(w)
          /\ UNCHANGED storeVars
    /\ UNCHANGED <<chainVars, log>>

(* One signing for each reservation: its token names the signature. *)
PrepareOk(w) ==
    LET p == Plan[<<loc[w].job, loc[w].rec.step>>] IN
    /\ loc[w].pc = "prepare"
    /\ \E at \in Views :
         /\ at <= LastBirth
         /\ Goto(w, [loc[w] EXCEPT !.pc = "journal",
                        !.tx = Prepared(p.call, p.signer, at, loc[w].token)])
    /\ UNCHANGED <<storeVars, chainVars, log>>

\* Mutant of PrepareErr: the token is kept.
PrepareErrKeeps(w) ==
    /\ loc[w].pc = "prepare"
    /\ Move(w, "fail")
    /\ UNCHANGED <<storeVars, chainVars, log>>

(* A returned preparation error releases this caller's own token, unless    *)
(* the database fails too.                                                  *)
PrepareErr(w) ==
    LET signer == Plan[<<loc[w].job, loc[w].rec.step>>].signer IN
    /\ loc[w].pc = "prepare"
    /\ \/ /\ CancelPreparation(signer, loc[w].job, loc[w].token)
          /\ Move(w, "fail")
       \/ /\ ~CanCancel(signer, loc[w].job, loc[w].token)
          /\ Done(w)
          /\ UNCHANGED storeVars
       \/ /\ w \in Faulty
          /\ Move(w, "fail")
          /\ UNCHANGED storeVars
    /\ UNCHANGED <<chainVars, log>>

(* send_journaled, second write: the journal.  A lost version race or an    *)
(* I/O error keeps the reservation; the write may also have been committed  *)
(* although the caller sees an error.                                       *)
WriteJournal(w) ==
    LET entry == [job |-> loc[w].job, step |-> loc[w].rec.step,
                  tx |-> loc[w].tx] IN
    /\ loc[w].pc = "journal"
    /\ Update(loc[w].job, JournalOf(w))
    /\ log' = log \cup {entry}
    /\ \/ Goto(w, [loc[w] EXCEPT !.pc = "broadcast",
                      !.rec = Written(JournalOf(w))])
       \/ w \in Faulty /\ Move(w, "fail")
    /\ UNCHANGED chainVars

JournalRefused(w) ==
    /\ loc[w].pc = "journal"
    /\ Refused(w, JournalOf(w))
    /\ UNCHANGED <<chainVars, log>>

Broadcast(w) ==
    /\ loc[w].pc = "broadcast"
    /\ Submit(loc[w].tx)
    /\ Move(w, "watch")
    /\ UNCHANGED <<storeVars, log>>

(* The reply is lost, the transaction never left, failed or has the wrong   *)
(* events: every one of them is an Err of broadcast or apply.               *)
BroadcastErr(w) ==
    /\ loc[w].pc \in {"broadcast", "watch"}
    /\ Move(w, "fail")
    /\ UNCHANGED <<storeVars, chainVars, log>>

Finalized(w) ==
    /\ loc[w].pc = "watch"
    /\ FinalizedWith(loc[w].tx, "ok")
    /\ Move(w, "apply")
    /\ UNCHANGED <<storeVars, chainVars, log>>

(* send_journaled, last write: the receipt and the cleared journal. *)
Apply(w) ==
    /\ loc[w].pc = "apply"
    /\ LastWrite(w, Applied(loc[w].rec))
    /\ UNCHANGED <<chainVars, log>>

(* step's error handler: re-read; an unresolved journal is not a failure.   *)
(* A rival's write between the two calls makes the update a conflict.       *)
Fail(w) ==
    LET cur == payments[loc[w].job] IN
    /\ loc[w].pc = "fail"
    /\ \/ /\ cur.pending = None
          /\ Update(loc[w].job, RecordFailure(cur, MaxAttempts))
       \/ UNCHANGED storeVars
    /\ Done(w)
    /\ UNCHANGED <<chainVars, log>>

-----------------------------------------------------------------------------
(* reconcile_journaled: look the journaled transaction up, then write what  *)
(* it became.  Wait and an RPC error leave everything as it is.             *)
Scan(w) ==
    /\ loc[w].pc = "scan"
    /\ \E at \in Views : \E o \in FindPending(loc[w].rec.pending.tx, at) :
         IF o = "wait" THEN Done(w)
         ELSE Goto(w, [loc[w] EXCEPT !.pc = "resolve", !.seen = o])
    /\ UNCHANGED <<storeVars, chainVars, log>>

ScanErr(w) ==
    /\ loc[w].pc = "scan"
    /\ Done(w)
    /\ UNCHANGED <<storeVars, chainVars, log>>

Resolve(w) ==
    LET next == Resolved(loc[w].rec, loc[w].seen) IN
    /\ loc[w].pc = "resolve"
    /\ \/ Update(loc[w].job, next)
       \/ ~CanUpdate(loc[w].job, next) /\ UNCHANGED storeVars
    /\ Done(w)
    /\ UNCHANGED <<chainVars, log>>

-----------------------------------------------------------------------------
(* The process dies, or the future is dropped, between two awaits. *)
Crash(w) ==
    /\ w \in Faulty /\ loc[w].pc # "idle"
    /\ Done(w)
    /\ UNCHANGED <<storeVars, chainVars, log>>

(* The operator's retry and force_sweep (get, transition, update).  retry   *)
(* refuses a quarantined record; force_sweep does not, and resumes a record *)
(* that failed in Detected, which is step 0.  (Payment shows that a job is  *)
(* never quarantined there; here it may be.)                                *)
Resumed(rec) == [rec EXCEPT !.failed = FALSE, !.attempts = 0]

Retry(j) ==
    /\ payments[j].failed /\ payments[j].quarantined = None
    /\ Update(j, Resumed(payments[j]))
    /\ UNCHANGED <<chainVars, loc, log>>

ForceSweep(j) ==
    /\ payments[j].failed /\ payments[j].step = 0
    /\ Update(j, Resumed(payments[j]))
    /\ UNCHANGED <<chainVars, loc, log>>

-----------------------------------------------------------------------------
ChainStep ==
    /\ \/ Finalize
       \/ \E tx \in pool, o \in Outcomes : Include(tx, o)
    /\ UNCHANGED <<storeVars, loc, log>>

(* An engine inside a step goes past its await. *)
Await(w) ==
    \/ Skip(w) \/ StepError(w) \/ ReserveSigner(w)
    \/ PrepareOk(w) \/ PrepareErr(w)
    \/ WriteJournal(w) \/ JournalRefused(w)
    \/ Broadcast(w) \/ BroadcastErr(w) \/ Finalized(w)
    \/ Apply(w) \/ Fail(w)
    \/ Scan(w) \/ ScanErr(w) \/ Resolve(w)

EngineStep(w) == (\E j \in Jobs : List(w, j)) \/ Await(w) \/ Crash(w)

Next ==
    \/ \E w \in Workers : EngineStep(w)
    \/ \E j \in Jobs : Retry(j) \/ ForceSweep(j)
    \/ ChainStep

Spec == Init /\ [][Next]_vars

(* Fairness.  Blocks keep being finalized; an await of an engine returns,   *)
(* with an answer or an error; run ticks again after every block, so every  *)
(* record is visited again and again; and neither a node nor the process    *)
(* fails at the same await for ever.                                        *)
Fairness ==
    /\ WF_vars(Finalize /\ UNCHANGED <<storeVars, loc, log>>)
    /\ \A w \in Workers :
         /\ WF_vars(Await(w))
         /\ SF_vars(Scan(w)) /\ SF_vars(Resolve(w))
         /\ \A j \in Jobs : SF_vars(List(w, j))

FairSpec == Spec /\ Fairness

-----------------------------------------------------------------------------
\* A journaled step took effect on the chain (in a final or an open block).
Effective(e) ==
    \E i \in included : i.tx = e.tx /\ i.outcome # "failed"

(* No economic step of a job takes effect twice, whatever crashes, lost     *)
(* replies, retries and rival engines do: the treasury never funds or buys  *)
(* a second time.  (engine.rs: send_journaled, reconcile_journaled.)        *)
NoStepTwice ==
    \A e, f \in log :
        /\ e.job = f.job /\ e.step = f.step
        /\ Effective(e) /\ Effective(f)
        => e.tx = f.tx

(* What took effect is never forgotten: the record still journals it, has   *)
(* its receipt, or is quarantined with it.  In particular a transaction     *)
(* found dead is never included later.  (chain.rs: find_pending.)           *)
NoLostSpend ==
    \A e \in log : Effective(e) =>
        LET r == payments[e.job] IN
        \/ r.pending # None /\ r.pending.tx = e.tx
        \/ [step |-> e.step, tx |-> e.tx] \in r.txs

(* Every receipt is of an extrinsic that is in a finalized block, and       *)
(* never of one that failed there or that another one with the same nonce   *)
(* replaced.  (chain.rs: broadcast, find_pending.)                          *)
ReceiptsFinal ==
    \A j \in Jobs : \A a \in payments[j].txs :
        FinalizedWith(a.tx, "ok") \/ FinalizedWith(a.tx, "odd")

(* A journal is always resolved in the end, by inclusion or by the end of   *)
(* the mortality window, unless the version counter is exhausted.           *)
JournalResolved ==
    \A j \in Jobs :
        (Journaled(j) /\ payments[j].version < MaxVersion) ~> ~Journaled(j)

(* The signer is reserved, but no record journals under the reservation and *)
(* no engine is about to: only the operator can free it.                    *)
Orphan(s) ==
    /\ reservations[s] # None
    /\ LET r == reservations[s] IN
         /\ ~\E w \in Workers : loc[w].pc \in {"prepare", "journal"}
                                /\ loc[w].token = r.token
         /\ ~\E j \in Jobs : Journaled(j)
                             /\ payments[j].pending.reservation = r.token

(* A reservation is orphaned only by an engine that dies or loses the reply *)
(* of a write; by one that lost the version race, or found the version      *)
(* counter exhausted, when it wrote its journal; or by one whose            *)
(* preparation failed after a rival journaled another step of the same job, *)
(* which makes cancel_preparation refuse.  Any other failed preparation or  *)
(* refused journal write leaves no signer locked.  (send_journaled.)        *)
OrphanCause ==
    [][\A s \in Signers : ~Orphan(s) /\ Orphan(s)' =>
          \E w \in Workers :
             /\ loc'[w] # loc[w]
             /\ \/ w \in Faulty
                \/ loc[w].pc = "prepare" /\ Journaled(loc[w].job)
                \/ /\ loc[w].pc = "journal"
                   /\ \/ loc[w].rec.version < payments[loc[w].job].version
                      \/ loc[w].rec.version >= MaxVersion]_vars

(* A reservation that is not orphaned ends: the engine cancels it, or       *)
(* journals under it and some engine resolves the journal.                  *)
SignerReleased ==
    \A s \in Signers :
        (/\ reservations[s] # None
         /\ payments[reservations[s].job].version + 2 <= MaxVersion)
        ~> (reservations[s] = None \/ Orphan(s))
=============================================================================
