--------------------------- MODULE Journal_proofs ---------------------------
(***************************************************************************)
(* Proofs that Journal is safe for every number of jobs, engines, signers  *)
(* and steps, every mortality window, lag and bound, in three parts:       *)
(*                                                                         *)
(*  - IInv, and the safety properties that follow from it.  Lemmas come in *)
(*    four groups: the records the engine computes; the types; what stays  *)
(*    true for the engines that do not move (Stable...); what the step     *)
(*    does to the shared state (Shared...).  Then one step per action;     *)
(*  - reservation tokens are given out once (TokenInv), and what that says *)
(*    of orphaned reservations (OrphanCause);                              *)
(*  - Journal, read through the map of JournalRefines, is JobLedger: what  *)
(*    the map makes of an update, what a job's record says of the money    *)
(*    that moved, then one lemma for each kind of step.                    *)
(***************************************************************************)
EXTENDS JournalRefines, FiniteSetTheorems, TLAPS

(* The records the engine computes are records, and which fields each of    *)
(* them keeps.                                                              *)
LEMMA WrittenFields ==
    ASSUME NEW r \in Records
    PROVE  /\ Written(r) \in Records
           /\ Written(r).version = r.version + 1
           /\ Written(r).pending = r.pending
           /\ Written(r).step = r.step
           /\ Written(r).quarantined = r.quarantined
           /\ Written(r).txs = r.txs
  BY DEF Records, Written

LEMMA FailureFields ==
    ASSUME NEW r \in Records, NEW m \in Nat
    PROVE  /\ RecordFailure(r, m) \in Records
           /\ RecordFailure(r, m).version = r.version
           /\ RecordFailure(r, m).pending = r.pending
           /\ RecordFailure(r, m).step = r.step
           /\ RecordFailure(r, m).quarantined = r.quarantined
           /\ RecordFailure(r, m).txs = r.txs
  <1>1. \A n \in Nat : /\ [r EXCEPT !.attempts = n] \in Records
                       /\ [r EXCEPT !.attempts = n, !.failed = TRUE] \in Records
    BY DEF Records
  <1>2. r.attempts + 1 \in Nat
    BY DEF Records
  <1>3. RecordFailure(r, m) \in Records
    BY <1>1, <1>2 DEF RecordFailure
  <1>4. CASE r.attempts + 1 >= m /\ r.step < NSteps
    BY <1>3, <1>4 DEF Records, RecordFailure
  <1>5. CASE ~(r.attempts + 1 >= m /\ r.step < NSteps)
    BY <1>3, <1>5 DEF Records, RecordFailure
  <1> QED
    BY <1>4, <1>5

\* The receipt that apply and the quarantine book.
LEMMA BookedType ==
    ASSUME NEW r \in Records, r.pending # None
    PROVE  r.txs \cup {[step |-> r.pending.step, tx |-> r.pending.tx]}
              \in SUBSET [step : Nat, tx : Txs]
  <1>1. [step |-> r.pending.step, tx |-> r.pending.tx] \in [step : Nat, tx : Txs]
    BY DEF Records, Pendings
  <1> QED
    BY <1>1 DEF Records

LEMMA AppliedFields ==
    ASSUME NEW r \in Records, r.pending # None
    PROVE  /\ Applied(r) \in Records
           /\ Applied(r).version = r.version
           /\ Applied(r).pending = None
           /\ Applied(r).step = r.step + 1
           /\ Applied(r).quarantined = r.quarantined
           /\ Applied(r).txs = r.txs \cup {[step |-> r.pending.step,
                                            tx |-> r.pending.tx]}
  <1> DEFINE s == r.txs \cup {[step |-> r.pending.step, tx |-> r.pending.tx]}
  <1>1. s \in SUBSET [step : Nat, tx : Txs]
    BY BookedType
  <1>2. Applied(r) = [r EXCEPT !.pending = None, !.step = r.step + 1,
                               !.attempts = 0, !.txs = s]
    BY DEF Applied
  <1> HIDE DEF s
  <1>3. Applied(r) \in Records
    <2>1. \A n \in Nat : [r EXCEPT !.pending = None, !.step = n,
                                   !.attempts = 0, !.txs = s] \in Records
      BY <1>1 DEF Records
    <2>2. r.step + 1 \in Nat
      BY DEF Records
    <2> QED
      BY <1>2, <2>1, <2>2
  <1>4. /\ Applied(r).version = r.version
        /\ Applied(r).pending = None
        /\ Applied(r).step = r.step + 1
        /\ Applied(r).quarantined = r.quarantined
        /\ Applied(r).txs = s
    BY <1>2 DEF Records
  <1> QED
    BY <1>3, <1>4 DEF s

LEMMA QuarantinedFields ==
    ASSUME NEW r \in Records, r.pending # None
    PROVE  /\ Quarantined(r) \in Records
           /\ Quarantined(r).version = r.version
           /\ Quarantined(r).pending = None
           /\ Quarantined(r).step = r.step
           /\ Quarantined(r).quarantined = r.pending
           /\ Quarantined(r).txs = r.txs \cup {[step |-> r.pending.step,
                                                tx |-> r.pending.tx]}
  <1> DEFINE s == r.txs \cup {[step |-> r.pending.step, tx |-> r.pending.tx]}
             q == [r EXCEPT !.pending = None, !.quarantined = r.pending,
                            !.txs = s]
  <1>1. s \in SUBSET [step : Nat, tx : Txs]
    BY BookedType
  <1>2. Quarantined(r) = RecordFailure(q, 1)
    BY DEF Quarantined
  <1> HIDE DEF s
  <1>3. /\ q \in Records
        /\ q.version = r.version
        /\ q.pending = None
        /\ q.step = r.step
        /\ q.quarantined = r.pending
        /\ q.txs = s
    BY <1>1 DEF Records
  <1> HIDE DEF q
  <1> QED
    BY <1>2, <1>3, FailureFields DEF s

LEMMA ResolvedFields ==
    ASSUME NEW r \in Records, r.pending # None,
           NEW o \in Outcomes \cup {"dead"}
    PROVE  /\ Resolved(r, o) \in Records
           /\ Resolved(r, o).version = r.version
           /\ Resolved(r, o).pending = None
           /\ o \in {"dead", "failed"} =>
                /\ Resolved(r, o).step = r.step
                /\ Resolved(r, o).quarantined = r.quarantined
                /\ Resolved(r, o).txs = r.txs
           /\ o = "odd" => Resolved(r, o) = Quarantined(r)
           /\ o = "ok" => Resolved(r, o) = Applied(r)
  <1> DEFINE c == [r EXCEPT !.pending = None]
  <1>1. /\ c \in Records
        /\ c.version = r.version
        /\ c.pending = None
        /\ c.step = r.step
        /\ c.quarantined = r.quarantined
        /\ c.txs = r.txs
    BY DEF Records
  <1>2. MaxAttempts \in Nat
    BY JournalAssumption
  <1>3. /\ o = "dead" => Resolved(r, o) = c
        /\ o = "failed" => Resolved(r, o) = RecordFailure(c, MaxAttempts)
        /\ o = "odd" => Resolved(r, o) = Quarantined(r)
        /\ o = "ok" => Resolved(r, o) = Applied(r)
    BY DEF Resolved, Outcomes
  <1>4. o \in {"dead", "failed", "odd", "ok"}
    BY DEF Outcomes
  <1> HIDE DEF c
  <1> QED
    BY <1>1, <1>2, <1>3, <1>4, FailureFields, AppliedFields, QuarantinedFields

LEMMA SkippedFields ==
    ASSUME NEW r \in Records, NEW a \in {0, r.attempts}
    PROVE  LET k == [r EXCEPT !.step = r.step + 1, !.attempts = a] IN
           /\ k \in Records
           /\ k.version = r.version
           /\ k.pending = r.pending
           /\ k.step = r.step + 1
           /\ k.quarantined = r.quarantined
           /\ k.txs = r.txs
  <1>0. a \in Nat
    BY DEF Records
  <1>1. \A n \in Nat : [r EXCEPT !.step = n, !.attempts = a] \in Records
    BY <1>0 DEF Records
  <1>2. r.step + 1 \in Nat
    BY DEF Records
  <1> QED
    BY <1>1, <1>2 DEF Records

LEMMA ResumedFields ==
    ASSUME NEW r \in Records
    PROVE  /\ Resumed(r) \in Records
           /\ Resumed(r).version = r.version
           /\ Resumed(r).pending = r.pending
           /\ Resumed(r).step = r.step
           /\ Resumed(r).quarantined = r.quarantined
           /\ Resumed(r).txs = r.txs
  <1>1. Resumed(r) \in Records
    BY DEF Records, Resumed
  <1> QED
    BY <1>1 DEF Records, Resumed

LEMMA JournalFields ==
    ASSUME NEW w, loc[w].rec \in Records, loc[w].token \in Nat,
           loc[w].tx \in Txs
    PROVE  LET p == [reservation |-> loc[w].token, signer |-> loc[w].tx.signer,
                     tx |-> loc[w].tx, step |-> loc[w].rec.step]
           IN  /\ p \in Pendings
               /\ JournalOf(w) \in Records
               /\ JournalOf(w).version = loc[w].rec.version
               /\ JournalOf(w).pending = p
               /\ JournalOf(w).step = loc[w].rec.step
               /\ JournalOf(w).quarantined = loc[w].rec.quarantined
               /\ JournalOf(w).txs = loc[w].rec.txs
  <1> DEFINE p == [reservation |-> loc[w].token, signer |-> loc[w].tx.signer,
                   tx |-> loc[w].tx, step |-> loc[w].rec.step]
  <1>1. loc[w].rec.step \in Nat /\ loc[w].tx.signer \in Signers
    BY DEF Records, Txs
  <1>2. p \in Pendings
    BY <1>1 DEF Pendings
  <1>3. JournalOf(w) = [loc[w].rec EXCEPT !.pending = p]
    BY DEF JournalOf
  <1> HIDE DEF p
  <1>4. JournalOf(w) \in Records
    BY <1>2, <1>3 DEF Records
  <1>5. /\ JournalOf(w).version = loc[w].rec.version
        /\ JournalOf(w).pending = p
        /\ JournalOf(w).step = loc[w].rec.step
        /\ JournalOf(w).quarantined = loc[w].rec.quarantined
        /\ JournalOf(w).txs = loc[w].rec.txs
    BY <1>3 DEF Records
  <1> QED
    BY <1>2, <1>4, <1>5 DEF p

-----------------------------------------------------------------------------
(* Types. *)

LEMMA UpdateType ==
    ASSUME TypeOK, NEW j \in Jobs, NEW r \in Records, Update(j, r)
    PROVE  /\ payments' \in [Jobs -> Records]
           /\ reservations' \in [Signers -> [job : Jobs, token : Nat] \cup {None}]
           /\ uuid' = uuid
           /\ payments'[j] = Written(r)
           /\ \A k \in Jobs : k # j => payments'[k] = payments[k]
           /\ payments[j].version = r.version
           /\ Written(r).version = r.version + 1
  <1>1. Written(r) \in Records /\ Written(r).version = r.version + 1
    BY WrittenFields
  <1>2. payments' = [payments EXCEPT ![j] = Written(r)]
    BY DEF Update
  <1>3. payments' \in [Jobs -> Records]
    BY <1>1, <1>2 DEF TypeOK
  <1>4. reservations' \in [Signers -> [job : Jobs, token : Nat] \cup {None}]
    BY DEF TypeOK, Update
  <1> QED
    BY <1>1, <1>2, <1>3, <1>4 DEF TypeOK, Update, CanUpdate

LEMMA NonceType ==
    ASSUME TypeOK, NEW s, NEW n
    PROVE  NonceAt(s, n) \in Nat
  <1> DEFINE S == {i \in included : i.tx.signer = s /\ i.block <= n}
  <1>1. IsFiniteSet(S)
    BY FS_Subset DEF TypeOK
  <1> QED
    BY <1>1, FS_CardinalityType DEF NonceAt

-----------------------------------------------------------------------------
(* What an engine that does not move knows stays true. *)

LEMMA FinalStable ==
    ASSUME TypeOK, NEW tx, NEW o, FinalizedWith(tx, o),
           included \subseteq included', head' \in Nat, head <= head'
    PROVE  FinalizedWith(tx, o)'
  BY DEF FinalizedWith, TypeOK

LEMMA SpentStable ==
    ASSUME TypeOK, NEW tx \in Txs, Spent(tx), ChainStep
    PROVE  Spent(tx)'
  <1>1. CASE Finalize
    BY <1>1, MortalityAssumption DEF Finalize, Spent, TypeOK, Txs
  <1>2. ASSUME NEW t \in pool, NEW o \in Outcomes, Include(t, o)
        PROVE  Spent(tx)'
    <2>1. t # tx
      BY <1>2, MortalityAssumption DEF Include, Admissible, Spent, TypeOK, Txs
    <2>2. included' = included \cup
            {[tx |-> t, block |-> head + 1, outcome |-> o]} /\ head' = head
      BY <1>2 DEF Include
    <2> QED
      BY <2>1, <2>2 DEF Spent
  <1> QED
    BY <1>1, <1>2 DEF ChainStep

LEMMA ChainGrows ==
    ASSUME TypeOK, ChainStep
    PROVE  /\ included \subseteq included'
           /\ included' \in SUBSET [tx : Txs, block : Nat, outcome : Outcomes]
           /\ IsFiniteSet(included')
           /\ head' \in Nat /\ head <= head'
           /\ pool' = pool
  <1>1. CASE Finalize
    BY <1>1 DEF Finalize, TypeOK
  <1>2. ASSUME NEW t \in pool, NEW o \in Outcomes, Include(t, o)
        PROVE  /\ included \subseteq included'
               /\ included' \in SUBSET [tx : Txs, block : Nat, outcome : Outcomes]
               /\ IsFiniteSet(included')
               /\ head' \in Nat /\ head <= head'
               /\ pool' = pool
    <2> DEFINE i == [tx |-> t, block |-> head + 1, outcome |-> o]
    <2>1. i \in [tx : Txs, block : Nat, outcome : Outcomes]
      BY DEF TypeOK
    <2>2. included' = included \cup {i} /\ head' = head /\ pool' = pool
      BY <1>2 DEF Include
    <2> HIDE DEF i
    <2>3. IsFiniteSet(included')
      BY <2>2, FS_AddElement DEF TypeOK
    <2> QED
      BY <2>1, <2>2, <2>3 DEF TypeOK
  <1> QED
    BY <1>1, <1>2 DEF ChainStep

LEMMA StableChain ==
    ASSUME TypeOK, ChainStep, NEW l, LocalOK(l)
    PROVE  LocalOK(l)'
  <1>1. Holds(l)' /\ Current(l)' /\ Logged(l)'
    BY DEF ChainStep, storeVars, LocalOK, Holds, Current, Logged
  <1>2. l.pc = "apply" => FinalizedWith(l.tx, "ok")'
    BY ChainGrows, FinalStable DEF LocalOK, Observed
  <1>3. ASSUME l.pc = "resolve" 
        PROVE  IF l.seen = "dead" THEN Spent(l.rec.pending.tx)'
               ELSE FinalizedWith(l.rec.pending.tx, l.seen)'
    <2>1. l.rec.pending.tx \in Txs
      BY <1>3 DEF LocalOK, Holds, Records, Pendings
    <2>2. CASE l.seen = "dead"
      BY <1>3, <2>1, <2>2, SpentStable DEF LocalOK, Observed
    <2>3. CASE l.seen # "dead"
      BY <1>3, <2>3, ChainGrows, FinalStable DEF LocalOK, Observed
    <2> QED
      BY <2>2, <2>3
  <1> QED
    BY <1>1, <1>2, <1>3 DEF LocalOK, Observed

LEMMA StableUpdate ==
    ASSUME TypeOK, NEW j \in Jobs, NEW r \in Records, Update(j, r),
           UNCHANGED <<head, included>>, log \subseteq log',
           NEW l, LocalOK(l)
    PROVE  LocalOK(l)'
  <1>1. Holds(l)' /\ Logged(l)' /\ Observed(l)'
    BY DEF LocalOK, Holds, Logged, Observed, FinalizedWith, Spent
  <1>2. Current(l)'
    <2> SUFFICES ASSUME l.pc # "idle"
                 PROVE  /\ l.rec.version <= payments'[l.job].version
                        /\ l.rec.version = payments'[l.job].version
                             => l.rec = payments'[l.job]
      BY DEF Current
    <2>1. /\ l.job \in Jobs /\ l.rec.version \in Nat
          /\ l.rec.version <= payments[l.job].version
          /\ l.rec.version = payments[l.job].version => l.rec = payments[l.job]
      BY DEF LocalOK, Holds, Current, Records
    <2>2. CASE l.job = j
      <3>1. payments'[j].version = payments[j].version + 1
        BY UpdateType
      <3>2. payments[j].version \in Nat
        BY DEF TypeOK, Records
      <3> QED
        BY <2>1, <2>2, <3>1, <3>2
    <2>3. CASE l.job # j
      BY <2>1, <2>3, UpdateType
    <2> QED
      BY <2>2, <2>3
  <1> QED
    BY <1>1, <1>2 DEF LocalOK

LEMMA StableSame ==
    ASSUME UNCHANGED <<payments, head, included, log>>, NEW l, LocalOK(l)
    PROVE  LocalOK(l)'
  BY DEF LocalOK, Holds, Current, Logged, Observed, FinalizedWith, Spent

(* The engine w goes to l, the others stay. *)
LEMMA EnginesOK ==
    ASSUME IInv, NEW w \in Workers, NEW l \in Locals, Goto(w, l), LocalOK(l)',
           \A k \in Locals : LocalOK(k) => LocalOK(k)'
    PROVE  /\ loc' \in [Workers -> Locals]
           /\ \A v \in Workers : LocalOK(loc[v])'
  <1>1. loc' = [loc EXCEPT ![w] = l] /\ loc \in [Workers -> Locals]
    BY DEF Goto, IInv, TypeOK
  <1>2. loc' \in [Workers -> Locals]
    BY <1>1
  <1>3. ASSUME NEW v \in Workers
        PROVE  LocalOK(loc[v])'
    <2>1. CASE v = w
      <3>1. loc'[v] = l
        BY <1>1, <2>1
      <3> QED
        BY <3>1 DEF LocalOK, Holds, Current, Logged, Observed, FinalizedWith,
                    Spent
    <2>2. CASE v # w
      <3> DEFINE k == loc[v]
      <3>1. loc'[v] = k /\ k \in Locals /\ LocalOK(k)
        BY <1>1, <2>2 DEF IInv
      <3> QED
        BY <3>1 DEF LocalOK, Holds, Current, Logged, Observed, FinalizedWith,
                    Spent
    <2> QED
      BY <2>1, <2>2
  <1> QED
    BY <1>2, <1>3

-----------------------------------------------------------------------------
(* What a step does to the shared state. *)

\* Every journal of this specification is fenced.
Owned ==
    \A k \in Jobs : payments[k].pending # None =>
        reservations[payments[k].pending.signer] =
            [job |-> k, token |-> payments[k].pending.reservation]

LEMMA OwnedForm ==
    ASSUME payments \in [Jobs -> Records]
    PROVE  JournalOwned <=> Owned
  <1>1. ASSUME NEW k \in Jobs
        PROVE  /\ payments[k] # None
               /\ payments[k].pending # None =>
                    payments[k].pending.reservation \in Nat
               /\ None \notin Nat
    BY NoneAssumption DEF Records, Pendings
  <1> QED
    BY <1>1 DEF JournalOwned, Owned, Journaled, Fenced, OwnedJournal, Owns

LEMMA OwnedFormNext ==
    ASSUME payments' \in [Jobs -> Records]
    PROVE  JournalOwned' <=> Owned'
  <1>1. ASSUME NEW k \in Jobs
        PROVE  /\ payments'[k] # None
               /\ payments'[k].pending # None =>
                    payments'[k].pending.reservation \in Nat
               /\ None \notin Nat
    BY NoneAssumption DEF Records, Pendings
  <1> QED
    BY <1>1 DEF JournalOwned, Owned, Journaled, Fenced, OwnedJournal, Owns

LEMMA OwnedUpdate ==
    ASSUME TypeOK, Owned, NEW j \in Jobs, NEW r \in Records, Update(j, r)
    PROVE  Owned'
  <1>1. /\ payments'[j].pending = r.pending
        /\ \A k \in Jobs : k # j => payments'[k] = payments[k]
    BY UpdateType, WrittenFields
  <1>2. SUFFICES ASSUME NEW k \in Jobs, payments'[k].pending # None
                 PROVE  reservations'[payments'[k].pending.signer] =
                          [job |-> k, token |-> payments'[k].pending.reservation]
    BY DEF Owned
  <1>3. CASE k = j
    BY <1>1, <1>2, <1>3 DEF Update, CanUpdate, OwnedJournal, Owns
  <1>4. CASE k # j
    <2>1. payments'[k] = payments[k]
      BY <1>1, <1>4
    <2>2. reservations[payments[k].pending.signer] =
            [job |-> k, token |-> payments[k].pending.reservation]
      BY <1>2, <2>1 DEF Owned
    <2>3. ASSUME payments[j].pending # None
          PROVE  payments[j].pending.signer # payments[k].pending.signer
      <3>1. reservations[payments[j].pending.signer] =
              [job |-> j, token |-> payments[j].pending.reservation]
        BY <2>3 DEF Owned
      <3> QED
        BY <1>4, <2>2, <3>1
    <2>4. payments[k].pending.signer \in Signers
      BY <1>2, <2>1 DEF TypeOK, Records, Pendings
    <2> QED
      BY <2>1, <2>2, <2>3, <2>4 DEF Update, TypeOK
  <1> QED
    BY <1>3, <1>4

LEMMA SharedSame ==
    ASSUME SharedOK,
           UNCHANGED <<payments, reservations, head, included, pool, log>>
    PROVE  SharedOK'
  BY DEF SharedOK, JournalOwned, JournalLogged, JournaledFirst, InWindow,
         Accounted, Booked, ReceiptsFinal, Journaled, Fenced, OwnedJournal,
         Owns, Spent, FinalizedWith

LEMMA SharedReserve ==
    ASSUME TypeOK, SharedOK, UNCHANGED <<payments, head, included, pool, log>>,
           NEW s \in Signers, NEW v,
           reservations' = [reservations EXCEPT ![s] = v],
           reservations[s] = None \/ ~UnresolvedSigner(s)
    PROVE  SharedOK'
  <1>1. Owned /\ payments \in [Jobs -> Records]
    BY OwnedForm DEF SharedOK, TypeOK
  <1>2. Owned'
    <2>1. SUFFICES ASSUME NEW k \in Jobs, payments[k].pending # None
                   PROVE  reservations'[payments[k].pending.signer] =
                            [job |-> k, token |-> payments[k].pending.reservation]
      BY DEF Owned
    <2>2. reservations[payments[k].pending.signer] =
            [job |-> k, token |-> payments[k].pending.reservation]
      BY <1>1, <2>1 DEF Owned
    <2>3. payments[k].pending.signer \in Signers /\ payments[k] # None
      BY <2>1, NoneAssumption DEF TypeOK, Records, Pendings
    <2>4. [job |-> k, token |-> payments[k].pending.reservation]
            \in [job : Jobs, token : Nat]
      BY <2>1 DEF TypeOK, Records, Pendings
    <2>5. payments[k].pending.signer # s
      BY <2>1, <2>2, <2>3, <2>4, NoneAssumption DEF UnresolvedSigner, Journaled
    <2> QED
      BY <2>2, <2>3, <2>5 DEF TypeOK
  <1>3. JournalOwned'
    BY <1>1, <1>2, OwnedFormNext
  <1> QED
    BY <1>3 DEF SharedOK, JournalLogged, JournaledFirst, InWindow,
         Accounted, Booked, ReceiptsFinal, Spent, FinalizedWith

LEMMA SharedSubmit ==
    ASSUME SharedOK, UNCHANGED <<payments, reservations, head, included, log>>,
           NEW tx, pool' = pool \cup {tx}, \E e \in log : e.tx = tx
    PROVE  SharedOK'
  <1>1. JournaledFirst'
    BY DEF SharedOK, JournaledFirst
  <1> QED
    BY <1>1 DEF SharedOK, JournalOwned, JournalLogged, InWindow,
         Accounted, Booked, ReceiptsFinal, Journaled, Fenced, OwnedJournal,
         Owns, Spent, FinalizedWith

LEMMA SharedChain ==
    ASSUME TypeOK, SharedOK, ChainStep
    PROVE  SharedOK'
  <1>1. UNCHANGED <<payments, reservations, log>>
    BY DEF ChainStep, storeVars
  <1>2. JournalOwned' /\ JournalLogged' /\ Booked'
    BY <1>1 DEF SharedOK, JournalOwned, JournalLogged, Booked, Journaled, Fenced,
                OwnedJournal, Owns
  <1>3. JournaledFirst' /\ InWindow'
    <2>1. CASE Finalize
      BY <1>1, <2>1 DEF SharedOK, JournaledFirst, InWindow, Finalize, TypeOK
    <2>2. ASSUME NEW t \in pool, NEW o \in Outcomes, Include(t, o)
          PROVE  JournaledFirst' /\ InWindow'
      <3> DEFINE n == [tx |-> t, block |-> head + 1, outcome |-> o]
      <3>1. included' = included \cup {n} /\ head' = head /\ pool' = pool
        BY <2>2 DEF Include
      <3>2. \A i \in included : i.tx # n.tx
        BY <2>2 DEF Include, Admissible
      <3>3. /\ n.tx \in pool
            /\ n.tx.birth < n.block
            /\ n.block <= n.tx.birth + Mortality
            /\ n.block <= head + 1
        BY <2>2 DEF Include, Admissible, TypeOK
      <3> HIDE DEF n
      <3> QED
        BY <1>1, <3>1, <3>2, <3>3 DEF SharedOK, JournaledFirst, InWindow
    <2> QED
      BY <2>1, <2>2 DEF ChainStep
  <1>4. Accounted'
    <2>1. SUFFICES ASSUME NEW e \in log, Spent(e.tx)
                   PROVE  Spent(e.tx)'
      BY <1>1 DEF SharedOK, Accounted
    <2>2. e.tx \in Txs
      BY DEF TypeOK
    <2> QED
      BY <2>1, <2>2, SpentStable
  <1>5. ReceiptsFinal'
    BY <1>1, ChainGrows, FinalStable DEF SharedOK, ReceiptsFinal
  <1> QED
    BY <1>2, <1>3, <1>4, <1>5 DEF SharedOK

(* An update the protocol may do: nothing booked is forgotten; a journal is *)
(* logged and is the step's own; a cleared journal is booked or spent; a    *)
(* new receipt is final.                                                    *)
Legal(j, r, newlog) ==
    LET old == payments[j] IN
    /\ \A e \in newlog : e \in log \/ (r.pending # None /\ e = Entry(j, r.pending))
    /\ r.pending # None => /\ r.pending.step = r.step
                           /\ r.quarantined = None
                           /\ Entry(j, r.pending) \in newlog
    /\ old.pending # None /\ r.pending = None =>
         Receipt(old.pending) \in r.txs \/ Spent(old.pending.tx)
    /\ old.txs \subseteq r.txs
    /\ \A a \in r.txs : a.step < r.step \/ r.quarantined # None
    /\ \A a, b \in r.txs : a.step = b.step => a = b
    /\ \A a \in r.txs : a \in old.txs \/ FinalizedWith(a.tx, "ok")
                                      \/ FinalizedWith(a.tx, "odd")

LEMMA SharedUpdate ==
    ASSUME TypeOK, SharedOK, NEW j \in Jobs, NEW r \in Records, Update(j, r),
           UNCHANGED <<head, included, pool>>, log \subseteq log',
           Legal(j, r, log')
    PROVE  SharedOK'
  <1>1. /\ payments'[j].pending = r.pending
        /\ payments'[j].step = r.step
        /\ payments'[j].quarantined = r.quarantined
        /\ payments'[j].txs = r.txs
        /\ \A k \in Jobs : k # j => payments'[k] = payments[k]
        /\ payments' \in [Jobs -> Records]
    BY UpdateType, WrittenFields
  <1>2. JournalOwned'
    BY <1>1, OwnedForm, OwnedFormNext, OwnedUpdate DEF SharedOK, TypeOK
  <1>3. JournalLogged'
    BY <1>1 DEF SharedOK, JournalLogged, Legal
  <1>4. JournaledFirst' /\ InWindow'
    BY DEF SharedOK, JournaledFirst, InWindow
  <1>5. \A tx : Spent(tx)' <=> Spent(tx)
    BY DEF Spent
  <1>6. Accounted'
    <2>1. SUFFICES ASSUME NEW e \in log'
                   PROVE  LET q == payments'[e.job] IN
                          \/ q.pending # None /\ Entry(e.job, q.pending) = e
                          \/ Receipt(e) \in q.txs
                          \/ Spent(e.tx)
      BY <1>5 DEF Accounted
    <2>2. CASE e \in log /\ e.job # j
      BY <1>1, <2>2 DEF SharedOK, Accounted, TypeOK
    <2>3. CASE e \in log /\ e.job = j
      <3>1. CASE payments[j].pending # None /\ Entry(j, payments[j].pending) = e
        <4>1. r.pending = payments[j].pending \/ r.pending = None
          BY <3>1 DEF Update, CanUpdate
        <4>2. e.tx = payments[j].pending.tx /\ Receipt(e) = Receipt(payments[j].pending)
          BY <3>1 DEF Entry, Receipt
        <4> QED
          BY <1>1, <2>3, <3>1, <4>1, <4>2 DEF Legal
      <3>2. CASE Receipt(e) \in payments[j].txs
        BY <1>1, <2>3, <3>2 DEF Legal
      <3>3. CASE Spent(e.tx)
        BY <3>3
      <3> QED
        BY <2>3, <3>1, <3>2, <3>3 DEF SharedOK, Accounted
    <2>4. CASE e \notin log
      <3>1. r.pending # None /\ e = Entry(j, r.pending)
        BY <2>1, <2>4 DEF Legal
      <3>2. e.job = j
        BY <3>1 DEF Entry
      <3> QED
        BY <1>1, <3>1, <3>2
    <2> QED
      BY <2>2, <2>3, <2>4
  <1>7. Booked'
    BY <1>1 DEF SharedOK, Booked, Legal
  <1>8. ReceiptsFinal'
    BY <1>1 DEF SharedOK, ReceiptsFinal, FinalizedWith, Legal
  <1> QED
    BY <1>2, <1>3, <1>4, <1>6, <1>7, <1>8 DEF SharedOK

-----------------------------------------------------------------------------
(* The updates of the protocol are legal. *)

LEMMA LegalNeutral ==
    ASSUME TypeOK, SharedOK, NEW j \in Jobs, NEW r \in Records,
           r.pending = payments[j].pending, r.txs = payments[j].txs,
           r.quarantined = payments[j].quarantined,
           \/ r.step = payments[j].step
           \/ r.step = payments[j].step + 1 /\ r.pending = None
    PROVE  Legal(j, r, log)
  <1>1. /\ payments[j].step \in Nat
        /\ \A a \in payments[j].txs : a.step \in Nat
    BY DEF TypeOK, Records
  <1>2. \A a \in r.txs : a.step < r.step \/ r.quarantined # None
    BY <1>1 DEF SharedOK, Booked
  <1> QED
    BY <1>2 DEF SharedOK, Booked, JournalLogged, Legal

LEMMA LegalClear ==
    ASSUME TypeOK, SharedOK, NEW j \in Jobs, NEW r \in Records,
           payments[j].pending # None, Spent(payments[j].pending.tx),
           r.pending = None, r.txs = payments[j].txs,
           r.quarantined = payments[j].quarantined, r.step = payments[j].step
    PROVE  Legal(j, r, log)
  BY DEF SharedOK, Booked, JournalLogged, Legal

LEMMA LegalBook ==
    ASSUME TypeOK, SharedOK, NEW j \in Jobs, NEW r \in Records,
           payments[j].pending # None, r.pending = None,
           r.txs = payments[j].txs \cup {Receipt(payments[j].pending)},
           r.step = payments[j].step + 1 \/ (r.step = payments[j].step
                                             /\ r.quarantined # None),
           \/ FinalizedWith(payments[j].pending.tx, "ok")
           \/ FinalizedWith(payments[j].pending.tx, "odd")
    PROVE  Legal(j, r, log)
  <1> DEFINE old == payments[j]
             new == Receipt(old.pending)
  <1>1. /\ old.step \in Nat
        /\ \A a \in old.txs : a.step \in Nat
    BY DEF TypeOK, Records
  <1>2. new.step = old.step /\ new.tx = old.pending.tx
    BY DEF SharedOK, JournalLogged, Receipt
  <1>3. \A a \in old.txs : a.step < old.step
    BY DEF SharedOK, JournalLogged, Booked
  <1>4. \A a, b \in old.txs : a.step = b.step => a = b
    BY DEF SharedOK, Booked
  <1> HIDE DEF old, new
  <1>5. r.txs = old.txs \cup {new}
    BY DEF old, new
  <1>6. \A a \in r.txs : a.step < r.step \/ r.quarantined # None
    BY <1>1, <1>2, <1>3, <1>5 DEF old
  <1>7. \A a, b \in r.txs : a.step = b.step => a = b
    BY <1>1, <1>2, <1>3, <1>4, <1>5
  <1>8. \A a \in r.txs : \/ a \in old.txs
                          \/ FinalizedWith(a.tx, "ok") \/ FinalizedWith(a.tx, "odd")
    BY <1>2, <1>5 DEF old
  <1> QED
    BY <1>5, <1>6, <1>7, <1>8 DEF Legal, old, new

LEMMA FailedSpent ==
    ASSUME TypeOK, InWindow, NEW tx, FinalizedWith(tx, "failed")
    PROVE  Spent(tx)
  BY DEF FinalizedWith, InWindow, Spent

LEMMA LegalResolved ==
    ASSUME TypeOK, SharedOK, NEW j \in Jobs, payments[j].pending # None,
           NEW o \in Outcomes \cup {"dead"},
           IF o = "dead" THEN Spent(payments[j].pending.tx)
           ELSE FinalizedWith(payments[j].pending.tx, o)
    PROVE  Legal(j, Resolved(payments[j], o), log)
  <1> DEFINE r == payments[j]
  <1>1. r \in Records
    BY DEF TypeOK
  <1>2. [step |-> r.pending.step, tx |-> r.pending.tx] = Receipt(r.pending)
    BY DEF Receipt
  <1>3. CASE o \in {"dead", "failed"}
    <2>1. Spent(r.pending.tx)
      BY <1>3, FailedSpent DEF SharedOK
    <2> QED
      BY <1>1, <1>3, <2>1, ResolvedFields, LegalClear
  <1>4. CASE o = "ok"
    BY <1>1, <1>2, <1>4, ResolvedFields, AppliedFields, LegalBook
  <1>5. CASE o = "odd"
    <2>1. r.pending # None
      OBVIOUS
    <2> QED
      BY <1>1, <1>2, <1>5, <2>1, ResolvedFields, QuarantinedFields, LegalBook
  <1> QED
    BY <1>3, <1>4, <1>5 DEF Outcomes

-----------------------------------------------------------------------------
(* One step of one engine. *)

LEMMA LocalStep ==
    ASSUME IInv, NEW w \in Workers, NEW l \in Locals, Goto(w, l), LocalOK(l),
           UNCHANGED <<storeVars, chainVars, log>>
    PROVE  IInv'
  <1>1. UNCHANGED <<payments, reservations, uuid, head, included, pool, log>>
    BY DEF storeVars, chainVars
  <1>2. \A k \in Locals : LocalOK(k) => LocalOK(k)'
    BY <1>1, StableSame
  <1>3. loc' \in [Workers -> Locals] /\ \A v \in Workers : LocalOK(loc[v])'
    BY <1>2, EnginesOK
  <1>4. SharedOK'
    BY <1>1, SharedSame DEF IInv
  <1> QED
    BY <1>1, <1>3, <1>4 DEF IInv, TypeOK

LEMMA ReserveStep ==
    ASSUME IInv, NEW w \in Workers, NEW l \in Locals, Goto(w, l), LocalOK(l),
           NEW s \in Signers, NEW v \in [job : Jobs, token : Nat] \cup {None},
           reservations' = [reservations EXCEPT ![s] = v],
           reservations[s] = None \/ ~UnresolvedSigner(s),
           uuid' \in Nat, UNCHANGED <<payments, chainVars, log>>
    PROVE  IInv'
  <1>1. UNCHANGED <<payments, head, included, pool, log>>
    BY DEF chainVars
  <1>2. \A k \in Locals : LocalOK(k) => LocalOK(k)'
    BY <1>1, StableSame
  <1>3. loc' \in [Workers -> Locals] /\ \A u \in Workers : LocalOK(loc[u])'
    BY <1>2, EnginesOK
  <1>4. SharedOK'
    BY <1>1, SharedReserve DEF IInv
  <1>5. reservations' \in [Signers -> [job : Jobs, token : Nat] \cup {None}]
    BY DEF IInv, TypeOK
  <1> QED
    BY <1>1, <1>3, <1>4, <1>5 DEF IInv, TypeOK

LEMMA UpdateStep ==
    ASSUME IInv, NEW w \in Workers, NEW l \in Locals, Goto(w, l), LocalOK(l)',
           NEW j \in Jobs, NEW r \in Records, Update(j, r), UNCHANGED chainVars,
           log \subseteq log', log' \in SUBSET [job : Jobs, step : Nat, tx : Txs],
           Legal(j, r, log')
    PROVE  IInv'
  <1>1. UNCHANGED <<head, included, pool>>
    BY DEF chainVars
  <1>2. \A k \in Locals : LocalOK(k) => LocalOK(k)'
    BY <1>1, StableUpdate DEF IInv
  <1>3. loc' \in [Workers -> Locals] /\ \A v \in Workers : LocalOK(loc[v])'
    BY <1>2, EnginesOK
  <1>4. SharedOK'
    BY <1>1, SharedUpdate DEF IInv
  <1> QED
    BY <1>1, <1>3, <1>4, UpdateType DEF IInv, TypeOK

(* The two places a step ends in need no knowledge. *)
LEMMA IdleOK == Idle \in Locals /\ LocalOK(Idle)
  <1>1. Idle \in Locals
    BY DEF Idle, Locals, PCs
  <1> QED
    BY <1>1 DEF Idle, LocalOK, Holds, Current, Logged, Observed

LEMMA FailOK ==
    ASSUME IInv, NEW w \in Workers, loc[w].pc # "idle"
    PROVE  LET l == [loc[w] EXCEPT !.pc = "fail"] IN l \in Locals /\ LocalOK(l)
  <1> DEFINE l == [loc[w] EXCEPT !.pc = "fail"]
  <1>1. loc[w] \in Locals /\ LocalOK(loc[w])
    BY DEF IInv, TypeOK
  <1>2. l \in Locals
    BY <1>1 DEF Locals, PCs
  <1>3. l.pc = "fail" /\ l.job = loc[w].job /\ l.rec = loc[w].rec
    BY <1>1 DEF Locals
  <1> HIDE DEF l
  <1>4. LocalOK(l)
    BY <1>1, <1>3 DEF LocalOK, Holds, Current, Logged, Observed
  <1> QED
    BY <1>2, <1>4 DEF l

LEMMA DoneStep ==
    ASSUME IInv, NEW w \in Workers, Done(w),
           UNCHANGED <<storeVars, chainVars, log>>
    PROVE  IInv'
  BY IdleOK, LocalStep DEF Done

LEMMA FailStep ==
    ASSUME IInv, NEW w \in Workers, loc[w].pc # "idle", Move(w, "fail"),
           UNCHANGED <<storeVars, chainVars, log>>
    PROVE  IInv'
  BY FailOK, LocalStep DEF Move

LEMMA RefusedStep ==
    ASSUME IInv, NEW w \in Workers, loc[w].pc # "idle", NEW r, Refused(w, r),
           UNCHANGED <<chainVars, log>>
    PROVE  IInv'
  <1>1. UNCHANGED <<storeVars, chainVars, log>>
    BY DEF Refused
  <1> QED
    BY <1>1, DoneStep, FailStep DEF Refused

(* An update that ends in a place that needs no knowledge. *)
LEMMA EndStep ==
    ASSUME IInv, NEW w \in Workers, loc[w].pc # "idle", NEW r \in Records,
           Update(loc[w].job, r), Legal(loc[w].job, r, log),
           Done(w) \/ Move(w, "fail"), UNCHANGED <<chainVars, log>>
    PROVE  IInv'
  <1>1. TypeOK /\ loc[w].job \in Jobs
    BY DEF IInv, LocalOK, Holds
  <1>2. PICK l \in Locals : Goto(w, l) /\ LocalOK(l)
    BY IdleOK, FailOK DEF Done, Move
  <1>3. UNCHANGED <<head, included>> /\ log' = log
    BY DEF chainVars
  <1>4. LocalOK(l)'
    BY <1>1, <1>2, <1>3, StableUpdate
  <1>5. Legal(loc[w].job, r, log') 
    BY <1>3
  <1>6. log' \in SUBSET [job : Jobs, step : Nat, tx : Txs]
    BY <1>1, <1>3 DEF TypeOK
  <1> QED
    BY <1>1, <1>2, <1>3, <1>4, <1>5, <1>6, UpdateStep

LEMMA LastWriteStep ==
    ASSUME IInv, NEW w \in Workers, loc[w].pc # "idle", NEW r \in Records,
           LastWrite(w, r), CanUpdate(loc[w].job, r) => Legal(loc[w].job, r, log),
           UNCHANGED <<chainVars, log>>
    PROVE  IInv'
  <1>1. CASE Update(loc[w].job, r) /\ (Done(w) \/ Move(w, "fail"))
    BY <1>1, EndStep DEF Update
  <1>2. CASE Refused(w, r)
    BY <1>2, RefusedStep
  <1> QED
    BY <1>1, <1>2 DEF LastWrite

(* The compare-and-swap succeeds only on a current copy. *)
LEMMA CopyCurrent ==
    ASSUME IInv, NEW w \in Workers, loc[w].pc # "idle", NEW r,
           CanUpdate(loc[w].job, r), r.version = loc[w].rec.version
    PROVE  payments[loc[w].job] = loc[w].rec
  BY DEF IInv, LocalOK, Current, CanUpdate

-----------------------------------------------------------------------------
(* The actions, one by one. *)

LEMMA ListStep ==
    ASSUME IInv, NEW w \in Workers, NEW j \in Jobs, List(w, j)
    PROVE  IInv'
  <1> DEFINE p == IF payments[j].pending # None THEN "scan" ELSE "act"
             l == [Idle EXCEPT !.job = j, !.rec = payments[j], !.pc = p]
  <1>1. payments[j] \in Records
    BY DEF IInv, TypeOK
  <1>2. p \in PCs /\ (p = "scan" \/ p = "act")
        /\ (p = "scan" <=> payments[j].pending # None)
    BY DEF PCs
  <1> HIDE DEF p
  <1>3. l.pc = p /\ l.job = j /\ l.rec = payments[j]
    BY DEF Idle
  <1>4. l \in Locals
    BY <1>1, <1>2, IdleOK DEF Locals
  <1>5. Goto(w, l) /\ UNCHANGED <<storeVars, chainVars, log>>
    BY DEF List, p
  <1> HIDE DEF l
  <1>6. LocalOK(l)
    <2>1. Holds(l)
      BY <1>1, <1>2, <1>3 DEF Holds, List, Picked
    <2>2. Current(l)
      BY <1>1, <1>3 DEF Current, Records
    <2>3. Logged(l)
      BY <1>1, <1>3 DEF Logged, IInv, SharedOK, JournalLogged
    <2>4. Observed(l)
      BY <1>2, <1>3 DEF Observed
    <2> QED
      BY <2>1, <2>2, <2>3, <2>4 DEF LocalOK
  <1> QED
    BY <1>4, <1>5, <1>6, LocalStep

LEMMA SkipStep ==
    ASSUME IInv, NEW w \in Workers, Skip(w)
    PROVE  IInv'
  <1> DEFINE old == loc[w].rec
  <1>0. PICK a \in {0, old.attempts} :
             LastWrite(w, [old EXCEPT !.step = old.step + 1, !.attempts = a])
    BY DEF Skip
  <1> DEFINE new == [old EXCEPT !.step = old.step + 1, !.attempts = a]
  <1>1. loc[w].pc = "act" /\ LastWrite(w, new) /\ UNCHANGED <<chainVars, log>>
    BY <1>0 DEF Skip
  <1>2. old \in Records /\ loc[w].job \in Jobs /\ old.pending = None
    BY <1>1 DEF IInv, LocalOK, Holds
  <1>3. /\ new \in Records
        /\ new.version = old.version /\ new.pending = None
        /\ new.step = old.step + 1 /\ new.quarantined = old.quarantined
        /\ new.txs = old.txs
    BY <1>2, SkippedFields
  <1> HIDE DEF new
  <1>4. CanUpdate(loc[w].job, new) => Legal(loc[w].job, new, log)
    <2>1. SUFFICES ASSUME CanUpdate(loc[w].job, new)
                   PROVE  Legal(loc[w].job, new, log)
      OBVIOUS
    <2>2. payments[loc[w].job] = old
      BY <1>1, <1>3, <2>1, CopyCurrent
    <2> QED
      BY <1>2, <1>3, <2>2, LegalNeutral DEF IInv
  <1> QED
    BY <1>1, <1>3, <1>4, LastWriteStep

\* Who signs the step an engine is in.
LEMMA PlanType ==
    ASSUME IInv, NEW w \in Workers, loc[w].pc \in {"act", "prepare", "journal"}
    PROVE  /\ Plan[<<loc[w].job, loc[w].rec.step>>].signer \in Signers
           /\ Plan[<<loc[w].job, loc[w].rec.step>>].call \in Calls
           /\ loc[w].job \in Jobs
  <1>1. loc[w].job \in Jobs /\ loc[w].rec.step \in Nat /\ loc[w].rec.step < NSteps
    BY DEF IInv, LocalOK, Holds, Records
  <1>2. loc[w].rec.step \in 0 .. NSteps - 1
    BY <1>1, JournalAssumption
  <1>3. <<loc[w].job, loc[w].rec.step>> \in Jobs \X (0 .. NSteps - 1)
    BY <1>1, <1>2
  <1> QED
    BY <1>1, <1>3, JournalAssumption

LEMMA ReserveSignerStep ==
    ASSUME IInv, NEW w \in Workers, ReserveSigner(w)
    PROVE  IInv'
  <1> DEFINE s == Plan[<<loc[w].job, loc[w].rec.step>>].signer
             l == [loc[w] EXCEPT !.pc = "prepare", !.token = uuid]
  <1>1. loc[w].pc = "act" /\ UNCHANGED <<chainVars, log>>
    BY DEF ReserveSigner
  <1>2. s \in Signers /\ loc[w].job \in Jobs
    BY <1>1, PlanType
  <1>3. loc[w] \in Locals /\ LocalOK(loc[w]) /\ uuid \in Nat
    BY DEF IInv, TypeOK
  <1>4. l \in Locals
    BY <1>3 DEF Locals, PCs
  <1>5. l.pc = "prepare" /\ l.token = uuid /\ l.job = loc[w].job /\ l.rec = loc[w].rec
    BY <1>3 DEF Locals
  <1>6. \/ /\ ReserveForRecord(s, loc[w].job, loc[w].rec)
           /\ Goto(w, l) \/ Move(w, "fail")
        \/ Done(w) /\ UNCHANGED storeVars
    BY DEF ReserveSigner
  <1> HIDE DEF l, s
  <1>7. LocalOK(l)
    BY <1>1, <1>3, <1>5 DEF LocalOK, Holds, Current, Logged, Observed
  <1>8. CASE ReserveForRecord(s, loc[w].job, loc[w].rec)
             /\ (Goto(w, l) \/ Move(w, "fail"))
    <2> DEFINE v == [job |-> loc[w].job, token |-> uuid]
    <2>1. /\ reservations[s] = None
          /\ reservations' = [reservations EXCEPT ![s] = v]
          /\ uuid' = uuid + 1 /\ UNCHANGED payments
      BY <1>8 DEF ReserveForRecord, Reserve, CanReserve
    <2>2. v \in [job : Jobs, token : Nat] \cup {None} /\ uuid' \in Nat
      BY <1>2, <1>3, <2>1
    <2>3. PICK k \in Locals : Goto(w, k) /\ LocalOK(k)
      BY <1>1, <1>4, <1>7, <1>8, FailOK DEF Move
    <2>4. UNCHANGED <<payments, chainVars, log>>
      BY <1>1, <2>1
    <2> HIDE DEF v
    <2> QED
      BY <1>2, <2>1, <2>2, <2>3, <2>4, ReserveStep
  <1>9. CASE Done(w) /\ UNCHANGED storeVars
    BY <1>1, <1>9, DoneStep
  <1> QED
    BY <1>6, <1>8, <1>9

LEMMA PrepareOkStep ==
    ASSUME IInv, NEW w \in Workers, PrepareOk(w)
    PROVE  IInv'
  <1> DEFINE p == Plan[<<loc[w].job, loc[w].rec.step>>]
  <1>1. loc[w].pc = "prepare" /\ UNCHANGED <<storeVars, chainVars, log>>
    BY DEF PrepareOk
  <1>2. p.signer \in Signers /\ p.call \in Calls
    BY <1>1, PlanType
  <1>3. PICK at \in Views :
            Goto(w, [loc[w] EXCEPT !.pc = "journal",
                                   !.tx = Prepared(p.call, p.signer, at, loc[w].token)])
    BY DEF PrepareOk
  <1> DEFINE tx == Prepared(p.call, p.signer, at, loc[w].token)
             l == [loc[w] EXCEPT !.pc = "journal", !.tx = tx]
  <1>4. at \in Nat
    BY DEF Views, IInv, TypeOK
  <1>5. loc[w] \in Locals /\ LocalOK(loc[w])
    BY DEF IInv, TypeOK
  <1>6. tx \in Txs
    <2>1. loc[w].token \in Nat
      BY <1>1, <1>5 DEF LocalOK, Holds
    <2> QED
      BY <1>2, <1>4, <2>1, NonceType DEF Prepared, Txs, IInv
  <1> HIDE DEF tx, p
  <1>7. l \in Locals
    BY <1>6, <1>5 DEF Locals, PCs
  <1>8. /\ l.pc = "journal" /\ l.tx = tx /\ l.token = loc[w].token
        /\ l.job = loc[w].job /\ l.rec = loc[w].rec
    BY <1>5 DEF Locals
  <1>9. Goto(w, l)
    BY <1>3 DEF tx
  <1> HIDE DEF l
  <1>10. LocalOK(l)
    BY <1>1, <1>6, <1>5, <1>8 DEF LocalOK, Holds, Current, Logged, Observed
  <1> QED
    BY <1>1, <1>7, <1>9, <1>10, LocalStep

LEMMA PrepareErrStep ==
    ASSUME IInv, NEW w \in Workers, PrepareErr(w)
    PROVE  IInv'
  <1> DEFINE s == Plan[<<loc[w].job, loc[w].rec.step>>].signer
  <1>1. loc[w].pc = "prepare" /\ UNCHANGED <<chainVars, log>>
    BY DEF PrepareErr
  <1>2. s \in Signers
    BY <1>1, PlanType
  <1>3. \/ CancelPreparation(s, loc[w].job, loc[w].token) /\ Move(w, "fail")
        \/ (Done(w) \/ Move(w, "fail")) /\ UNCHANGED storeVars
    BY DEF PrepareErr
  <1> HIDE DEF s
  <1>4. CASE CancelPreparation(s, loc[w].job, loc[w].token) /\ Move(w, "fail")
    <2>1. /\ ~UnresolvedSigner(s)
          /\ reservations' = [reservations EXCEPT ![s] = None]
          /\ UNCHANGED <<payments, uuid>>
      BY <1>4 DEF CancelPreparation, CanCancel
    <2>2. PICK k \in Locals : Goto(w, k) /\ LocalOK(k)
      BY <1>1, <1>4, FailOK DEF Move
    <2>3. uuid' \in Nat /\ UNCHANGED <<payments, chainVars, log>>
      BY <1>1, <2>1 DEF IInv, TypeOK
    <2>4. None \in [job : Jobs, token : Nat] \cup {None}
      OBVIOUS
    <2> QED
      BY <1>2, <2>1, <2>2, <2>3, <2>4, ReserveStep
  <1>5. CASE (Done(w) \/ Move(w, "fail")) /\ UNCHANGED storeVars
    BY <1>1, <1>5, DoneStep, FailStep
  <1> QED
    BY <1>3, <1>4, <1>5

LEMMA WriteJournalStep ==
    ASSUME IInv, NEW w \in Workers, WriteJournal(w)
    PROVE  IInv'
  <1> DEFINE old == loc[w].rec
             new == JournalOf(w)
             j == loc[w].job
             l == [loc[w] EXCEPT !.pc = "broadcast", !.rec = Written(new)]
  <1>1. /\ loc[w].pc = "journal" /\ Update(j, new) /\ UNCHANGED chainVars
        /\ log' = log \cup {[job |-> j, step |-> old.step, tx |-> loc[w].tx]}
        /\ Goto(w, l) \/ Move(w, "fail")
    BY DEF WriteJournal
  <1>2. /\ loc[w] \in Locals /\ LocalOK(loc[w]) /\ TypeOK /\ SharedOK
        /\ j \in Jobs /\ old \in Records /\ loc[w].token \in Nat
        /\ loc[w].tx \in Txs /\ old.pending = None /\ old.quarantined = None
    BY <1>1 DEF IInv, TypeOK, LocalOK, Holds
  <1>3. /\ new \in Records
        /\ new.version = old.version
        /\ new.pending \in Pendings /\ new.pending # None
        /\ new.pending.tx = loc[w].tx
        /\ new.pending.step = old.step
        /\ new.step = old.step
        /\ new.quarantined = None
        /\ new.txs = old.txs
    <2> DEFINE p == [reservation |-> loc[w].token, signer |-> loc[w].tx.signer,
                     tx |-> loc[w].tx, step |-> old.step]
    <2>1. p.tx = loc[w].tx /\ p.step = old.step
      OBVIOUS
    <2>2. /\ p \in Pendings /\ new \in Records
          /\ new.version = old.version /\ new.pending = p
          /\ new.step = old.step /\ new.quarantined = old.quarantined
          /\ new.txs = old.txs
      BY <1>2, JournalFields
    <2> HIDE DEF p, new
    <2> QED
      BY <1>2, <2>1, <2>2, NoneAssumption
  <1> HIDE DEF new
  <1>4. payments[j] = old
    BY <1>1, <1>3, CopyCurrent DEF Update
  <1>5. Entry(j, new.pending) = [job |-> j, step |-> old.step, tx |-> loc[w].tx]
    BY <1>3 DEF Entry
  <1>6. Legal(j, new, log')
    BY <1>1, <1>2, <1>3, <1>4, <1>5 DEF Legal, SharedOK, Booked
  <1>7. old.step \in Nat
    BY <1>2 DEF Records
  <1>8. log' \in SUBSET [job : Jobs, step : Nat, tx : Txs] /\ log \subseteq log'
    BY <1>1, <1>2, <1>7 DEF TypeOK
  <1>9. CASE Goto(w, l)
    <2>1. Written(new) \in Records /\ Written(new).pending = new.pending
      BY <1>3, WrittenFields
    <2>2. payments'[j] = Written(new)
      BY <1>1, <1>2, <1>3, UpdateType
    <2>3. l \in Locals
      BY <1>2, <2>1 DEF Locals, PCs
    <2>4. PICK k \in Locals : k = l
      BY <2>3
    <2>5. /\ k.pc = "broadcast" /\ k.rec = Written(new)
          /\ k.job = j /\ k.tx = loc[w].tx
      BY <1>2, <2>4 DEF Locals
    <2>6. Goto(w, k)
      BY <1>9, <2>4
    <2>7. LocalOK(k)'
      <3>1. Holds(k)'
        BY <1>2, <1>3, <2>1, <2>5 DEF Holds
      <3>2. Current(k)'
        BY <2>1, <2>2, <2>5 DEF Current, Records
      <3>3. Logged(k)'
        BY <1>1, <1>5, <2>1, <2>5 DEF Logged
      <3>4. Observed(k)'
        BY <2>5 DEF Observed
      <3> QED
        BY <3>1, <3>2, <3>3, <3>4 DEF LocalOK
    <2> QED
      BY <1>1, <1>2, <1>3, <1>6, <1>8, <2>6, <2>7, UpdateStep
  <1>10. CASE Move(w, "fail")
    <2>1. PICK k \in Locals : Goto(w, k) /\ LocalOK(k)
      BY <1>1, <1>10, FailOK DEF Move
    <2>2. UNCHANGED <<head, included>>
      BY <1>1 DEF chainVars
    <2>3. LocalOK(k)'
      BY <1>1, <1>2, <1>3, <1>8, <2>1, <2>2, StableUpdate
    <2> QED
      BY <1>1, <1>2, <1>3, <1>6, <1>8, <2>1, <2>3, UpdateStep
  <1> QED
    BY <1>1, <1>9, <1>10

LEMMA BroadcastStep ==
    ASSUME IInv, NEW w \in Workers, Broadcast(w)
    PROVE  IInv'
  <1> DEFINE l == [loc[w] EXCEPT !.pc = "watch"]
  <1>1. /\ loc[w].pc = "broadcast" /\ Goto(w, l)
        /\ pool' = pool \cup {loc[w].tx}
        /\ UNCHANGED <<payments, reservations, uuid, head, included, log>>
    BY DEF Broadcast, Submit, Move, storeVars
  <1>2. loc[w] \in Locals /\ LocalOK(loc[w])
    BY DEF IInv, TypeOK
  <1>3. l \in Locals
    BY <1>2 DEF Locals, PCs
  <1>4. l.pc = "watch" /\ l.tx = loc[w].tx /\ l.job = loc[w].job /\ l.rec = loc[w].rec
    BY <1>2 DEF Locals
  <1> HIDE DEF l
  <1>5. LocalOK(l)
    BY <1>1, <1>2, <1>4 DEF LocalOK, Holds, Current, Logged, Observed
  <1>6. \A k \in Locals : LocalOK(k) => LocalOK(k)'
    BY <1>1, StableSame
  <1>7. loc' \in [Workers -> Locals] /\ \A v \in Workers : LocalOK(loc[v])'
    BY <1>1, <1>3, <1>5, <1>6, EnginesOK
  <1>8. /\ loc[w].tx = loc[w].rec.pending.tx
        /\ Entry(loc[w].job, loc[w].rec.pending) \in log
        /\ loc[w].rec.pending \in Pendings
    BY <1>1, <1>2, NoneAssumption DEF LocalOK, Holds, Logged, Records
  <1>9. (\E e \in log : e.tx = loc[w].tx) /\ loc[w].tx \in Txs
    BY <1>8 DEF Entry, Pendings
  <1>10. SharedOK'
    BY <1>1, <1>9, SharedSubmit DEF IInv
  <1> QED
    BY <1>1, <1>7, <1>9, <1>10 DEF IInv, TypeOK

LEMMA FinalizedStep ==
    ASSUME IInv, NEW w \in Workers, Finalized(w)
    PROVE  IInv'
  <1> DEFINE l == [loc[w] EXCEPT !.pc = "apply"]
  <1>1. /\ loc[w].pc = "watch" /\ Goto(w, l) /\ FinalizedWith(loc[w].tx, "ok")
        /\ UNCHANGED <<storeVars, chainVars, log>>
    BY DEF Finalized, Move
  <1>2. loc[w] \in Locals /\ LocalOK(loc[w])
    BY DEF IInv, TypeOK
  <1>3. l \in Locals
    BY <1>2 DEF Locals, PCs
  <1>4. l.pc = "apply" /\ l.tx = loc[w].tx /\ l.job = loc[w].job /\ l.rec = loc[w].rec
    BY <1>2 DEF Locals
  <1> HIDE DEF l
  <1>5. LocalOK(l)
    BY <1>1, <1>2, <1>4 DEF LocalOK, Holds, Current, Logged, Observed
  <1> QED
    BY <1>1, <1>3, <1>5, LocalStep

LEMMA ApplyStep ==
    ASSUME IInv, NEW w \in Workers, Apply(w)
    PROVE  IInv'
  <1> DEFINE old == loc[w].rec
             j == loc[w].job
  <1>1. /\ loc[w].pc = "apply" /\ LastWrite(w, Applied(old))
        /\ UNCHANGED <<chainVars, log>>
    BY DEF Apply
  <1>2. /\ old \in Records /\ old.pending # None /\ j \in Jobs
        /\ FinalizedWith(old.pending.tx, "ok")
    BY <1>1 DEF IInv, LocalOK, Holds, Observed
  <1>3. Applied(old) \in Records /\ Applied(old).version = old.version
    BY <1>2, AppliedFields
  <1>4. CanUpdate(j, Applied(old)) => Legal(j, Applied(old), log)
    <2>1. SUFFICES ASSUME CanUpdate(j, Applied(old))
                   PROVE  Legal(j, Applied(old), log)
      OBVIOUS
    <2>2. payments[j] = old
      BY <1>1, <1>3, <2>1, CopyCurrent
    <2>3. [step |-> old.pending.step, tx |-> old.pending.tx] = Receipt(old.pending)
      BY DEF Receipt
    <2> QED
      BY <1>2, <2>2, <2>3, AppliedFields, LegalBook DEF IInv
  <1> QED
    BY <1>1, <1>3, <1>4, LastWriteStep

LEMMA FailHandlerStep ==
    ASSUME IInv, NEW w \in Workers, Fail(w)
    PROVE  IInv'
  <1> DEFINE cur == payments[loc[w].job]
             new == RecordFailure(cur, MaxAttempts)
  <1>1. /\ loc[w].pc = "fail" /\ Done(w) /\ UNCHANGED <<chainVars, log>>
        /\ Update(loc[w].job, new) \/ UNCHANGED storeVars
    BY DEF Fail
  <1>2. loc[w].job \in Jobs /\ cur \in Records /\ MaxAttempts \in Nat
    BY <1>1, JournalAssumption DEF IInv, TypeOK, LocalOK, Holds
  <1>3. /\ new \in Records /\ new.pending = cur.pending /\ new.step = cur.step
        /\ new.quarantined = cur.quarantined /\ new.txs = cur.txs
    BY <1>2, FailureFields
  <1> HIDE DEF new
  <1>4. Legal(loc[w].job, new, log)
    BY <1>2, <1>3, LegalNeutral DEF IInv
  <1>5. CASE Update(loc[w].job, new)
    BY <1>1, <1>3, <1>4, <1>5, EndStep
  <1>6. CASE UNCHANGED storeVars
    BY <1>1, <1>6, DoneStep
  <1> QED
    BY <1>1, <1>5, <1>6

(* What find_pending answers from a view of the chain stays true. *)
LEMMA FindSound ==
    ASSUME TypeOK, InWindow, NEW tx \in Txs, NEW at \in Views,
           NEW o \in FindPending(tx, at), o # "wait"
    PROVE  /\ o \in Outcomes \cup {"dead"}
           /\ IF o = "dead" THEN Spent(tx) ELSE FinalizedWith(tx, o)
  <1>1. at \in Nat /\ at <= head /\ tx.birth \in Nat
    BY DEF Views, TypeOK, Txs
  <1>2. CASE Found(tx, at) # {}
    <2>1. PICK i \in Found(tx, at) : o = i.outcome
      BY <1>2 DEF FindPending
    <2>2. i \in included /\ i.tx = tx /\ i.block <= at
      BY DEF Found
    <2>3. i.block \in Nat /\ i.outcome \in Outcomes
      BY <2>2 DEF TypeOK
    <2> QED
      BY <1>1, <2>1, <2>2, <2>3 DEF FinalizedWith, Outcomes, TypeOK
  <1>3. CASE Found(tx, at) = {}
    <2>1. o = "dead" /\ at > tx.birth + Mortality + 1
      BY <1>3 DEF FindPending, Horizon
    <2>2. ASSUME NEW i \in included, i.tx = tx
          PROVE  FALSE
      <3>1. i.block \in Nat /\ tx.birth < i.block /\ i.block <= tx.birth + Mortality
        BY <2>2 DEF InWindow, TypeOK
      <3>2. i \in Found(tx, at)
        BY <1>1, <2>1, <2>2, <3>1, MortalityAssumption DEF Found, Horizon
      <3> QED
        BY <1>3, <3>2
    <2>3. head > tx.birth + Mortality
      BY <1>1, <2>1, MortalityAssumption DEF TypeOK
    <2> QED
      BY <2>1, <2>2, <2>3 DEF Spent
  <1> QED
    BY <1>2, <1>3

LEMMA ScanStep ==
    ASSUME IInv, NEW w \in Workers, Scan(w)
    PROVE  IInv'
  <1> DEFINE tx == loc[w].rec.pending.tx
  <1>1. loc[w].pc = "scan" /\ UNCHANGED <<storeVars, chainVars, log>>
    BY DEF Scan
  <1>2. /\ loc[w] \in Locals /\ LocalOK(loc[w])
        /\ loc[w].rec.pending \in Pendings /\ tx \in Txs
    BY <1>1, NoneAssumption DEF IInv, TypeOK, LocalOK, Holds, Records, Pendings
  <1>3. PICK at \in Views : \E o \in FindPending(tx, at) :
            IF o = "wait" THEN Done(w)
            ELSE Goto(w, [loc[w] EXCEPT !.pc = "resolve", !.seen = o])
    BY DEF Scan
  <1>4. PICK o \in FindPending(tx, at) :
            IF o = "wait" THEN Done(w)
            ELSE Goto(w, [loc[w] EXCEPT !.pc = "resolve", !.seen = o])
    BY <1>3
  <1>5. CASE o = "wait"
    BY <1>1, <1>4, <1>5, DoneStep
  <1>6. CASE o # "wait"
    <2> DEFINE l == [loc[w] EXCEPT !.pc = "resolve", !.seen = o]
    <2>1. /\ o \in Outcomes \cup {"dead"}
          /\ IF o = "dead" THEN Spent(tx) ELSE FinalizedWith(tx, o)
      BY <1>2, <1>6, FindSound DEF IInv, SharedOK
    <2>2. l \in Locals
      BY <1>2, <2>1 DEF Locals, PCs
    <2>3. /\ l.pc = "resolve" /\ l.seen = o
          /\ l.job = loc[w].job /\ l.rec = loc[w].rec
      BY <1>2 DEF Locals
    <2>4. Goto(w, l)
      BY <1>4, <1>6
    <2> HIDE DEF l
    <2>5. Holds(l) /\ Current(l) /\ Logged(l)
      BY <1>1, <1>2, <2>1, <2>3 DEF LocalOK, Holds, Current, Logged
    <2>6. Observed(l)
      BY <2>1, <2>3 DEF Observed
    <2> QED
      BY <1>1, <2>2, <2>4, <2>5, <2>6, LocalStep DEF LocalOK
  <1> QED
    BY <1>5, <1>6

LEMMA ResolveStep ==
    ASSUME IInv, NEW w \in Workers, Resolve(w)
    PROVE  IInv'
  <1> DEFINE old == loc[w].rec
             j == loc[w].job
             o == loc[w].seen
             new == Resolved(old, o)
  <1>1. /\ loc[w].pc = "resolve" /\ Done(w) /\ UNCHANGED <<chainVars, log>>
        /\ Update(j, new) \/ UNCHANGED storeVars
    BY DEF Resolve
  <1>2. /\ old \in Records /\ old.pending # None /\ j \in Jobs
        /\ o \in Outcomes \cup {"dead"}
        /\ IF o = "dead" THEN Spent(old.pending.tx)
           ELSE FinalizedWith(old.pending.tx, o)
    BY <1>1 DEF IInv, LocalOK, Holds, Observed
  <1>3. new \in Records /\ new.version = old.version
    BY <1>2, ResolvedFields
  <1>4. CASE Update(j, new)
    <2>1. payments[j] = old
      BY <1>1, <1>3, <1>4, CopyCurrent DEF Update
    <2>2. Legal(j, new, log)
      BY <1>2, <2>1, LegalResolved DEF IInv
    <2> QED
      BY <1>1, <1>3, <1>4, <2>2, EndStep
  <1>5. CASE UNCHANGED storeVars
    BY <1>1, <1>5, DoneStep
  <1> QED
    BY <1>1, <1>4, <1>5

LEMMA ResumeStep ==
    ASSUME IInv, NEW j \in Jobs, Retry(j) \/ ForceSweep(j)
    PROVE  IInv'
  <1> DEFINE r == Resumed(payments[j])
  <1>1. /\ Update(j, r) /\ UNCHANGED <<head, included, pool>>
        /\ loc' = loc /\ log' = log
    BY DEF Retry, ForceSweep, chainVars
  <1>2. payments[j] \in Records /\ TypeOK /\ SharedOK
    BY DEF IInv, TypeOK
  <1>3. r \in Records
    BY <1>2, ResumedFields
  <1>4. Legal(j, r, log)
    BY <1>2, <1>3, ResumedFields, LegalNeutral
  <1>5. SharedOK'
    BY <1>1, <1>2, <1>3, <1>4, SharedUpdate
  <1>6. \A k \in Locals : LocalOK(k) => LocalOK(k)'
    BY <1>1, <1>2, <1>3, StableUpdate
  <1>7. ASSUME NEW v \in Workers
        PROVE  LocalOK(loc[v])'
    <2>1. PICK k \in Locals : k = loc[v]
      BY DEF IInv, TypeOK
    <2>2. LocalOK(k)'
      BY <1>6, <2>1 DEF IInv
    <2>3. loc'[v] = k
      BY <1>1, <2>1
    <2> QED
      BY <2>2, <2>3 DEF LocalOK, Holds, Current, Logged, Observed,
                        FinalizedWith, Spent
  <1> QED
    BY <1>1, <1>2, <1>3, <1>5, <1>7, UpdateType DEF IInv, TypeOK

LEMMA ChainStepOK ==
    ASSUME IInv, ChainStep
    PROVE  IInv'
  <1>1. UNCHANGED <<payments, reservations, uuid, loc, log>>
    BY DEF ChainStep, storeVars
  <1>2. SharedOK'
    BY SharedChain DEF IInv
  <1>3. ASSUME NEW v \in Workers
        PROVE  LocalOK(loc[v])'
    <2>1. PICK k \in Locals : k = loc[v]
      BY DEF IInv, TypeOK
    <2>2. LocalOK(k)'
      BY <2>1, StableChain DEF IInv
    <2>3. loc'[v] = k
      BY <1>1, <2>1
    <2> QED
      BY <2>2, <2>3 DEF LocalOK, Holds, Current, Logged, Observed,
                        FinalizedWith, Spent
  <1> QED
    BY <1>1, <1>2, <1>3, ChainGrows DEF IInv, TypeOK

-----------------------------------------------------------------------------
(* The tables, the log and every engine start empty. *)
LEMMA InitOK == Init => IInv
  <1> SUFFICES ASSUME Init PROVE IInv
    OBVIOUS
  <1>1. NewRecord \in Records /\ NewRecord.pending = None /\ NewRecord.txs = {}
    BY DEF NewRecord, Records
  <1>2. \A j \in Jobs : payments[j].pending = None /\ payments[j].txs = {}
    BY <1>1 DEF Init
  <1>3. TypeOK
    BY <1>1, IdleOK, FS_EmptySet DEF Init, TypeOK
  <1>4. SharedOK
    BY <1>2 DEF Init, SharedOK, JournalOwned, JournalLogged, JournaledFirst,
                InWindow, Accounted, Booked, ReceiptsFinal, Journaled
  <1>5. \A w \in Workers : LocalOK(loc[w])
    BY IdleOK DEF Init
  <1> QED
    BY <1>3, <1>4, <1>5 DEF IInv

LEMMA NextOK == IInv /\ [Next]_vars => IInv'
  <1> SUFFICES ASSUME IInv, [Next]_vars PROVE IInv'
    OBVIOUS
  <1>1. ASSUME NEW w \in Workers, EngineStep(w)
        PROVE  IInv'
    <2>1. ASSUME NEW j \in Jobs, List(w, j) PROVE IInv'
      BY <2>1, ListStep
    <2>2. CASE Skip(w)
      BY <2>2, SkipStep
    <2>3. CASE StepError(w)
      BY <2>3, FailStep DEF StepError
    <2>4. CASE ReserveSigner(w)
      BY <2>4, ReserveSignerStep
    <2>5. CASE PrepareOk(w)
      BY <2>5, PrepareOkStep
    <2>6. CASE PrepareErr(w)
      BY <2>6, PrepareErrStep
    <2>7. CASE WriteJournal(w)
      BY <2>7, WriteJournalStep
    <2>8. CASE JournalRefused(w)
      BY <2>8, RefusedStep DEF JournalRefused
    <2>9. CASE Broadcast(w)
      BY <2>9, BroadcastStep
    <2>10. CASE BroadcastErr(w)
      BY <2>10, FailStep DEF BroadcastErr
    <2>11. CASE Finalized(w)
      BY <2>11, FinalizedStep
    <2>12. CASE Apply(w)
      BY <2>12, ApplyStep
    <2>13. CASE Fail(w)
      BY <2>13, FailHandlerStep
    <2>14. CASE Scan(w)
      BY <2>14, ScanStep
    <2>15. CASE ScanErr(w)
      BY <2>15, DoneStep DEF ScanErr
    <2>16. CASE Resolve(w)
      BY <2>16, ResolveStep
    <2>17. CASE Crash(w)
      BY <2>17, DoneStep DEF Crash
    <2> QED
      BY <1>1, <2>1, <2>2, <2>3, <2>4, <2>5, <2>6, <2>7, <2>8, <2>9, <2>10,
         <2>11, <2>12, <2>13, <2>14, <2>15, <2>16, <2>17 DEF EngineStep, Await
  <1>2. ASSUME NEW j \in Jobs, Retry(j) \/ ForceSweep(j)
        PROVE  IInv'
    BY <1>2, ResumeStep
  <1>3. CASE ChainStep
    BY <1>3, ChainStepOK
  <1>4. CASE UNCHANGED vars
    BY <1>4 DEF vars, IInv, TypeOK, SharedOK, JournalOwned, JournalLogged,
                JournaledFirst, InWindow, Accounted, Booked, ReceiptsFinal,
                Journaled, Fenced, OwnedJournal, Owns, LocalOK, Holds, Current,
                Logged, Observed, FinalizedWith, Spent
  <1> QED
    BY <1>1, <1>2, <1>3, <1>4 DEF Next

(* The inductive invariant of the journal protocol holds in every state of  *)
(* send_journaled and reconcile_journaled, whatever the engines, the store, *)
(* the chain and the operator do.                                           *)
THEOREM Inductive == Spec => []IInv
  BY InitOK, NextOK, PTL DEF Spec

(* The tables, the chain's history and the engines' copies keep their       *)
(* types: in particular every record that update stores is a whole record.  *)
THEOREM TypeCorrect == Spec => []TypeOK
  <1>1. IInv => TypeOK
    BY DEF IInv
  <1> QED
    BY <1>1, Inductive, PTL

(* No economic step takes effect twice: a rival engine, a restart, a lost   *)
(* reply or a retry never pays or buys a second time (send_journaled).      *)
THEOREM AtMostOnce == Spec => []NoStepTwice
  <1>1. IInv => NoStepTwice
    <2> SUFFICES ASSUME IInv, NEW e \in log, NEW f \in log,
                        e.job = f.job, e.step = f.step,
                        Effective(e), Effective(f)
                 PROVE  e.tx = f.tx
      BY DEF NoStepTwice
    <2> DEFINE r == payments[e.job]
    <2>1. ~Spent(e.tx) /\ ~Spent(f.tx)
      BY DEF Effective, Spent
    <2>2. e.job \in Jobs /\ r \in Records /\ e.step \in Nat
      BY DEF IInv, TypeOK
    <2>3. /\ \/ r.pending # None /\ Entry(e.job, r.pending) = e
             \/ Receipt(e) \in r.txs
          /\ \/ r.pending # None /\ Entry(e.job, r.pending) = f
             \/ Receipt(f) \in r.txs
      BY <2>1 DEF IInv, SharedOK, Accounted
    <2>4. ASSUME r.pending # None, NEW d \in {e, f}, Entry(e.job, r.pending) = d
          PROVE  \A a \in r.txs : a.step < e.step
      BY <2>2, <2>4 DEF IInv, SharedOK, JournalLogged, Booked, Entry
    <2>5. Receipt(e).step = e.step /\ Receipt(f).step = e.step
          /\ Receipt(e).tx = e.tx /\ Receipt(f).tx = f.tx
      BY DEF Receipt
    <2>6. CASE Receipt(e) \in r.txs /\ Receipt(f) \in r.txs
      BY <2>2, <2>5, <2>6 DEF IInv, SharedOK, Booked
    <2> QED
      BY <2>2, <2>3, <2>4, <2>5, <2>6
  <1> QED
    BY <1>1, Inductive, PTL

(* What took effect on the chain is journaled or booked: find_pending never *)
(* declares dead what is included later, and no update drops a receipt.     *)
THEOREM NothingForgotten == Spec => []NoLostSpend
  <1>1. IInv => NoLostSpend
    <2> SUFFICES ASSUME IInv, NEW e \in log, Effective(e)
                 PROVE  \/ /\ payments[e.job].pending # None
                           /\ payments[e.job].pending.tx = e.tx
                        \/ [step |-> e.step, tx |-> e.tx] \in payments[e.job].txs
      BY DEF NoLostSpend
    <2>1. ~Spent(e.tx)
      BY DEF Effective, Spent
    <2> QED
      BY <2>1 DEF IInv, SharedOK, Accounted, Entry, Receipt
  <1> QED
    BY <1>1, Inductive, PTL

(* Every receipt is of a finalized extrinsic that did not fail (apply runs  *)
(* on finalized events only).                                               *)
THEOREM ReceiptsAreFinal == Spec => []ReceiptsFinal
  <1>1. IInv => ReceiptsFinal
    BY DEF IInv, SharedOK
  <1> QED
    BY <1>1, Inductive, PTL

(* The store's reservations serialise a signer: two jobs never hold open    *)
(* journals of the same account (store.rs: reserve, update).                *)
THEOREM SignerExclusive == Spec => []OneJournalPerSigner
  <1>1. IInv => OneJournalPerSigner
    <2> SUFFICES ASSUME IInv, NEW j \in Jobs, NEW k \in Jobs, Fenced(j),
                        Journaled(k), payments[j].pending.signer =
                                      payments[k].pending.signer
                 PROVE  j = k
      BY DEF OneJournalPerSigner
    <2>1. Owned
      BY OwnedForm DEF IInv, TypeOK, SharedOK
    <2>2. payments[j].pending # None /\ payments[k].pending # None
      BY DEF Fenced, Journaled
    <2>3. [job |-> j, token |-> payments[j].pending.reservation] =
          [job |-> k, token |-> payments[k].pending.reservation]
      BY <2>1, <2>2 DEF Owned
    <2> QED
      BY <2>3
  <1> QED
    BY <1>1, Inductive, PTL

-----------------------------------------------------------------------------
(* Reservation tokens. *)

(* The engine owns no new token, and what it signed carries its own.        *)
Keeps(k, l) ==
    Signing(l) =>
        /\ Signing(k)
        /\ l.token = k.token /\ l.job = k.job /\ l.rec = k.rec
        /\ l.pc = "journal" =>
             /\ l.tx.sig = l.token
             /\ l.tx.signer = Plan[<<l.job, l.rec.step>>].signer

\* The table loses rows at most.
Shrinks == \A s \in Signers : reservations'[s] \in {reservations[s], None}

(* A step that gives out no token and journals nothing. *)
LEMMA TokenFrame ==
    ASSUME TokenInv, UNCHANGED <<uuid, log>>, Shrinks,
           \A v \in Workers : Keeps(loc[v], loc'[v])
    PROVE  TokenInv'
  <1>1. TokensUnique'
    BY DEF TokenInv, TokensUnique, Shrinks
  <1>2. SigsUnique'
    BY DEF TokenInv, SigsUnique
  <1>3. TokensApart'
    BY DEF TokenInv, TokensApart, Keeps
  <1>4. ASSUME NEW v \in Workers
        PROVE  TokenOwn(loc[v])'
    BY DEF TokenInv, TokenOwn, Keeps, Shrinks
  <1> QED
    BY <1>1, <1>2, <1>3, <1>4 DEF TokenInv

(* The same when one engine moves. *)
LEMMA TokenMove ==
    ASSUME IInv, TokenInv, UNCHANGED <<uuid, log>>, Shrinks,
           NEW w \in Workers, NEW l, Goto(w, l), Keeps(loc[w], l)
    PROVE  TokenInv'
  <1>1. ASSUME NEW v \in Workers
        PROVE  Keeps(loc[v], loc'[v])
    <2>1. loc' = [loc EXCEPT ![w] = l] /\ loc \in [Workers -> Locals]
      BY DEF Goto, IInv, TypeOK
    <2>2. CASE v = w
      BY <2>1, <2>2
    <2>3. CASE v # w
      BY <2>1, <2>3 DEF Keeps, TokenInv, TokenOwn
    <2> QED
      BY <2>2, <2>3
  <1> QED
    BY <1>1, TokenFrame

(* An engine that leaves a step owns no token. *)
LEMMA LeaveKeeps ==
    ASSUME NEW l \in Locals
    PROVE  /\ \A k : Keeps(k, Idle)
           /\ \A k, pc : pc \notin {"prepare", "journal"} =>
                            Keeps(k, [l EXCEPT !.pc = pc])
  BY DEF Keeps, Signing, Idle, Locals

(* An update deletes at most the row of the journal it clears. *)
LEMMA UpdateShrinks ==
    ASSUME IInv, NEW j, NEW r, Update(j, r)
    PROVE  Shrinks /\ uuid' = uuid
  <1>1. reservations \in [Signers -> [job : Jobs, token : Nat] \cup {None}]
    BY DEF IInv, TypeOK
  <1> QED
    BY <1>1 DEF Update, Shrinks

\* The steps of an engine that neither take a token nor use one.
Quiet(w) ==
    \/ Skip(w) \/ StepError(w) \/ JournalRefused(w)
    \/ Broadcast(w) \/ BroadcastErr(w) \/ Finalized(w)
    \/ Apply(w) \/ Fail(w) \/ Scan(w) \/ ScanErr(w) \/ Resolve(w) \/ Crash(w)
    \/ \E j \in Jobs : List(w, j)

\* The engine leaves, or its step goes on without a token.
Leaves(w) == \E l : Goto(w, l) /\ ~Signing(l)

\* The store is as it was or takes a whole record.
Stores == UNCHANGED storeVars \/ \E j \in Jobs, r \in Records : Update(j, r)

LEMMA QuietStep ==
    ASSUME IInv, NEW w \in Workers, Quiet(w)
    PROVE  log' = log /\ Leaves(w) /\ Stores
  <1>1. /\ loc[w] \in Locals /\ LocalOK(loc[w]) /\ MaxAttempts \in Nat
        /\ payments \in [Jobs -> Records]
    BY JournalAssumption DEF IInv, TypeOK
  <1>2. \A pc \in PCs : [loc[w] EXCEPT !.pc = pc].pc = pc
    BY <1>1 DEF Locals
  <1>3. /\ Done(w) => Leaves(w)
        /\ \A pc \in {"fail", "watch", "apply"} : Move(w, pc) => Leaves(w)
    <2>1. Idle.pc = "idle"
      BY DEF Idle
    <2>2. ASSUME NEW pc \in {"fail", "watch", "apply"}, Move(w, pc)
          PROVE  Leaves(w)
      <3> DEFINE l == [loc[w] EXCEPT !.pc = pc]
      <3>1. l.pc = pc /\ Goto(w, l)
        BY <1>2, <2>2 DEF PCs, Move
      <3> QED
        BY <3>1 DEF Leaves, Signing
    <2> QED
      BY <2>1, <2>2 DEF Done, Leaves, Signing
  <1>4. CASE \/ StepError(w) \/ JournalRefused(w) \/ Broadcast(w)
            \/ BroadcastErr(w) \/ Finalized(w) \/ ScanErr(w) \/ Crash(w)
    BY <1>3, <1>4 DEF StepError, JournalRefused, Refused, Broadcast,
       BroadcastErr, Finalized, ScanErr, Crash, Stores
  <1>5. CASE Scan(w)
    <2>1. PICK o : Done(w) \/ Goto(w, [loc[w] EXCEPT !.pc = "resolve", !.seen = o])
      BY <1>5 DEF Scan
    <2>2. [loc[w] EXCEPT !.pc = "resolve", !.seen = o].pc = "resolve"
      BY <1>1 DEF Locals
    <2>3. Leaves(w)
      BY <1>3, <2>1, <2>2 DEF Leaves, Signing
    <2> QED
      BY <1>5, <2>3 DEF Scan, Stores
  <1>6. ASSUME NEW j \in Jobs, List(w, j)
        PROVE  log' = log /\ Leaves(w) /\ Stores
    <2> DEFINE l == [Idle EXCEPT !.job = j, !.rec = payments[j],
                   !.pc = IF payments[j].pending # None THEN "scan" ELSE "act"]
    <2>1. l.pc \in {"scan", "act"}
      BY DEF Idle
    <2>2. Goto(w, l)
      BY <1>6 DEF List
    <2> QED
      BY <1>6, <2>1, <2>2 DEF List, Leaves, Stores, Signing
  <1>7. ASSUME NEW r \in Records, LastWrite(w, r), loc[w].job \in Jobs
        PROVE  Leaves(w) /\ Stores
    BY <1>3, <1>7 DEF LastWrite, Refused, Stores
  <1>8. CASE Skip(w)
    BY <1>1, <1>7, <1>8, SkippedFields DEF Skip, LocalOK, Holds
  <1>9. CASE Apply(w)
    BY <1>1, <1>7, <1>9, AppliedFields DEF Apply, LocalOK, Holds
  <1>10. CASE Fail(w)
    BY <1>1, <1>3, <1>10, FailureFields DEF Fail, LocalOK, Holds, Stores
  <1>11. CASE Resolve(w)
    BY <1>1, <1>3, <1>11, ResolvedFields DEF Resolve, LocalOK, Holds, Stores
  <1> QED
    BY <1>4, <1>5, <1>6, <1>8, <1>9, <1>10, <1>11 DEF Quiet

LEMMA ResumeStores ==
    ASSUME IInv, NEW j \in Jobs, Retry(j) \/ ForceSweep(j)
    PROVE  UNCHANGED <<log, loc>> /\ Stores
  <1>1. payments[j] \in Records
    BY DEF IInv, TypeOK
  <1> QED
    BY <1>1, ResumedFields DEF Retry, ForceSweep, Stores

LEMMA StoresShrinks ==
    ASSUME IInv, Stores
    PROVE  Shrinks /\ uuid' = uuid
  BY UpdateShrinks DEF Stores, storeVars, Shrinks

(* The two steps that do more: a new token, and a new journal. *)
LEMMA ReserveTokens ==
    ASSUME IInv, TokenInv, NEW w \in Workers, ReserveSigner(w)
    PROVE  TokenInv'
  <1> DEFINE j == loc[w].job
             signer == Plan[<<j, loc[w].rec.step>>].signer
             row == [job |-> j, token |-> uuid]
  <1>1. /\ loc \in [Workers -> Locals] /\ uuid \in Nat
        /\ reservations \in [Signers -> [job : Jobs, token : Nat] \cup {None}]
        /\ loc[w].pc = "act" /\ j \in Jobs
    BY DEF IInv, TypeOK, ReserveSigner, LocalOK, Holds
  <1>2. CASE Done(w) /\ UNCHANGED storeVars
    <2>1. log' = log /\ Shrinks /\ uuid' = uuid
      BY <1>2 DEF ReserveSigner, storeVars, Shrinks
    <2> QED
      BY <1>2, <2>1, TokenMove, LeaveKeeps, <1>1 DEF Done
  <1>3. ASSUME ReserveForRecord(signer, j, loc[w].rec),
               NEW l, Goto(w, l),
               \/ l = [loc[w] EXCEPT !.pc = "prepare", !.token = uuid]
               \/ l = [loc[w] EXCEPT !.pc = "fail"],
               log' = log
        PROVE  TokenInv'
    <2>1. /\ reservations' = [reservations EXCEPT ![signer] = row]
          /\ uuid' = uuid + 1
          /\ loc' = [loc EXCEPT ![w] = l]
      BY <1>3 DEF ReserveForRecord, Reserve, Goto
    <2>2. \A s \in Signers :
             IF s = signer THEN reservations'[s] = row
             ELSE reservations'[s] = reservations[s]
      BY <1>1, <2>1
    <2>3. Signing(l) => /\ l.pc = "prepare" /\ l.token = uuid
                        /\ l.job = j /\ l.rec = loc[w].rec
      BY <1>1, <1>3 DEF Signing, Locals
    <2>4. loc'[w] = l /\ \A v \in Workers : v # w => loc'[v] = loc[v]
      BY <1>1, <2>1
    <2>5. row # None /\ row.token = uuid /\ row.job = j
      BY <1>1, NoneAssumption
    <2>6. \A v \in Workers : Signing(loc[v]) => loc[v].token \in Nat
      BY DEF IInv, LocalOK, Holds, Signing
    <2>7. \A e \in log : e.tx.sig \in Nat
      BY DEF IInv, TypeOK, Txs
    <2>8. \A s \in Signers : reservations[s] # None => reservations[s].token \in Nat
      BY <1>1
    <2> HIDE DEF row, signer
    <2>9. TokensUnique'
      BY <1>1, <2>1, <2>2, <2>5, <2>8 DEF TokenInv, TokensUnique
    <2>10. SigsUnique'
      BY <1>1, <1>3, <2>1, <2>7 DEF TokenInv, SigsUnique
    <2>11. TokensApart'
      <3>1. \A v \in Workers : Signing(loc[v]) => loc[v].token # uuid
        <4> SUFFICES ASSUME NEW v \in Workers, Signing(loc[v])
                     PROVE  loc[v].token # uuid
          OBVIOUS
        <4>1. loc[v].token \in Nat
          BY <2>6
        <4>2. loc[v].token < uuid
          BY DEF TokenInv, TokenOwn
        <4> QED
          BY <1>1, <4>1, <4>2
      <3>2. SUFFICES ASSUME NEW u \in Workers, NEW v \in Workers,
                            Signing(loc'[u]), Signing(loc'[v]),
                            loc'[u].token = loc'[v].token
                     PROVE  u = v
        BY DEF TokensApart, Signing
      <3>3. u # w /\ v # w => loc[u].token = loc[v].token /\ u = v
        BY <2>4, <3>2 DEF TokenInv, TokensApart
      <3> QED
        BY <2>3, <2>4, <3>1, <3>2, <3>3
    <2>12. TokenOwn(loc[w])'
      <3>1. Signing(l) => \A s \in Signers :
               reservations'[s] # None /\ reservations'[s].token = uuid =>
                  s = signer /\ reservations'[s] = row
        BY <1>1, <2>2, <2>8 DEF TokenInv, TokensUnique
      <3>2. \A e \in log : e.tx.sig # uuid
        BY <1>1, <2>7 DEF TokenInv, SigsUnique
      <3> SUFFICES ASSUME Signing(l) PROVE TokenOwn(loc[w])'
        BY <2>4 DEF TokenOwn, Signing
      <3>3. l.token < uuid' /\ \A e \in log' : e.tx.sig # l.token
        BY <1>1, <1>3, <2>1, <2>3, <3>2
      <3>4. ASSUME NEW s \in Signers, reservations'[s] # None,
                   reservations'[s].token = l.token
            PROVE  /\ s = Plan[<<l.job, l.rec.step>>].signer
                   /\ reservations'[s].job = l.job
        BY <2>3, <2>5, <3>1, <3>4 DEF signer
      <3> QED
        BY <2>3, <2>4, <3>3, <3>4 DEF TokenOwn
    <2>13. ASSUME NEW v \in Workers, v # w
           PROVE  TokenOwn(loc[v])'
      <3>1. Signing(loc[v]) => loc[v].token < uuid
        BY DEF TokenInv, TokenOwn
      <3> QED
        BY <1>1, <1>3, <2>1, <2>2, <2>4, <2>5, <2>6, <2>13, <3>1
           DEF TokenInv, TokenOwn
    <2> QED
      BY <2>9, <2>10, <2>11, <2>12, <2>13 DEF TokenInv
  <1> QED
    BY <1>2, <1>3 DEF ReserveSigner, Move

LEMMA JournalTokens ==
    ASSUME IInv, TokenInv, NEW w \in Workers, WriteJournal(w)
    PROVE  TokenInv'
  <1> DEFINE tx == loc[w].tx
             entry == [job |-> loc[w].job, step |-> loc[w].rec.step, tx |-> tx]
  <1>1. /\ loc[w].pc = "journal" /\ Update(loc[w].job, JournalOf(w))
        /\ log' = log \cup {entry}
    BY DEF WriteJournal
  <1>2. loc \in [Workers -> Locals] /\ loc[w] \in Locals
    BY DEF IInv, TypeOK
  <1>3. PICK l : loc' = [loc EXCEPT ![w] = l] /\ ~Signing(l)
    <2> DEFINE b == [loc[w] EXCEPT !.pc = "broadcast", !.rec = Written(JournalOf(w))]
               f == [loc[w] EXCEPT !.pc = "fail"]
    <2>1. b.pc = "broadcast" /\ f.pc = "fail"
      BY <1>2 DEF Locals
    <2>2. Goto(w, b) \/ Goto(w, f)
      BY DEF WriteJournal, Move
    <2> HIDE DEF b, f
    <2> QED
      BY <2>1, <2>2 DEF Goto, Signing
  <1>4. \A v \in Workers : Signing(loc'[v]) => v # w /\ loc'[v] = loc[v]
    BY <1>2, <1>3
  <1>5. loc[w].job \in Jobs /\ JournalOf(w) \in Records
    BY <1>1, JournalFields DEF IInv, LocalOK, Holds
  <1>6. Shrinks /\ uuid' = uuid
    BY <1>1, <1>5, UpdateShrinks
  <1>7. entry.tx.sig = loc[w].token /\ entry.tx.sig < uuid
    BY <1>1 DEF TokenInv, TokenOwn, Signing
  <1>8. \A e \in log : e.tx.sig # entry.tx.sig
    BY <1>1, <1>7 DEF TokenInv, TokenOwn, Signing
  <1>9. \A v \in Workers : Signing(loc'[v]) => loc[v].token # entry.tx.sig
    BY <1>1, <1>4, <1>7 DEF TokenInv, TokensApart, Signing
  <1> HIDE DEF entry
  <1>10. TokensUnique'
    BY <1>6 DEF TokenInv, TokensUnique, Shrinks
  <1>11. SigsUnique'
    BY <1>1, <1>6, <1>7, <1>8 DEF TokenInv, SigsUnique
  <1>12. TokensApart'
    BY <1>4 DEF TokenInv, TokensApart
  <1>13. ASSUME NEW v \in Workers
         PROVE  TokenOwn(loc[v])'
    BY <1>1, <1>4, <1>6, <1>9 DEF TokenInv, TokenOwn, Shrinks
  <1> QED
    BY <1>10, <1>11, <1>12, <1>13 DEF TokenInv

LEMMA PrepareTokens ==
    ASSUME IInv, TokenInv, NEW w \in Workers, PrepareOk(w) \/ PrepareErr(w)
    PROVE  TokenInv'
  <1> DEFINE p == Plan[<<loc[w].job, loc[w].rec.step>>]
  <1>1. /\ loc[w].pc = "prepare" /\ loc[w] \in Locals /\ log' = log
        /\ reservations \in [Signers -> [job : Jobs, token : Nat] \cup {None}]
    BY DEF PrepareOk, PrepareErr, IInv, TypeOK
  <1>2. CASE PrepareOk(w)
    <2>1. UNCHANGED storeVars
      BY <1>2 DEF PrepareOk
    <2>2. PICK b : Goto(w, [loc[w] EXCEPT !.pc = "journal",
                        !.tx = Prepared(p.call, p.signer, b, loc[w].token)])
      BY <1>2 DEF PrepareOk
    <2> DEFINE tx == Prepared(p.call, p.signer, b, loc[w].token)
               l == [loc[w] EXCEPT !.pc = "journal", !.tx = tx]
    <2>3. tx.sig = loc[w].token /\ tx.signer = p.signer
      BY DEF Prepared
    <2>4. l.token = loc[w].token /\ l.job = loc[w].job /\ l.rec = loc[w].rec
          /\ l.tx = tx
      BY <1>1 DEF Locals
    <2> HIDE DEF tx
    <2>5. Keeps(loc[w], l)
      BY <1>1, <2>3, <2>4 DEF Keeps, Signing
    <2> QED
      BY <1>1, <2>1, <2>2, <2>5, TokenMove DEF storeVars, Shrinks, tx
  <1>3. CASE PrepareErr(w)
    <2>1. Done(w) \/ Move(w, "fail")
      BY <1>3 DEF PrepareErr
    <2>2. Shrinks /\ uuid' = uuid
      BY <1>1, <1>3 DEF PrepareErr, CancelPreparation, storeVars, Shrinks
    <2> QED
      BY <1>1, <2>1, <2>2, TokenMove, LeaveKeeps DEF Done, Move
  <1> QED
    BY <1>2, <1>3

LEMMA TokenInit == Init => TokenInv
  <1> SUFFICES ASSUME Init PROVE TokenInv
    OBVIOUS
  <1>1. \A w \in Workers : ~Signing(loc[w])
    BY DEF Init, Idle, Signing
  <1> QED
    BY <1>1 DEF Init, TokenInv, TokensUnique, SigsUnique, TokensApart, TokenOwn

LEMMA TokenNext == IInv /\ TokenInv /\ [Next]_vars => TokenInv'
  <1> SUFFICES ASSUME IInv, TokenInv, [Next]_vars PROVE TokenInv'
    OBVIOUS
  <1>1. ASSUME NEW w \in Workers, Quiet(w) PROVE TokenInv'
    <2>1. log' = log /\ Leaves(w) /\ Stores
      BY <1>1, QuietStep
    <2>2. PICK l : Goto(w, l) /\ ~Signing(l)
      BY <2>1 DEF Leaves
    <2> QED
      BY <2>1, <2>2, StoresShrinks, TokenMove DEF Keeps
  <1>2. ASSUME UNCHANGED <<log, loc>>, Stores PROVE TokenInv'
    BY <1>2, StoresShrinks, TokenFrame DEF Keeps, TokenInv, TokenOwn
  <1>3. ASSUME NEW w \in Workers, EngineStep(w) PROVE TokenInv'
    BY <1>1, <1>3, ReserveTokens, PrepareTokens, JournalTokens
       DEF EngineStep, Await, Quiet
  <1>4. ASSUME NEW j \in Jobs, Retry(j) \/ ForceSweep(j) PROVE TokenInv'
    BY <1>2, <1>4, ResumeStores
  <1>5. CASE ChainStep \/ UNCHANGED vars
    BY <1>2, <1>5 DEF ChainStep, vars, storeVars, Stores
  <1> QED
    BY <1>3, <1>4, <1>5 DEF Next

(* A reservation token is given out once and names one signature; whoever   *)
(* holds one is alone with it (store.rs: reserve, engine.rs: send_journaled)*)
THEOREM TokensInductive == Spec => []TokenInv
  BY TokenInit, TokenNext, Inductive, PTL DEF Spec

-----------------------------------------------------------------------------
(* Orphans. *)

\* A record journals under the token.
UnderJournal(t) ==
    \E j \in Jobs : Journaled(j) /\ payments[j].pending.reservation = t

\* What OrphanCause blames an engine for.
Cause(w) ==
    /\ loc'[w] # loc[w]
    /\ \/ w \in Faulty
       \/ loc[w].pc = "prepare" /\ Journaled(loc[w].job)
       \/ /\ loc[w].pc = "journal"
          /\ \/ loc[w].rec.version < payments[loc[w].job].version
             \/ loc[w].rec.version >= MaxVersion

(* The row of a journal leaves the table with the journal. *)
LEMMA JournalKept ==
    ASSUME IInv, TokenInv, Stores \/ payments' = payments, NEW s \in Signers,
           reservations[s] # None, reservations'[s] = reservations[s],
           UnderJournal(reservations[s].token)
    PROVE  UnderJournal(reservations[s].token)'
  <1> DEFINE t == reservations[s].token
  <1>1. PICK j \in Jobs : payments[j].pending # None
                          /\ payments[j].pending.reservation = t
    BY DEF UnderJournal, Journaled
  <1>2. payments \in [Jobs -> Records] /\ None \notin Records
    BY NoneAssumption DEF IInv, TypeOK
  <1>3. CASE payments' = payments
    BY <1>1, <1>2, <1>3 DEF UnderJournal, Journaled
  <1>4. ASSUME NEW k \in Jobs, NEW r \in Records, Update(k, r)
        PROVE  UnderJournal(reservations[s].token)'
    <2>1. /\ payments' \in [Jobs -> Records]
          /\ payments'[k].pending = r.pending
          /\ \A i \in Jobs : i # k => payments'[i] = payments[i]
      BY <1>4, UpdateType, WrittenFields DEF IInv
    <2>2. payments'[j].pending = payments[j].pending
      <3>1. CASE j # k
        BY <2>1, <3>1
      <3>2. CASE j = k /\ r.pending = payments[j].pending
        BY <2>1, <3>2
      <3>3. CASE j = k /\ r.pending # payments[j].pending
        <4> DEFINE p == payments[j].pending
        <4>1. r.pending = None /\ reservations' = [reservations EXCEPT ![p.signer] = None]
          BY <1>1, <1>4, <3>3 DEF Update, CanUpdate
        <4>2. reservations[p.signer] = [job |-> j, token |-> t]
          BY <1>1, OwnedForm DEF IInv, TypeOK, SharedOK, Owned
        <4>3. /\ p.signer \in Signers
              /\ reservations \in [Signers -> [job : Jobs, token : Nat] \cup {None}]
          BY <1>1, <1>2, NoneAssumption DEF Records, Pendings, IInv, TypeOK
        <4>4. t \in Nat
          BY <4>3
        <4>5. reservations[p.signer] # None /\ reservations[p.signer].token = t
          BY <4>2, <4>4, NoneAssumption
        <4>6. p.signer = s
          BY <4>3, <4>5 DEF TokenInv, TokensUnique
        <4> QED
          BY <1>4, <4>1, <4>3, <4>6
      <3> QED
        BY <3>1, <3>2, <3>3
    <2>3. payments'[j] # None
      BY <1>2, <2>1
    <2> QED
      BY <1>1, <1>4, <2>2, <2>3 DEF UnderJournal, Journaled
  <1> QED
    BY <1>3, <1>4 DEF Stores, storeVars

(* When a reservation is orphaned by a step that takes no token, the engine *)
(* that moved is the one that held it.                                      *)
LEMMA Unbacked ==
    ASSUME IInv, TokenInv, Stores \/ payments' = payments,
           NEW w \in Workers, NEW l, Goto(w, l), NEW s \in Signers,
           reservations'[s] \in {reservations[s], None},
           ~Orphan(s), Orphan(s)'
    PROVE  /\ Signing(loc[w]) /\ loc[w].token = reservations[s].token
           /\ reservations[s] # None /\ reservations'[s] = reservations[s]
           /\ ~(Signing(l) /\ l.token = loc[w].token)
           /\ ~UnderJournal(reservations[s].token)
           /\ ~UnderJournal(reservations[s].token)'
  <1>1. /\ reservations'[s] # None /\ reservations'[s] = reservations[s]
        /\ ~UnderJournal(reservations[s].token)'
        /\ \A v \in Workers : Signing(loc'[v]) => loc'[v].token # reservations[s].token
    BY DEF Orphan, UnderJournal, Signing, Journaled
  <1>2. ~UnderJournal(reservations[s].token)
    BY <1>1, JournalKept
  <1>3. PICK v \in Workers : Signing(loc[v]) /\ loc[v].token = reservations[s].token
    BY <1>1, <1>2 DEF Orphan, UnderJournal, Signing
  <1>4. loc' = [loc EXCEPT ![w] = l] /\ loc \in [Workers -> Locals]
    BY DEF Goto, IInv, TypeOK
  <1>5. v = w
    BY <1>1, <1>3, <1>4
  <1>6. loc'[w] = l
    BY <1>4
  <1> QED
    BY <1>1, <1>2, <1>3, <1>5, <1>6

(* A failed preparation gives the row back, or the cause is a rival's       *)
(* journal of the same job.                                                 *)
LEMMA PrepareErrCause ==
    ASSUME IInv, TokenInv, NEW w \in Workers, PrepareErr(w),
           NEW s \in Signers, ~Orphan(s), Orphan(s)'
    PROVE  Cause(w)
  <1> DEFINE j == loc[w].job
             signer == Plan[<<j, loc[w].rec.step>>].signer
             t == loc[w].token
  <1>1. /\ loc[w].pc = "prepare" /\ loc[w] \in Locals /\ j \in Jobs
        /\ loc \in [Workers -> Locals] /\ payments \in [Jobs -> Records]
        /\ reservations \in [Signers -> [job : Jobs, token : Nat] \cup {None}]
    BY DEF PrepareErr, IInv, TypeOK, LocalOK, Holds
  <1>2. PICK l : Goto(w, l) /\ l.pc \in {"idle", "fail"}
    <2>1. Done(w) \/ Move(w, "fail")
      BY DEF PrepareErr
    <2>2. Idle.pc = "idle" /\ [loc[w] EXCEPT !.pc = "fail"].pc = "fail"
      BY <1>1 DEF Idle, Locals
    <2> QED
      BY <2>1, <2>2 DEF Done, Move
  <1>3. loc'[w] # loc[w]
    BY <1>1, <1>2 DEF Goto
  <1>4. payments' = payments /\ Shrinks
    BY <1>1 DEF PrepareErr, CancelPreparation, storeVars, Shrinks
  <1>5. /\ t = reservations[s].token /\ reservations[s] # None
        /\ reservations'[s] = reservations[s] /\ ~UnderJournal(t)
    BY <1>2, <1>4, Unbacked DEF Shrinks
  <1>6. s = signer /\ reservations[s].job = j
    BY <1>1, <1>5 DEF TokenInv, TokenOwn, Signing
  <1>7. Owns(signer, j, t)
    <2>1. reservations[s] \in [job : Jobs, token : Nat]
      BY <1>1, <1>5
    <2> QED
      BY <1>5, <1>6, <2>1 DEF Owns
  <1>8. ~UnresolvedSigner(signer)
    <2>1. SUFFICES ASSUME NEW k \in Jobs, Journaled(k),
                          payments[k].pending.signer = signer
                   PROVE  FALSE
      BY DEF UnresolvedSigner
    <2>2. reservations[signer] = [job |-> k, token |-> payments[k].pending.reservation]
      BY <1>1, <2>1, OwnedForm DEF IInv, SharedOK, Owned, Journaled
    <2>3. payments[k].pending.reservation = t
      BY <1>5, <1>6, <2>2
    <2> QED
      BY <1>5, <2>1, <2>3 DEF UnderJournal
  <1>9. CASE w \in Faulty \/ Journaled(j)
    BY <1>1, <1>3, <1>9 DEF Cause
  <1>10. CASE w \notin Faulty /\ ~Journaled(j)
    <2>1. CanCancel(signer, j, t)
      BY <1>7, <1>8, <1>10 DEF CanCancel
    <2>2. reservations' = [reservations EXCEPT ![signer] = None]
      BY <1>10, <2>1 DEF PrepareErr, CancelPreparation
    <2> QED
      BY <1>1, <1>5, <1>6, <2>2
  <1> QED
    BY <1>9, <1>10

(* A journal write is refused for the version, or the row was lost before. *)
LEMMA JournalRefusedCause ==
    ASSUME IInv, TokenInv, NEW w \in Workers, JournalRefused(w),
           NEW s \in Signers, ~Orphan(s), Orphan(s)'
    PROVE  Cause(w)
  <1> DEFINE j == loc[w].job
             old == loc[w].rec
             t == loc[w].token
             tx == loc[w].tx
  <1>1. /\ loc[w].pc = "journal" /\ loc[w] \in Locals /\ loc \in [Workers -> Locals]
        /\ payments \in [Jobs -> Records] /\ MaxVersion \in Nat
        /\ reservations \in [Signers -> [job : Jobs, token : Nat] \cup {None}]
    BY MaxVersionAssumption DEF JournalRefused, IInv, TypeOK
  <1>2. /\ j \in Jobs /\ old \in Records /\ old.pending = None
        /\ t \in Nat /\ tx \in Txs
        /\ old.version <= payments[j].version
        /\ old.version = payments[j].version => old = payments[j]
    BY <1>1 DEF IInv, LocalOK, Holds, Current
  <1>3. /\ JournalOf(w) \in Records /\ JournalOf(w).version = old.version
        /\ JournalOf(w).pending = [reservation |-> t, signer |-> tx.signer,
                                   tx |-> tx, step |-> old.step]
    BY <1>2, JournalFields
  <1>4. PICK l : Goto(w, l) /\ ~Signing(l)
    BY QuietStep DEF Quiet, Leaves
  <1>5. loc'[w] # loc[w]
    BY <1>1, <1>4 DEF Goto, Signing
  <1>6. UNCHANGED storeVars
    BY DEF JournalRefused, Refused
  <1>7. t = reservations[s].token /\ reservations[s] # None
    BY <1>4, <1>6, Unbacked DEF storeVars
  <1>8. s = tx.signer /\ reservations[s].job = j
    BY <1>1, <1>7 DEF TokenInv, TokenOwn, Signing
  <1>9. OwnedJournal(j, JournalOf(w).pending)
    <2>1. reservations[s] = [job |-> j, token |-> t]
      BY <1>1, <1>7, <1>8
    <2> QED
      BY <1>2, <1>3, <1>8, <2>1, NoneAssumption DEF OwnedJournal, Owns
  <1>10. CASE Conflict(j, JournalOf(w))
    <2>1. payments[j].version \in Nat /\ old.version \in Nat
      BY <1>1, <1>2 DEF Records
    <2>2. old.version < payments[j].version
      BY <1>2, <1>3, <1>10, <2>1 DEF Conflict
    <2> QED
      BY <1>1, <1>5, <2>2 DEF Cause
  <1>11. CASE ~Conflict(j, JournalOf(w)) /\ w \notin Faulty
    <2>1. old = payments[j]
      BY <1>2, <1>3, <1>11 DEF Conflict
    <2>2. ~CanUpdate(j, JournalOf(w))
      BY <1>11 DEF JournalRefused, Refused
    <2>3. /\ JournalOf(w).policy = old.policy /\ JournalOf(w).identity = old.identity
          /\ old # None
      BY <1>2, <1>3, NoneAssumption DEF Records
    <2>4. ~(old.version < MaxVersion)
      BY <1>2, <1>3, <1>9, <2>1, <2>2, <2>3 DEF CanUpdate
    <2>5. old.version \in Nat
      BY <1>2 DEF Records
    <2> QED
      BY <1>1, <1>5, <2>4, <2>5 DEF Cause
  <1> QED
    BY <1>5, <1>10, <1>11 DEF Cause

(* A preparation that succeeds keeps its token; a journal that is written   *)
(* stands under it, unless the reply is lost.                               *)
LEMMA SendCause ==
    ASSUME IInv, TokenInv, NEW w \in Workers, PrepareOk(w) \/ WriteJournal(w),
           NEW s \in Signers, ~Orphan(s), Orphan(s)'
    PROVE  Cause(w)
  <1>1. loc[w] \in Locals /\ loc \in [Workers -> Locals]
    BY DEF IInv, TypeOK
  <1>2. CASE PrepareOk(w)
    <2>1. PICK tx : Goto(w, [loc[w] EXCEPT !.pc = "journal", !.tx = tx])
      BY <1>2 DEF PrepareOk
    <2> DEFINE l == [loc[w] EXCEPT !.pc = "journal", !.tx = tx]
    <2>2. Signing(l) /\ l.token = loc[w].token
      BY <1>1 DEF Signing, Locals
    <2> HIDE DEF l
    <2>3. Goto(w, l) /\ UNCHANGED <<payments, reservations>>
      BY <1>2, <2>1 DEF l, PrepareOk, storeVars
    <2> QED
      BY <2>2, <2>3, Unbacked
  <1>3. CASE WriteJournal(w)
    <2> DEFINE j == loc[w].job
    <2>1. /\ j \in Jobs /\ JournalOf(w) \in Records
          /\ JournalOf(w).pending \in Pendings
          /\ JournalOf(w).pending.reservation = loc[w].token
      <3>1. /\ j \in Jobs /\ loc[w].rec \in Records /\ loc[w].token \in Nat
            /\ loc[w].tx \in Txs
        BY <1>3 DEF WriteJournal, IInv, LocalOK, Holds
      <3> DEFINE p == [reservation |-> loc[w].token, signer |-> loc[w].tx.signer,
                       tx |-> loc[w].tx, step |-> loc[w].rec.step]
      <3>2. p \in Pendings /\ JournalOf(w) \in Records /\ JournalOf(w).pending = p
        BY <3>1, JournalFields
      <3>3. p.reservation = loc[w].token
        OBVIOUS
      <3> HIDE DEF p
      <3> QED
        BY <3>1, <3>2, <3>3
    <2>2. Update(j, JournalOf(w))
      BY <1>3 DEF WriteJournal
    <2>3. Stores /\ Shrinks
      BY <2>1, <2>2, UpdateShrinks DEF Stores
    <2>4. PICK l : Goto(w, l) /\ l.pc # "journal"
      <3>1. /\ [loc[w] EXCEPT !.pc = "fail"].pc = "fail"
            /\ [loc[w] EXCEPT !.pc = "broadcast", !.rec = Written(JournalOf(w))].pc
                 = "broadcast"
        BY <1>1 DEF Locals
      <3> QED
        BY <1>3, <3>1 DEF WriteJournal, Move
    <2>5. loc[w].token = reservations[s].token
          /\ ~UnderJournal(reservations[s].token)'
          /\ reservations'[s] = reservations[s]
      BY <2>3, <2>4, Unbacked DEF Shrinks
    <2>6. payments'[j] # None /\ payments'[j].pending = JournalOf(w).pending
      BY <2>1, <2>2, UpdateType, WrittenFields, NoneAssumption DEF IInv
    <2>7. UnderJournal(reservations[s].token)'
      BY <2>1, <2>5, <2>6, NoneAssumption DEF UnderJournal, Journaled
    <2> QED
      BY <2>5, <2>7
  <1> QED
    BY <1>2, <1>3

LEMMA ReserveCause ==
    ASSUME IInv, TokenInv, NEW w \in Workers, ReserveSigner(w),
           NEW s \in Signers, ~Orphan(s), Orphan(s)'
    PROVE  Cause(w)
  <1> DEFINE signer == Plan[<<loc[w].job, loc[w].rec.step>>].signer
             prep == [loc[w] EXCEPT !.pc = "prepare", !.token = uuid]
             fail == [loc[w] EXCEPT !.pc = "fail"]
  <1>1. /\ loc[w] \in Locals /\ loc \in [Workers -> Locals] /\ loc[w].pc = "act"
        /\ reservations \in [Signers -> [job : Jobs, token : Nat] \cup {None}]
    BY DEF IInv, TypeOK, ReserveSigner
  <1>2. prep.pc = "prepare" /\ prep.token = uuid /\ fail.pc = "fail"
    BY <1>1 DEF Locals
  <1>3. PICK l : Goto(w, l) /\ (l = prep \/ (w \in Faulty /\ l = fail) \/ l = Idle)
    BY DEF ReserveSigner, Done, Move
  <1> HIDE DEF prep, fail
  <1>4. loc'[w] = l
    BY <1>1, <1>3 DEF Goto
  <1>5. payments' = payments
    BY DEF ReserveSigner, ReserveForRecord, Reserve, storeVars
  <1>6. CASE reservations'[s] = reservations[s]
    BY <1>1, <1>3, <1>5, <1>6, Unbacked DEF Signing
  <1>7. CASE reservations'[s] # reservations[s]
    <2>1. reservations' = [reservations EXCEPT ![signer] =
                             [job |-> loc[w].job, token |-> uuid]]
          /\ l # Idle
      <3>1. ~UNCHANGED storeVars
        BY <1>7 DEF storeVars
      <3>2. Goto(w, prep) \/ Goto(w, fail)
        BY <3>1 DEF ReserveSigner, Move, prep, fail
      <3>3. l.pc # "idle"
        BY <1>1, <1>2, <1>4, <3>2 DEF Goto
      <3> QED
        BY <3>1, <3>3 DEF ReserveSigner, ReserveForRecord, Reserve, Idle
    <2>2. reservations'[s].token = uuid
      BY <1>1, <1>7, <2>1
    <2>3. l # prep
      BY <1>2, <1>4, <2>2 DEF Orphan
    <2>4. w \in Faulty /\ loc'[w] # loc[w]
      BY <1>1, <1>2, <1>3, <1>4, <2>1, <2>3
    <2> QED
      BY <2>4 DEF Cause
  <1> QED
    BY <1>6, <1>7

LEMMA OrphanStep ==
    ASSUME IInv, TokenInv, [Next]_vars, NEW s \in Signers, ~Orphan(s), Orphan(s)'
    PROVE  \E w \in Workers : Cause(w)
  <1>1. ASSUME NEW w \in Workers, Quiet(w), loc[w].pc \notin {"prepare", "journal"}
        PROVE  FALSE
    <2>1. Leaves(w) /\ Stores /\ Shrinks
      BY <1>1, QuietStep, StoresShrinks
    <2> QED
      BY <1>1, <2>1, Unbacked DEF Leaves, Signing, Shrinks
  <1>2. ASSUME NEW w \in Workers, Crash(w)
        PROVE  Cause(w)
    <2>1. loc \in [Workers -> Locals] /\ Idle.pc = "idle"
      BY DEF IInv, TypeOK, Idle
    <2> QED
      BY <1>2, <2>1 DEF Crash, Done, Goto, Cause
  <1>3. ASSUME loc' = loc, Stores
        PROVE  FALSE
    <2>1. reservations'[s] # None /\ reservations'[s] = reservations[s]
      BY <1>3, StoresShrinks DEF Shrinks, Orphan
    <2>2. UnderJournal(reservations[s].token)
      BY <1>3, <2>1 DEF Orphan, UnderJournal
    <2>3. UnderJournal(reservations[s].token)'
      BY <1>3, <2>1, <2>2, JournalKept
    <2> QED
      BY <2>3 DEF Orphan, UnderJournal, Journaled
  <1>4. ASSUME NEW w \in Workers, EngineStep(w)
        PROVE  Cause(w)
    <2>1. CASE \/ Skip(w) \/ StepError(w) \/ Broadcast(w) \/ BroadcastErr(w)
              \/ Finalized(w) \/ Apply(w) \/ Fail(w) \/ Scan(w) \/ ScanErr(w)
              \/ Resolve(w) \/ \E j \in Jobs : List(w, j)
      <3>1. loc[w].pc \notin {"prepare", "journal"}
        BY <2>1 DEF Skip, StepError, Broadcast, BroadcastErr, Finalized, Apply,
                    Fail, Scan, ScanErr, Resolve, List
      <3> QED
        BY <1>1, <2>1, <3>1 DEF Quiet
    <2> QED
      BY <1>2, <1>4, <2>1, PrepareErrCause, JournalRefusedCause, SendCause,
         ReserveCause DEF EngineStep, Await
  <1>5. ASSUME NEW j \in Jobs, Retry(j) \/ ForceSweep(j)
        PROVE  FALSE
    BY <1>3, <1>5, ResumeStores
  <1>6. CASE ChainStep \/ UNCHANGED vars
    BY <1>3, <1>6 DEF ChainStep, vars, storeVars, Stores
  <1> QED
    BY <1>4, <1>5, <1>6 DEF Next

(* A signer stays reserved with nobody to free it only after a crash, a     *)
(* lost reply or a lost race with a rival on the same job: every other      *)
(* failure of send_journaled gives the signer back.                         *)
THEOREM OrphansExplained == Spec => OrphanCause
  <1>1. IInv /\ TokenInv /\ [Next]_vars =>
          [\A s \in Signers : ~Orphan(s) /\ Orphan(s)' =>
             \E w \in Workers : Cause(w)]_vars
    BY OrphanStep
  <1> QED
    BY <1>1, Inductive, TokensInductive, PTL DEF Spec, OrphanCause, Cause

-----------------------------------------------------------------------------
(* Refinement of JobLedger. *)

LedgerVars == <<AtStep, OpenIntent, SpentSteps, BookedSteps, HaltedJob>>

-----------------------------------------------------------------------------
(* What the map makes of an update. *)
LEMMA UpdateMap ==
    ASSUME IInv, NEW j \in Jobs, NEW r \in Records, Update(j, r)
    PROVE  /\ AtStep' = [AtStep EXCEPT ![j] = r.step]
           /\ OpenIntent' = [OpenIntent EXCEPT ![j] = (r.pending # None)]
           /\ HaltedJob' = [HaltedJob EXCEPT ![j] = (r.quarantined # None)]
           /\ \A k \in Jobs : k # j => BookedOf(k)' = BookedOf(k)
           /\ BookedOf(j)' = {[job |-> j, step |-> a.step, tx |-> a.tx] :
                                 a \in r.txs}
  <1>1. /\ payments' = [payments EXCEPT ![j] = Written(r)]
        /\ payments \in [Jobs -> Records]
    BY DEF Update, IInv, TypeOK
  <1>2. /\ Written(r).pending = r.pending /\ Written(r).step = r.step
        /\ Written(r).quarantined = r.quarantined /\ Written(r).txs = r.txs
    BY WrittenFields
  <1>3. payments'[j] = Written(r) /\ \A k \in Jobs : k # j => payments'[k] = payments[k]
    BY <1>1
  <1>4. AtStep' = [AtStep EXCEPT ![j] = r.step]
    BY <1>2, <1>3 DEF AtStep
  <1>5. OpenIntent' = [OpenIntent EXCEPT ![j] = (r.pending # None)]
    BY <1>2, <1>3 DEF OpenIntent
  <1>6. HaltedJob' = [HaltedJob EXCEPT ![j] = (r.quarantined # None)]
    BY <1>2, <1>3 DEF HaltedJob
  <1>7. /\ \A k \in Jobs : k # j => BookedOf(k)' = BookedOf(k)
        /\ BookedOf(j)' = {[job |-> j, step |-> a.step, tx |-> a.tx] :
                              a \in r.txs}
    BY <1>2, <1>3 DEF BookedOf
  <1> QED
    BY <1>4, <1>5, <1>6, <1>7

LEMMA BookNothing ==
    ASSUME IInv, NEW j \in Jobs, NEW r \in Records, Update(j, r),
           r.txs = payments[j].txs
    PROVE  BookedSteps' = BookedSteps
  <1>1. \A k \in Jobs : BookedOf(k)' = BookedOf(k)
    BY UpdateMap DEF BookedOf
  <1> QED
    BY <1>1 DEF BookedSteps

LEMMA BookReceipt ==
    ASSUME IInv, NEW j \in Jobs, NEW r \in Records, Update(j, r), NEW p,
           r.txs = payments[j].txs \cup {[step |-> p.step, tx |-> p.tx]}
    PROVE  BookedSteps' = BookedSteps \cup {Entry(j, p)}
  <1>1. BookedOf(j)' = BookedOf(j) \cup {Entry(j, p)}
    <2>1. BookedOf(j)' = {[job |-> j, step |-> a.step, tx |-> a.tx] : a \in r.txs}
      BY UpdateMap
    <2>2. {[job |-> j, step |-> a.step, tx |-> a.tx] : a \in r.txs} =
          {[job |-> j, step |-> a.step, tx |-> a.tx] : a \in payments[j].txs}
            \cup {Entry(j, p)}
      <3> DEFINE row(a) == [job |-> j, step |-> a.step, tx |-> a.tx]
                 b == [step |-> p.step, tx |-> p.tx]
      <3>1. row(b) = Entry(j, p)
        BY DEF Entry
      <3>2. r.txs = payments[j].txs \cup {b}
        OBVIOUS
      <3> HIDE DEF row, b
      <3>3. {row(a) : a \in r.txs} = {row(a) : a \in payments[j].txs} \cup {row(b)}
        BY <3>2
      <3> QED
        BY <3>1, <3>3 DEF row
    <2>3. BookedOf(j) = {[job |-> j, step |-> a.step, tx |-> a.tx] :
                           a \in payments[j].txs}
      BY DEF BookedOf
    <2> QED
      BY <2>1, <2>2, <2>3
  <1>2. \A k \in Jobs : k # j => BookedOf(k)' = BookedOf(k)
    BY UpdateMap
  <1> QED
    BY <1>1, <1>2 DEF BookedSteps

\* What the ledger reads of a job.
LEMMA MapAt ==
    ASSUME NEW j \in Jobs
    PROVE  /\ AtStep[j] = payments[j].step
           /\ OpenIntent[j] = (payments[j].pending # None)
           /\ HaltedJob[j] = (payments[j].quarantined # None)
  BY DEF AtStep, OpenIntent, HaltedJob

(* What an update leaves alone, the ledger sees unchanged. *)
LEMMA UpdateKeeps ==
    ASSUME IInv, NEW j \in Jobs, NEW r \in Records, Update(j, r)
    PROVE  /\ r.step = payments[j].step => AtStep' = AtStep
           /\ (r.pending = None <=> payments[j].pending = None)
                => OpenIntent' = OpenIntent
           /\ (r.quarantined = None <=> payments[j].quarantined = None)
                => HaltedJob' = HaltedJob
           /\ r.txs = payments[j].txs => BookedSteps' = BookedSteps
  <1>1. /\ AtStep = [k \in Jobs |-> AtStep[k]]
        /\ OpenIntent = [k \in Jobs |-> OpenIntent[k]]
        /\ HaltedJob = [k \in Jobs |-> HaltedJob[k]]
    BY DEF AtStep, OpenIntent, HaltedJob
  <1>2. ASSUME r.step = payments[j].step
        PROVE  AtStep' = AtStep
    BY <1>1, <1>2, MapAt, UpdateMap
  <1>3. ASSUME r.pending = None <=> payments[j].pending = None
        PROVE  OpenIntent' = OpenIntent
    <2>1. OpenIntent[j] = (r.pending # None)
      BY <1>3, MapAt
    <2> QED
      BY <1>1, <2>1, UpdateMap
  <1>4. ASSUME r.quarantined = None <=> payments[j].quarantined = None
        PROVE  HaltedJob' = HaltedJob
    <2>1. HaltedJob[j] = (r.quarantined # None)
      BY <1>4, MapAt
    <2> QED
      BY <1>1, <2>1, UpdateMap
  <1> QED
    BY <1>2, <1>3, <1>4, BookNothing

\* The money that moved depends on the chain and the journals alone.
LEMMA SpentSame ==
    ASSUME UNCHANGED <<included, log>>
    PROVE  SpentSteps' = SpentSteps
  BY DEF SpentSteps, Effective

(* A step that leaves the records alone, too, is invisible. *)
LEMMA NothingMaps ==
    ASSUME UNCHANGED <<payments, included, log>>
    PROVE  UNCHANGED LedgerVars
  BY SpentSame DEF LedgerVars, AtStep, OpenIntent, BookedSteps, BookedOf, HaltedJob

(* An update that changes neither the step, the journal, the quarantine nor *)
(* the receipts is invisible to the ledger.                                 *)
LEMMA NeutralUpdate ==
    ASSUME IInv, NEW j \in Jobs, NEW r \in Records, Update(j, r),
           r.step = payments[j].step, r.pending = payments[j].pending,
           r.quarantined = payments[j].quarantined, r.txs = payments[j].txs,
           UNCHANGED <<included, log>>
    PROVE  UNCHANGED LedgerVars
  BY UpdateKeeps, SpentSame DEF LedgerVars

-----------------------------------------------------------------------------
(* What a record says of the money that moved for its current step. *)

LEMMA MovedForm ==
    ASSUME NEW j \in Jobs
    PROVE  Ledger!Moved(j) =
             {x \in log : Effective(x) /\ x.job = j /\ x.step = payments[j].step}
  BY DEF Ledger!Moved, SpentSteps, AtStep

(* Only the journaled transaction can have moved money for this step. *)
LEMMA MovedJournaled ==
    ASSUME IInv, NEW j \in Jobs, payments[j].quarantined = None,
           NEW x \in Ledger!Moved(j)
    PROVE  payments[j].pending # None /\ Entry(j, payments[j].pending) = x
  <1>1. x \in log /\ Effective(x) /\ x.job = j /\ x.step = payments[j].step
    BY MovedForm
  <1>2. ~Spent(x.tx)
    BY <1>1 DEF Effective, Spent
  <1>3. Receipt(x) \notin payments[j].txs
    <2>1. Receipt(x).step = x.step /\ x.step \in Nat
      BY <1>1 DEF Receipt, IInv, TypeOK
    <2>2. \A a \in payments[j].txs : a.step < payments[j].step
      BY DEF IInv, SharedOK, Booked
    <2> QED
      BY <1>1, <2>1, <2>2
  <1> QED
    BY <1>1, <1>2, <1>3 DEF IInv, SharedOK, Accounted

LEMMA NothingMoved ==
    ASSUME IInv, NEW j \in Jobs, payments[j].quarantined = None,
           payments[j].pending = None \/ Spent(payments[j].pending.tx)
    PROVE  Ledger!Moved(j) = {}
  <1> SUFFICES ASSUME NEW x \in Ledger!Moved(j) PROVE FALSE
    OBVIOUS
  <1>1. payments[j].pending # None /\ Entry(j, payments[j].pending) = x
    BY MovedJournaled
  <1>2. x.tx = payments[j].pending.tx /\ Effective(x)
    BY <1>1, MovedForm DEF Entry
  <1> QED
    BY <1>1, <1>2 DEF Effective, Spent

LEMMA JournalMoved ==
    ASSUME IInv, NEW j \in Jobs, payments[j].pending # None,
           \/ FinalizedWith(payments[j].pending.tx, "ok")
           \/ FinalizedWith(payments[j].pending.tx, "odd")
    PROVE  Entry(j, payments[j].pending) \in Ledger!Moved(j)
  <1> DEFINE p == payments[j].pending
  <1>1. Entry(j, p) \in log /\ p.step = payments[j].step
    BY DEF IInv, SharedOK, JournalLogged
  <1>2. Entry(j, p).tx = p.tx /\ Entry(j, p).job = j /\ Entry(j, p).step = p.step
    BY DEF Entry
  <1>3. Effective(Entry(j, p))
    BY <1>2 DEF Effective, FinalizedWith
  <1> QED
    BY <1>1, <1>2, <1>3, MovedForm

-----------------------------------------------------------------------------
(* The steps of the ledger. *)

LEMMA SkipMaps ==
    ASSUME IInv, NEW w \in Workers, Skip(w)
    PROVE  Ledger!Next \/ UNCHANGED LedgerVars
  <1> DEFINE j == loc[w].job
             old == loc[w].rec
  <1>0. PICK a \in {0, old.attempts} :
             LastWrite(w, [old EXCEPT !.step = old.step + 1, !.attempts = a])
    BY DEF Skip
  <1> DEFINE new == [old EXCEPT !.step = old.step + 1, !.attempts = a]
  <1>1. /\ j \in Jobs /\ old \in Records /\ loc[w].pc = "act"
        /\ old.pending = None /\ old.quarantined = None /\ old.step < NSteps
    BY DEF Skip, IInv, LocalOK, Holds
  <1>2. /\ new \in Records /\ new.version = old.version /\ new.pending = None
        /\ new.step = old.step + 1 /\ new.quarantined = None /\ new.txs = old.txs
    BY <1>1, SkippedFields
  <1>3. UNCHANGED <<included, log>>
    BY DEF Skip, chainVars
  <1>4. Update(j, new) \/ UNCHANGED storeVars
    BY <1>0 DEF LastWrite, Refused
  <1> HIDE DEF new
  <1>5. CASE UNCHANGED storeVars
    BY <1>3, <1>5, NothingMaps DEF storeVars
  <1>6. CASE Update(j, new)
    <2>1. payments[j] = old
      BY <1>1, <1>2, <1>6, CopyCurrent DEF Update
    <2>2. AtStep[j] = old.step /\ ~OpenIntent[j] /\ ~HaltedJob[j]
      BY <1>1, <2>1, MapAt
    <2>3. AtStep' = [AtStep EXCEPT ![j] = AtStep[j] + 1]
      BY <1>1, <1>2, <1>6, <2>2, UpdateMap
    <2>4. UNCHANGED <<OpenIntent, SpentSteps, BookedSteps, HaltedJob>>
      BY <1>1, <1>2, <1>3, <1>6, <2>1, UpdateKeeps, SpentSame
    <2>5. Ledger!Moved(j) = {}
      BY <1>1, <2>1, NothingMoved
    <2>6. Ledger!Skip(j)
      BY <1>1, <2>2, <2>3, <2>4, <2>5 DEF Ledger!Skip, Ledger!Ready
    <2> QED
      BY <1>1, <2>6 DEF Ledger!Next
  <1> QED
    BY <1>4, <1>5, <1>6

LEMMA IntendMaps ==
    ASSUME IInv, TokenInv, NEW w \in Workers, WriteJournal(w)
    PROVE  Ledger!Next
  <1> DEFINE j == loc[w].job
             old == loc[w].rec
             new == JournalOf(w)
             entry == [job |-> j, step |-> old.step, tx |-> loc[w].tx]
  <1>1. /\ j \in Jobs /\ old \in Records /\ loc[w].pc = "journal"
        /\ old.pending = None /\ old.quarantined = None /\ old.step < NSteps
        /\ loc[w].token \in Nat /\ loc[w].tx \in Txs
    BY DEF WriteJournal, IInv, LocalOK, Holds
  <1>2. /\ new \in Records /\ new.version = old.version
        /\ new.pending \in Pendings /\ new.step = old.step
        /\ new.quarantined = None /\ new.txs = old.txs
    BY <1>1, JournalFields
  <1>3. /\ Update(j, new) /\ included' = included
        /\ log' = log \cup {entry}
    BY DEF WriteJournal, chainVars
  <1> HIDE DEF new
  <1>4. payments[j] = old
    BY <1>1, <1>2, <1>3, CopyCurrent DEF Update
  <1>5. AtStep[j] = old.step /\ ~OpenIntent[j] /\ ~HaltedJob[j]
    BY <1>1, <1>4, MapAt
  <1>6. OpenIntent' = [OpenIntent EXCEPT ![j] = TRUE]
    BY <1>1, <1>2, <1>3, NoneAssumption, UpdateMap
  <1>7. UNCHANGED <<AtStep, BookedSteps, HaltedJob>>
    BY <1>1, <1>2, <1>3, <1>4, UpdateKeeps
  <1>8. \A i \in included : i.tx # loc[w].tx
    <2>1. \A i \in included : \E e \in log : e.tx = i.tx
      BY DEF IInv, SharedOK, JournaledFirst
    <2>2. \A e \in log : e.tx # loc[w].tx
      BY <1>1 DEF TokenInv, TokenOwn, Signing
    <2> QED
      BY <2>1, <2>2
  <1>9. SpentSteps' = SpentSteps
    <2>1. entry.tx = loc[w].tx
      OBVIOUS
    <2> HIDE DEF entry
    <2> QED
      BY <1>3, <1>8, <2>1 DEF SpentSteps, Effective
  <1>10. Ledger!Moved(j) = {}
    BY <1>1, <1>4, NothingMoved
  <1>11. Ledger!Intend(j)
    BY <1>1, <1>5, <1>6, <1>7, <1>9, <1>10 DEF Ledger!Intend, Ledger!Ready
  <1> QED
    BY <1>1, <1>11 DEF Ledger!Next

(* The update that books the journaled receipt, and goes on or halts. *)
LEMMA BookMaps ==
    ASSUME IInv, NEW j \in Jobs, NEW r \in Records, Update(j, r),
           UNCHANGED <<included, log>>, payments[j].pending # None,
           \/ FinalizedWith(payments[j].pending.tx, "ok")
           \/ FinalizedWith(payments[j].pending.tx, "odd"),
           r.pending = None,
           r.txs = payments[j].txs \cup {[step |-> payments[j].pending.step,
                                          tx |-> payments[j].pending.tx]},
           \/ r.step = payments[j].step + 1
              /\ r.quarantined = payments[j].quarantined
           \/ r.step = payments[j].step
              /\ r.quarantined = payments[j].pending
    PROVE  Ledger!Book(j)
  <1> DEFINE p == payments[j].pending
  <1>1. OpenIntent[j] /\ AtStep[j] = payments[j].step
    BY MapAt
  <1>2. OpenIntent' = [OpenIntent EXCEPT ![j] = FALSE]
    BY UpdateMap
  <1>3. Entry(j, p) \in Ledger!Moved(j)
    BY JournalMoved
  <1>4. BookedSteps' = BookedSteps \cup {Entry(j, p)}
    BY BookReceipt
  <1>5. \/ AtStep' = [AtStep EXCEPT ![j] = AtStep[j] + 1] /\ HaltedJob' = HaltedJob
        \/ HaltedJob' = [HaltedJob EXCEPT ![j] = TRUE] /\ AtStep' = AtStep
    <2>1. CASE r.step = payments[j].step + 1
               /\ r.quarantined = payments[j].quarantined
      BY <1>1, <2>1, UpdateMap, UpdateKeeps
    <2>2. CASE r.step = payments[j].step /\ r.quarantined = p
      <3>1. (r.quarantined # None) = TRUE
        BY <2>2
      <3> QED
        BY <2>2, <3>1, UpdateMap, UpdateKeeps
    <2> QED
      BY <2>1, <2>2
  <1>6. SpentSteps' = SpentSteps
    BY SpentSame
  <1> QED
    BY <1>1, <1>2, <1>3, <1>4, <1>5, <1>6 DEF Ledger!Book

LEMMA DropMaps ==
    ASSUME IInv, NEW j \in Jobs, NEW r \in Records, Update(j, r),
           UNCHANGED <<included, log>>, payments[j].pending # None,
           Spent(payments[j].pending.tx), r.pending = None,
           r.step = payments[j].step, r.txs = payments[j].txs,
           r.quarantined = payments[j].quarantined
    PROVE  Ledger!Drop(j)
  <1>1. OpenIntent[j]
    BY MapAt
  <1>2. OpenIntent' = [OpenIntent EXCEPT ![j] = FALSE]
    BY UpdateMap
  <1>3. Ledger!Moved(j) = {}
    BY NothingMoved DEF IInv, SharedOK, JournalLogged
  <1> QED
    BY <1>1, <1>2, <1>3, UpdateKeeps, SpentSame DEF Ledger!Drop

LEMMA ApplyMaps ==
    ASSUME IInv, NEW w \in Workers, Apply(w)
    PROVE  Ledger!Next \/ UNCHANGED LedgerVars
  <1> DEFINE j == loc[w].job
             old == loc[w].rec
             new == Applied(old)
  <1>1. /\ j \in Jobs /\ old \in Records /\ loc[w].pc = "apply"
        /\ old.pending # None /\ FinalizedWith(old.pending.tx, "ok")
    BY DEF Apply, IInv, LocalOK, Holds, Observed
  <1>2. /\ new \in Records /\ new.version = old.version /\ new.pending = None
        /\ new.step = old.step + 1 /\ new.quarantined = old.quarantined
        /\ new.txs = old.txs \cup {[step |-> old.pending.step,
                                    tx |-> old.pending.tx]}
    BY <1>1, AppliedFields
  <1>3. UNCHANGED <<included, log>>
    BY DEF Apply, chainVars
  <1>4. Update(j, new) \/ UNCHANGED storeVars
    BY DEF Apply, LastWrite, Refused
  <1> HIDE DEF new
  <1>5. CASE UNCHANGED storeVars
    BY <1>3, <1>5, NothingMaps DEF storeVars
  <1>6. CASE Update(j, new)
    <2>1. payments[j] = old
      BY <1>1, <1>2, <1>6, CopyCurrent DEF Update
    <2>2. Ledger!Book(j)
      BY <1>1, <1>2, <1>3, <1>6, <2>1, BookMaps
    <2> QED
      BY <1>1, <2>2 DEF Ledger!Next
  <1> QED
    BY <1>4, <1>5, <1>6

LEMMA ResolveMaps ==
    ASSUME IInv, NEW w \in Workers, Resolve(w)
    PROVE  Ledger!Next \/ UNCHANGED LedgerVars
  <1> DEFINE j == loc[w].job
             old == loc[w].rec
             o == loc[w].seen
             new == Resolved(old, o)
  <1>1. /\ j \in Jobs /\ old \in Records /\ loc[w].pc = "resolve"
        /\ old.pending # None /\ o \in Outcomes \cup {"dead"}
        /\ IF o = "dead" THEN Spent(old.pending.tx)
           ELSE FinalizedWith(old.pending.tx, o)
    BY DEF Resolve, IInv, LocalOK, Holds, Observed
  <1>2. new \in Records /\ new.version = old.version /\ new.pending = None
    BY <1>1, ResolvedFields
  <1>3. UNCHANGED <<included, log>>
    BY DEF Resolve, chainVars
  <1>4. Update(j, new) \/ UNCHANGED storeVars
    BY DEF Resolve
  <1>5. CASE UNCHANGED storeVars
    BY <1>3, <1>5, NothingMaps DEF storeVars
  <1>6. CASE Update(j, new)
    <2>1. payments[j] = old
      BY <1>1, <1>2, <1>6, CopyCurrent DEF Update
    <2>2. CASE o \in {"dead", "failed"}
      <3>1. Spent(old.pending.tx)
        BY <1>1, <2>2, FailedSpent DEF IInv, SharedOK
      <3>2. /\ new.step = old.step /\ new.quarantined = old.quarantined
            /\ new.txs = old.txs
        BY <1>1, <2>2, ResolvedFields
      <3>3. Ledger!Drop(j)
        BY <1>1, <1>2, <1>3, <1>6, <2>1, <3>1, <3>2, DropMaps
      <3> QED
        BY <1>1, <3>3 DEF Ledger!Next
    <2>3. CASE o \in {"ok", "odd"}
      <3>1. /\ new.txs = old.txs \cup {[step |-> old.pending.step,
                                         tx |-> old.pending.tx]}
            /\ \/ new.step = old.step + 1 /\ new.quarantined = old.quarantined
               \/ new.step = old.step /\ new.quarantined = old.pending
        BY <1>1, <2>3, ResolvedFields, AppliedFields, QuarantinedFields
      <3>2. \/ FinalizedWith(old.pending.tx, "ok")
            \/ FinalizedWith(old.pending.tx, "odd")
        BY <1>1, <2>3
      <3> HIDE DEF new
      <3>3. Ledger!Book(j)
        BY <1>1, <1>2, <1>3, <1>6, <2>1, <3>1, <3>2, BookMaps
      <3> QED
        BY <1>1, <3>3 DEF Ledger!Next
    <2> QED
      BY <1>1, <2>2, <2>3 DEF Outcomes
  <1> QED
    BY <1>4, <1>5, <1>6

(* A transaction that enters the chain is the one some job has journaled    *)
(* for its current step, and the first to move money for it.                *)
LEMMA SpendMaps ==
    ASSUME IInv, TokenInv, NEW t \in pool, NEW o \in Outcomes, Include(t, o),
           UNCHANGED <<payments, log>>
    PROVE  Ledger!Next \/ UNCHANGED LedgerVars
  <1> DEFINE new == [tx |-> t, block |-> head + 1, outcome |-> o]
  <1>1. /\ included' = included \cup {new} /\ Admissible(t)
        /\ \A i \in included : i.tx # t
    BY DEF Include, Admissible
  <1>2. new.tx = t /\ new.outcome = o
    OBVIOUS
  <1>3. PICK e \in log : e.tx = t
    BY DEF IInv, SharedOK, JournaledFirst
  <1> HIDE DEF new
  <1>4. UNCHANGED <<AtStep, OpenIntent, BookedSteps, HaltedJob>>
    BY DEF AtStep, OpenIntent, BookedSteps, BookedOf, HaltedJob
  <1>5. CASE o = "failed"
    <2>1. \A f \in log : Effective(f)' <=> Effective(f)
      BY <1>1, <1>2, <1>5 DEF Effective
    <2>2. SpentSteps' = SpentSteps
      BY <2>1 DEF SpentSteps
    <2> QED
      BY <1>4, <2>2 DEF LedgerVars
  <1>6. CASE o # "failed"
    <2> DEFINE j == e.job
               r == payments[j]
    <2>1. \A f \in log : Effective(f)' <=> Effective(f) \/ f.tx = t
      BY <1>1, <1>2, <1>6 DEF Effective
    <2>2. \A f \in log : f.tx = t => f = e
      BY <1>3 DEF TokenInv, SigsUnique
    <2>3. SpentSteps' = SpentSteps \cup {e}
      BY <1>3, <2>1, <2>2 DEF SpentSteps
    <2>4. j \in Jobs /\ t \in Txs
      BY DEF IInv, TypeOK
    <2>5. ~Spent(t)
      <3>1. head + 1 <= t.birth + Mortality /\ head \in Nat /\ t.birth \in Nat
        BY <1>1, <2>4 DEF Admissible, IInv, TypeOK, Txs
      <3> QED
        BY <1>1, <3>1, MortalityAssumption DEF Spent
    <2>6. Receipt(e) \notin r.txs
      BY <1>1, <1>3, <2>4 DEF IInv, SharedOK, ReceiptsFinal, FinalizedWith, Receipt
    <2>7. r.pending # None /\ Entry(j, r.pending) = e
      BY <1>3, <2>5, <2>6 DEF IInv, SharedOK, Accounted
    <2>8. e.step = r.step /\ r.quarantined = None
      BY <2>4, <2>7 DEF IInv, SharedOK, JournalLogged, Entry
    <2>9. OpenIntent[j] /\ AtStep[j] = e.step
      BY <2>4, <2>7, <2>8, MapAt
    <2>10. Ledger!Moved(j) = {}
      <3> SUFFICES ASSUME NEW x \in Ledger!Moved(j) PROVE FALSE
        OBVIOUS
      <3>1. x = e /\ Effective(x)
        BY <2>4, <2>7, <2>8, MovedJournaled, MovedForm
      <3> QED
        BY <1>1, <1>3, <3>1 DEF Effective
    <2>11. Ledger!Spend(j)
      BY <1>4, <2>3, <2>9, <2>10 DEF Ledger!Spend
    <2> QED
      BY <2>4, <2>11 DEF Ledger!Next
  <1> QED
    BY <1>5, <1>6

-----------------------------------------------------------------------------
LEMMA InitMaps == Init => Ledger!Init
  <1> SUFFICES ASSUME Init PROVE Ledger!Init
    OBVIOUS
  <1>1. \A j \in Jobs : /\ payments[j].step = 0 /\ payments[j].pending = None
                        /\ payments[j].txs = {} /\ payments[j].quarantined = None
    BY DEF Init, NewRecord
  <1>2. AtStep = [j \in Jobs |-> 0]
    BY <1>1 DEF AtStep
  <1>3. OpenIntent = [j \in Jobs |-> FALSE] /\ HaltedJob = [j \in Jobs |-> FALSE]
    BY <1>1 DEF OpenIntent, HaltedJob
  <1>4. SpentSteps = {}
    BY DEF Init, SpentSteps
  <1>5. \A j \in Jobs : BookedOf(j) = {}
    BY <1>1 DEF BookedOf
  <1>6. BookedSteps = {}
    BY <1>5 DEF BookedSteps
  <1> QED
    BY <1>2, <1>3, <1>4, <1>6 DEF Ledger!Init

LEMMA FailMaps ==
    ASSUME IInv, NEW w \in Workers, Fail(w)
    PROVE  UNCHANGED LedgerVars
  <1> DEFINE cur == payments[loc[w].job]
             new == RecordFailure(cur, MaxAttempts)
  <1>1. /\ UNCHANGED <<included, log>>
        /\ Update(loc[w].job, new) \/ UNCHANGED storeVars
    BY DEF Fail, chainVars
  <1>2. loc[w].job \in Jobs /\ cur \in Records /\ MaxAttempts \in Nat
    BY JournalAssumption DEF Fail, IInv, TypeOK, LocalOK, Holds
  <1>3. /\ new \in Records /\ new.pending = cur.pending /\ new.step = cur.step
        /\ new.quarantined = cur.quarantined /\ new.txs = cur.txs
    BY <1>2, FailureFields
  <1> HIDE DEF new
  <1> QED
    BY <1>1, <1>2, <1>3, NeutralUpdate, NothingMaps DEF storeVars

LEMMA ResumeMaps ==
    ASSUME IInv, NEW j \in Jobs, Retry(j) \/ ForceSweep(j)
    PROVE  UNCHANGED LedgerVars
  <1>1. Update(j, Resumed(payments[j])) /\ UNCHANGED <<included, log>>
    BY DEF Retry, ForceSweep, chainVars
  <1>2. payments[j] \in Records
    BY DEF IInv, TypeOK
  <1> QED
    BY <1>1, <1>2, ResumedFields, NeutralUpdate

LEMMA StepMaps ==
    ASSUME IInv, TokenInv, [Next]_vars
    PROVE  Ledger!Next \/ UNCHANGED LedgerVars
  <1>1. ASSUME NEW w \in Workers, EngineStep(w)
        PROVE  Ledger!Next \/ UNCHANGED LedgerVars
    <2>1. CASE \/ StepError(w) \/ ReserveSigner(w) \/ PrepareOk(w) \/ PrepareErr(w)
              \/ JournalRefused(w) \/ Broadcast(w) \/ BroadcastErr(w)
              \/ Finalized(w) \/ Scan(w) \/ ScanErr(w) \/ Crash(w)
              \/ \E j \in Jobs : List(w, j)
      <3>1. UNCHANGED <<payments, included, log>>
        BY <2>1 DEF StepError, ReserveSigner, ReserveForRecord, Reserve,
           PrepareOk, PrepareErr, CancelPreparation, JournalRefused, Refused,
           Broadcast, Submit, BroadcastErr, Finalized, Scan, ScanErr, Crash,
           List, storeVars, chainVars
      <3> QED
        BY <3>1, NothingMaps
    <2> QED
      BY <1>1, <2>1, SkipMaps, IntendMaps, ApplyMaps, FailMaps, ResolveMaps
         DEF EngineStep, Await
  <1>2. CASE ChainStep
    <2>1. UNCHANGED <<payments, log>>
      BY <1>2 DEF ChainStep, storeVars
    <2>2. CASE Finalize
      BY <2>1, <2>2, NothingMaps DEF Finalize
    <2> QED
      BY <1>2, <2>1, <2>2, SpendMaps DEF ChainStep
  <1>3. CASE UNCHANGED vars
    BY <1>3, NothingMaps DEF vars
  <1> QED
    BY <1>1, <1>2, <1>3, ResumeMaps DEF Next

(* Engines, crashes, lost replies, rivals and lagging nodes included, what  *)
(* the tables and the chain say of the jobs changes only as JobLedger says: *)
(* money moves once, under an open intent, and every intent is closed by    *)
(* booking that extrinsic or by dropping it when nothing moved.             *)
THEOREM Refinement == Spec => ImplementsLedger
  <1>1. IInv /\ TokenInv /\ [Next]_vars => [Ledger!Next]_(Ledger!ledgerVars)
    BY StepMaps DEF LedgerVars, Ledger!ledgerVars
  <1> QED
    BY <1>1, InitMaps, Inductive, TokensInductive, PTL
       DEF Spec, ImplementsLedger, Ledger!Spec
=============================================================================
