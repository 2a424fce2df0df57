------------------------ MODULE StoreClients_proofs ------------------------
(***************************************************************************)
(* What the SQLite store guarantees whatever its callers do, for any       *)
(* number of jobs, signers, policies and tokens.  A row changes in few     *)
(* ways (RowStep); the invariant relates the two tables.                   *)
(***************************************************************************)
EXTENDS StoreClients, TLAPS

LEMMA RowFields ==
    ASSUME NEW r \in Rows
    PROVE  /\ r # None
           /\ r.version \in Nat /\ r.pending \in Pendings \cup {None}
           /\ Written(r) \in Rows
           /\ Written(r).version = r.version + 1
           /\ Written(r).policy = r.policy
           /\ Written(r).identity = r.identity
           /\ Written(r).pending = r.pending
  <1>1. r # None
    BY NoneAssumption
  <1>2. r.version \in Nat /\ r.version + 1 \in Nat
    BY DEF Rows
  <1>3. \A n \in Nat : [r EXCEPT !.version = n] \in Rows
    BY DEF Rows
  <1> QED
    BY <1>1, <1>2, <1>3 DEF Written, Rows

\* One row becomes a row; the others stay.
LEMMA PutRow ==
    ASSUME TypeOK, NEW job \in Jobs, NEW r \in Rows,
           payments' = [payments EXCEPT ![job] = r]
    PROVE  /\ payments' \in [Jobs -> Rows \cup {None}]
           /\ payments'[job] = r
           /\ \A k \in Jobs : k # job => payments'[k] = payments[k]
  BY DEF TypeOK

LEMMA FreshRow ==
    ASSUME NEW p \in Policies, NEW i \in Identities
    PROVE  Fresh(p, i) \in Rows /\ Fresh(p, i).pending = None
  BY DEF Fresh, Legacy, Rows

LEMMA CandidateRow ==
    ASSUME TypeOK, NEW job \in Jobs, payments[job] # None,
           NEW r \in Candidates(job)
    PROVE  r \in Rows /\ r.version = payments[job].version
  <1>1. payments[job].version \in Nat
    BY RowFields DEF TypeOK
  <1>2. Tokens \subseteq Nat
    BY DEF Tokens, TypeOK
  <1>3. r.pending \in Pendings \cup {None}
    BY <1>2 DEF Candidates, Pendings
  <1> QED
    BY <1>1, <1>3 DEF Candidates, Rows

-----------------------------------------------------------------------------
(* What may happen to a row, and to its reservation with it. *)

\* The journal stays, is written under a reservation, or is cleared with it.
JournalStep(job, next) ==
    LET prev == payments[job].pending
    IN  \/ next = prev
        \/ prev = None /\ OwnedJournal(job, next)
        \/ prev # None /\ next = None /\ OwnedJournal(job, prev)

Freed(job, next) ==
    IF payments[job].pending # None /\ next = None
    THEN [reservations EXCEPT ![payments[job].pending.signer] = None]
    ELSE reservations

RowStep(job) ==
    /\ payments[job] # None
    /\ \E r \in Rows :
         /\ payments' = [payments EXCEPT ![job] = Written(r)]
         /\ r.version = payments[job].version
         /\ payments[job].policy # None => r.policy = payments[job].policy
         /\ payments[job].identity # None => r.identity = payments[job].identity
         /\ JournalStep(job, r.pending)
         /\ reservations' = Freed(job, r.pending)
    /\ uuid' = uuid

LEMMA UpdateRow ==
    ASSUME TypeOK, NEW job \in Jobs, UpdateAny(job)
    PROVE  RowStep(job)
  <1>1. payments[job] # None
    BY DEF UpdateAny
  <1>2. PICK r \in Candidates(job) : Update(job, r)
    BY DEF UpdateAny
  <1>3. r \in Rows
    BY <1>1, CandidateRow
  <1>4. CanUpdate(job, r)
    BY <1>2 DEF Update
  <1>5. JournalStep(job, r.pending)
    BY <1>4 DEF CanUpdate, JournalStep
  <1>6. reservations' = Freed(job, r.pending)
    BY <1>2 DEF Update, Freed
  <1>7. /\ payments' = [payments EXCEPT ![job] = Written(r)]
        /\ r.version = payments[job].version
        /\ r.policy = payments[job].policy
        /\ r.identity = payments[job].identity
        /\ uuid' = uuid
    BY <1>2, <1>4 DEF Update, CanUpdate
  <1> QED
    BY <1>1, <1>3, <1>5, <1>6, <1>7 DEF RowStep

LEMMA PolicyRow ==
    ASSUME TypeOK, NEW job \in Jobs, NEW v, NEW p \in Policies,
           \/ MigrateLegacyPolicy(job, v, p)
           \/ \E i \in Identities : RecoverLegacy(job, v, p, i)
    PROVE  RowStep(job)
  <1> DEFINE old == payments[job]
  <1>1. old # None /\ old \in Rows /\ old.pending = None
    BY DEF MigrateLegacyPolicy, Pristine, RecoverLegacy, Manifestable, TypeOK
  <1>2. UNCHANGED <<reservations, uuid>>
    BY DEF MigrateLegacyPolicy, RecoverLegacy
  <1>3. CASE MigrateLegacyPolicy(job, v, p)
    <2> DEFINE r == [old EXCEPT !.policy = p]
    <2>1. r \in Rows
      BY <1>1 DEF Rows
    <2>2. /\ r.version = old.version /\ r.identity = old.identity
          /\ r.pending = None
      BY <1>1 DEF Rows
    <2>3. old.policy = None /\ payments' = [payments EXCEPT ![job] = Written(r)]
      BY <1>3 DEF MigrateLegacyPolicy, Pristine
    <2> HIDE DEF r
    <2> QED
      BY <1>1, <1>2, <2>1, <2>2, <2>3 DEF RowStep, JournalStep, Freed
  <1>4. ASSUME NEW i \in Identities, RecoverLegacy(job, v, p, i)
        PROVE  RowStep(job)
    <2> DEFINE r == [old EXCEPT !.policy = p, !.identity = i]
    <2>1. r \in Rows
      BY <1>1 DEF Rows
    <2>2. r.version = old.version /\ r.pending = None /\ r.policy = p
      BY <1>1 DEF Rows
    <2>3. /\ old.identity = None /\ (old.policy # None => old.policy = p)
          /\ payments' = [payments EXCEPT ![job] = Written(r)]
      BY <1>4 DEF RecoverLegacy, Manifestable
    <2> HIDE DEF r
    <2> QED
      BY <1>1, <1>2, <2>1, <2>2, <2>3 DEF RowStep, JournalStep, Freed
  <1> QED
    BY <1>3, <1>4

(* Every step writes one existing row, or a new one, or the reservations.   *)
NewRow(job) ==
    /\ payments[job] = None
    /\ \E r \in Rows : r.pending = None
                       /\ payments' = [payments EXCEPT ![job] = r]
    /\ UNCHANGED <<reservations, uuid>>

TokenStep(s) ==
    /\ ~UnresolvedSigner(s)
    /\ \E x \in [job : Jobs, token : Nat] \cup {None} :
          reservations' = [reservations EXCEPT ![s] = x]
    /\ uuid' \in {uuid, uuid + 1}
    /\ payments' = payments

LEMMA Steps ==
    ASSUME TypeOK, [Next]_storeVars
    PROVE  \/ UNCHANGED storeVars
           \/ \E job \in Jobs : RowStep(job) \/ NewRow(job)
           \/ \E s \in Signers : TokenStep(s)
  <1>1. ASSUME NEW job \in Jobs, Create(job) PROVE NewRow(job)
    BY <1>1, FreshRow DEF Create, Insert, NewRow
  <1>2. ASSUME NEW job \in Jobs, NEW s \in Signers,
               \/ ReserveSigner(s, job) \/ ReserveSignerForRecord(s, job)
        PROVE  TokenStep(s)
    <2>1. Reserve(s, job)
      BY <1>2 DEF ReserveSigner, ReserveSignerForRecord, ReserveForRecord
    <2>2. [job |-> job, token |-> uuid] \in [job : Jobs, token : Nat]
      BY DEF TypeOK
    <2> QED
      BY <2>1, <2>2 DEF Reserve, CanReserve, TokenStep
  <1>3. ASSUME NEW job \in Jobs, NEW s \in Signers, Cancel(s, job)
        PROVE  TokenStep(s)
    BY <1>3 DEF Cancel, CancelPreparation, CanCancel, TokenStep
  <1> QED
    BY <1>1, <1>2, <1>3, UpdateRow, PolicyRow DEF Next

-----------------------------------------------------------------------------
(* The invariant. *)

LEMMA TypeStep ==
    ASSUME TypeOK, [Next]_storeVars
    PROVE  TypeOK'
  <1>1. ASSUME NEW job \in Jobs, RowStep(job) PROVE TypeOK'
    <2>1. PICK r \in Rows : /\ payments' = [payments EXCEPT ![job] = Written(r)]
                            /\ reservations' = Freed(job, r.pending)
      BY <1>1 DEF RowStep
    <2>2. reservations' \in [Signers -> [job : Jobs, token : Nat] \cup {None}]
      BY <2>1 DEF Freed, TypeOK
    <2> QED
      BY <1>1, <2>1, <2>2, RowFields, PutRow DEF RowStep, TypeOK
  <1>2. ASSUME NEW job \in Jobs, NewRow(job) PROVE TypeOK'
    BY <1>2, PutRow DEF NewRow, TypeOK
  <1>3. ASSUME NEW s \in Signers, TokenStep(s) PROVE TypeOK'
    BY <1>3 DEF TokenStep, TypeOK
  <1>4. CASE UNCHANGED storeVars
    BY <1>4 DEF storeVars, TypeOK
  <1> QED
    BY <1>1, <1>2, <1>3, <1>4, Steps

\* JournalOwned for one job.
OwnedBy(job) ==
    Journaled(job) =>
        IF Fenced(job)
        THEN OwnedJournal(job, payments[job].pending)
        ELSE reservations[payments[job].pending.signer] = None

(* A reservation that a journal owns is no other job's. *)
LEMMA OwnedOnce ==
    ASSUME TypeOK, NEW job, NEW k, NEW p, NEW q, p.signer = q.signer,
           OwnedJournal(job, p), p.reservation \in Nat, job \in Jobs,
           \/ OwnedJournal(k, q)
           \/ reservations[q.signer] = None
    PROVE  job = k
  <1>1. reservations[p.signer] = [job |-> job, token |-> p.reservation]
    BY DEF OwnedJournal, Owns
  <1>2. reservations[p.signer] # None /\ reservations[p.signer].job = job
    BY <1>1, NoneAssumption
  <1> QED
    BY <1>2 DEF OwnedJournal, Owns

LEMMA OwnedStep ==
    ASSUME TypeOK, JournalOwned, [Next]_storeVars
    PROVE  JournalOwned'
  <1>1. \A k \in Jobs : OwnedBy(k)
    BY DEF JournalOwned, OwnedBy
  <1>2. SUFFICES ASSUME NEW k \in Jobs PROVE OwnedBy(k)'
    BY DEF JournalOwned, OwnedBy, Journaled, Fenced, OwnedJournal, Owns
  <1>3. ASSUME NEW job \in Jobs, RowStep(job) PROVE OwnedBy(k)'
    <2>1. PICK r \in Rows :
             /\ payments' = [payments EXCEPT ![job] = Written(r)]
             /\ JournalStep(job, r.pending)
             /\ reservations' = Freed(job, r.pending)
      BY <1>3 DEF RowStep
    <2>2. /\ payments'[job] # None /\ payments'[job].pending = r.pending
          /\ \A i \in Jobs : i # job => payments'[i] = payments[i]
      BY <2>1, RowFields, PutRow
    <2>3. payments[job] # None /\ payments[job] \in Rows
      BY <1>3 DEF RowStep, TypeOK
    <2> DEFINE p == payments[job].pending
    <2>4. CASE p # None /\ r.pending = None
      <3>1. /\ OwnedJournal(job, p)
            /\ reservations' = [reservations EXCEPT ![p.signer] = None]
        BY <2>1, <2>4 DEF JournalStep, Freed
      <3>2. p \in Pendings
        BY <2>3, <2>4, RowFields
      <3>3. p.reservation \in Nat /\ p.signer \in Signers
        BY <3>1, <3>2 DEF Pendings, OwnedJournal
      <3>4. CASE k = job
        BY <2>2, <2>4, <3>4 DEF OwnedBy, Journaled
      <3>5. CASE k # job /\ ~Journaled(k)
        BY <2>2, <3>5 DEF OwnedBy, Journaled
      <3>6. CASE k # job /\ Journaled(k)
        <4> DEFINE q == payments[k].pending
        <4>1. \/ OwnedJournal(k, q)
              \/ reservations[q.signer] = None
          BY <1>1, <3>6 DEF OwnedBy
        <4>2. q.signer # p.signer
          BY <3>1, <3>3, <3>6, <4>1, OwnedOnce
        <4>3. q.signer \in Signers
          <5>1. payments[k] \in Rows /\ q # None
            BY <3>6 DEF TypeOK, Journaled
          <5> QED
            BY <5>1, RowFields DEF Pendings
        <4>4. reservations'[q.signer] = reservations[q.signer]
          BY <3>1, <4>2, <4>3 DEF TypeOK
        <4> QED
          BY <1>1, <2>2, <3>6, <4>4 DEF OwnedBy, Journaled, Fenced, OwnedJournal, Owns
      <3> QED
        BY <3>4, <3>5, <3>6
    <2>5. CASE ~(p # None /\ r.pending = None)
      <3>1. reservations' = reservations
        BY <2>1, <2>5 DEF Freed
      <3>2. CASE k # job
        BY <1>1, <2>2, <3>1, <3>2 DEF OwnedBy, Journaled, Fenced, OwnedJournal, Owns
      <3>3. CASE k = job /\ r.pending = p
        BY <1>1, <2>2, <2>3, <3>1, <3>3
           DEF OwnedBy, Journaled, Fenced, OwnedJournal, Owns
      <3>4. CASE k = job /\ r.pending # p
        <4>1. OwnedJournal(job, r.pending)
          BY <2>1, <2>5, <3>4 DEF JournalStep
        <4> QED
          BY <2>2, <3>1, <3>4, <4>1 DEF OwnedBy, Journaled, Fenced, OwnedJournal, Owns
      <3> QED
        BY <3>2, <3>3, <3>4
    <2> QED
      BY <2>4, <2>5
  <1>4. ASSUME NEW job \in Jobs, NewRow(job) PROVE OwnedBy(k)'
    <2>1. PICK r \in Rows : r.pending = None /\ payments' = [payments EXCEPT ![job] = r]
      BY <1>4 DEF NewRow
    <2>2. payments'[job].pending = None /\ \A i \in Jobs : i # job => payments'[i] = payments[i]
      BY <2>1, PutRow
    <2>3. reservations' = reservations
      BY <1>4 DEF NewRow
    <2> QED
      BY <1>1, <2>2, <2>3 DEF OwnedBy, Journaled, Fenced, OwnedJournal, Owns
  <1>5. ASSUME NEW s \in Signers, TokenStep(s) PROVE OwnedBy(k)'
    <2>1. payments' = payments
      BY <1>5 DEF TokenStep
    <2>2. CASE ~Journaled(k)
      BY <2>1, <2>2 DEF OwnedBy, Journaled
    <2>3. CASE Journaled(k)
      <3> DEFINE q == payments[k].pending
      <3>1. q.signer # s
        BY <1>5, <2>3 DEF TokenStep, UnresolvedSigner
      <3>2. payments[k] \in Rows /\ q # None
        BY <2>3 DEF TypeOK, Journaled
      <3>3. q.signer \in Signers
        BY <3>2, RowFields DEF Pendings
      <3>4. reservations'[q.signer] = reservations[q.signer]
        BY <1>5, <3>1, <3>3 DEF TokenStep, TypeOK
      <3> QED
        BY <1>1, <2>1, <3>4 DEF OwnedBy, Journaled, Fenced, OwnedJournal, Owns
    <2> QED
      BY <2>2, <2>3
  <1>6. CASE UNCHANGED storeVars
    BY <1>1, <1>6 DEF storeVars, OwnedBy, Journaled, Fenced, OwnedJournal, Owns
  <1> QED
    BY <1>3, <1>4, <1>5, <1>6, Steps

LEMMA InitOK == Init => TypeOK /\ JournalOwned
  <1> SUFFICES ASSUME Init PROVE TypeOK /\ JournalOwned
    OBVIOUS
  <1>1. Legacy \in Rows /\ Legacy.pending = None
    BY DEF Legacy, Rows
  <1>2. ASSUME NEW s \in Signers, NEW h \in Hashes
        PROVE  LET p == [reservation |-> None, signer |-> s, hash |-> h]
               IN  p \in Pendings /\ [Legacy EXCEPT !.pending = p] \in Rows
                   /\ [Legacy EXCEPT !.pending = p].pending = p
    <2> DEFINE p == [reservation |-> None, signer |-> s, hash |-> h]
    <2>1. p \in Pendings
      BY DEF Pendings
    <2> HIDE DEF p
    <2>2. [Legacy EXCEPT !.pending = p] \in Rows /\ [Legacy EXCEPT !.pending = p].pending = p
      BY <1>1, <2>1 DEF Rows
    <2> QED
      BY <2>1, <2>2 DEF p
  <1>3. [Legacy EXCEPT !.evidence = TRUE] \in Rows
        /\ [Legacy EXCEPT !.evidence = TRUE].pending = None
    BY <1>1 DEF Rows
  <1>4. ASSUME NEW r \in LegacyRows
        PROVE  /\ r \in Rows
               /\ r.pending # None => r.pending.reservation = None
                                      /\ r.pending.signer \in Signers
    <2>1. CASE r \in {Legacy, [Legacy EXCEPT !.evidence = TRUE]}
      BY <1>1, <1>3, <2>1
    <2>2. ASSUME NEW s \in Signers, NEW h \in Hashes,
                 r = [Legacy EXCEPT !.pending =
                        [reservation |-> None, signer |-> s, hash |-> h]]
          PROVE  r \in Rows /\ r.pending.reservation = None
                 /\ r.pending.signer \in Signers
      BY <1>2, <2>2
    <2> QED
      BY <2>1, <2>2 DEF LegacyRows
  <1>5. TypeOK
    BY <1>4 DEF Init, TypeOK
  <1>6. JournalOwned
    BY <1>4 DEF Init, JournalOwned, Journaled, Fenced
  <1> QED
    BY <1>5, <1>6

(* The two tables hold well-formed rows whatever is called.                 *)
THEOREM TypeCorrect == Spec => []TypeOK
  <1>1. TypeOK /\ [Next]_storeVars => TypeOK'
    BY TypeStep
  <1> QED
    BY <1>1, InitOK, PTL DEF Spec

(* A journal and its reservation come and go together, and a signer with a  *)
(* legacy journal is never reserved, whatever tokens, records, migrations   *)
(* and recoveries callers try (update, reserve, cancel_preparation).        *)
THEOREM JournalsOwned == Spec => []JournalOwned
  <1>1. TypeOK /\ JournalOwned /\ [Next]_storeVars => (TypeOK /\ JournalOwned)'
    BY TypeStep, OwnedStep
  <1> QED
    BY <1>1, InitOK, PTL DEF Spec

(* Whoever journals under a reservation is alone with the signer, against   *)
(* any caller of the store and not only the engine (reserve).               *)
THEOREM SignerExclusive == Spec => []OneJournalPerSigner
  <1>1. TypeOK /\ JournalOwned => OneJournalPerSigner
    <2> SUFFICES ASSUME TypeOK, JournalOwned, NEW j \in Jobs, NEW k \in Jobs,
                        Fenced(j), Journaled(k),
                        payments[j].pending.signer = payments[k].pending.signer
                 PROVE  j = k
      BY DEF OneJournalPerSigner
    <2>1. OwnedJournal(j, payments[j].pending)
      BY DEF JournalOwned, Fenced
    <2>2. payments[j].pending.reservation \in Nat
      <3>1. payments[j] \in Rows /\ payments[j].pending # None
        BY DEF TypeOK, Fenced, Journaled
      <3> QED
        BY <3>1, RowFields DEF Fenced, Pendings
    <2>3. \/ OwnedJournal(k, payments[k].pending)
          \/ reservations[payments[k].pending.signer] = None
      BY DEF JournalOwned
    <2> QED
      BY <2>1, <2>2, <2>3, OwnedOnce
  <1> QED
    BY <1>1, TypeCorrect, JournalsOwned, PTL

-----------------------------------------------------------------------------
(* What a step never does to a row. *)
LEMMA RowChanges ==
    ASSUME TypeOK, [Next]_storeVars, NEW j \in Jobs, payments[j] # None,
           payments'[j] # payments[j]
    PROVE  /\ RowStep(j) /\ payments'[j] \in Rows
           /\ payments'[j].version = payments[j].version + 1
           /\ payments[j].policy # None => payments'[j].policy = payments[j].policy
           /\ payments[j].identity # None =>
                payments'[j].identity = payments[j].identity
           /\ JournalStep(j, payments'[j].pending)
           /\ reservations' = Freed(j, payments'[j].pending)
  <1>1. ASSUME NEW job \in Jobs, NewRow(job) \/ (RowStep(job) /\ job # j)
        PROVE  FALSE
    <2>1. PICK r \in Rows : payments' = [payments EXCEPT ![job] = r]
      BY <1>1, RowFields DEF NewRow, RowStep
    <2>2. job # j
      BY <1>1 DEF NewRow
    <2> QED
      BY <2>1, <2>2, PutRow
  <1>2. RowStep(j)
    BY <1>1, Steps DEF storeVars, TokenStep
  <1>3. PICK r \in Rows :
         /\ payments' = [payments EXCEPT ![j] = Written(r)]
         /\ r.version = payments[j].version
         /\ payments[j].policy # None => r.policy = payments[j].policy
         /\ payments[j].identity # None => r.identity = payments[j].identity
         /\ JournalStep(j, r.pending)
         /\ reservations' = Freed(j, r.pending)
    BY <1>2 DEF RowStep
  <1>4. payments'[j] = Written(r)
    BY <1>3, RowFields, PutRow
  <1> QED
    BY <1>2, <1>3, <1>4, RowFields

(* A decided policy or identity is final: update, migrate_legacy_policy and *)
(* recover_legacy included.                                                 *)
THEOREM PoliciesFrozen == Spec => PolicyFrozen
  <1>1. TypeOK /\ [Next]_storeVars =>
          [\A j \in Jobs : payments[j] # None =>
             /\ payments[j].policy # None =>
                   payments'[j].policy = payments[j].policy
             /\ payments[j].identity # None =>
                   payments'[j].identity = payments[j].identity]_storeVars
    BY RowChanges
  <1> QED
    BY <1>1, TypeCorrect, PTL DEF Spec, PolicyFrozen

(* Versions count the writes to a row, so the compare-and-swap of update is *)
(* sound for every caller.                                                  *)
THEOREM VersionsCount == Spec => NoABA
  <1>1. TypeOK /\ [Next]_storeVars =>
          [\A j \in Jobs : payments[j] # None =>
             /\ payments'[j] # None
             /\ payments'[j] # payments[j] =>
                   payments'[j].version = payments[j].version + 1]_storeVars
    BY RowChanges, RowFields
  <1> QED
    BY <1>1, TypeCorrect, PTL DEF Spec, NoABA

(* A journal is never replaced; it is cleared only with its reservation,    *)
(* and a legacy one by nobody (update).                                     *)
THEOREM JournalsKept == Spec => JournalKept
  <1>1. ASSUME TypeOK, [Next]_storeVars, NEW j \in Jobs, Journaled(j)
        PROVE  \/ payments'[j].pending = payments[j].pending
               \/ /\ Fenced(j)
                  /\ payments'[j].pending = None
                  /\ reservations'[payments[j].pending.signer] = None
    <2> DEFINE p == payments[j].pending
    <2>1. payments[j] # None /\ p # None /\ payments[j] \in Rows
      BY <1>1 DEF Journaled, TypeOK
    <2>2. CASE payments'[j] = payments[j]
      BY <2>2
    <2>3. CASE payments'[j] # payments[j] /\ payments'[j].pending # p
      <3>1. /\ JournalStep(j, payments'[j].pending)
            /\ reservations' = Freed(j, payments'[j].pending)
        BY <1>1, <2>1, <2>3, RowChanges
      <3>2. payments'[j].pending = None /\ OwnedJournal(j, p)
        BY <2>1, <2>3, <3>1 DEF JournalStep
      <3>3. p.signer \in Signers
        BY <2>1, RowFields DEF Pendings
      <3>4. reservations'[p.signer] = None
        BY <1>1, <2>1, <3>1, <3>2, <3>3 DEF Freed, TypeOK
      <3> QED
        BY <1>1, <3>2, <3>4 DEF Fenced, OwnedJournal
    <2> QED
      BY <2>2, <2>3
  <1>2. TypeOK /\ [Next]_storeVars =>
          [\A j \in Jobs : Journaled(j) =>
             \/ payments'[j].pending = payments[j].pending
             \/ /\ Fenced(j)
                /\ payments'[j].pending = None
                /\ reservations'[payments[j].pending.signer] = None]_storeVars
    BY <1>1
  <1> QED
    BY <1>2, TypeCorrect, PTL DEF Spec, JournalKept
=============================================================================
