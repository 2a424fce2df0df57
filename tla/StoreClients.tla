---------------------------- MODULE StoreClients ----------------------------
(***************************************************************************)
(* The SQLite store against every sequence of calls of the Store trait and *)
(* of recover_legacy, with arguments no caller in the crate needs to have  *)
(* checked: foreign tokens, rewritten policies, replaced journals.  Only   *)
(* insert is given what its callers give it.                               *)
(* What holds here holds whatever the engines do.                          *)
(*                                                                         *)
(* A record keeps what the store's own conditions read: beside version,    *)
(* policy, identity and pending, whether it carries execution evidence     *)
(* (receipts, funding, swept positions, a late state) and the signer of a  *)
(* quarantined intent.                                                     *)
(***************************************************************************)
EXTENDS SqliteStore

CONSTANTS
    Policies,    \* values of (auto_required, buyback_budget) once decided
    Identities,  \* values of JobIdentity
    Hashes,      \* transactions a journal may name
    Treasury,    \* the treasury's signer address
    Wallet,      \* job -> the deposit address of its record
    MaxTokens    \* bound on reservations taken in a behaviour

ASSUME StoreClientsAssumption ==
    /\ Treasury \in Signers
    /\ Wallet \in [Jobs -> Signers]
    /\ MaxTokens \in Nat

Pendings ==
    [reservation : Nat \cup {None}, signer : Signers, hash : Hashes]

Rows ==
    [version : Nat, policy : Policies \cup {None},
     identity : Identities \cup {None}, pending : Pendings \cup {None},
     evidence : BOOLEAN, quarantined : Signers \cup {None}]

ASSUME NoneAssumption ==
    /\ None \notin Nat /\ None \notin Rows /\ None \notin Pendings
    /\ None \notin Policies /\ None \notin Identities
    /\ None \notin [job : Jobs, token : Nat]

(* The two tables hold well-formed rows. *)
TypeOK ==
    /\ payments \in [Jobs -> Rows \cup {None}]
    /\ reservations \in [Signers -> [job : Jobs, token : Nat] \cup {None}]
    /\ uuid \in Nat

-----------------------------------------------------------------------------
(* Rows written before policies, identities and reservations existed: idle, *)
(* or with a journal that owns no reservation.                              *)
Legacy ==
    [version |-> 0, policy |-> None, identity |-> None, pending |-> None,
     evidence |-> FALSE, quarantined |-> None]

LegacyRows ==
    {Legacy, [Legacy EXCEPT !.evidence = TRUE]} \cup
    {[Legacy EXCEPT !.pending = [reservation |-> None, signer |-> s, hash |-> h]]
        : s \in Signers, h \in Hashes}

Init ==
    /\ payments \in [Jobs -> LegacyRows \cup {None}]
    /\ reservations = [s \in Signers |-> None]
    /\ uuid = 0

-----------------------------------------------------------------------------
(* create_payment and create_sweep_job, the callers of insert, pass complete *)
(* rows at version 0.  insert itself would store any record, a journal that  *)
(* owns no reservation included; nothing is claimed of such a caller.        *)
Fresh(policy, identity) ==
    [Legacy EXCEPT !.policy = policy, !.identity = identity]

Create(job) ==
    \E p \in Policies, i \in Identities : Insert(job, Fresh(p, i))

Tokens == 0 .. uuid - 1

ReserveSigner(signer, job) == uuid < MaxTokens /\ Reserve(signer, job)

ReserveSignerForRecord(signer, job) ==
    /\ uuid < MaxTokens
    /\ \E v \in 0 .. MaxVersion :
         ReserveForRecord(signer, job, [Legacy EXCEPT !.version = v])

Cancel(signer, job) ==
    \E t \in Tokens : CancelPreparation(signer, job, t)

\* Any record update may accept: another version is refused at once.
Candidates(job) ==
    [version : {payments[job].version}, policy : Policies \cup {None},
     identity : Identities \cup {None},
     pending : [reservation : Tokens \cup {None}, signer : Signers,
                hash : Hashes] \cup {None},
     evidence : BOOLEAN, quarantined : Signers \cup {None}]

UpdateAny(job) ==
    /\ payments[job] # None
    /\ \E rec \in Candidates(job) : Update(job, rec)

\* Mutant of Pristine: a decided policy may be migrated again.
PristineDecided(rec) ==
    rec.pending = None /\ rec.quarantined = None /\ ~rec.evidence

(* migrate_legacy_policy: an undecided, pristine record nobody has reserved *)
(* a signer for; the identity stays as it was.                              *)
Pristine(rec) ==
    /\ rec.policy = None /\ rec.pending = None
    /\ rec.quarantined = None /\ ~rec.evidence

MigrateLegacyPolicy(job, version, policy) ==
    /\ \A s \in Signers : reservations[s] # None => reservations[s].job # job
    /\ payments[job] # None
    /\ payments[job].version = version
    /\ Pristine(payments[job])
    /\ version < MaxVersion
    /\ payments' = [payments EXCEPT
                      ![job] = Written([payments[job] EXCEPT !.policy = policy])]
    /\ UNCHANGED <<reservations, uuid>>

(* recover_legacy: one IMMEDIATE transaction around the archive scan, whose *)
(* verdict is an input here.  Neither of the record's two signers is owned, *)
(* journaled or quarantined anywhere.                                       *)
Busy(job) ==
    LET two == {Wallet[job], Treasury} IN
    \/ \E s \in Signers : /\ reservations[s] # None
                          /\ s \in two \/ reservations[s].job = job
    \/ \E s \in two : UnresolvedSigner(s)
    \/ \E k \in Jobs : payments[k] # None /\ payments[k].quarantined \in two

(* validate_manifest: the record the manifest names, at its version, not     *)
(* recovered before, with no or the same policy and nothing unresolved.      *)
Manifestable(rec, version, policy) ==
    /\ rec # None
    /\ rec.version = version
    /\ rec.identity = None
    /\ rec.policy \in {None, policy}
    /\ rec.pending = None /\ rec.quarantined = None

RecoverLegacy(job, version, policy, identity) ==
    LET rec == payments[job] IN
    /\ Manifestable(rec, version, policy)
    /\ ~Busy(job)
    /\ version < MaxVersion
    /\ payments' = [payments EXCEPT ![job] =
            Written([rec EXCEPT !.policy = policy, !.identity = identity])]
    /\ UNCHANGED <<reservations, uuid>>

-----------------------------------------------------------------------------
Next ==
    \E job \in Jobs :
        \/ Create(job)
        \/ \E s \in Signers : \/ ReserveSigner(s, job)
                              \/ ReserveSignerForRecord(s, job)
                              \/ Cancel(s, job)
        \/ UpdateAny(job)
        \/ \E v \in 0 .. MaxVersion, p \in Policies :
             \/ MigrateLegacyPolicy(job, v, p)
             \/ \E i \in Identities : RecoverLegacy(job, v, p, i)

Spec == Init /\ [][Next]_storeVars

-----------------------------------------------------------------------------
(* Once a job's policy or identity is decided no call changes it again,     *)
(* migration and recovery included.  (update: "immutable job budget".)      *)
PolicyFrozen ==
    [][\A j \in Jobs : payments[j] # None =>
          /\ payments[j].policy # None =>
                payments'[j].policy = payments[j].policy
          /\ payments[j].identity # None =>
                payments'[j].identity = payments[j].identity]_storeVars

(* A row is never deleted, and every write to it takes the next version, so *)
(* a caller's copy with the stored version is the stored record.            *)
NoABA ==
    [][\A j \in Jobs : payments[j] # None =>
          /\ payments'[j] # None
          /\ payments'[j] # payments[j] =>
                payments'[j].version = payments[j].version + 1]_storeVars

(* A journal is never replaced.  One written under a reservation is only    *)
(* cleared together with that reservation; a legacy one is not cleared at   *)
(* all and waits for a manual reconciliation.  (update.)                    *)
JournalKept ==
    [][\A j \in Jobs : Journaled(j) =>
          \/ payments'[j].pending = payments[j].pending
          \/ /\ Fenced(j)
             /\ payments'[j].pending = None
             /\ reservations'[payments[j].pending.signer] = None]_storeVars
=============================================================================
