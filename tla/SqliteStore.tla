---------------------------- MODULE SqliteStore ----------------------------
(***************************************************************************)
(* The SQLite store of src/src/store.rs: the `payments` table, the         *)
(* `signer_reservations` table, and the operations that write them.        *)
(*                                                                         *)
(* Every operation is one IMMEDIATE transaction, so it is one atomic step  *)
(* here.  An operation that returns Err leaves both tables as they were:   *)
(* it is the disabled case of the action, and the CanXxx predicates let a  *)
(* caller branch on it.  A record is any TLA+ record with the fields       *)
(*   version, policy (buyback_budget and auto_required), identity, pending *)
(* the other fields are the caller's own and the store only copies them.   *)
(***************************************************************************)
EXTENDS Naturals, FiniteSets

CONSTANTS
    Jobs,        \* payment ids
    Signers,     \* ss58 addresses that sign: the treasury, the payment wallets
    None,        \* Option::None, and the absent row of a table
    MaxVersion   \* u64::MAX, where checked_add on the version refuses

ASSUME MaxVersionAssumption == MaxVersion \in Nat

VARIABLES
    payments,      \* id -> stored record, or None
    reservations,  \* signer -> [job, token], or None (signer is PRIMARY KEY)
    uuid           \* the next fresh reservation token

storeVars == <<payments, reservations, uuid>>

-----------------------------------------------------------------------------
Journaled(job) == payments[job] # None /\ payments[job].pending # None

\* EXISTS (... json_extract(record,'$.pending.signer') = signer)
UnresolvedSigner(signer) ==
    \E job \in Jobs : Journaled(job) /\ payments[job].pending.signer = signer

Owns(signer, job, token) ==
    reservations[signer] = [job |-> job, token |-> token]

-----------------------------------------------------------------------------
\* Mutants of CanReserve: no check at all; legacy journals do not fence.
ReserveAlways(signer) == TRUE
ReserveOverJournal(signer) == reservations[signer] = None

(* reserve: the signer has no unresolved journal, legacy or not, and no row *)
(* in signer_reservations.  The row is durable and has no expiry.           *)
CanReserve(signer) ==
    /\ ~UnresolvedSigner(signer)
    /\ reservations[signer] = None

Reserve(signer, job) ==
    /\ CanReserve(signer)
    /\ reservations' =
         [reservations EXCEPT ![signer] = [job |-> job, token |-> uuid]]
    /\ uuid' = uuid + 1
    /\ UNCHANGED payments

(* reserve_signer_for_record: the same, and the caller's copy is current.   *)
CanReserveForRecord(signer, job, rec) ==
    /\ payments[job] # None
    /\ payments[job].version = rec.version
    /\ CanReserve(signer)

ReserveForRecord(signer, job, rec) ==
    CanReserveForRecord(signer, job, rec) /\ Reserve(signer, job)

\* Mutant of CanCancel: a reservation is released under its journal.
CancelJournaled(signer, job, token) == Owns(signer, job, token)

(* cancel_preparation: only this exact token, and only while neither the    *)
(* signer nor the job has a journal.                                        *)
CanCancel(signer, job, token) ==
    /\ Owns(signer, job, token)
    /\ ~UnresolvedSigner(signer)
    /\ ~Journaled(job)

CancelPreparation(signer, job, token) ==
    /\ CanCancel(signer, job, token)
    /\ reservations' = [reservations EXCEPT ![signer] = None]
    /\ UNCHANGED <<payments, uuid>>

(* insert: the id is the primary key. *)
Insert(job, rec) ==
    /\ payments[job] = None
    /\ payments' = [payments EXCEPT ![job] = rec]
    /\ UNCHANGED <<reservations, uuid>>

-----------------------------------------------------------------------------
(* update: compare-and-swap on the version; the policy and the identity are *)
(* immutable; a written journal must own its reservation; a journal may not *)
(* be replaced, only cleared, and clearing it deletes its reservation in    *)
(* the same transaction.                                                    *)
OwnedJournal(job, p) ==
    /\ p.reservation # None
    /\ Owns(p.signer, job, p.reservation)

\* Mutants of CanUpdate: the last writer wins; a journal may be replaced.
UpdateUnversioned(job, rec) ==
    LET previous == payments[job] IN
    /\ rec.pending # None => OwnedJournal(job, rec.pending)
    /\ previous.pending # None =>
         \/ rec.pending = previous.pending
         \/ rec.pending = None /\ OwnedJournal(job, previous.pending)
    /\ rec.version < MaxVersion

UpdateReplacing(job, rec) ==
    LET previous == payments[job] IN
    /\ previous # None
    /\ previous.version = rec.version
    /\ previous.policy = rec.policy
    /\ previous.identity = rec.identity
    /\ rec.pending # None => OwnedJournal(job, rec.pending)
    /\ rec.version < MaxVersion

CanUpdate(job, rec) ==
    LET previous == payments[job] IN
    /\ previous # None
    /\ previous.version = rec.version
    /\ previous.policy = rec.policy
    /\ previous.identity = rec.identity
    /\ rec.pending # None => OwnedJournal(job, rec.pending)
    /\ previous.pending # None =>
         \/ rec.pending = previous.pending
         \/ rec.pending = None /\ OwnedJournal(job, previous.pending)
    /\ rec.version < MaxVersion

\* Mutant of Written: the version is not bumped.
WrittenSameVersion(rec) == rec

Written(rec) == [rec EXCEPT !.version = rec.version + 1]

Update(job, rec) ==
    /\ CanUpdate(job, rec)
    /\ payments' = [payments EXCEPT ![job] = Written(rec)]
    /\ reservations' =
         IF payments[job].pending # None /\ rec.pending = None
         THEN [reservations EXCEPT ![payments[job].pending.signer] = None]
         ELSE reservations
    /\ UNCHANGED uuid

\* Error::Conflict, as opposed to Error::Store, is a version mismatch.
Conflict(job, rec) == payments[job].version # rec.version

-----------------------------------------------------------------------------
(* A journal written under a reservation is fenced; a legacy journal, from  *)
(* before reservations existed, has none.                                   *)
Fenced(job) == Journaled(job) /\ payments[job].pending.reservation # None

(* The reservation of a fenced journal is in the table, under its signer,   *)
(* job and token, until update clears the journal; a signer with a legacy   *)
(* journal is never reserved.  (store.rs: update, reserve, cancel.)         *)
JournalOwned ==
    \A job \in Jobs : Journaled(job) =>
        IF Fenced(job)
        THEN OwnedJournal(job, payments[job].pending)
        ELSE reservations[payments[job].pending.signer] = None

(* Two records never hold unresolved journals of the same signer when one   *)
(* of them was written under a reservation: whoever prepares the signer's   *)
(* next nonce is alone.  (store.rs: reserve "exclusive durable signer       *)
(* ownership, BEFORE nonce selection".)                                     *)
OneJournalPerSigner ==
    \A j, k \in Jobs :
        /\ Fenced(j)
        /\ Journaled(k)
        /\ payments[j].pending.signer = payments[k].pending.signer
        => j = k
=============================================================================
