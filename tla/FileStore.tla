----------------------------- MODULE FileStore -----------------------------
(***************************************************************************)
(* The JSON-file store of src/src/store.rs: one job's file, the temporary  *)
(* file that replaces it, and the tasks of the one process that use it.    *)
(*                                                                         *)
(* A write holds the mutex over four I/O steps, each of which may fail; a  *)
(* get or a list takes no lock.  `file` is what a reader sees and `disk`   *)
(* what the directory on the disk holds; the kernel may copy one to the    *)
(* other at any time and a power failure leaves the second.  File contents *)
(* that were not synced may be torn then.                                  *)
(***************************************************************************)
EXTENDS Naturals, FiniteSets

CONSTANTS
    Tasks,    \* concurrent callers
    None,     \* no file, no lock holder, no copy, no policy
    MaxOps    \* bound on the writes begun

VARIABLES
    file,     \* [rec, synced, torn] of <id>.json, or None
    disk,     \* the same, as the disk holds it
    tmp,      \* the same, for <id>.json.tmp
    holder,   \* the write under the mutex: [task, op, rec, at], or None
    copy,     \* task -> the record it read or wrote last, or None
    ops,      \* number of writes begun; a write is named by its number
    acked     \* [op, policy] of the writes that returned Ok

vars == <<file, disk, tmp, holder, copy, ops, acked>>

-----------------------------------------------------------------------------
(* A record: its version, the writes it incorporates, the write that decided *)
(* its immutable part (auto_required, buyback_budget; update compares the   *)
(* identity the same way), and whether it has execution evidence.           *)
Record == [version: Nat, writes: SUBSET (1 .. MaxOps),
           policy: 1 .. MaxOps \cup {None}, ran: BOOLEAN]

File == [rec: Record, synced: BOOLEAN, torn: BOOLEAN]
Write == [task: Tasks, op: 1 .. MaxOps, rec: Record,
          at: {"open", "written", "synced", "renamed"}]

ASSUME FileStoreAssumption ==
    MaxOps \in Nat /\ None \notin Record \cup File \cup Write \cup Nat

TypeOK ==
    /\ {file, disk, tmp} \subseteq File \cup {None}
    /\ holder \in Write \cup {None}
    /\ copy \in [Tasks -> Record \cup {None}]
    /\ ops \in 0 .. MaxOps
    /\ acked \subseteq [op: 1 .. MaxOps, policy: 1 .. MaxOps \cup {None}]

Contents(rec) == [rec |-> rec, synced |-> FALSE, torn |-> FALSE]

\* read: a torn file does not parse and is an error.
Readable(f) == f # None /\ ~f.torn

Begin(t, rec) ==
    /\ holder = None /\ ops < MaxOps
    /\ ops' = ops + 1
    /\ holder' = [task |-> t, op |-> ops + 1, at |-> "open",
                  rec |-> [rec EXCEPT !.writes = @ \cup {ops + 1}]]
    /\ UNCHANGED <<file, disk, tmp, copy, acked>>

(* get, list: without the lock. *)
Get(t) ==
    /\ Readable(file)
    /\ copy' = [copy EXCEPT ![t] = file.rec]
    /\ UNCHANGED <<file, disk, tmp, holder, ops, acked>>

(* insert: the records its callers make, at version 0, with a policy or as a *)
(* legacy record without one.                                                *)
Insert(t) ==
    /\ file = None
    /\ \E policy \in {None, ops + 1} :
         Begin(t, [version |-> 0, writes |-> {}, policy |-> policy,
                   ran |-> FALSE])

\* Mutants of CanUpdate: no compare-and-swap; the policy is not compared.
UpdateUnversioned(rec) == Readable(file) /\ rec.policy = file.rec.policy
UpdatePolicy(rec) == Readable(file) /\ rec.version = file.rec.version

CanUpdate(rec) ==
    /\ Readable(file)
    /\ rec.policy = file.rec.policy
    /\ rec.version = file.rec.version

\* Mutant of Bumped: the version stays.
Unbumped(rec) == rec

Bumped(rec) == [rec EXCEPT !.version = @ + 1]

(* update: the caller's copy with its changes, evidence and policy included. *)
Update(t) ==
    /\ copy[t] # None
    /\ \E policy \in {copy[t].policy, ops + 1}, ran \in {copy[t].ran, TRUE} :
         LET rec == [copy[t] EXCEPT !.policy = policy, !.ran = ran] IN
         CanUpdate(rec) /\ Begin(t, Bumped(rec))

(* migrate_legacy_policy: the current record, if it is at the version the    *)
(* operator names, has no policy and no execution evidence.                  *)
Migrate(t) ==
    /\ copy[t] # None /\ Readable(file)
    /\ file.rec.version = copy[t].version
    /\ file.rec.policy = None /\ ~file.rec.ran
    /\ Begin(t, Bumped([file.rec EXCEPT !.policy = ops + 1]))

-----------------------------------------------------------------------------
(* write: open and write the temporary file, sync it, rename it over the    *)
(* record, sync the directory.                                              *)
At(stage) == holder # None /\ holder.at = stage
Goto(stage) == holder' = [holder EXCEPT !.at = stage]

WriteAll ==
    /\ At("open") /\ Goto("written")
    /\ tmp' = Contents(holder.rec)
    /\ UNCHANGED <<file, disk, copy, ops, acked>>

\* Mutant of SyncTmp: the contents are left to the kernel.
SkipSyncTmp ==
    /\ At("written") /\ Goto("synced")
    /\ UNCHANGED <<file, disk, tmp, copy, ops, acked>>

SyncTmp ==
    /\ At("written") /\ Goto("synced")
    /\ tmp' = [tmp EXCEPT !.synced = TRUE]
    /\ UNCHANGED <<file, disk, copy, ops, acked>>

Rename ==
    /\ At("synced") /\ Goto("renamed")
    /\ file' = tmp /\ tmp' = None
    /\ UNCHANGED <<disk, copy, ops, acked>>

Return ==
    /\ holder' = None
    /\ copy' = [copy EXCEPT ![holder.task] = holder.rec]
    /\ acked' = acked \cup {[op |-> holder.op, policy |-> holder.rec.policy]}

\* Mutant of SyncDir: the directory entry is left to the kernel.
SkipSyncDir == At("renamed") /\ Return /\ UNCHANGED <<file, disk, tmp, ops>>

(* The directory is opened and synced, on unix only (cfg(unix) in write): on *)
(* another system the code is SkipSyncDir and AckedKept is not claimed.      *)
SyncDir ==
    /\ At("renamed") /\ Return
    /\ disk' = file
    /\ UNCHANGED <<file, tmp, ops>>

(* Any of the four fails: the caller gets an error and drops its copy; what  *)
(* the earlier steps did stays, a rename included.                           *)
IoError ==
    /\ holder # None
    /\ holder' = None
    /\ copy' = [copy EXCEPT ![holder.task] = None]
    /\ UNCHANGED <<file, disk, tmp, ops, acked>>

-----------------------------------------------------------------------------
(* The operating system. *)
WriteBack == disk' = file /\ disk # file
             /\ UNCHANGED <<file, tmp, holder, copy, ops, acked>>

Restarted == holder' = None /\ copy' = [t \in Tasks |-> None]

\* The process ends and is started again; the files are as it left them.
Kill == Restarted /\ UNCHANGED <<file, disk, tmp, ops, acked>>

Survivors(f) ==
    IF f = None \/ f.synced THEN {f} ELSE {f, [f EXCEPT !.torn = TRUE]}

\* The machine ends: unsynced contents may be whole or torn.
PowerLoss ==
    /\ Restarted
    /\ disk' \in Survivors(disk)
    /\ file' = disk' /\ tmp' = None
    /\ UNCHANGED <<ops, acked>>

Init ==
    /\ file = None /\ disk = None /\ tmp = None /\ holder = None
    /\ copy = [t \in Tasks |-> None]
    /\ ops = 0 /\ acked = {}

Next ==
    \/ \E t \in Tasks : Get(t) \/ Insert(t) \/ Update(t) \/ Migrate(t)
    \/ WriteAll \/ SyncTmp \/ Rename \/ SyncDir \/ IoError
    \/ WriteBack \/ Kill \/ PowerLoss

Spec == Init /\ [][Next]_vars

-----------------------------------------------------------------------------
(* A write that returned Ok is in the file and on the disk ever after: no    *)
(* later write drops it, and no crash takes it back.  (store.rs, write:      *)
(* "Persist the directory entry before a journaled transaction can           *)
(* broadcast.")                                                              *)
AckedKept ==
    \A w \in acked, f \in {file, disk} : f # None /\ w.op \in f.rec.writes

(* No reader, and no restarted process, finds a record that does not parse.  *)
(* (store.rs, FileStore: "Atomic writes via rename".)                        *)
NeverTorn == \A f \in {file, disk} : f # None => Readable(f)

(* The version names the record: a copy at the current version is the       *)
(* record, and no copy is ahead of it, so a compare-and-swap on the version  *)
(* cannot take a stale copy for the current one.                             *)
VersionNames ==
    \A t \in Tasks : copy[t] # None =>
        /\ Readable(file)
        /\ copy[t].version <= file.rec.version
        /\ copy[t].version = file.rec.version => copy[t] = file.rec

(* A policy that a caller was told is stored, by an insert, a migration or   *)
(* an update, is the record's policy for good, in spite of crashes, retries  *)
(* after an error and racing operators.                                      *)
PolicyDurable ==
    \A w \in acked, f \in {file, disk} :
        f # None /\ w.policy # None => f.rec.policy = w.policy

(* The inductive invariant: what is renamed is synced, the write under the   *)
(* mutex extends the record it will replace, and the four properties.        *)
HolderExtends ==
    holder # None /\ holder.at # "renamed" /\ file # None =>
        /\ holder.rec.version = file.rec.version + 1
        /\ file.rec.writes \subseteq holder.rec.writes
        /\ file.rec.policy # None => holder.rec.policy = file.rec.policy

HolderWrites ==
    holder # None =>
        /\ holder.op \in holder.rec.writes
        /\ holder.at \in {"written", "synced"} =>
             tmp # None /\ ~tmp.torn /\ tmp.rec = holder.rec
        /\ holder.at = "synced" => tmp.synced
        /\ holder.at = "renamed" => file # None /\ file.rec = holder.rec

WholeFiles == \A f \in {file, disk} : f # None => f.synced /\ ~f.torn

IInv ==
    /\ TypeOK
    /\ WholeFiles
    /\ HolderExtends /\ HolderWrites
    /\ AckedKept /\ VersionNames /\ PolicyDurable
=============================================================================
