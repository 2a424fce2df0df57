-------------------------- MODULE FileStore_proofs --------------------------
(* Proofs about FileStore: every reachable state satisfies the inductive     *)
(* invariant, hence an acknowledged write survives every crash, a record is  *)
(* never torn, a version names one record and a policy is never changed.     *)
EXTENDS FileStore, TLAPS

(* The initial state, without a file, satisfies the invariant. *)
LEMMA InitIInv == Init => IInv
BY FileStoreAssumption
   DEF Init, IInv, TypeOK, WholeFiles, HolderExtends, HolderWrites, AckedKept,
       VersionNames, PolicyDurable

(* update and migrate_legacy_policy raise the version by one and keep the    *)
(* rest of the record.                                                       *)
LEMMA BumpedRecord ==
    ASSUME NEW rec \in Record
    PROVE  /\ Bumped(rec) \in Record
           /\ Bumped(rec).writes = rec.writes
           /\ Bumped(rec).policy = rec.policy
           /\ Bumped(rec).version = rec.version + 1
BY DEF Record, Bumped

(* A write that begins with an extension of the file's record keeps the     *)
(* invariant: it only takes the mutex.                                      *)
LEMMA BeginIInv ==
    ASSUME IInv, NEW t \in Tasks, NEW rec \in Record, Begin(t, rec),
           file # None => /\ rec.version = file.rec.version + 1
                          /\ file.rec.writes \subseteq rec.writes
                          /\ file.rec.policy # None =>
                               rec.policy = file.rec.policy
    PROVE  IInv'
<1> DEFINE next == [rec EXCEPT !.writes = @ \cup {ops + 1}]
<1>1. ops + 1 \in 1 .. MaxOps
  BY FileStoreAssumption DEF IInv, TypeOK, Begin
<1>2. next \in Record /\ ops + 1 \in next.writes
      /\ next.version = rec.version /\ next.policy = rec.policy
      /\ rec.writes \subseteq next.writes
  BY <1>1 DEF Record
<1>3. holder' = [task |-> t, op |-> ops + 1, at |-> "open", rec |-> next]
  BY DEF Begin
<1>4. holder'.rec = next /\ holder'.op = ops + 1 /\ holder'.at = "open"
      /\ holder' \in Write
  BY <1>1, <1>2, <1>3 DEF Write
<1>5. TypeOK'
  BY <1>1, <1>4 DEF IInv, TypeOK, Begin
<1>6. HolderExtends' /\ HolderWrites'
  BY <1>2, <1>4 DEF HolderExtends, HolderWrites, Begin
<1>7. WholeFiles' /\ AckedKept' /\ VersionNames' /\ PolicyDurable'
  BY DEF IInv, Begin, WholeFiles, AckedKept, VersionNames, PolicyDurable, Readable
<1> QED
  BY <1>5, <1>6, <1>7 DEF IInv

(* Every operation, I/O step and crash keeps the invariant. *)
LEMMA NextIInv == IInv /\ [Next]_vars => IInv'
<1> SUFFICES ASSUME IInv, [Next]_vars PROVE IInv'
  OBVIOUS
<1> USE FileStoreAssumption
<1>1. ASSUME NEW t \in Tasks, Get(t) PROVE IInv'
  <2>1. file.rec \in Record /\ file # None
    BY <1>1 DEF IInv, TypeOK, File, Get, Readable
  <2>2. TypeOK'
    BY <1>1, <2>1 DEF IInv, TypeOK, Get
  <2>3. VersionNames'
    <3>1. \A u \in Tasks : copy'[u] = IF u = t THEN file.rec ELSE copy[u]
      BY <1>1 DEF Get, IInv, TypeOK
    <3>2. file.rec.version \in Nat
      BY <2>1 DEF Record
    <3> QED
      BY <1>1, <3>1, <3>2 DEF IInv, VersionNames, Get, Readable
  <2> QED
    BY <1>1, <2>2, <2>3 DEF IInv, Get, WholeFiles, HolderExtends, HolderWrites,
       AckedKept, PolicyDurable
<1>2. ASSUME NEW t \in Tasks, Insert(t) PROVE IInv'
  <2>1. PICK policy \in {None, ops + 1} :
          Begin(t, [version |-> 0, writes |-> {}, policy |-> policy,
                    ran |-> FALSE])
    BY <1>2 DEF Insert
  <2> DEFINE rec == [version |-> 0, writes |-> {}, policy |-> policy,
                     ran |-> FALSE]
  <2>2. ops + 1 \in 1 .. MaxOps
    BY <2>1 DEF Begin, IInv, TypeOK
  <2>3. rec \in Record
    BY <2>2 DEF Record
  <2>4. file = None
    BY <1>2 DEF Insert
  <2> QED
    BY <2>1, <2>3, <2>4, BeginIInv
<1>3. ASSUME NEW t \in Tasks, Update(t) PROVE IInv'
  <2>1. PICK policy \in {copy[t].policy, ops + 1}, ran \in {copy[t].ran, TRUE} :
          LET rec == [copy[t] EXCEPT !.policy = policy, !.ran = ran]
          IN  CanUpdate(rec) /\ Begin(t, Bumped(rec))
    BY <1>3 DEF Update
  <2> DEFINE rec == [copy[t] EXCEPT !.policy = policy, !.ran = ran]
  <2>2. ops + 1 \in 1 .. MaxOps
    BY <2>1 DEF Begin, IInv, TypeOK
  <2>3. copy[t] \in Record /\ copy[t] # None
    BY <1>3 DEF Update, IInv, TypeOK
  <2>4. /\ rec \in Record /\ rec.writes = copy[t].writes
        /\ rec.version = copy[t].version
    BY <2>2, <2>3 DEF Record
  <2>5. /\ Bumped(rec) \in Record /\ Bumped(rec).writes = rec.writes
        /\ Bumped(rec).policy = rec.policy
        /\ Bumped(rec).version = rec.version + 1
    <3> HIDE DEF rec
    <3> QED
      BY <2>4, BumpedRecord
  <2>6. rec.version = file.rec.version /\ rec.policy = file.rec.policy
    BY <2>1 DEF CanUpdate
  <2>7. copy[t] = file.rec
    BY <2>3, <2>4, <2>6 DEF IInv, VersionNames
  <2> QED
    BY <2>1, <2>4, <2>5, <2>6, <2>7, BeginIInv
<1>4. ASSUME NEW t \in Tasks, Migrate(t) PROVE IInv'
  <2> DEFINE rec == [file.rec EXCEPT !.policy = ops + 1]
  <2>1. Begin(t, Bumped(rec)) /\ file # None /\ file.rec.policy = None
    BY <1>4 DEF Migrate, Readable
  <2>2. ops + 1 \in 1 .. MaxOps
    BY <2>1 DEF Begin, IInv, TypeOK
  <2>3. file.rec \in Record
    BY <2>1 DEF IInv, TypeOK, File
  <2>4. /\ Bumped(rec) \in Record /\ Bumped(rec).writes = file.rec.writes
        /\ Bumped(rec).version = file.rec.version + 1
    <3>1. /\ rec \in Record /\ rec.writes = file.rec.writes
          /\ rec.version = file.rec.version
      BY <2>2, <2>3 DEF Record
    <3> HIDE DEF rec
    <3> QED
      BY <3>1, BumpedRecord
  <2> QED
    BY <2>1, <2>4, BeginIInv
<1>5. CASE WriteAll
  <2> DEFINE next == [rec |-> holder.rec, synced |-> FALSE, torn |-> FALSE]
  <2>1. holder \in Write /\ holder # None /\ holder.at = "open"
    BY <1>5 DEF WriteAll, At, IInv, TypeOK
  <2>2. /\ holder' \in Write /\ holder'.at = "written"
        /\ holder'.rec = holder.rec /\ holder'.op = holder.op
    BY <1>5, <2>1 DEF WriteAll, Goto, Write
  <2>3. tmp' = next /\ next \in File /\ next.rec = holder.rec /\ ~next.torn
    BY <1>5, <2>1 DEF WriteAll, Contents, File, Write
  <2>4. TypeOK' /\ HolderExtends' /\ HolderWrites'
    BY <1>5, <2>1, <2>2, <2>3
       DEF WriteAll, IInv, TypeOK, HolderExtends, HolderWrites
  <2> QED
    BY <1>5, <2>4 DEF WriteAll, IInv, WholeFiles, AckedKept, VersionNames,
       PolicyDurable, Readable
<1>6. CASE SyncTmp
  <2>1. /\ holder \in Write /\ holder # None /\ holder.at = "written"
        /\ tmp \in File /\ tmp # None /\ ~tmp.torn /\ tmp.rec = holder.rec
    BY <1>6 DEF SyncTmp, At, IInv, TypeOK, HolderWrites
  <2>2. /\ holder' \in Write /\ holder'.at = "synced"
        /\ holder'.rec = holder.rec /\ holder'.op = holder.op
    BY <1>6, <2>1 DEF SyncTmp, Goto, Write
  <2>3. tmp' \in File /\ tmp'.rec = tmp.rec /\ ~tmp'.torn /\ tmp'.synced
    BY <1>6, <2>1 DEF SyncTmp, File
  <2>4. TypeOK' /\ HolderExtends' /\ HolderWrites'
    BY <1>6, <2>1, <2>2, <2>3
       DEF SyncTmp, IInv, TypeOK, HolderExtends, HolderWrites
  <2> QED
    BY <1>6, <2>4 DEF SyncTmp, IInv, WholeFiles, AckedKept, VersionNames,
       PolicyDurable, Readable
<1>7. CASE Rename
  <2>1. /\ holder \in Write /\ holder # None /\ holder.at = "synced"
        /\ tmp \in File /\ tmp # None /\ ~tmp.torn /\ tmp.synced
        /\ tmp.rec = holder.rec
    BY <1>7 DEF Rename, At, IInv, TypeOK, HolderWrites
  <2>2. /\ holder' \in Write /\ holder'.at = "renamed"
        /\ holder'.rec = holder.rec /\ holder'.op = holder.op
    BY <1>7, <2>1 DEF Rename, Goto, Write
  <2>3. file # None =>
          /\ file.rec \in Record
          /\ holder.rec.version = file.rec.version + 1
          /\ file.rec.writes \subseteq holder.rec.writes
          /\ file.rec.policy # None => holder.rec.policy = file.rec.policy
    BY <2>1 DEF IInv, HolderExtends, TypeOK, File
  <2>4. TypeOK' /\ HolderExtends' /\ HolderWrites' /\ WholeFiles'
    BY <1>7, <2>1, <2>2
       DEF Rename, IInv, TypeOK, HolderExtends, HolderWrites, WholeFiles
  <2>5. AckedKept' /\ PolicyDurable'
    BY <1>7, <2>1, <2>3 DEF Rename, IInv, AckedKept, PolicyDurable
  <2>6. ASSUME NEW t \in Tasks, copy'[t] # None
        PROVE  /\ Readable(file')
               /\ copy'[t].version <= file'.rec.version
               /\ copy'[t].version = file'.rec.version => copy'[t] = file'.rec
    <3>1. /\ file # None /\ copy[t] \in Record
          /\ copy[t].version <= file.rec.version
      BY <1>7, <2>6 DEF Rename, IInv, TypeOK, VersionNames, Readable
    <3>2. copy[t].version \in Nat /\ file.rec.version \in Nat
      BY <2>3, <3>1 DEF Record
    <3> QED
      BY <1>7, <2>1, <2>3, <3>1, <3>2 DEF Rename, Readable
  <2> QED
    BY <2>4, <2>5, <2>6 DEF IInv, VersionNames
<1>8. CASE SyncDir
  <2>1. /\ holder \in Write /\ holder # None /\ file # None
        /\ file.rec = holder.rec /\ holder.op \in holder.rec.writes
        /\ holder.rec \in Record /\ holder.op \in 1 .. MaxOps
        /\ holder.task \in Tasks /\ file.rec.version \in Nat
        /\ holder.rec.policy \in 1 .. MaxOps \cup {None}
    BY <1>8 DEF SyncDir, At, IInv, TypeOK, HolderWrites, Write, Record
  <2> DEFINE w == [op |-> holder.op, policy |-> holder.rec.policy]
  <2>2. /\ holder' = None /\ disk' = file /\ file' = file /\ tmp' = tmp
        /\ ops' = ops /\ acked' = acked \cup {w}
        /\ copy' = [copy EXCEPT ![holder.task] = holder.rec]
    BY <1>8 DEF SyncDir, Return
  <2>3. TypeOK'
    BY <2>1, <2>2 DEF IInv, TypeOK
  <2>4. WholeFiles' /\ HolderExtends' /\ HolderWrites'
    BY <2>2 DEF IInv, WholeFiles, HolderExtends, HolderWrites
  <2>5. AckedKept' /\ PolicyDurable'
    BY <2>1, <2>2 DEF IInv, AckedKept, PolicyDurable
  <2>6. VersionNames'
    BY <2>1, <2>2 DEF IInv, TypeOK, VersionNames, Readable, WholeFiles
  <2> QED
    BY <2>3, <2>4, <2>5, <2>6 DEF IInv
<1>9. CASE IoError
  <2>1. TypeOK'
    BY <1>9 DEF IoError, IInv, TypeOK
  <2>2. VersionNames'
    BY <1>9 DEF IoError, IInv, TypeOK, VersionNames, Readable
  <2> QED
    BY <1>9, <2>1, <2>2 DEF IoError, IInv, WholeFiles, HolderExtends,
       HolderWrites, AckedKept, PolicyDurable
<1>10. CASE WriteBack
  BY <1>10 DEF WriteBack, IInv, TypeOK, WholeFiles, HolderExtends,
     HolderWrites, AckedKept, VersionNames, PolicyDurable, Readable
<1>11. CASE Kill
  BY <1>11 DEF Kill, Restarted, IInv, TypeOK, WholeFiles, HolderExtends,
     HolderWrites, AckedKept, VersionNames, PolicyDurable, Readable
<1>12. CASE PowerLoss
  <2>1. disk' = disk /\ file' = disk
    BY <1>12 DEF PowerLoss, Survivors, IInv, WholeFiles
  <2> QED
    BY <1>12, <2>1 DEF PowerLoss, Restarted, IInv, TypeOK, WholeFiles,
       HolderExtends, HolderWrites, AckedKept, VersionNames, PolicyDurable
<1>13. CASE UNCHANGED vars
  BY <1>13 DEF vars, IInv, TypeOK, WholeFiles, HolderExtends, HolderWrites,
     AckedKept, VersionNames, PolicyDurable, Readable
<1> QED
  BY <1>1, <1>2, <1>3, <1>4, <1>5, <1>6, <1>7, <1>8, <1>9, <1>10, <1>11,
     <1>12, <1>13 DEF Next

(* In every reachable state of the file store the invariant holds. *)
THEOREM FileStoreInvariant == Spec => []IInv
BY InitIInv, NextIInv, PTL DEF Spec

(* A write that FileStore acknowledged is in the record a reader sees and in *)
(* the one a crash leaves, for any number of tasks and writes.               *)
THEOREM AckedWritesSurvive == Spec => []AckedKept
<1>1. IInv => AckedKept
  BY DEF IInv
<1> QED
  BY <1>1, FileStoreInvariant, PTL

(* Neither a reader nor a restart ever meets a record that does not parse.   *)
THEOREM RecordsNeverTorn == Spec => []NeverTorn
<1>1. IInv => NeverTorn
  BY DEF IInv, WholeFiles, NeverTorn, Readable
<1> QED
  BY <1>1, FileStoreInvariant, PTL

(* A version names one record among the file and all copies in memory.       *)
THEOREM VersionsName == Spec => []VersionNames
<1>1. IInv => VersionNames
  BY DEF IInv
<1> QED
  BY <1>1, FileStoreInvariant, PTL

(* An acknowledged policy is the record's policy for good, across failed     *)
(* writes, process exits and power failures.                                 *)
THEOREM PoliciesDurable == Spec => []PolicyDurable
<1>1. IInv => PolicyDurable
  BY DEF IInv
<1> QED
  BY <1>1, FileStoreInvariant, PTL
=============================================================================
