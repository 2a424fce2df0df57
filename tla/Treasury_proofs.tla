-------------------------- MODULE Treasury_proofs --------------------------
(***************************************************************************)
(* The treasury's invariant and the race for its reserve, for any number   *)
(* of processes, tasks and jobs and every balance.  One lemma per action,  *)
(* one step per conjunct of the invariant.                                 *)
(***************************************************************************)
EXTENDS Treasury, TLAPS

USE TreasuryAssumption DEF Locals, Owners

\* The task t goes to l; what the others are.
LEMMA GoTo ==
    ASSUME TypeOK, NEW t \in Tasks, NEW l \in Locals,
           task' = [task EXCEPT ![t] = l]
    PROVE  /\ task' \in [Tasks -> Locals]
           /\ task'[t] = l
           /\ \A u \in Tasks : u # t => task'[u] = task[u]
  BY DEF TypeOK

LEMMA IdleType == Idle \in Locals /\ Idle.pc = "idle"
  BY DEF Idle

\* A task that goes on keeps its job and what it saw.
LEMMA BecomeStep ==
    ASSUME TypeOK, NEW t \in Tasks, NEW pc \in {"checked", "reserved", "sent"},
           Become(t, pc)
    PROVE  /\ task' \in [Tasks -> Locals]
           /\ task'[t].pc = pc /\ task'[t].job = task[t].job
           /\ task'[t].since = task[t].since
           /\ \A u \in Tasks : u # t => task'[u] = task[u]
  <1>1. task' = [task EXCEPT ![t] = [task[t] EXCEPT !.pc = pc]]
    BY DEF Become
  <1>2. [task[t] EXCEPT !.pc = pc] \in Locals
    BY DEF TypeOK
  <1> QED
    BY <1>1, <1>2, GoTo DEF TypeOK

(* A task that leaves its step unlocks its own process only. *)
LEMMA LeaveStep ==
    ASSUME TypeOK, Locked, NEW t \in Tasks, Leave(t)
    PROVE  /\ task' \in [Tasks -> Locals]
           /\ lock' \in [Procs -> Tasks \cup {None}]
           /\ task'[t] = Idle
           /\ \A u \in Tasks : u # t => task'[u] = task[u]
           /\ Locked'
  <1>1. /\ task' \in [Tasks -> Locals] /\ task'[t] = Idle
        /\ \A u \in Tasks : u # t => task'[u] = task[u]
    BY GoTo, IdleType DEF Leave
  <1>2. lock' \in [Procs -> Tasks \cup {None}]
    BY DEF Leave, Unlock, TypeOK
  <1>3. ASSUME NEW u \in Tasks, task'[u].pc # "idle"
        PROVE  /\ lock'[ProcOf[u]] = u /\ task'[u].job # None
               /\ task'[u].pc = "locked" => task'[u].since = {}
    <2>1. u # t /\ lock[ProcOf[u]] = u /\ task'[u] = task[u]
      BY <1>1, <1>3, IdleType DEF Locked
    <2>2. lock'[ProcOf[u]] = u
      BY <2>1 DEF Leave, Unlock, TypeOK
    <2> QED
      BY <1>3, <2>1, <2>2 DEF Locked
  <1> QED
    BY <1>1, <1>2, <1>3 DEF Locked

LEMMA AcquireOK ==
    ASSUME IInv, NEW t \in Tasks, NEW j \in Jobs, Acquire(t, j)
    PROVE  IInv'
  <1> DEFINE l == [Idle EXCEPT !.pc = "locked", !.job = j]
  <1>1. l \in Locals /\ l.pc = "locked" /\ l.job = j /\ l.since = {}
    BY DEF Idle
  <1>2. /\ task' = [task EXCEPT ![t] = l] /\ UNCHANGED <<free, owner, done>>
        /\ lock' = [lock EXCEPT ![ProcOf[t]] = t] /\ lock[ProcOf[t]] = None
        /\ task[t].pc = "idle"
    BY DEF Acquire
  <1> HIDE DEF l
  <1>3. /\ task' \in [Tasks -> Locals] /\ task'[t] = l
        /\ \A u \in Tasks : u # t => task'[u] = task[u]
    BY <1>1, <1>2, GoTo DEF IInv
  <1>4. TypeOK'
    BY <1>2, <1>3 DEF IInv, TypeOK
  <1>5. Locked'
    BY <1>1, <1>2, <1>3 DEF IInv, TypeOK, Locked
  <1>6. Reserved' /\ CheckCovered'
    BY <1>1, <1>2, <1>3 DEF IInv, Reserved, CheckCovered, Covered
  <1>7. Watched'
    BY <1>1, <1>2, <1>3 DEF IInv, TypeOK, Watched
  <1>8. SendCovered'
    BY <1>2 DEF IInv, SendCovered, Covered
  <1>9. Sole'
    BY <1>1, <1>2, <1>3 DEF IInv, Sole
  <1> QED
    BY <1>4, <1>5, <1>6, <1>7, <1>8, <1>9 DEF IInv

(* What a leaving task may do to the reservation: drop it, when no other    *)
(* task is about to send under it; leave it alone, when it does not watch   *)
(* it; or stop watching it.                                                 *)
Handover(t) ==
    \/ owner' = None /\ \A u \in Tasks : task[u].pc = "reserved" => u = t
    \/ owner' = owner /\ (owner # None /\ ~owner.lost => owner.by # t)
    \/ owner # None /\ owner' = [owner EXCEPT !.lost = TRUE]
       /\ task[t].pc = "sent"

LEMMA LeaveOK ==
    ASSUME IInv, NEW t \in Tasks, Leave(t), Handover(t), free' = free,
           done' \subseteq Jobs
    PROVE  IInv'
  <1>1. /\ task' \in [Tasks -> Locals] /\ task'[t] = Idle /\ Locked'
        /\ lock' \in [Procs -> Tasks \cup {None}]
        /\ \A u \in Tasks : u # t => task'[u] = task[u]
    BY LeaveStep DEF IInv
  <1>2. /\ owner' \in Owners \cup {None}
        /\ owner' # None =>
             /\ owner # None
             /\ owner'.job = owner.job /\ owner'.by = owner.by
             /\ owner'.since = owner.since /\ owner'.tx = owner.tx
             /\ ~owner'.lost => ~owner.lost /\ owner.by # t
    BY DEF IInv, TypeOK, Handover
  <1>3. \A u \in Tasks : u # t /\ task[u].pc = "reserved" => owner' # None
    <2> SUFFICES ASSUME NEW u \in Tasks, u # t, task[u].pc = "reserved"
                 PROVE  owner' # None
      OBVIOUS
    <2>1. owner # None /\ owner \in Owners
      BY DEF IInv, TypeOK, Reserved
    <2>2. [owner EXCEPT !.lost = TRUE] \in Owners
      BY <2>1
    <2> QED
      BY <2>1, <2>2, NoneAssumption DEF Handover
  <1>4. TypeOK'
    BY <1>1, <1>2 DEF IInv, TypeOK
  <1>5. Reserved'
    BY <1>1, <1>2, <1>3, IdleType DEF IInv, Reserved
  <1>6. Watched'
    BY <1>1, <1>2 DEF IInv, TypeOK, Watched
  <1>7. CheckCovered'
    BY <1>1, IdleType DEF IInv, CheckCovered, Covered
  <1>8. SendCovered'
    BY <1>2 DEF IInv, SendCovered, Covered
  <1>9. Sole'
    BY <1>1, <1>2, IdleType DEF IInv, Sole
  <1> QED
    BY <1>1, <1>4, <1>5, <1>6, <1>7, <1>8, <1>9 DEF IInv

LEMMA CheckOK ==
    ASSUME IInv, NEW t \in Tasks, Check(t)
    PROVE  IInv'
  <1>1. /\ UNCHANGED <<free, owner, done>> /\ task[t].pc = "locked"
        /\ task[t].job \in Jobs /\ TypeOK /\ Locked
    BY DEF Check, IInv, TypeOK, Locked
  <1>2. CASE Leave(t)
    BY <1>1, <1>2, LeaveOK DEF IInv, TypeOK, Watched, Handover
  <1>3. CASE Become(t, "checked") /\ lock' = lock
             /\ ~(Plan[task[t].job].kind = "buy" /\ Plan[task[t].job].amount > Spendable)
    <2>1. /\ task' \in [Tasks -> Locals] /\ task'[t].pc = "checked"
          /\ task'[t].job = task[t].job /\ task'[t].since = task[t].since
          /\ \A u \in Tasks : u # t => task'[u] = task[u]
      BY <1>1, <1>3, BecomeStep
    <2>2. TypeOK'
      BY <1>1, <1>3, <2>1 DEF TypeOK
    <2>3. Locked' /\ Reserved'
      BY <1>1, <1>3, <2>1 DEF IInv, Locked, Reserved
    <2>4. Watched'
      BY <1>1, <2>1 DEF IInv, TypeOK, Watched
    <2>5. Covered(t, task[t].job, task[t].since)
      BY <1>1, <1>3, BuyAssumption DEF Covered, Spendable, TypeOK
    <2>6. CheckCovered'
      BY <1>1, <2>1, <2>5 DEF IInv, CheckCovered, Covered
    <2>7. SendCovered'
      BY <1>1 DEF IInv, SendCovered, Covered
    <2>8. Sole'
      BY <1>1, <2>1 DEF Locked, IInv, Sole
    <2> QED
      BY <2>2, <2>3, <2>4, <2>6, <2>7, <2>8 DEF IInv
  <1> QED
    BY <1>2, <1>3 DEF Check

LEMMA ReserveOK ==
    ASSUME IInv, NEW t \in Tasks, Reserve(t)
    PROVE  IInv'
  <1>1. /\ UNCHANGED <<free, done>> /\ task[t].pc = "checked"
        /\ task[t].job \in Jobs /\ TypeOK
    BY DEF Reserve, IInv, TypeOK, Locked
  <1>2. CASE Leave(t) /\ owner' = owner
    BY <1>1, <1>2, LeaveOK DEF IInv, TypeOK, Watched, Handover
  <1>3. CASE Become(t, "reserved") /\ lock' = lock /\ owner = None
             /\ owner' = [job |-> task[t].job, by |-> t, lost |-> FALSE,
                          since |-> task[t].since, tx |-> "none"]
    <2>1. /\ task' \in [Tasks -> Locals] /\ task'[t].pc = "reserved"
          /\ task'[t].job = task[t].job
          /\ \A u \in Tasks : u # t => task'[u] = task[u]
      BY <1>1, <1>3, BecomeStep
    <2>2. task[t].since \in SUBSET Effects
      BY DEF IInv, TypeOK
    <2>3. /\ owner' \in Owners /\ owner' # None
          /\ owner'.by = t /\ owner'.job = task[t].job /\ owner'.tx = "none"
          /\ owner'.since = task[t].since /\ ~owner'.lost
      <3> DEFINE o == [job |-> task[t].job, by |-> t, lost |-> FALSE,
                       since |-> task[t].since, tx |-> "none"]
      <3>1. o \in Owners
        BY <1>1, <2>2
      <3>2. /\ o.by = t /\ o.job = task[t].job /\ o.tx = "none"
            /\ o.since = task[t].since /\ ~o.lost
        OBVIOUS
      <3> HIDE DEF o
      <3>3. owner' = o
        BY <1>3 DEF o
      <3> QED
        BY <3>1, <3>2, <3>3, NoneAssumption
    <2>4. TypeOK'
      BY <1>1, <1>3, <2>1, <2>3 DEF TypeOK
    <2>5. Locked'
      BY <1>3, <2>1, <1>1 DEF IInv, Locked
    <2>6. Reserved'
      BY <1>3, <2>1, <2>3 DEF IInv, Reserved
    <2>7. Watched'
      BY <2>1, <2>3 DEF Watched
    <2>8. CheckCovered'
      BY <1>1, <2>1 DEF IInv, CheckCovered, Covered
    <2>9. SendCovered'
      BY <1>1, <2>3 DEF IInv, CheckCovered, SendCovered, Covered
    <2>10. Sole'
      BY <1>1, <1>3, <2>1, <2>3 DEF IInv, Sole
    <2> QED
      BY <2>4, <2>5, <2>6, <2>7, <2>8, <2>9, <2>10 DEF IInv
  <1> QED
    BY <1>2, <1>3 DEF Reserve

LEMMA SendOK ==
    ASSUME IInv, NEW t \in Tasks, Send(t)
    PROVE  IInv'
  <1>1. /\ UNCHANGED <<free, lock, done>> /\ task[t].pc = "reserved"
        /\ owner # None /\ owner.by = t /\ owner.job = task[t].job
        /\ owner.tx = "none" /\ owner \in Owners
    BY DEF Send, IInv, TypeOK, Reserved
  <1>2. /\ task' \in [Tasks -> Locals] /\ task'[t].pc = "sent"
        /\ task'[t].job = task[t].job
        /\ \A u \in Tasks : u # t => task'[u] = task[u]
    BY BecomeStep DEF Send, IInv
  <1>3. /\ owner' \in Owners /\ owner'.by = t /\ owner'.job = owner.job
        /\ owner'.since = owner.since /\ owner'.tx = "sent"
        /\ owner'.lost = owner.lost
    BY <1>1 DEF Send
  <1>4. TypeOK'
    BY <1>1, <1>2, <1>3 DEF IInv, TypeOK
  <1>5. Locked'
    BY <1>1, <1>2 DEF IInv, Locked
  <1>6. Reserved'
    BY <1>1, <1>2 DEF IInv, Reserved
  <1>7. Watched'
    BY <1>1, <1>2, <1>3 DEF Watched
  <1>8. CheckCovered'
    BY <1>1, <1>2 DEF IInv, CheckCovered, Covered
  <1>9. SendCovered'
    BY <1>1, <1>3 DEF IInv, SendCovered, Covered
  <1>10. Sole'
    BY <1>1, <1>2, <1>3 DEF IInv, Sole
  <1> QED
    BY <1>4, <1>5, <1>6, <1>7, <1>8, <1>9, <1>10 DEF IInv

LEMMA FinishOK ==
    ASSUME IInv, NEW t \in Tasks, Finish(t)
    PROVE  IInv'
  <1>1. /\ Leave(t) /\ free' = free /\ task[t].pc = "sent" /\ task[t].job \in Jobs
    BY DEF Finish, IInv, TypeOK, Locked
  <1>2. done' \subseteq Jobs
    BY <1>1 DEF Finish, IInv, TypeOK
  <1>3. Handover(t)
    <2>1. CASE Owns(t) /\ owner' = None
      BY <1>1, <2>1 DEF IInv, Reserved, Owns, Handover
    <2>2. CASE ~Owns(t) /\ owner' = owner
      BY <2>2 DEF IInv, Watched, Owns, Handover
    <2>3. CASE Owns(t) /\ owner' = [owner EXCEPT !.lost = TRUE]
      BY <1>1, <2>3 DEF Owns, Handover
    <2> QED
      BY <2>1, <2>2, <2>3 DEF Finish
  <1> QED
    BY <1>1, <1>2, <1>3, LeaveOK

LEMMA PrepareErrOK ==
    ASSUME IInv, NEW t \in Tasks, PrepareErr(t)
    PROVE  IInv'
  <1>1. Leave(t) /\ free' = free /\ done' = done /\ owner' = None
    BY DEF PrepareErr
  <1>2. Handover(t)
    BY <1>1 DEF PrepareErr, IInv, Reserved, Handover
  <1> QED
    BY <1>1, <1>2, LeaveOK DEF IInv, TypeOK

LEMMA ReconcileOK ==
    ASSUME IInv, NEW t \in Tasks, Reconcile(t)
    PROVE  IInv'
  <1>1. /\ UNCHANGED <<free, lock, task>> /\ owner' = None /\ task[t].pc = "idle"
        /\ owner # None /\ owner.tx # "none" /\ owner \in Owners
    BY DEF Reconcile, IInv, TypeOK
  <1>2. TypeOK'
    BY <1>1 DEF Reconcile, IInv, TypeOK
  <1>3. Locked' /\ CheckCovered'
    BY <1>1 DEF IInv, Locked, CheckCovered, Covered
  <1>4. Reserved'
    BY <1>1 DEF IInv, Reserved
  <1>5. Sole'
    BY <1>1 DEF Sole
  <1> QED
    BY <1>1, <1>2, <1>3, <1>4, <1>5 DEF IInv, Watched, SendCovered

(* A crash takes the tasks and the lock; the reservation stays, unwatched.  *)
LEMMA CrashOK ==
    ASSUME IInv, NEW p \in Procs, Crash(p)
    PROVE  IInv'
  <1>1. /\ UNCHANGED <<free, done>> /\ lock' = [lock EXCEPT ![p] = None]
        /\ \A u \in Tasks : task'[u] = IF ProcOf[u] = p THEN Idle ELSE task[u]
        /\ task' \in [Tasks -> Locals]
    BY IdleType DEF Crash, IInv, TypeOK
  <1>2. /\ owner' = IF owner # None /\ ProcOf[owner.by] = p
                    THEN [owner EXCEPT !.lost = TRUE] ELSE owner
        /\ owner \in Owners \cup {None}
    BY DEF Crash, IInv, TypeOK
  <1>3. /\ owner' \in Owners \cup {None}
        /\ owner = None <=> owner' = None
        /\ owner # None =>
             /\ owner'.job = owner.job /\ owner'.by = owner.by
             /\ owner'.since = owner.since /\ owner'.tx = owner.tx
             /\ ~owner'.lost => ~owner.lost /\ ProcOf[owner.by] # p
    <2>1. CASE owner # None /\ ProcOf[owner.by] = p
      <3>1. owner' \in Owners
        BY <1>2, <2>1
      <3>2. owner' # None
        BY <3>1, NoneAssumption
      <3> QED
        BY <1>2, <2>1, <3>1, <3>2
    <2>2. CASE ~(owner # None /\ ProcOf[owner.by] = p)
      BY <1>2, <2>2
    <2> QED
      BY <2>1, <2>2
  <1>4. TypeOK'
    BY <1>1, <1>3 DEF IInv, TypeOK
  <1>5. Locked'
    BY <1>1, IdleType DEF IInv, TypeOK, Locked
  <1>6. Reserved'
    BY <1>1, <1>3, IdleType DEF IInv, Reserved
  <1>7. Watched'
    BY <1>1, <1>2, <1>3 DEF IInv, Watched
  <1>8. CheckCovered'
    BY <1>1, IdleType DEF IInv, CheckCovered, Covered
  <1>9. SendCovered'
    BY <1>1, <1>3 DEF IInv, SendCovered, Covered
  <1>10. Sole'
    BY <1>1, <1>3, IdleType DEF IInv, Sole
  <1> QED
    BY <1>4, <1>5, <1>6, <1>7, <1>8, <1>9, <1>10 DEF IInv

(* A transaction that lands between the check and the reservation of        *)
(* another task of the same process is one nobody watches: a watched one    *)
(* has the lock.                                                            *)
LEMMA LandOK ==
    ASSUME IInv, Land
    PROVE  IInv'
  <1> DEFINE amount == Plan[owner.job].amount
             effect == [proc |-> ProcOf[owner.by], lost |-> owner.lost]
             seen(u) == [task[u] EXCEPT !.since = @ \cup {effect}]
  <1>1. /\ owner \in Owners /\ owner # None /\ owner.tx = "sent"
        /\ free \in Nat /\ amount \in Nat /\ free' = free - amount
        /\ free >= amount + Deposit /\ UNCHANGED <<lock, done>>
        /\ owner' = [owner EXCEPT !.tx = "landed"]
    BY DEF Land, IInv, TypeOK
  <1>2. /\ owner' \in Owners /\ owner'.job = owner.job /\ owner'.by = owner.by
        /\ owner'.since = owner.since /\ owner'.lost = owner.lost
        /\ owner'.tx = "landed"
    BY <1>1
  <1>3. owner' # None
    BY <1>2, NoneAssumption
  <1>4. effect \in Effects
    BY <1>1 DEF Effects
  <1>5. task' = [u \in Tasks |-> IF task[u].pc = "checked" /\ amount > 0
                                 THEN seen(u) ELSE task[u]]
    BY DEF Land
  <1>6. \A u \in Tasks : /\ task[u] \in Locals /\ seen(u) \in Locals
                         /\ seen(u).pc = task[u].pc /\ seen(u).job = task[u].job
                         /\ seen(u).since = task[u].since \cup {effect}
    <2> HIDE DEF effect
    <2> SUFFICES ASSUME NEW u \in Tasks
                 PROVE  /\ task[u] \in Locals /\ seen(u) \in Locals
                        /\ seen(u).pc = task[u].pc /\ seen(u).job = task[u].job
                        /\ seen(u).since = task[u].since \cup {effect}
      OBVIOUS
    <2>1. task[u] \in Locals
      BY DEF IInv, TypeOK
    <2>2. task[u].since \cup {effect} \in SUBSET Effects
      BY <1>4, <2>1
    <2> QED
      BY <2>1, <2>2
  <1> HIDE DEF effect, seen
  <1>7. /\ task' \in [Tasks -> Locals]
        /\ \A u \in Tasks :
             /\ task'[u].pc = task[u].pc /\ task'[u].job = task[u].job
             /\ task[u].pc # "checked" => task'[u] = task[u]
             /\ task'[u].since = IF task[u].pc = "checked" /\ amount > 0
                                 THEN task[u].since \cup {effect}
                                 ELSE task[u].since
    BY <1>5, <1>6
  <1>8. TypeOK'
    <2>1. free' \in Nat
      BY <1>1, TreasuryAssumption
    <2>2. task' \in [Tasks -> Locals]
      BY <1>7
    <2>3. lock' \in [Procs -> Tasks \cup {None}] /\ done' \subseteq Jobs
      BY <1>1 DEF IInv, TypeOK
    <2> QED
      BY <1>2, <2>1, <2>2, <2>3 DEF TypeOK
  <1>9. Locked'
    <2> SUFFICES ASSUME NEW u \in Tasks, task'[u].pc # "idle"
                 PROVE  /\ lock'[ProcOf[u]] = u /\ task'[u].job # None
                        /\ task'[u].pc = "locked" => task'[u].since = {}
      BY DEF Locked
    <2>1. task[u].pc = task'[u].pc /\ task[u].job = task'[u].job
      BY <1>7
    <2>2. /\ lock[ProcOf[u]] = u /\ task[u].job # None
          /\ task[u].pc = "locked" => task[u].since = {}
      BY <2>1 DEF IInv, Locked
    <2>3. task[u].pc = "locked" => task'[u] = task[u]
      BY <1>7
    <2> QED
      BY <1>1, <2>1, <2>2, <2>3
  <1>10. Reserved'
    BY <1>1, <1>7 DEF IInv, Reserved
  <1>11. Watched'
    BY <1>1, <1>2, <1>7 DEF IInv, Watched
  <1>12. SendCovered'
    BY <1>2 DEF SendCovered
  <1>13. Sole'
    BY <1>1, <1>2, <1>3, <1>7 DEF IInv, Sole
  <1>14. CheckCovered'
    <2> SUFFICES ASSUME NEW u \in Tasks, task'[u].pc = "checked"
                 PROVE  Plan[task[u].job].kind = "buy" =>
                           \/ free' >= Floor + Plan[task[u].job].amount
                           \/ \E e \in task'[u].since : e.proc # ProcOf[u] \/ e.lost
      BY <1>7 DEF CheckCovered, Covered
    <2>1. task[u].pc = "checked" /\ Covered(u, task[u].job, task[u].since)
      BY <1>7 DEF IInv, CheckCovered
    <2>2. CASE amount = 0
      BY <1>1, <1>7, <2>1, <2>2 DEF Covered
    <2>3. CASE amount > 0
      <3>1. effect.proc # ProcOf[u] \/ effect.lost
        <4> SUFFICES ASSUME ~owner.lost, ProcOf[owner.by] = ProcOf[u]
                     PROVE  FALSE
          BY DEF effect
        <4>1. task[owner.by].pc \in {"reserved", "sent"}
          BY <1>1 DEF IInv, Watched
        <4>2. lock[ProcOf[u]] = owner.by /\ lock[ProcOf[u]] = u
          BY <1>1, <2>1, <4>1 DEF IInv, Locked
        <4> QED
          BY <2>1, <4>1, <4>2
      <3>2. effect \in task'[u].since
        BY <1>7, <2>1, <2>3
      <3> QED
        BY <3>1, <3>2 DEF Covered
    <2> QED
      BY <1>1, <2>2, <2>3
  <1> QED
    BY <1>8, <1>9, <1>10, <1>11, <1>12, <1>13, <1>14 DEF IInv

LEMMA PerishOK ==
    ASSUME IInv, NEW end \in {"failed", "dead"}, Perish(end)
    PROVE  IInv'
  <1>1. /\ UNCHANGED <<free, lock, task, done>> /\ owner # None
        /\ owner.tx = "sent" /\ owner \in Owners
        /\ owner' = [owner EXCEPT !.tx = end]
    BY DEF Perish, IInv, TypeOK
  <1>2. /\ owner' \in Owners /\ owner'.job = owner.job /\ owner'.by = owner.by
        /\ owner'.since = owner.since /\ owner'.lost = owner.lost
        /\ owner'.tx = end
    BY <1>1
  <1>3. TypeOK'
    BY <1>1, <1>2 DEF IInv, TypeOK
  <1>4. Locked' /\ CheckCovered'
    BY <1>1 DEF IInv, Locked, CheckCovered, Covered
  <1>5. Reserved'
    BY <1>1 DEF IInv, Reserved
  <1>6. Watched' /\ SendCovered'
    BY <1>1, <1>2 DEF IInv, Watched, SendCovered
  <1>7. Sole'
    BY <1>1, <1>2, NoneAssumption DEF IInv, Sole
  <1> QED
    BY <1>3, <1>4, <1>5, <1>6, <1>7 DEF IInv

LEMMA IncomeOK ==
    ASSUME IInv, Income
    PROVE  IInv'
  <1>1. UNCHANGED <<lock, task, owner, done>> /\ free' = free + 1 /\ free \in Nat
    BY DEF Income, IInv, TypeOK
  <1>2. TypeOK' /\ Locked' /\ Reserved' /\ Watched' /\ Sole'
    BY <1>1 DEF IInv, TypeOK, Locked, Reserved, Watched, Sole
  <1>3. ASSUME NEW t, NEW j \in Jobs, NEW since, Covered(t, j, since)
        PROVE  Covered(t, j, since)'
    BY <1>1, <1>3 DEF Covered
  <1>4. CheckCovered'
    BY <1>1, <1>3 DEF IInv, TypeOK, Locked, CheckCovered
  <1>5. SendCovered'
    BY <1>1, <1>3 DEF IInv, TypeOK, SendCovered
  <1> QED
    BY <1>2, <1>4, <1>5 DEF IInv

-----------------------------------------------------------------------------
LEMMA InitOK == Init => IInv
  <1> SUFFICES ASSUME Init PROVE IInv
    OBVIOUS
  <1>1. TypeOK
    BY IdleType DEF Init, TypeOK
  <1> QED
    BY <1>1, IdleType DEF Init, IInv, Locked, Reserved, Watched, CheckCovered,
                          SendCovered, Sole

LEMMA NextOK == IInv /\ [Next]_vars => IInv'
  <1> SUFFICES ASSUME IInv, [Next]_vars PROVE IInv'
    OBVIOUS
  <1>1. CASE UNCHANGED vars
    BY <1>1 DEF vars, IInv, TypeOK, Locked, Reserved, Watched, CheckCovered,
                SendCovered, Sole, Covered
  <1> QED
    BY <1>1, AcquireOK, CheckOK, ReserveOK, PrepareErrOK, SendOK, FinishOK,
       ReconcileOK, CrashOK, LandOK, PerishOK, IncomeOK DEF Next, TaskStep

(* treasury_lock and the signer's reservation together keep every checked   *)
(* purchase covered, but for what other processes and unwatched             *)
(* transactions spend in between (step_auto_buyback, send_journaled).       *)
THEOREM Inductive == Spec => []IInv
  BY InitOK, NextOK, PTL DEF Spec

(* A purchase breaks the treasury's reserve only after a transaction of     *)
(* another process, or one nobody watched any more, took effect between     *)
(* its check and its landing; with a single task it never does (spendable). *)
THEOREM ReserveOnlyRaced == Spec => ReserveRace
  <1>1. ASSUME IInv, [Next]_vars, owner # None, Plan[owner.job].kind = "buy",
               free' < free, free' < Floor
        PROVE  /\ Tasks # {owner.by}
               /\ \E e \in owner.since : e.proc # ProcOf[owner.by] \/ e.lost
    <2>1. free \in Nat /\ owner \in Owners
      BY <1>1 DEF IInv, TypeOK
    <2>2. Land
      <3>1. ASSUME NEW t \in Tasks, TaskStep(t) PROVE free' = free
        BY <3>1 DEF TaskStep, Acquire, Check, Reserve, PrepareErr, Send, Finish,
                    Reconcile
      <3>2. ASSUME NEW p \in Procs, Crash(p) PROVE free' = free
        BY <3>2 DEF Crash
      <3>3. ASSUME Perish("failed") \/ Perish("dead") PROVE free' = free
        BY <3>3 DEF Perish
      <3>4. ASSUME Income PROVE free' > free
        BY <2>1, <3>4 DEF Income
      <3>5. ASSUME UNCHANGED vars PROVE free' = free
        BY <3>5 DEF vars
      <3>6. ~(free' = free) /\ ~(free' > free)
        <4>1. free' \in Nat
          BY <1>1, NextOK DEF IInv, TypeOK
        <4> QED
          BY <1>1, <2>1, <4>1
      <3> QED
        BY <1>1, <3>1, <3>2, <3>3, <3>4, <3>5, <3>6 DEF Next
    <2>3. owner.tx = "sent" /\ free' = free - Plan[owner.job].amount
      BY <2>2 DEF Land
    <2>4. Covered(owner.by, owner.job, owner.since)
      BY <1>1, <2>3 DEF IInv, SendCovered
    <2>5. \E e \in owner.since : e.proc # ProcOf[owner.by] \/ e.lost
      BY <1>1, <2>1, <2>3, <2>4 DEF Covered
    <2>6. Tasks # {owner.by}
      BY <1>1, <2>1, <2>5 DEF IInv, Sole
    <2> QED
      BY <2>5, <2>6
  <1>2. IInv /\ [Next]_vars =>
          [(owner # None /\ Plan[owner.job].kind = "buy"
            /\ free' < free /\ free' < Floor)
           => /\ Tasks # {owner.by}
              /\ \E e \in owner.since : e.proc # ProcOf[owner.by] \/ e.lost]_vars
    BY <1>1
  <1> QED
    BY <1>2, Inductive, PTL DEF Spec, ReserveRace
=============================================================================
