------------------------------ MODULE Treasury ------------------------------
(***************************************************************************)
(* The treasury's TAO, shared by the jobs of several engines               *)
(* (src/src/engine.rs: step_detected, step_swept, step_auto_buyback,       *)
(* spendable).  A purchase checks that it leaves fee_reserve and the       *)
(* existential deposit, and only then reserves the signer.  Tasks of one   *)
(* process are kept apart by treasury_lock; processes share nothing but    *)
(* the signer's reservation, which is taken after the check.               *)
(*                                                                         *)
(* Journal shows how the journaled transaction is resolved; here it is     *)
(* sent, lands, fails or dies, and its owner or any other task resolves    *)
(* it.  The fees, which fee_reserve is there to pay, are left out.         *)
(***************************************************************************)
EXTENDS Naturals, FiniteSets

CONSTANTS
    None,
    Tasks,     \* concurrent ticks
    Procs,     \* processes, each with one Engine and its treasury_lock
    ProcOf,    \* task -> its process
    Jobs,      \* jobs with one treasury transaction to send
    Plan,      \* job -> [kind, amount]: fund, move (consolidate) or buy
    Floor,     \* fee_reserve + existential deposit
    Deposit,   \* existential deposit
    MaxFree    \* bound on the treasury's balance

ASSUME TreasuryAssumption ==
    /\ ProcOf \in [Tasks -> Procs]
    /\ Plan \in [Jobs -> [kind : {"fund", "move", "buy"}, amount : Nat]]
    /\ Floor \in Nat /\ Deposit \in Nat /\ Deposit <= Floor /\ MaxFree \in Nat
    /\ None \notin Tasks /\ None \notin Jobs

\* strict_buyback_amount refuses less than MIN_STAKE_RAO.
ASSUME BuyAssumption ==
    \A j \in Jobs : Plan[j].kind = "buy" => Plan[j].amount > 0

VARIABLES
    free,    \* the treasury's free balance
    lock,    \* process -> the task that holds its treasury_lock
    task,    \* task -> [pc, job, since]
    owner,   \* the signer's reservation and its transaction, or None
    done     \* jobs whose transaction is booked

vars == <<free, lock, task, owner, done>>

(* An effect on the balance: whose transaction, and whether its sender had  *)
(* stopped watching it.                                                     *)
Effects == [proc : Procs, lost : BOOLEAN]

Idle == [pc |-> "idle", job |-> None, since |-> {}]

Locals == [pc : {"idle", "locked", "checked", "reserved", "sent"},
           job : Jobs \cup {None}, since : SUBSET Effects]
Owners == [job : Jobs, by : Tasks, since : SUBSET Effects, lost : BOOLEAN,
           tx : {"none", "sent", "landed", "failed", "dead"}]

ASSUME NoneAssumption == None \notin Owners

\* The tables and tasks hold values of their types.
TypeOK ==
    /\ free \in Nat
    /\ lock \in [Procs -> Tasks \cup {None}]
    /\ task \in [Tasks -> Locals]
    /\ owner \in Owners \cup {None}
    /\ done \subseteq Jobs

Init ==
    /\ free \in 0 .. MaxFree
    /\ lock = [p \in Procs |-> None]
    /\ task = [t \in Tasks |-> Idle]
    /\ owner = None /\ done = {}

-----------------------------------------------------------------------------
Unlock(t) == lock' = [lock EXCEPT ![ProcOf[t]] =
                        IF @ = t THEN None ELSE @]
Become(t, pc) == task' = [task EXCEPT ![t].pc = pc]
Leave(t) == task' = [task EXCEPT ![t] = Idle] /\ Unlock(t)

\* Mutant of Acquire: no lock is taken.
AcquireNothing(t, j) ==
    /\ task[t].pc = "idle" /\ j \notin done
    /\ task' = [task EXCEPT ![t] = [Idle EXCEPT !.pc = "locked", !.job = j]]
    /\ UNCHANGED <<free, lock, owner, done>>

(* A step that needs the treasury takes the lock of its process: to fund, to *)
(* consolidate, to destroy, and to buy, where it is held over the check.     *)
Acquire(t, j) ==
    /\ task[t].pc = "idle" /\ j \notin done
    /\ lock[ProcOf[t]] = None
    /\ lock' = [lock EXCEPT ![ProcOf[t]] = t]
    /\ task' = [task EXCEPT ![t] = [Idle EXCEPT !.pc = "locked", !.job = j]]
    /\ UNCHANGED <<free, owner, done>>

\* Mutant of Spendable: fee_reserve is not held back.
SpendableAll == IF free > Deposit THEN free - Deposit ELSE 0

(* The balance is that of the present block.  The older one that a lagging   *)
(* node would answer with (Journal has such nodes) is not modelled.          *)
Spendable == IF free > Floor THEN free - Floor ELSE 0

(* strict_buyback_amount of spendable: the whole budget or an error.  A     *)
(* transfer or a move is not checked.                                       *)
Check(t) ==
    /\ task[t].pc = "locked"
    /\ LET p == Plan[task[t].job] IN
       IF p.kind = "buy" /\ p.amount > Spendable
       THEN Leave(t) ELSE Become(t, "checked") /\ UNCHANGED lock
    /\ UNCHANGED <<free, owner, done>>

(* reserve_signer_for_record: the signer is free and the record is still    *)
(* the one that was listed; otherwise the step is abandoned.                *)
Reserve(t) ==
    /\ task[t].pc = "checked"
    /\ IF owner = None /\ task[t].job \notin done
       THEN /\ owner' = [job |-> task[t].job, by |-> t, lost |-> FALSE,
                         since |-> task[t].since, tx |-> "none"]
            /\ Become(t, "reserved") /\ UNCHANGED lock
       ELSE Leave(t) /\ UNCHANGED owner
    /\ UNCHANGED <<free, done>>

(* prepare fails and the reservation is cancelled. *)
PrepareErr(t) ==
    /\ task[t].pc = "reserved"
    /\ owner' = None
    /\ Leave(t)
    /\ UNCHANGED <<free, done>>

(* Journaled and broadcast. *)
Send(t) ==
    /\ task[t].pc = "reserved"
    /\ owner' = [owner EXCEPT !.tx = "sent"]
    /\ Become(t, "sent")
    /\ UNCHANGED <<free, lock, done>>

Owns(t) == owner # None /\ owner.by = t /\ owner.job = task[t].job

(* broadcast and apply succeed; or they fail, or their reply is lost, and   *)
(* the journal is left to whoever reconciles it; or somebody has already.   *)
Finish(t) ==
    /\ task[t].pc = "sent"
    /\ \/ /\ Owns(t) /\ owner.tx = "landed"
          /\ owner' = None /\ done' = done \cup {task[t].job}
       \/ /\ owner' = IF Owns(t) THEN [owner EXCEPT !.lost = TRUE] ELSE owner
          /\ UNCHANGED done
    /\ Leave(t)
    /\ UNCHANGED free

(* reconcile_journaled of an idle task, which takes no lock. *)
Reconcile(t) ==
    /\ task[t].pc = "idle"
    /\ owner # None /\ owner.tx \in {"landed", "failed", "dead"}
    /\ done' = IF owner.tx = "landed" THEN done \cup {owner.job} ELSE done
    /\ owner' = None
    /\ UNCHANGED <<free, lock, task>>

(* A process dies: its tasks and its lock are gone, the reservation stays.  *)
Crash(p) ==
    /\ task' = [t \in Tasks |-> IF ProcOf[t] = p THEN Idle ELSE task[t]]
    /\ lock' = [lock EXCEPT ![p] = None]
    /\ owner' = IF owner # None /\ ProcOf[owner.by] = p
                THEN [owner EXCEPT !.lost = TRUE] ELSE owner
    /\ UNCHANGED <<free, done>>

-----------------------------------------------------------------------------
(* External: the chain.  Neither call lets the account go below the         *)
(* existential deposit.                                                     *)
Land ==
    LET amount == Plan[owner.job].amount
        effect == [proc |-> ProcOf[owner.by], lost |-> owner.lost]
    IN  /\ owner # None /\ owner.tx = "sent"
        /\ free >= amount + Deposit
        /\ free' = free - amount
        /\ owner' = [owner EXCEPT !.tx = "landed"]
        /\ task' = [t \in Tasks |->
                      IF task[t].pc = "checked" /\ amount > 0
                      THEN [task[t] EXCEPT !.since = @ \cup {effect}]
                      ELSE task[t]]
        /\ UNCHANGED <<lock, done>>

Perish(end) ==
    /\ owner # None /\ owner.tx = "sent"
    /\ owner' = [owner EXCEPT !.tx = end]
    /\ UNCHANGED <<free, lock, task, done>>

\* Dust and payments in TAO come back.
Income ==
    /\ free < MaxFree
    /\ free' = free + 1
    /\ UNCHANGED <<lock, task, owner, done>>

TaskStep(t) ==
    \/ \E j \in Jobs : Acquire(t, j)
    \/ Check(t) \/ Reserve(t) \/ PrepareErr(t) \/ Send(t) \/ Finish(t)
    \/ Reconcile(t)

Next ==
    \/ \E t \in Tasks : TaskStep(t)
    \/ \E p \in Procs : Crash(p)
    \/ Land \/ Perish("failed") \/ Perish("dead") \/ Income

Spec == Init /\ [][Next]_vars

-----------------------------------------------------------------------------
(* The balance still covers a checked purchase, or somebody else spent.     *)
Covered(t, job, since) ==
    Plan[job].kind = "buy" =>
        \/ free >= Floor + Plan[job].amount
        \/ \E e \in since : e.proc # ProcOf[t] \/ e.lost

\* A task inside a step holds its process's lock, and starts afresh.
Locked == \A t \in Tasks : task[t].pc # "idle" =>
    /\ lock[ProcOf[t]] = t /\ task[t].job # None
    /\ task[t].pc = "locked" => task[t].since = {}

\* A task that reserved the signer and has not sent owns the reservation.
Reserved == \A t \in Tasks : task[t].pc = "reserved" =>
    owner # None /\ owner.by = t /\ owner.job = task[t].job /\ owner.tx = "none"

\* A transaction that is not lost is watched by the task that sent it.
Watched == owner # None /\ ~owner.lost =>
    task[owner.by].pc \in {"reserved", "sent"} /\ task[owner.by].job = owner.job

\* Purchases are covered from their check to their landing.
CheckCovered == \A t \in Tasks : task[t].pc = "checked" =>
    Covered(t, task[t].job, task[t].since)
SendCovered == owner # None /\ owner.tx \in {"none", "sent"} =>
    Covered(owner.by, owner.job, owner.since)

\* A sole task never reserves the signer after its check was overtaken.
Sole == \A t \in Tasks : Tasks = {t} =>
    /\ task[t].pc = "checked" /\ task[t].since # {} => owner # None
    /\ owner # None => owner.since = {}

(* A task inside a step holds its process's lock, also while it watches     *)
(* its transaction; what is watched is what the signer is reserved for; and *)
(* every purchase between its check and its landing is covered, unless a    *)
(* foreign or unwatched transaction took effect in between.                 *)
(* (engine.rs: treasury_lock, spendable, send_journaled.)                   *)
IInv ==
    TypeOK /\ Locked /\ Reserved /\ Watched /\ CheckCovered /\ SendCovered /\ Sole

(* A purchase takes the treasury below fee_reserve and the existential      *)
(* deposit only if there are other tasks and, after it read the balance, a  *)
(* transaction of another process took effect, or one of its own process    *)
(* that nobody watched any more.  A single sequential engine never spends   *)
(* its reserve.  (engine.rs: spendable, treasury_lock.)                     *)
ReserveRace ==
    [][(owner # None /\ Plan[owner.job].kind = "buy"
        /\ free' < free /\ free' < Floor)
       => /\ Tasks # {owner.by}
          /\ \E e \in owner.since : e.proc # ProcOf[owner.by] \/ e.lost]_vars
=============================================================================
