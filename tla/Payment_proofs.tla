--------------------------- MODULE Payment_proofs ---------------------------
(***************************************************************************)
(* The payment job for any number of hotkeys, every minimum, every retry   *)
(* limit and every policy: none of MinAlpha, Floor, MaxAttempts, MaxStake  *)
(* and MaxFree bounds a proof.                                             *)
(*                                                                         *)
(* The safety properties of Payment are one argument: a job whose journal  *)
(* is of its stage cannot be moved by the operator, so the result of the   *)
(* journal always applies; what applies is booked in the record before the *)
(* next journal; and a journal is only written for what is not booked.     *)
(* IInv says so for every line of the ledger.                              *)
(***************************************************************************)
EXTENDS Payment, FiniteSetTheorems, TLAPS

Working == {"detected", "funded", "swept"}   \* the steps that may fail
Moved == {"funded", "swept", "settled"}      \* the stages after the funding

\* failed_from is never ahead of the state: it names the step a failed job
\* is in, and otherwise one that the job has left or works on again.
Lifecycle(r) ==
    /\ r.failed_from \in Working \cup {None}
    /\ r.state = "failed" => r.failed_from # None
    /\ r.failed_from = "detected" => r.state \in Working \cup {"settled", "failed"}
    /\ r.failed_from = "funded" => r.state \in Moved \cup {"failed"}
    /\ r.failed_from = "swept" => r.state \in {"swept", "settled", "failed"}

\* The line of the ledger that an intent becomes.
Line(p) == [p EXCEPT !.amount = 0]

\* The record holds the result of the transaction that wrote the line e.
Booked(r, e) ==
    \/ e.kind = "fund" /\ Stage(r) \in Moved
    \/ e.kind = "sweep" /\ \E m \in DOMAIN r.swept : r.swept[m] = e.hotkey
    \/ /\ e.kind = "consolidate"
       /\ \E m \in DOMAIN r.swept : m <= r.consolidated /\ r.swept[m] = e.hotkey
    \/ e.kind = "dust" /\ r.dust_returned
    \/ e.kind = "buy" /\ r.buyback # None
    \/ e.kind = "destroy" /\ r.buyback = "destroyed"

\* The stage that writes a journal of this kind.
StageOf(kind) == CASE kind = "fund"  -> "detected"
                   [] kind = "sweep" -> "funded"
                   [] OTHER          -> "swept"

\* The intent p is of the job's stage and asks for what is not booked.
Asks(r, p) ==
    /\ r.state = StageOf(p.kind)
    /\ ~Booked(r, Line(p))
    /\ p.kind = "sweep" => p.hotkey \in Hotkeys
    /\ p.kind = "consolidate" => /\ r.consolidated < Len(r.swept)
                                 /\ p.hotkey = r.swept[r.consolidated + 1]
    /\ p.kind = "buy" => r.policy # "none"
    /\ p.kind = "destroy" => r.policy = "burn" /\ r.buyback = "bought"

Journaled(r) ==
    r.pending # None => r.quarantined = None /\ Asks(r, r.pending)

\* A quarantined job has failed in a step that force_sweep cannot resume.
Held(r) ==
    r.quarantined # None =>
        /\ r.state = "failed" /\ r.failed_from \in {"funded", "swept"}
        /\ r.pending = None

\* The receipt is the policy's, and complete once the job is settled.
Receipted(r) ==
    /\ r.consolidated <= Len(r.swept)
    /\ r.buyback # None => r.policy # "none"
    /\ r.buyback = "destroyed" => r.policy = "burn"
    /\ r.state = "settled" =>
         /\ \/ r.policy = "none" \/ r.buyback = "destroyed"
            \/ r.policy = "keep" /\ r.buyback = "bought"
         /\ r.consolidate => r.consolidated = Len(r.swept)
         /\ r.return_dust => r.dust_returned

\* No hotkey is booked twice.
SweptOnce(r) ==
    \A m, n \in DOMAIN r.swept : r.swept[m] = r.swept[n] => m = n

RecordInv(r) ==
    Lifecycle(r) /\ Journaled(r) /\ Held(r) /\ Receipted(r) /\ SweptOnce(r)

\* The transaction of an open journal took effect and is not booked yet.
InFlight == rec.pending # None /\ fate \in {"ok", "odd"}

\* Every line is booked, or of the open journal, or of the quarantined one.
LinesKnown ==
    \A n \in DOMAIN ledger :
        \/ Booked(rec, ledger[n])
        \/ InFlight /\ ledger[n] = Line(rec.pending)
        \/ rec.quarantined # None /\ ledger[n] = Line(rec.quarantined)

\* What the record and the open journal say was bought or burned was.
LinesThere ==
    /\ rec.buyback # None => Happened("buy")
    /\ rec.buyback = "destroyed" => Happened("destroy")
    /\ InFlight => Happened(rec.pending.kind)

Called ==
    /\ posts > 0 => rec.state = "settled"
    /\ rec.notified => rec.state = "settled" /\ (rec.hook => posts > 0)

IInv ==
    /\ TypeOK
    /\ rec = None => ledger = <<>> /\ posts = 0
    /\ rec # None => RecordInv(rec) /\ LinesKnown /\ LinesThere /\ Called
    /\ EachOnce

-----------------------------------------------------------------------------
(* What transition and record_failure do to a record. *)

\* The fields that neither touches, besides notified and what only payers see.
SameWork(r, n) ==
    /\ n.policy = r.policy /\ n.consolidate = r.consolidate
    /\ n.return_dust = r.return_dust /\ n.hook = r.hook
    /\ n.pending = r.pending /\ n.quarantined = r.quarantined
    /\ n.swept = r.swept /\ n.consolidated = r.consolidated
    /\ n.dust_returned = r.dust_returned /\ n.buyback = r.buyback

\* Nothing follows settled; only a working step or pending fails.
LEMMA Moves ==
    ASSUME NEW from \in States, NEW to \in States
    PROVE  CanTransition(from, to) <=>
             \/ from = "pending" /\ to \in {"detected", "expired", "failed"}
             \/ from = "detected" /\ to \in {"funded", "failed"}
             \/ from = "funded" /\ to \in {"swept", "failed"}
             \/ from = "swept" /\ to \in {"settled", "failed"}
             \/ from = "failed" /\ to \in Working
             \/ from = "expired" /\ to = "detected"
  <1>1. CanTransition(from, to) <=>
          \/ from \in {"pending"} /\ to \in {"detected", "expired", "failed"}
          \/ from \in {"detected"} /\ to \in {"funded", "failed"}
          \/ from \in {"funded"} /\ to \in {"swept", "failed"}
          \/ from \in {"swept"} /\ to \in {"settled", "failed"}
          \/ from \in {"failed"} /\ to \in {"detected", "funded", "swept"}
          \/ <<from, to>> = <<"expired", "detected">>
    BY DEF CanTransition
  <1> QED
    BY <1>1 DEF Working

(* A record with one field replaced is a record. *)
LEMMA StateField ==
    ASSUME NEW r \in Records, NEW x \in States
    PROVE  [r EXCEPT !.state = x] \in Records
  BY DEF Records

LEMMA AttemptsField ==
    ASSUME NEW r \in Records, NEW x \in Nat
    PROVE  [r EXCEPT !.attempts = x] \in Records
  BY DEF Records

LEMMA BackoffField ==
    ASSUME NEW r \in Records, NEW x \in BOOLEAN
    PROVE  [r EXCEPT !.backoff = x] \in Records
  BY DEF Records

LEMMA PendingField ==
    ASSUME NEW r \in Records, NEW x \in Actions \cup {None}
    PROVE  [r EXCEPT !.pending = x] \in Records
  BY DEF Records

LEMMA TransitionFields ==
    ASSUME NEW r \in Records, NEW s \in States, s # "failed"
    PROVE  /\ Transition(r, s) \in Records
           /\ Transition(r, s).state = s
           /\ Transition(r, s).failed_from = r.failed_from
           /\ Transition(r, s).notified = r.notified
           /\ SameWork(r, Transition(r, s))
  <1>1. Transition(r, s) \in Records
    <2>1. \A q \in Records : [q EXCEPT !.state = s] \in Records
      BY StateField
    <2>2. \A q \in Records : [q EXCEPT !.attempts = 0] \in Records
      BY AttemptsField
    <2>3. \A q \in Records : [q EXCEPT !.backoff = FALSE] \in Records
      BY BackoffField
    <2> DEFINE t == [r EXCEPT !.state = s]
               a == [t EXCEPT !.attempts = 0]
               b == [a EXCEPT !.backoff = FALSE]
    <2>4. t \in Records
      BY <2>1, Zenon
    <2>5. a \in Records
      BY <2>2, <2>4, Zenon
    <2>6. b \in Records
      BY <2>3, <2>5, Zenon
    <2>7. Transition(r, s) = [b EXCEPT !.failed_from = @]
      BY DEF Transition
    <2> HIDE DEF b
    <2>8. [b EXCEPT !.failed_from = @] = b
      BY <2>6 DEF Records
    <2> QED
      BY <2>6, <2>7, <2>8, Zenon
  <1>2. /\ Transition(r, s).state = s
        /\ Transition(r, s).failed_from = r.failed_from
        /\ Transition(r, s).notified = r.notified
    BY DEF Transition, Records
  <1>3. SameWork(r, Transition(r, s))
    BY DEF Transition, Records, SameWork
  <1> QED
    BY <1>1, <1>2, <1>3

LEMMA FailureFields ==
    ASSUME NEW r \in Records, NEW max \in Nat
    PROVE  /\ RecordFailure(r, max) \in Records
           /\ \/ /\ RecordFailure(r, max).state = r.state
                 /\ RecordFailure(r, max).failed_from = r.failed_from
              \/ /\ CanTransition(r.state, "failed")
                 /\ RecordFailure(r, max).state = "failed"
                 /\ RecordFailure(r, max).failed_from = r.state
           /\ CanTransition(r.state, "failed") /\ max = 1 =>
                 RecordFailure(r, max).state = "failed"
           /\ RecordFailure(r, max).notified = r.notified
           /\ SameWork(r, RecordFailure(r, max))
  <1> DEFINE g == r.attempts + 1 >= max /\ CanTransition(r.state, "failed")
             f == IF g THEN r.state ELSE r.failed_from
             s == IF g THEN "failed" ELSE r.state
             n == [r EXCEPT !.attempts = r.attempts + 1, !.backoff = TRUE,
                            !.failed_from = f, !.state = s]
  <1>1. RecordFailure(r, max) = n
    BY DEF RecordFailure, Records
  <1>2. r.attempts \in Nat /\ r.state \in States /\ r.failed_from \in States \cup {None}
    BY DEF Records
  <1>3. f \in States \cup {None} /\ s \in States
    BY <1>2 DEF States
  <1>4. r.attempts + 1 \in Nat
    BY <1>2
  <1>5. max = 1 /\ CanTransition(r.state, "failed") => g
    BY <1>2
  <1> HIDE DEF g
  <1>6. \/ s = r.state /\ f = r.failed_from
        \/ g /\ s = "failed" /\ f = r.state
    OBVIOUS
  <1>7. g => CanTransition(r.state, "failed") /\ s = "failed"
    BY DEF g
  <1> HIDE DEF f, s
  <1>8. n \in Records
    BY <1>3, <1>4 DEF Records
  <1>9. n.state = s /\ n.failed_from = f /\ n.notified = r.notified
    BY DEF Records
  <1>10. SameWork(r, n)
    BY DEF Records, SameWork
  <1> HIDE DEF n
  <1> QED
    BY <1>1, <1>5, <1>6, <1>7, <1>8, <1>9, <1>10

-----------------------------------------------------------------------------
(* What every step has to keep. *)

\* The parts of TypeOK besides the record.
LEMMA Types ==
    ASSUME TypeOK, rec # None
    PROVE  /\ rec \in Records /\ rec.state \in States
           /\ rec.pending \in Actions \cup {None}
           /\ rec.quarantined \in Actions \cup {None}
           /\ rec.swept \in Seq(Hotkeys) /\ rec.consolidated \in Nat
           /\ rec.buyback \in Receipts \cup {None}
           /\ rec.policy \in {"none", "keep", "burn"}
           /\ rec.failed_from \in States \cup {None}
  BY DEF TypeOK, Records

EnvOK ==
    /\ stake \in [Hotkeys -> Nat] /\ tstake \in [Hotkeys -> Nat] /\ free \in Nat
    /\ fate \in Fates \cup {None}
    /\ late \in BOOLEAN /\ posts \in 0 .. 2

\* A record that only gains: what was booked stays booked.
Kept(r, n) ==
    /\ n.swept = r.swept /\ n.buyback = r.buyback
    /\ n.consolidated >= r.consolidated
    /\ r.dust_returned => n.dust_returned
    /\ Stage(r) \in Moved => Stage(n) \in Moved

LEMMA BookedKept ==
    ASSUME NEW r \in Records, NEW n \in Records, NEW e, Kept(r, n), Booked(r, e)
    PROVE  Booked(n, e)
  <1>1. /\ r.consolidated \in Nat /\ n.consolidated \in Nat
        /\ r.swept \in Seq(Hotkeys)
    BY DEF Records
  <1>2. ASSUME NEW m \in DOMAIN r.swept, m <= r.consolidated
        PROVE  m <= n.consolidated
    BY <1>1, <1>2 DEF Kept
  <1> QED
    BY <1>2 DEF Booked, Kept

\* A step that executes nothing on the chain keeps IInv when the lines it
\* had in flight stay known, and what it books is on the chain.
LEMMA OffChain ==
    ASSUME IInv, rec # None,
           rec' \in Records, RecordInv(rec'), EnvOK', Called', ledger' = ledger,
           \A e : Booked(rec, e) => Booked(rec', e),
           rec.quarantined # None => rec'.quarantined = rec.quarantined,
           InFlight => \/ Booked(rec', Line(rec.pending))
                       \/ InFlight' /\ rec'.pending = rec.pending
                       \/ rec'.quarantined = rec.pending,
           rec'.buyback # rec.buyback =>
               /\ InFlight
               /\ \/ rec'.buyback = "bought" /\ rec.pending.kind = "buy"
                  \/ /\ rec'.buyback = "destroyed" /\ rec.pending.kind = "destroy"
                     /\ rec.buyback # None,
           InFlight' => InFlight /\ rec'.pending = rec.pending
    PROVE  IInv'
  <1>1. TypeOK'
    BY DEF IInv, TypeOK, EnvOK, RecordInv, Receipted
  <1>2. LinesKnown'
    <2> SUFFICES ASSUME NEW n \in DOMAIN ledger
                 PROVE  \/ Booked(rec', ledger[n])
                        \/ InFlight' /\ ledger[n] = Line(rec'.pending)
                        \/ /\ rec'.quarantined # None
                           /\ ledger[n] = Line(rec'.quarantined)
      BY DEF LinesKnown
    <2>1. \/ Booked(rec, ledger[n])
          \/ InFlight /\ ledger[n] = Line(rec.pending)
          \/ rec.quarantined # None /\ ledger[n] = Line(rec.quarantined)
      BY DEF IInv, LinesKnown
    <2>2. InFlight => rec.pending # None
      BY DEF InFlight
    <2> QED
      BY <2>1, <2>2
  <1>3. LinesThere'
    <2>1. LinesThere /\ (\A k : Happened(k)' <=> Happened(k))
      BY DEF IInv, Happened
    <2>2. "bought" # "destroyed"
      OBVIOUS
    <2> QED
      BY <2>1, <2>2 DEF LinesThere
  <1>4. EachOnce'
    BY DEF IInv, EachOnce
  <1>5. rec' # None \/ (ledger' = <<>> /\ posts' = 0)
    BY NoneAssumption
  <1> QED
    BY <1>1, <1>2, <1>3, <1>4, <1>5 DEF IInv

-----------------------------------------------------------------------------
(* The steps that write the record and journal nothing. *)

LEMMA StoreStep ==
    ASSUME IInv, rec # None, rec.pending = None,
           NEW n \in Records, Store(n),
           Kept(rec, n), n.pending = None, n.quarantined = rec.quarantined,
           n.hook = rec.hook, n.notified = rec.notified,
           Lifecycle(n), Held(n), Receipted(n),
           rec.state = "settled" => n.state = "settled"
    PROVE  IInv'
  <1>1. rec' = n /\ ledger' = ledger /\ fate' = fate /\ posts' = posts
    BY DEF Store
  <1>2. EnvOK'
    BY DEF Store, envVars, EnvOK, IInv, TypeOK
  <1>3. RecordInv(rec')
    BY <1>1 DEF RecordInv, Journaled, SweptOnce, IInv, Kept
  <1>4. Called'
    BY <1>1 DEF Called, IInv
  <1>5. \A e : Booked(rec, e) => Booked(rec', e)
    BY <1>1, BookedKept, Types DEF IInv
  <1>6. ~InFlight /\ ~InFlight' /\ rec'.buyback = rec.buyback
    BY <1>1 DEF InFlight, Kept
  <1> QED
    BY <1>1, <1>2, <1>3, <1>4, <1>5, <1>6, OffChain

\* The same when only the state moves on.
LEMMA MoveStep ==
    ASSUME IInv, rec # None, rec.pending = None, rec.state # "settled",
           NEW n \in Records, Store(n), SameWork(rec, n),
           n.notified = rec.notified, Lifecycle(n), Held(n), n.state # "settled",
           Stage(rec) \in Moved => Stage(n) \in Moved
    PROVE  IInv'
  <1>1. Kept(rec, n)
    BY Types DEF Kept, SameWork, IInv
  <1>2. Receipted(n)
    BY DEF Receipted, SameWork, IInv, RecordInv
  <1> QED
    BY <1>1, <1>2, StoreStep DEF SameWork

LEMMA DetectKeeps == ASSUME IInv, Detect PROVE IInv'
  <1> DEFINE t == Transition(rec, "detected")
             n == [t EXCEPT !.paid_tao = TaoOk /\ free > 0]
  <1>1. /\ rec # None /\ rec.state = "pending" /\ rec.pending = None
        /\ rec.quarantined = None /\ Store(n)
    BY DEF Detect, Due
  <1>2. /\ t \in Records /\ t.state = "detected"
        /\ t.failed_from = rec.failed_from /\ t.notified = rec.notified
        /\ SameWork(rec, t)
    BY <1>1, Types, TransitionFields DEF IInv, States
  <1> HIDE DEF t
  <1>3. (TaoOk /\ free > 0) \in BOOLEAN
    BY DEF TaoOk
  <1>4. n \in Records
    <2>1. \A b \in BOOLEAN : [t EXCEPT !.paid_tao = b] \in Records
      BY <1>2 DEF Records
    <2> QED
      BY <1>3, <2>1
  <1>5. /\ n.state = t.state /\ n.failed_from = t.failed_from
        /\ n.notified = t.notified /\ SameWork(t, n)
    BY <1>2 DEF Records, SameWork
  <1> HIDE DEF n
  <1>6. SameWork(rec, n)
    BY <1>2, <1>5 DEF SameWork
  <1>7. Lifecycle(n)
    BY <1>1, <1>2, <1>5 DEF Lifecycle, IInv, RecordInv, Working, Moved
  <1>8. Held(n) /\ Stage(rec) \notin Moved
    BY <1>1, <1>6 DEF Held, SameWork, Stage, Moved
  <1> QED
    BY <1>1, <1>2, <1>4, <1>5, <1>6, <1>7, <1>8, MoveStep

LEMMA ExpireKeeps == ASSUME IInv, Expire PROVE IInv'
  <1> DEFINE n == Transition(rec, "expired")
  <1>1. /\ rec # None /\ rec.state = "pending" /\ rec.pending = None
        /\ rec.quarantined = None /\ Store(n)
    BY DEF Expire, Due
  <1>2. /\ n \in Records /\ n.state = "expired"
        /\ n.failed_from = rec.failed_from /\ n.notified = rec.notified
        /\ SameWork(rec, n)
    BY <1>1, Types, TransitionFields DEF IInv, States
  <1> HIDE DEF n
  <1>3. Lifecycle(n)
    BY <1>1, <1>2 DEF Lifecycle, IInv, RecordInv, Working, Moved
  <1>4. Held(n) /\ Stage(rec) \notin Moved
    BY <1>1, <1>2 DEF Held, SameWork, Stage, Moved
  <1> QED
    BY <1>1, <1>2, <1>3, <1>4, MoveStep

\* A step counts a failure; a settled job never fails.
LEMMA FailureStep ==
    ASSUME IInv, rec # None, rec.pending = None, rec.quarantined = None,
           NEW max \in Nat, NEW r \in Records, SameWork(rec, r),
           r.state = rec.state, r.failed_from = rec.failed_from,
           rec.state \in Working
    PROVE  LET n == RecordFailure(r, max) IN
           /\ n \in Records /\ SameWork(rec, n) /\ n.notified = r.notified
           /\ Lifecycle(n) /\ n.state # "settled"
           /\ Stage(rec) \in Moved => Stage(n) \in Moved
  <1> DEFINE n == RecordFailure(r, max)
  <1>1. /\ n \in Records /\ SameWork(r, n) /\ n.notified = r.notified
        /\ \/ n.state = r.state /\ n.failed_from = r.failed_from
           \/ n.state = "failed" /\ n.failed_from = r.state
    BY FailureFields
  <1> HIDE DEF n
  <1>2. SameWork(rec, n)
    BY <1>1 DEF SameWork
  <1>3. Lifecycle(n) /\ n.state # "settled"
    BY <1>1, NoneAssumption DEF Lifecycle, IInv, RecordInv, Working, States
  <1>4. Stage(rec) \in Moved => Stage(n) \in Moved
    BY <1>1 DEF Stage, Working, Moved
  <1> QED
    BY <1>1, <1>2, <1>3, <1>4 DEF n

LEMMA StepErrorKeeps == ASSUME IInv, StepError PROVE IInv'
  <1> DEFINE n == RecordFailure(rec, MaxAttempts)
  <1>1. /\ rec # None /\ rec.state \in Working /\ rec.pending = None
        /\ rec.quarantined = None /\ Store(n)
    BY DEF StepError, Due, Working
  <1>2. rec \in Records /\ SameWork(rec, rec) /\ MaxAttempts \in Nat
    BY <1>1, Types, PaymentAssumption DEF IInv, SameWork
  <1>3. /\ n \in Records /\ SameWork(rec, n) /\ n.notified = rec.notified
        /\ Lifecycle(n) /\ n.state # "settled"
        /\ Stage(rec) \in Moved => Stage(n) \in Moved
    BY <1>1, <1>2, FailureStep
  <1> HIDE DEF n
  <1>4. Held(n) /\ rec.state # "settled"
    BY <1>1, <1>3 DEF Held, SameWork, Working
  <1> QED
    BY <1>1, <1>3, <1>4, MoveStep

\* The operator never moves a job with an open journal, nor a quarantined
\* one, and only from failed back into the step it failed in.
LEMMA Resumed ==
    ASSUME IInv, rec # None, NEW to \in Working, TransitionOk(rec, to),
           to = "detected" \/ to = rec.failed_from
    PROVE  /\ rec.pending = None /\ rec.state # "settled"
           /\ \/ rec.state \in {"pending", "expired"} /\ to = "detected"
                 /\ rec.failed_from = None
              \/ rec.state = "failed" /\ to = rec.failed_from
  <1>1. rec.state \in States /\ to \in States
    BY Types DEF IInv, Working, States
  <1>2. Lifecycle(rec) /\ Journaled(rec)
    BY DEF IInv, RecordInv
  <1>3. CanTransition(rec.state, to) /\ ResumeOk(rec, to)
    BY DEF TransitionOk
  <1>4. \/ rec.state \in {"pending", "expired"} /\ to = "detected"
           /\ rec.failed_from = None
        \/ rec.state = "failed" /\ to = rec.failed_from
    BY <1>1, <1>2, <1>3, Moves, NoneAssumption
    DEF Lifecycle, ResumeOk, Working, Moved, States
  <1>5. rec.pending = None
    BY <1>2, <1>4 DEF Journaled, Asks, StageOf
  <1> QED
    BY <1>4, <1>5

LEMMA ResumeKeeps ==
    ASSUME IInv, rec # None, NEW to \in Working, TransitionOk(rec, to),
           to = "detected" \/ (to = rec.failed_from /\ rec.quarantined = None),
           Store(Transition(rec, to))
    PROVE  IInv'
  <1> DEFINE n == Transition(rec, to)
  <1>1. /\ rec.pending = None /\ rec.state # "settled"
        /\ \/ rec.state \in {"pending", "expired"} /\ to = "detected"
              /\ rec.failed_from = None
           \/ rec.state = "failed" /\ to = rec.failed_from
    BY Resumed
  <1>2. to \in States /\ to # "failed" /\ to # "settled"
    BY DEF Working, States
  <1>3. /\ n \in Records /\ n.state = to
        /\ n.failed_from = rec.failed_from /\ n.notified = rec.notified
        /\ SameWork(rec, n)
    BY <1>2, Types, TransitionFields DEF IInv
  <1> HIDE DEF n
  <1>4. Lifecycle(n)
    BY <1>1, <1>2, <1>3, NoneAssumption
    DEF Lifecycle, IInv, RecordInv, Working, Moved, States
  <1>5. Stage(rec) \in Moved => Stage(n) \in Moved
    BY <1>1, <1>2, <1>3 DEF Stage, Moved
  <1>6. rec.quarantined = None
    <2> SUFFICES ASSUME rec.quarantined # None
                 PROVE  FALSE
      OBVIOUS
    <2>1. rec.state = "failed" /\ rec.failed_from \in {"funded", "swept"}
      BY DEF IInv, RecordInv, Held
    <2> QED
      BY <1>1, <2>1
  <1>7. Held(n)
    BY <1>3, <1>6 DEF Held, SameWork
  <1> QED
    BY <1>1, <1>2, <1>3, <1>4, <1>5, <1>7, MoveStep DEF n

LEMMA RetryKeeps == ASSUME IInv, Retry PROVE IInv'
  <1> DEFINE to == IF rec.failed_from \in {"pending", None} THEN "detected"
                   ELSE rec.failed_from
  <1>1. /\ rec # None /\ rec.quarantined = None
        /\ TransitionOk(rec, to) /\ Store(Transition(rec, to))
    BY DEF Retry
  <1>2. to \in Working /\ (to = "detected" \/ to = rec.failed_from)
    BY <1>1 DEF Working, IInv, RecordInv, Lifecycle
  <1> HIDE DEF to
  <1> QED
    BY <1>1, <1>2, ResumeKeeps

LEMMA ForceSweepKeeps == ASSUME IInv, ForceSweep PROVE IInv'
  BY ResumeKeeps DEF ForceSweep, Working

-----------------------------------------------------------------------------
(* The steps that journal. *)

LEMMA LineFields ==
    ASSUME NEW p \in Actions
    PROVE  Line(p) \in Actions /\ Line(p).kind = p.kind /\ Line(p).hotkey = p.hotkey
  BY DEF Line, Actions

LEMMA ActFields ==
    ASSUME NEW kind, NEW hotkey, NEW amount
    PROVE  /\ Act(kind, hotkey, amount).kind = kind
           /\ Act(kind, hotkey, amount).hotkey = hotkey
  BY DEF Act

\* A journal is written for a job whose record m has nothing against it.
LEMMA SendStep ==
    ASSUME IInv, rec # None, rec.pending = None, rec.quarantined = None,
           NEW m \in Records, NEW a \in Actions, Send(m, a),
           m.policy = rec.policy, m.consolidate = rec.consolidate,
           m.return_dust = rec.return_dust, m.hook = rec.hook,
           m.quarantined = None, m.swept = rec.swept, m.buyback = rec.buyback,
           m.consolidated = rec.consolidated, m.notified = rec.notified,
           rec.dust_returned => m.dust_returned,
           m.state = rec.state, m.failed_from = rec.failed_from,
           Asks(m, a)
    PROVE  IInv'
  <1> DEFINE n == [m EXCEPT !.pending = a]
  <1>1. rec' = n /\ fate' = None /\ ledger' = ledger /\ posts' = posts
    BY DEF Send
  <1>2. EnvOK'
    BY DEF Send, envVars, EnvOK, IInv, TypeOK
  <1>3. n \in Records /\ n.pending = a
    BY DEF Records
  <1>4. /\ n.policy = m.policy /\ n.consolidate = m.consolidate
        /\ n.return_dust = m.return_dust /\ n.hook = m.hook
        /\ n.quarantined = m.quarantined /\ n.swept = m.swept
        /\ n.buyback = m.buyback /\ n.consolidated = m.consolidated
        /\ n.notified = m.notified /\ n.dust_returned = m.dust_returned
        /\ n.state = m.state /\ n.failed_from = m.failed_from
    BY DEF Records
  <1> HIDE DEF n
  <1>5. Stage(n) = Stage(rec) /\ Stage(n) = Stage(m)
    BY <1>4 DEF Stage
  <1>6. \A e : Booked(n, e) <=> Booked(m, e)
    BY <1>4, <1>5 DEF Booked
  <1>7. Kept(rec, n)
    BY <1>4, <1>5, Types DEF Kept, IInv
  <1>8. \A e : Booked(rec, e) => Booked(n, e)
    BY <1>3, <1>7, BookedKept, Types DEF IInv
  <1>9. Asks(n, a)
    BY <1>4, <1>6 DEF Asks
  <1>10. Lifecycle(n) /\ SweptOnce(n)
    BY <1>4 DEF Lifecycle, SweptOnce, IInv, RecordInv
  <1>11. n.state \in Working
    BY <1>9 DEF Asks, StageOf, Working
  <1>12. Receipted(n)
    BY <1>4, <1>11 DEF Receipted, IInv, RecordInv, Working
  <1>13. RecordInv(n)
    BY <1>3, <1>4, <1>9, <1>10, <1>12 DEF RecordInv, Journaled, Held
  <1>14. Called'
    BY <1>1, <1>4, <1>11 DEF Called, IInv, Working
  <1>15. ~InFlight /\ ~InFlight'
    BY <1>1, NoneAssumption DEF InFlight, Fates
  <1> QED
    BY <1>1, <1>2, <1>3, <1>4, <1>8, <1>13, <1>14, <1>15, OffChain

\* The same for the stored record itself.
LEMMA SendRecord ==
    ASSUME IInv, rec # None, rec.pending = None, rec.quarantined = None,
           NEW a \in Actions, Send(rec, a), Asks(rec, a)
    PROVE  IInv'
  BY SendStep, Types DEF IInv

\* What a wallet needs is an amount.
LEMMA FundingAmount ==
    ASSUME TypeOK
    PROVE  FundingNeeded \in Nat
  <1>1. Worth \subseteq Hotkeys /\ IsFiniteSet(Hotkeys)
    BY PaymentAssumption DEF Worth
  <1>2. Cardinality(Worth) \in Nat
    BY <1>1, FS_Subset, FS_CardinalityType
  <1> QED
    BY <1>2 DEF TypeOK, FundingNeeded, Required, Fee, ED

LEMMA StepDetectedKeeps == ASSUME IInv, StepDetected PROVE IInv'
  <1>1. /\ rec # None /\ rec.state = "detected" /\ rec.pending = None
        /\ rec.quarantined = None
    BY DEF StepDetected, Due
  <1>2. CASE FundingNeeded = 0
    <2> DEFINE n == Transition(rec, "funded")
    <2>1. Store(n)
      BY <1>2 DEF StepDetected
    <2>2. /\ n \in Records /\ n.state = "funded"
          /\ n.failed_from = rec.failed_from /\ n.notified = rec.notified
          /\ SameWork(rec, n)
      BY <1>1, Types, TransitionFields DEF IInv, States
    <2> HIDE DEF n
    <2>3. Lifecycle(n) /\ Held(n)
      BY <1>1, <2>2
      DEF Lifecycle, IInv, RecordInv, Working, Moved, Held, SameWork
    <2>4. Stage(n) \in Moved
      BY <2>2 DEF Stage, Moved
    <2> QED
      BY <1>1, <2>1, <2>2, <2>3, <2>4, MoveStep
  <1>3. CASE FundingNeeded # 0
    <2> DEFINE a == Act("fund", None, FundingNeeded)
    <2>1. Send(rec, a)
      BY <1>3 DEF StepDetected
    <2>2. a \in Actions
      BY FundingAmount DEF Actions, Act, IInv
    <2>3. a.kind = "fund"
      BY ActFields
    <2> HIDE DEF a
    <2>4. Stage(rec) \notin Moved
      BY <1>1 DEF Stage, Moved
    <2>5. Asks(rec, a)
      BY <1>1, <2>2, <2>3, <2>4, LineFields DEF Asks, Booked, StageOf
    <2> QED
      BY <1>1, <2>1, <2>2, <2>5, SendRecord
  <1> QED
    BY <1>2, <1>3

LEMMA StepFundedKeeps == ASSUME IInv, StepFunded PROVE IInv'
  <1>1. /\ rec # None /\ rec.state = "funded" /\ rec.pending = None
        /\ rec.quarantined = None
    BY DEF StepFunded, Due
  <1>2. ASSUME NEW h \in Unswept, Send(rec, Act("sweep", h, stake[h]))
        PROVE  IInv'
    <2> DEFINE a == Act("sweep", h, stake[h])
    <2>1. h \in Hotkeys /\ stake[h] \in Nat
      BY DEF Unswept, Worth, IInv, TypeOK
    <2>2. a \in Actions
      BY <2>1 DEF Actions, Act
    <2>3. a.kind = "sweep" /\ a.hotkey = h
      BY ActFields
    <2> HIDE DEF a
    <2>4. \A m \in DOMAIN rec.swept : rec.swept[m] # h
      BY DEF Unswept
    <2>5. Asks(rec, a)
      BY <1>1, <2>1, <2>2, <2>3, <2>4, LineFields DEF Asks, Booked, StageOf
    <2> QED
      BY <1>1, <1>2, <2>2, <2>5, SendRecord DEF a
  <1>3. CASE Store(Transition(rec, "swept"))
    <2> DEFINE n == Transition(rec, "swept")
    <2>2. /\ n \in Records /\ n.state = "swept"
          /\ n.failed_from = rec.failed_from /\ n.notified = rec.notified
          /\ SameWork(rec, n)
      BY <1>1, Types, TransitionFields DEF IInv, States
    <2>1. Store(n)
      BY <1>3
    <2> HIDE DEF n
    <2>3. Lifecycle(n) /\ Held(n)
      BY <1>1, <2>2
      DEF Lifecycle, IInv, RecordInv, Working, Moved, Held, SameWork
    <2>4. Stage(n) \in Moved
      BY <2>2 DEF Stage, Moved
    <2> QED
      BY <1>1, <2>1, <2>2, <2>3, <2>4, MoveStep
  <1> QED
    BY <1>2, <1>3 DEF StepFunded

LEMMA ConsolidateKeeps == ASSUME IInv, Consolidate PROVE IInv'
  <1> DEFINE h == rec.swept[rec.consolidated + 1]
             live == IF h = TreasuryHotkey THEN 0 ELSE tstake[h]
  <1>1. /\ rec # None /\ rec.state = "swept" /\ rec.pending = None
        /\ rec.quarantined = None /\ rec.consolidated < Len(rec.swept)
    BY DEF Consolidate, Due, Consolidating
  <1>2. /\ rec \in Records /\ rec.swept \in Seq(Hotkeys) /\ rec.consolidated \in Nat
    BY <1>1, Types DEF IInv
  <1>3. /\ rec.consolidated + 1 \in DOMAIN rec.swept
        /\ rec.consolidated + 1 <= Len(rec.swept)
    BY <1>1, <1>2
  <1>4. h \in Hotkeys
    BY <1>2, <1>3
  <1>5. CASE live = 0
    <2> DEFINE n == [rec EXCEPT !.consolidated = rec.consolidated + 1]
    <2>1. Store(n)
      BY <1>5 DEF Consolidate
    <2>2. rec.consolidated + 1 \in Nat
      BY <1>2
    <2>3. n \in Records /\ n.consolidated = rec.consolidated + 1
      BY <1>2, <2>2 DEF Records
    <2>4. /\ n.policy = rec.policy /\ n.pending = rec.pending
          /\ n.return_dust = rec.return_dust /\ n.hook = rec.hook
          /\ n.quarantined = rec.quarantined /\ n.swept = rec.swept
          /\ n.buyback = rec.buyback /\ n.dust_returned = rec.dust_returned
          /\ n.notified = rec.notified
          /\ n.state = rec.state /\ n.failed_from = rec.failed_from
      BY <1>2 DEF Records
    <2> HIDE DEF n
    <2>5. Kept(rec, n)
      BY <1>2, <2>3, <2>4 DEF Kept, Stage
    <2>6. Lifecycle(n) /\ Held(n)
      BY <1>1, <2>4 DEF Lifecycle, Held, IInv, RecordInv
    <2>7. Receipted(n)
      BY <1>1, <1>3, <2>3, <2>4 DEF Receipted, IInv, RecordInv
    <2> QED
      BY <1>1, <2>1, <2>3, <2>4, <2>5, <2>6, <2>7, StoreStep
  <1>6. CASE live # 0
    <2> DEFINE a == Act("consolidate", h, live)
    <2>1. Send(rec, a)
      BY <1>6 DEF Consolidate
    <2>2. live \in Nat
      BY <1>4 DEF IInv, TypeOK
    <2>3. a \in Actions
      BY <1>4, <2>2 DEF Actions, Act
    <2>4. a.kind = "consolidate" /\ a.hotkey = h
      BY ActFields
    <2> HIDE DEF a
    <2>5. \A m \in DOMAIN rec.swept : m <= rec.consolidated => rec.swept[m] # h
      <3> SUFFICES ASSUME NEW m \in DOMAIN rec.swept, m <= rec.consolidated
                   PROVE  rec.swept[m] # h
        OBVIOUS
      <3>1. m # rec.consolidated + 1
        BY <1>2
      <3> QED
        BY <1>1, <1>3, <3>1 DEF IInv, RecordInv, SweptOnce
    <2>6. Asks(rec, a)
      BY <1>1, <2>3, <2>4, <2>5, LineFields DEF Asks, Booked, StageOf
    <2> QED
      BY <1>1, <2>1, <2>3, <2>6, SendRecord
  <1> QED
    BY <1>5, <1>6

LEMMA ReturnDustKeeps == ASSUME IInv, ReturnDust PROVE IInv'
  <1> DEFINE a == Act("dust", None, free)
  <1>1. /\ rec # None /\ rec.state = "swept" /\ rec.pending = None
        /\ rec.quarantined = None /\ ~rec.dust_returned /\ Send(rec, a)
    BY DEF ReturnDust, Due, DustDue
  <1>2. a \in Actions
    BY DEF Actions, Act, IInv, TypeOK
  <1>3. a.kind = "dust"
    BY ActFields
  <1> HIDE DEF a
  <1>4. Asks(rec, a)
    BY <1>1, <1>2, <1>3, LineFields DEF Asks, Booked, StageOf
  <1> QED
    BY <1>1, <1>2, <1>4, SendRecord

\* The copy of the record in which an empty wallet is noted.
LEMMA DustlessFields ==
    ASSUME TypeOK, rec # None
    PROVE  /\ Dustless \in Records
           /\ rec.dust_returned \/ DustDue => Dustless.dust_returned
           /\ Dustless.policy = rec.policy /\ Dustless.consolidate = rec.consolidate
           /\ Dustless.return_dust = rec.return_dust /\ Dustless.hook = rec.hook
           /\ Dustless.pending = rec.pending
           /\ Dustless.quarantined = rec.quarantined
           /\ Dustless.swept = rec.swept /\ Dustless.buyback = rec.buyback
           /\ Dustless.consolidated = rec.consolidated
           /\ Dustless.notified = rec.notified
           /\ Dustless.state = rec.state
           /\ Dustless.failed_from = rec.failed_from
  <1> DEFINE d == rec.dust_returned \/ DustDue
  <1>1. rec \in Records
    BY Types
  <1>2. Dustless = [rec EXCEPT !.dust_returned = d]
    BY <1>1 DEF Dustless, Records
  <1>3. d \in BOOLEAN
    BY <1>1 DEF Records, DustDue
  <1> HIDE DEF d
  <1>4. Dustless \in Records /\ Dustless.dust_returned = d
    BY <1>1, <1>2, <1>3 DEF Records
  <1> QED
    BY <1>1, <1>2, <1>4 DEF Records, d

LEMMA AutoBuybackKeeps == ASSUME IInv, AutoBuyback PROVE IInv'
  <1>1. /\ rec # None /\ rec.state = "swept" /\ rec.pending = None
        /\ rec.quarantined = None /\ rec.policy # "none"
    BY DEF AutoBuyback, AfterDust, Due, BuybackDue
  <1>2. /\ Dustless \in Records
        /\ rec.dust_returned => Dustless.dust_returned
        /\ Dustless.policy = rec.policy /\ Dustless.consolidate = rec.consolidate
        /\ Dustless.return_dust = rec.return_dust /\ Dustless.hook = rec.hook
        /\ Dustless.pending = None /\ Dustless.quarantined = None
        /\ Dustless.swept = rec.swept /\ Dustless.buyback = rec.buyback
        /\ Dustless.consolidated = rec.consolidated
        /\ Dustless.notified = rec.notified
        /\ Dustless.state = rec.state /\ Dustless.failed_from = rec.failed_from
    BY <1>1, DustlessFields DEF IInv
  <1>3. ASSUME NEW kind \in {"buy", "destroy"},
               Send(Dustless, Act(kind, None, 0)),
               kind = "buy" => rec.buyback = None,
               kind = "destroy" => rec.policy = "burn" /\ rec.buyback = "bought"
        PROVE  IInv'
    <2> DEFINE a == Act(kind, None, 0)
    <2>1. a \in Actions
      BY DEF Actions, Act
    <2>2. a.kind = kind
      BY ActFields
    <2>3. Send(Dustless, a)
      BY <1>3
    <2> HIDE DEF a
    <2>4. Asks(Dustless, a)
      BY <1>1, <1>2, <1>3, <2>1, <2>2, LineFields DEF Asks, Booked, StageOf
    <2> QED
      BY <1>1, <1>2, <2>1, <2>3, <2>4, SendStep
  <1>4. CASE Store([Dustless EXCEPT !.buyback_done = TRUE])
    <2> DEFINE n == [Dustless EXCEPT !.buyback_done = TRUE]
    <2>1. n \in Records
      BY <1>2 DEF Records
    <2>2. /\ n.policy = rec.policy /\ n.pending = None
          /\ n.return_dust = rec.return_dust /\ n.hook = rec.hook
          /\ n.quarantined = None /\ n.swept = rec.swept
          /\ n.consolidate = rec.consolidate /\ n.consolidated = rec.consolidated
          /\ n.buyback = rec.buyback /\ n.dust_returned = Dustless.dust_returned
          /\ n.notified = rec.notified
          /\ n.state = rec.state /\ n.failed_from = rec.failed_from
      BY <1>2 DEF Records
    <2>3. Store(n)
      BY <1>4
    <2> HIDE DEF n
    <2>4. Kept(rec, n)
      BY <1>1, <1>2, <2>2, Types DEF Kept, Stage, IInv
    <2>5. Lifecycle(n) /\ Held(n)
      BY <1>1, <2>2 DEF Lifecycle, Held, IInv, RecordInv
    <2>6. Receipted(n)
      BY <1>1, <2>2 DEF Receipted, IInv, RecordInv
    <2> QED
      BY <1>1, <2>1, <2>2, <2>3, <2>4, <2>5, <2>6, StoreStep
  <1>5. rec.policy \in {"none", "keep", "burn"} /\ rec.buyback \in Receipts \cup {None}
    BY <1>1, Types DEF IInv
  <1> QED
    BY <1>1, <1>3, <1>4, <1>5 DEF AutoBuyback, Receipts

LEMMA SettleKeeps == ASSUME IInv, Settle PROVE IInv'
  <1> DEFINE n == Transition(Dustless, "settled")
  <1>1. /\ rec # None /\ rec.state = "swept" /\ rec.pending = None
        /\ rec.quarantined = None /\ Store(n)
        /\ ~Consolidating
        /\ rec.policy = "none" \/ CompletedBuyback
    BY DEF Settle, AfterDust, Due
  <1>2. /\ Dustless \in Records
        /\ rec.dust_returned \/ DustDue => Dustless.dust_returned
        /\ Dustless.policy = rec.policy /\ Dustless.consolidate = rec.consolidate
        /\ Dustless.return_dust = rec.return_dust /\ Dustless.hook = rec.hook
        /\ Dustless.pending = None /\ Dustless.quarantined = None
        /\ Dustless.swept = rec.swept /\ Dustless.buyback = rec.buyback
        /\ Dustless.consolidated = rec.consolidated
        /\ Dustless.notified = rec.notified
        /\ Dustless.failed_from = rec.failed_from
    BY <1>1, DustlessFields DEF IInv
  <1>3. /\ n \in Records /\ n.state = "settled"
        /\ n.failed_from = Dustless.failed_from
        /\ n.notified = Dustless.notified /\ SameWork(Dustless, n)
    BY <1>2, TransitionFields DEF States
  <1> HIDE DEF n
  <1>4. /\ n.policy = rec.policy /\ n.pending = None
        /\ n.return_dust = rec.return_dust /\ n.hook = rec.hook
        /\ n.quarantined = None /\ n.swept = rec.swept
        /\ n.consolidate = rec.consolidate /\ n.consolidated = rec.consolidated
        /\ n.buyback = rec.buyback /\ n.dust_returned = Dustless.dust_returned
    BY <1>2, <1>3 DEF SameWork
  <1>5. Lifecycle(n) /\ Held(n)
    BY <1>1, <1>2, <1>3, <1>4
    DEF Lifecycle, IInv, RecordInv, Working, Moved, Held
  <1>6. Kept(rec, n)
    BY <1>1, <1>2, <1>3, <1>4, Types DEF Kept, Stage, Moved, IInv
  <1>7. n.consolidate => n.consolidated = Len(n.swept)
    BY <1>1, <1>4, Types DEF Consolidating, IInv, RecordInv, Receipted
  <1>8. n.return_dust => n.dust_returned
    BY <1>2, <1>4 DEF DustDue
  <1>9. Receipted(n)
    BY <1>1, <1>4, <1>7, <1>8 DEF Receipted, IInv, RecordInv, CompletedBuyback
  <1> QED
    BY <1>1, <1>2, <1>3, <1>4, <1>5, <1>6, <1>9, StoreStep

-----------------------------------------------------------------------------
(* The journal is resolved. *)

\* What applying a result may add to the record.
Gained(r, n) ==
    /\ \A m \in DOMAIN r.swept : m \in DOMAIN n.swept /\ n.swept[m] = r.swept[m]
    /\ n.consolidated >= r.consolidated
    /\ r.dust_returned => n.dust_returned
    /\ r.buyback # None => n.buyback # None
    /\ r.buyback = "destroyed" => n.buyback = "destroyed"
    /\ Stage(r) \in Moved => Stage(n) \in Moved

LEMMA BookedGained ==
    ASSUME NEW r \in Records, NEW n \in Records, NEW e, Gained(r, n), Booked(r, e)
    PROVE  Booked(n, e)
  <1>1. /\ r.consolidated \in Nat /\ n.consolidated \in Nat
        /\ r.swept \in Seq(Hotkeys)
    BY DEF Records
  <1>2. ASSUME NEW m \in DOMAIN r.swept, m <= r.consolidated
        PROVE  m <= n.consolidated
    BY <1>1, <1>2 DEF Gained
  <1> QED
    BY <1>2 DEF Booked, Gained

Open == rec # None /\ rec.quarantined = None /\ rec.pending # None

\* What is known of a job with an open journal.
LEMMA OpenFacts ==
    ASSUME IInv, Open
    PROVE  /\ rec \in Records /\ rec.pending \in Actions
           /\ rec.state \in Working /\ Asks(rec, rec.pending)
           /\ posts = 0 /\ ~rec.notified
           /\ rec.state # "failed" /\ Stage(rec) = rec.state
  <1>1. rec \in Records /\ rec.pending \in Actions /\ Asks(rec, rec.pending)
    BY Types DEF IInv, Open, RecordInv, Journaled
  <1>2. rec.state \in Working
    BY <1>1 DEF Asks, StageOf, Working
  <1>3. posts = 0 /\ ~rec.notified
    BY <1>2 DEF IInv, Open, Called, TypeOK, Working
  <1> QED
    BY <1>1, <1>2, <1>3 DEF Working, Stage

LEMMA CloseStep ==
    ASSUME IInv, Open, NEW n \in Records, rec' = n, fate' = None,
           UNCHANGED <<envVars, posts, ledger>>,
           n.pending = None, n.notified = rec.notified, Gained(rec, n),
           Lifecycle(n), Held(n), Receipted(n), SweptOnce(n),
           InFlight => \/ Booked(n, Line(rec.pending))
                       \/ n.quarantined = rec.pending,
           n.buyback # rec.buyback =>
               /\ InFlight
               /\ \/ n.buyback = "bought" /\ rec.pending.kind = "buy"
                  \/ /\ n.buyback = "destroyed" /\ rec.pending.kind = "destroy"
                     /\ rec.buyback # None
    PROVE  IInv'
  <1>1. EnvOK'
    BY DEF envVars, EnvOK, IInv, TypeOK
  <1>2. RecordInv(rec')
    BY DEF RecordInv, Journaled
  <1>3. Called'
    BY OpenFacts DEF Called
  <1>4. \A e : Booked(rec, e) => Booked(rec', e)
    BY BookedGained, OpenFacts
  <1>5. ~InFlight' /\ rec # None /\ rec.quarantined = None /\ ledger' = ledger
    BY NoneAssumption DEF InFlight, Fates, Open
  <1> QED
    BY <1>1, <1>2, <1>3, <1>4, <1>5, OffChain

\* The journal is cleared, with or without a failure counted.
LEMMA ClearedFields ==
    ASSUME IInv, Open, NEW q \in Actions \cup {None}
    PROVE  LET r == [rec EXCEPT !.pending = None, !.quarantined = q] IN
           /\ r \in Records /\ r.pending = None /\ r.quarantined = q
           /\ r.policy = rec.policy /\ r.consolidate = rec.consolidate
           /\ r.return_dust = rec.return_dust /\ r.swept = rec.swept
           /\ r.consolidated = rec.consolidated
           /\ r.dust_returned = rec.dust_returned /\ r.buyback = rec.buyback
           /\ r.notified = rec.notified
           /\ r.state = rec.state /\ r.failed_from = rec.failed_from
  BY OpenFacts DEF Records

\* A record that only lost its journal, and may have failed.
LEMMA DropStep ==
    ASSUME IInv, Open, NEW n \in Records, rec' = n, fate' = None,
           UNCHANGED <<envVars, posts, ledger>>,
           n.pending = None,
           n.policy = rec.policy, n.consolidate = rec.consolidate,
           n.return_dust = rec.return_dust, n.swept = rec.swept,
           n.consolidated = rec.consolidated,
           n.dust_returned = rec.dust_returned, n.buyback = rec.buyback,
           n.notified = rec.notified,
           \/ n.state = rec.state /\ n.failed_from = rec.failed_from
           \/ n.state = "failed" /\ n.failed_from = rec.state,
           Held(n), InFlight => n.quarantined = rec.pending
    PROVE  IInv'
  <1>1. rec \in Records /\ rec.state \in Working /\ Stage(rec) = rec.state
    BY OpenFacts
  <1>2. rec # None /\ RecordInv(rec)
    BY DEF Open, IInv
  <1>3. Stage(n) = Stage(rec)
    BY <1>1 DEF Stage, Working
  <1>4. Gained(rec, n)
    BY <1>1, <1>3 DEF Gained, Records
  <1>5. Lifecycle(n)
    BY <1>1, <1>2, NoneAssumption DEF Lifecycle, RecordInv, Working, States
  <1>6. Receipted(n)
    BY <1>1, <1>2 DEF Receipted, RecordInv, Working
  <1>7. SweptOnce(n)
    BY <1>2 DEF SweptOnce, RecordInv
  <1> QED
    BY <1>4, <1>5, <1>6, <1>7, CloseStep

LEMMA DeadKeeps ==
    ASSUME IInv, Resolve, fate = None
    PROVE  IInv'
  <1> DEFINE n == [rec EXCEPT !.pending = None]
  <1>1. /\ Open /\ rec' = n /\ fate' = None
        /\ UNCHANGED <<envVars, posts, ledger>>
    BY NoneAssumption DEF Resolve, Open, Fates
  <1>2. /\ n \in Records /\ n.pending = None /\ n.quarantined = None
        /\ n.policy = rec.policy /\ n.consolidate = rec.consolidate
        /\ n.return_dust = rec.return_dust /\ n.swept = rec.swept
        /\ n.consolidated = rec.consolidated
        /\ n.dust_returned = rec.dust_returned /\ n.buyback = rec.buyback
        /\ n.notified = rec.notified
        /\ n.state = rec.state /\ n.failed_from = rec.failed_from
    BY <1>1, OpenFacts DEF Records, Open
  <1> HIDE DEF n
  <1>3. Held(n) /\ ~InFlight
    BY <1>2, NoneAssumption DEF Held, InFlight, Fates
  <1> QED
    BY <1>1, <1>2, <1>3, DropStep

LEMMA FailedKeeps ==
    ASSUME IInv, Resolve, fate = "failed"
    PROVE  IInv'
  <1> DEFINE r == [rec EXCEPT !.pending = None]
             n == RecordFailure(r, MaxAttempts)
  <1>1. fate # None
    BY NoneAssumption DEF Fates
  <1>2. /\ Open /\ rec' = n /\ fate' = None
        /\ UNCHANGED <<envVars, posts, ledger>>
    BY <1>1 DEF Resolve, Open
  <1>3. /\ r \in Records /\ r.pending = None /\ r.quarantined = None
        /\ r.policy = rec.policy /\ r.consolidate = rec.consolidate
        /\ r.return_dust = rec.return_dust /\ r.swept = rec.swept
        /\ r.consolidated = rec.consolidated
        /\ r.dust_returned = rec.dust_returned /\ r.buyback = rec.buyback
        /\ r.notified = rec.notified
        /\ r.state = rec.state /\ r.failed_from = rec.failed_from
    BY <1>2, OpenFacts DEF Records, Open
  <1> HIDE DEF r
  <1>4. /\ n \in Records /\ SameWork(r, n) /\ n.notified = r.notified
        /\ \/ n.state = r.state /\ n.failed_from = r.failed_from
           \/ n.state = "failed" /\ n.failed_from = r.state
    BY <1>3, FailureFields, PaymentAssumption
  <1> HIDE DEF n
  <1>5. Held(n) /\ ~InFlight
    BY <1>3, <1>4 DEF Held, InFlight, SameWork
  <1> QED
    BY <1>2, <1>3, <1>4, <1>5, DropStep DEF SameWork

\* What apply refuses was sent by a funded or a swept job.
LEMMA MismatchStage ==
    ASSUME IInv, Open, Mismatch
    PROVE  rec.state \in {"funded", "swept"}
  <1>1. Asks(rec, rec.pending) /\ rec.state \in States /\ rec.state # "failed"
    BY OpenFacts, Types DEF IInv, Open
  <1>2. CASE rec.pending.kind = "fund"
    <2>1. rec.state = "detected"
      BY <1>1, <1>2 DEF Asks, StageOf
    <2>2. TransitionOk(rec, "funded")
      BY <2>1, Moves DEF TransitionOk, ResumeOk, States
    <2>3. fate = "odd" /\ rec.pending.kind \in {"sweep", "buy", "destroy"}
      BY <2>2 DEF Mismatch
    <2> QED
      BY <1>2, <2>3
  <1>3. CASE rec.pending.kind # "fund"
    BY <1>1, <1>3 DEF Asks, StageOf
  <1> QED
    BY <1>2, <1>3

LEMMA QuarantineKeeps ==
    ASSUME IInv, Resolve, fate # None, fate # "failed", Mismatch
    PROVE  IInv'
  <1> DEFINE r == [rec EXCEPT !.pending = None, !.quarantined = rec.pending]
             n == RecordFailure(r, 1)
  <1>1. /\ Open /\ rec' = n /\ fate' = None
        /\ UNCHANGED <<envVars, posts, ledger>>
    BY DEF Resolve, Open, Quarantine
  <1>2. /\ r \in Records /\ r.pending = None /\ r.quarantined = rec.pending
        /\ r.policy = rec.policy /\ r.consolidate = rec.consolidate
        /\ r.return_dust = rec.return_dust /\ r.swept = rec.swept
        /\ r.consolidated = rec.consolidated
        /\ r.dust_returned = rec.dust_returned /\ r.buyback = rec.buyback
        /\ r.notified = rec.notified
        /\ r.state = rec.state /\ r.failed_from = rec.failed_from
    BY <1>1, OpenFacts, ClearedFields
  <1> HIDE DEF r
  <1>3. rec.state \in {"funded", "swept"}
    BY <1>1, MismatchStage
  <1>4. CanTransition(r.state, "failed")
    BY <1>2, <1>3, Moves DEF States
  <1>5. /\ n \in Records /\ SameWork(r, n) /\ n.notified = r.notified
        /\ n.state = "failed" /\ n.failed_from = r.state
    BY <1>2, <1>3, <1>4, FailureFields
  <1> HIDE DEF n
  <1>6. Held(n)
    BY <1>2, <1>3, <1>5 DEF Held, SameWork
  <1> QED
    BY <1>1, <1>2, <1>5, <1>6, DropStep DEF SameWork

\* The record with the journal cleared, as apply starts from it.
Clear == [rec EXCEPT !.pending = None, !.attempts = 0, !.backoff = FALSE]

LEMMA ClearFields ==
    ASSUME IInv, Open
    PROVE  /\ Clear \in Records /\ Clear.pending = None /\ Clear.quarantined = None
           /\ Clear.policy = rec.policy /\ Clear.consolidate = rec.consolidate
           /\ Clear.return_dust = rec.return_dust /\ Clear.swept = rec.swept
           /\ Clear.consolidated = rec.consolidated
           /\ Clear.dust_returned = rec.dust_returned
           /\ Clear.buyback = rec.buyback /\ Clear.notified = rec.notified
           /\ Clear.state = rec.state /\ Clear.failed_from = rec.failed_from
  <1>1. rec \in Records /\ rec.quarantined = None
    BY OpenFacts DEF Open
  <1>2. Clear \in Records
    <2>1. \A r \in Records : [r EXCEPT !.pending = None] \in Records
      BY PendingField
    <2>2. \A r \in Records : [r EXCEPT !.attempts = 0] \in Records
      BY AttemptsField
    <2>3. \A r \in Records : [r EXCEPT !.backoff = FALSE] \in Records
      BY BackoffField
    <2> DEFINE p == [rec EXCEPT !.pending = None]
               a == [p EXCEPT !.attempts = 0]
    <2>4. p \in Records
      BY <1>1, <2>1, Zenon
    <2>5. a \in Records
      BY <2>2, <2>4, Zenon
    <2>6. [a EXCEPT !.backoff = FALSE] \in Records
      BY <2>3, <2>5, Zenon
    <2>7. Clear = [a EXCEPT !.backoff = FALSE]
      BY DEF Clear
    <2> QED
      BY <2>6, <2>7, Zenon
  <1>3. Clear.pending = None /\ Clear.quarantined = None
    BY <1>1 DEF Records, Clear
  <1>4. /\ Clear.policy = rec.policy /\ Clear.consolidate = rec.consolidate
        /\ Clear.return_dust = rec.return_dust /\ Clear.swept = rec.swept
        /\ Clear.consolidated = rec.consolidated
        /\ Clear.dust_returned = rec.dust_returned
    BY <1>1 DEF Records, Clear
  <1>5. /\ Clear.buyback = rec.buyback /\ Clear.notified = rec.notified
        /\ Clear.state = rec.state /\ Clear.failed_from = rec.failed_from
    BY <1>1 DEF Records, Clear
  <1> QED
    BY <1>2, <1>3, <1>4, <1>5

\* A result is booked without a change of the state.
LEMMA BookStep ==
    ASSUME IInv, Open, NEW n \in Records, rec' = n, fate' = None,
           UNCHANGED <<envVars, posts, ledger>>,
           n.pending = None, n.quarantined = None, n.notified = rec.notified,
           n.state = rec.state, n.failed_from = rec.failed_from,
           n.policy = rec.policy, Gained(rec, n), Receipted(n), SweptOnce(n),
           Booked(n, Line(rec.pending)),
           n.buyback # rec.buyback =>
               /\ InFlight
               /\ \/ n.buyback = "bought" /\ rec.pending.kind = "buy"
                  \/ /\ n.buyback = "destroyed" /\ rec.pending.kind = "destroy"
                     /\ rec.buyback # None
    PROVE  IInv'
  <1>1. Lifecycle(n)
    BY DEF Lifecycle, IInv, RecordInv, Open
  <1>2. Held(n)
    BY DEF Held
  <1> QED
    BY <1>1, <1>2, CloseStep

LEMMA FundApplied ==
    ASSUME IInv, Open, rec.pending.kind = "fund",
           rec' = Transition(Clear, "funded"), fate' = None,
           UNCHANGED <<envVars, posts, ledger>>
    PROVE  IInv'
  <1> DEFINE n == Transition(Clear, "funded")
  <1>1. /\ n \in Records /\ n.state = "funded"
        /\ n.failed_from = rec.failed_from
        /\ n.notified = rec.notified /\ SameWork(Clear, n)
    BY ClearFields, TransitionFields DEF States
  <1>2. rec' = n
    OBVIOUS
  <1> HIDE DEF n
  <1>3. /\ n.pending = None /\ n.quarantined = None
        /\ n.policy = rec.policy /\ n.consolidate = rec.consolidate
        /\ n.return_dust = rec.return_dust /\ n.swept = rec.swept
        /\ n.consolidated = rec.consolidated
        /\ n.dust_returned = rec.dust_returned /\ n.buyback = rec.buyback
    BY <1>1, ClearFields DEF SameWork
  <1>4. rec.state = "detected" /\ rec # None /\ RecordInv(rec) /\ rec \in Records
    BY OpenFacts DEF Asks, StageOf, Open, IInv
  <1>5. Stage(n) \in Moved
    BY <1>1 DEF Stage, Moved
  <1>6. Gained(rec, n)
    BY <1>3, <1>4, <1>5 DEF Gained, Records
  <1>7. Lifecycle(n) /\ Held(n)
    BY <1>1, <1>3, <1>4 DEF Lifecycle, Held, RecordInv, Working, Moved
  <1>8. Receipted(n) /\ SweptOnce(n)
    BY <1>1, <1>3, <1>4 DEF Receipted, SweptOnce, RecordInv
  <1>9. Booked(n, Line(rec.pending))
    BY <1>5, OpenFacts, LineFields DEF Booked
  <1> QED
    BY <1>1, <1>2, <1>3, <1>6, <1>7, <1>8, <1>9, CloseStep

LEMMA SweepApplied ==
    ASSUME IInv, Open, rec.pending.kind = "sweep",
           rec' = [Clear EXCEPT !.swept = Append(rec.swept, rec.pending.hotkey)],
           fate' = None, UNCHANGED <<envVars, posts, ledger>>
    PROVE  IInv'
  <1> DEFINE h == rec.pending.hotkey
             sw == Append(rec.swept, h)
             n == [Clear EXCEPT !.swept = sw]
  <1>1. /\ rec # None /\ RecordInv(rec) /\ rec \in Records
        /\ rec.pending \in Actions /\ Asks(rec, rec.pending)
        /\ rec.state = "funded"
    BY OpenFacts DEF Asks, StageOf, Open, IInv
  <1>2. h \in Hotkeys /\ ~Booked(rec, Line(rec.pending))
    BY <1>1 DEF Asks
  <1>3. \A m \in DOMAIN rec.swept : rec.swept[m] # h
    BY <1>1, <1>2, LineFields DEF Booked
  <1>4. rec.swept \in Seq(Hotkeys)
    BY <1>1 DEF Records
  <1>5. /\ sw \in Seq(Hotkeys) /\ Len(sw) = Len(rec.swept) + 1
        /\ sw[Len(rec.swept) + 1] = h
        /\ \A m \in DOMAIN rec.swept : m \in DOMAIN sw /\ sw[m] = rec.swept[m]
        /\ \A m \in DOMAIN sw : m \in DOMAIN rec.swept \/ m = Len(rec.swept) + 1
        /\ Len(rec.swept) + 1 \in DOMAIN sw /\ Len(rec.swept) \in Nat
    BY <1>2, <1>4
  <1> HIDE DEF sw, h
  <1>6. n \in Records /\ n.swept = sw
    BY <1>5, ClearFields DEF Records
  <1>7. /\ n.pending = None /\ n.quarantined = None
        /\ n.policy = rec.policy /\ n.consolidate = rec.consolidate
        /\ n.return_dust = rec.return_dust
        /\ n.consolidated = rec.consolidated
        /\ n.dust_returned = rec.dust_returned /\ n.buyback = rec.buyback
        /\ n.notified = rec.notified
        /\ n.state = rec.state /\ n.failed_from = rec.failed_from
    BY ClearFields DEF Records
  <1>8. rec' = n
    BY DEF sw, h
  <1> HIDE DEF n
  <1>9. Stage(n) = Stage(rec)
    BY <1>7 DEF Stage
  <1>10. Gained(rec, n)
    BY <1>1, <1>5, <1>6, <1>7, <1>9 DEF Gained, Records
  <1>11. SweptOnce(n)
    BY <1>1, <1>3, <1>5, <1>6 DEF SweptOnce, RecordInv
  <1>12. Receipted(n)
    <2>1. rec.consolidated <= Len(rec.swept) /\ rec.consolidated \in Nat
      BY <1>1 DEF RecordInv, Receipted, Records
    <2>2. n.consolidated <= Len(n.swept)
      BY <1>5, <1>6, <1>7, <2>1
    <2> QED
      BY <1>1, <1>7, <2>2 DEF Receipted, RecordInv
  <1>13. Booked(n, Line(rec.pending))
    BY <1>1, <1>5, <1>6, LineFields DEF Booked, h
  <1> QED
    BY <1>6, <1>7, <1>8, <1>10, <1>11, <1>12, <1>13, BookStep

LEMMA ConsolidateApplied ==
    ASSUME IInv, Open, rec.pending.kind = "consolidate",
           rec' = [Clear EXCEPT !.consolidated = rec.consolidated + 1],
           fate' = None, UNCHANGED <<envVars, posts, ledger>>
    PROVE  IInv'
  <1> DEFINE k == rec.consolidated + 1
             n == [Clear EXCEPT !.consolidated = k]
  <1>1. /\ rec # None /\ RecordInv(rec) /\ rec \in Records
        /\ rec.pending \in Actions /\ rec.state = "swept"
        /\ rec.consolidated < Len(rec.swept)
        /\ rec.pending.hotkey = rec.swept[k]
    BY OpenFacts DEF Asks, StageOf, Open, IInv
  <1>2. /\ rec.swept \in Seq(Hotkeys) /\ rec.consolidated \in Nat /\ k \in Nat
        /\ k \in DOMAIN rec.swept /\ k <= Len(rec.swept)
    BY <1>1 DEF Records
  <1>3. k >= rec.consolidated
    BY <1>2
  <1>4. rec' = n
    OBVIOUS
  <1> HIDE DEF k
  <1>5. n \in Records /\ n.consolidated = k
    BY <1>2, ClearFields DEF Records
  <1>6. /\ n.pending = None /\ n.quarantined = None
        /\ n.policy = rec.policy /\ n.swept = rec.swept
        /\ n.dust_returned = rec.dust_returned /\ n.buyback = rec.buyback
        /\ n.notified = rec.notified
        /\ n.state = rec.state /\ n.failed_from = rec.failed_from
    BY ClearFields DEF Records
  <1> HIDE DEF n
  <1>7. Gained(rec, n)
    BY <1>3, <1>5, <1>6 DEF Gained, Stage
  <1>8. SweptOnce(n) /\ Receipted(n)
    BY <1>1, <1>2, <1>5, <1>6 DEF SweptOnce, Receipted, RecordInv
  <1>9. Booked(n, Line(rec.pending))
    <2>1. k <= n.consolidated
      BY <1>2, <1>5
    <2> QED
      BY <1>1, <1>2, <1>6, <2>1, LineFields DEF Booked
  <1> QED
    BY <1>4, <1>5, <1>6, <1>7, <1>8, <1>9, BookStep

LEMMA DustApplied ==
    ASSUME IInv, Open, rec.pending.kind = "dust",
           rec' = [Clear EXCEPT !.dust_returned = TRUE],
           fate' = None, UNCHANGED <<envVars, posts, ledger>>
    PROVE  IInv'
  <1> DEFINE n == [Clear EXCEPT !.dust_returned = TRUE]
  <1>1. /\ rec # None /\ RecordInv(rec) /\ rec \in Records
        /\ rec.pending \in Actions /\ rec.state = "swept"
    BY OpenFacts DEF Asks, StageOf, Open, IInv
  <1>2. n \in Records /\ n.dust_returned
    BY ClearFields DEF Records
  <1>3. /\ n.pending = None /\ n.quarantined = None
        /\ n.policy = rec.policy /\ n.swept = rec.swept
        /\ n.consolidated = rec.consolidated /\ n.buyback = rec.buyback
        /\ n.notified = rec.notified
        /\ n.state = rec.state /\ n.failed_from = rec.failed_from
    BY ClearFields DEF Records
  <1>4. rec' = n
    OBVIOUS
  <1> HIDE DEF n
  <1>5. Gained(rec, n)
    BY <1>1, <1>2, <1>3 DEF Gained, Stage, Records
  <1>6. SweptOnce(n) /\ Receipted(n)
    BY <1>1, <1>3 DEF SweptOnce, Receipted, RecordInv
  <1>7. Booked(n, Line(rec.pending))
    BY <1>1, <1>2, LineFields DEF Booked
  <1> QED
    BY <1>2, <1>3, <1>4, <1>5, <1>6, <1>7, BookStep

LEMMA BuyApplied ==
    ASSUME IInv, Open, InFlight, rec.pending.kind = "buy",
           rec' = [Clear EXCEPT !.buyback = "bought"],
           fate' = None, UNCHANGED <<envVars, posts, ledger>>
    PROVE  IInv'
  <1> DEFINE n == [Clear EXCEPT !.buyback = "bought"]
  <1>1. /\ rec # None /\ RecordInv(rec) /\ rec \in Records
        /\ rec.pending \in Actions /\ rec.state = "swept"
        /\ rec.policy # "none" /\ ~Booked(rec, Line(rec.pending))
    BY OpenFacts DEF Asks, StageOf, Open, IInv
  <1>2. rec.buyback = None
    BY <1>1, LineFields DEF Booked
  <1>3. n \in Records /\ n.buyback = "bought"
    BY ClearFields DEF Records, Receipts
  <1>4. /\ n.pending = None /\ n.quarantined = None
        /\ n.policy = rec.policy /\ n.swept = rec.swept
        /\ n.consolidated = rec.consolidated
        /\ n.dust_returned = rec.dust_returned
        /\ n.notified = rec.notified
        /\ n.state = rec.state /\ n.failed_from = rec.failed_from
    BY ClearFields DEF Records
  <1>5. rec' = n
    OBVIOUS
  <1> HIDE DEF n
  <1>6. None # "bought" /\ None # "destroyed"
    BY NoneAssumption DEF Receipts
  <1>7. Gained(rec, n)
    BY <1>1, <1>2, <1>3, <1>4, <1>6 DEF Gained, Stage, Records
  <1>8. SweptOnce(n) /\ Receipted(n)
    BY <1>1, <1>3, <1>4 DEF SweptOnce, Receipted, RecordInv
  <1>9. Booked(n, Line(rec.pending))
    BY <1>1, <1>3, <1>6, LineFields DEF Booked
  <1> QED
    BY <1>3, <1>4, <1>5, <1>7, <1>8, <1>9, BookStep

LEMMA DestroyApplied ==
    ASSUME IInv, Open, InFlight, rec.pending.kind = "destroy",
           rec' = [Clear EXCEPT !.buyback = "destroyed", !.buyback_done = TRUE],
           fate' = None, UNCHANGED <<envVars, posts, ledger>>
    PROVE  IInv'
  <1> DEFINE n == [Clear EXCEPT !.buyback = "destroyed", !.buyback_done = TRUE]
  <1>1. /\ rec # None /\ RecordInv(rec) /\ rec \in Records
        /\ rec.pending \in Actions /\ rec.state = "swept"
        /\ rec.policy = "burn" /\ rec.buyback = "bought"
    BY OpenFacts DEF Asks, StageOf, Open, IInv
  <1>2. n \in Records /\ n.buyback = "destroyed"
    BY ClearFields DEF Records, Receipts
  <1>3. /\ n.pending = None /\ n.quarantined = None
        /\ n.policy = rec.policy /\ n.swept = rec.swept
        /\ n.consolidated = rec.consolidated
        /\ n.dust_returned = rec.dust_returned
        /\ n.notified = rec.notified
        /\ n.state = rec.state /\ n.failed_from = rec.failed_from
    BY ClearFields DEF Records
  <1>4. rec' = n
    OBVIOUS
  <1> HIDE DEF n
  <1>5. None # "bought" /\ None # "destroyed"
    BY NoneAssumption DEF Receipts
  <1>6. Gained(rec, n)
    BY <1>1, <1>2, <1>3, <1>5 DEF Gained, Stage, Records
  <1>7. SweptOnce(n) /\ Receipted(n)
    BY <1>1, <1>2, <1>3 DEF SweptOnce, Receipted, RecordInv
  <1>8. Booked(n, Line(rec.pending))
    BY <1>1, <1>2, LineFields DEF Booked
  <1> QED
    BY <1>1, <1>2, <1>3, <1>4, <1>5, <1>6, <1>7, <1>8, BookStep

LEMMA AppliedKeeps ==
    ASSUME IInv, Resolve, fate # None, fate # "failed", ~Mismatch
    PROVE  IInv'
  <1>1. /\ Open /\ rec' = Applied /\ fate' = None
        /\ UNCHANGED <<envVars, posts, ledger>>
    BY DEF Resolve, Open
  <1>2. InFlight
    BY <1>1 DEF InFlight, Open, IInv, TypeOK, Fates
  <1>3. /\ Clear.swept = rec.swept /\ Clear.consolidated = rec.consolidated
        /\ Clear \in Records
    BY <1>1, ClearFields
  <1>4. /\ rec.pending.kind = "fund" => Applied = Transition(Clear, "funded")
        /\ rec.pending.kind = "sweep" =>
             Applied = [Clear EXCEPT !.swept = Append(rec.swept, rec.pending.hotkey)]
        /\ rec.pending.kind = "consolidate" =>
             Applied = [Clear EXCEPT !.consolidated = rec.consolidated + 1]
        /\ rec.pending.kind = "dust" => Applied = [Clear EXCEPT !.dust_returned = TRUE]
        /\ rec.pending.kind = "buy" => Applied = [Clear EXCEPT !.buyback = "bought"]
        /\ rec.pending.kind = "destroy" =>
             Applied = [Clear EXCEPT !.buyback = "destroyed", !.buyback_done = TRUE]
    BY <1>3 DEF Applied, Clear
  <1>5. rec.pending.kind \in {"fund", "sweep", "consolidate", "dust", "buy", "destroy"}
    BY <1>1, OpenFacts DEF Actions
  <1> QED
    BY <1>1, <1>2, <1>4, <1>5, FundApplied, SweepApplied, ConsolidateApplied,
       DustApplied, BuyApplied, DestroyApplied

LEMMA ResolveKeeps == ASSUME IInv, Resolve PROVE IInv'
  BY DeadKeeps, FailedKeeps, QuarantineKeeps, AppliedKeeps

-----------------------------------------------------------------------------
(* The callback, the chain, payers and the clock. *)

\* A step that changes no field the invariant is about but notified.
LEMMA QuietStep ==
    ASSUME IInv, rec # None, NEW n \in Records, rec' = n, SameWork(rec, n),
           n.state = rec.state, n.failed_from = rec.failed_from,
           EnvOK', fate' = fate, ledger' = ledger, Called'
    PROVE  IInv'
  <1>1. rec \in Records /\ RecordInv(rec)
    BY Types DEF IInv
  <1>2. Stage(n) = Stage(rec)
    BY DEF Stage
  <1>3. \A e : Booked(rec, e) <=> Booked(n, e)
    BY <1>2 DEF Booked, SameWork
  <1>4. Journaled(n)
    BY <1>1, <1>3 DEF Journaled, Asks, RecordInv, SameWork
  <1>5. Lifecycle(n) /\ Held(n)
    BY <1>1 DEF Lifecycle, Held, RecordInv, SameWork
  <1>6. Receipted(n) /\ SweptOnce(n)
    BY <1>1 DEF Receipted, SweptOnce, RecordInv, SameWork
  <1>7. /\ n.quarantined = rec.quarantined /\ n.pending = rec.pending
        /\ n.buyback = rec.buyback /\ (InFlight' <=> InFlight)
    BY DEF SameWork, InFlight
  <1> QED
    BY <1>3, <1>4, <1>5, <1>6, <1>7, OffChain DEF RecordInv

LEMMA Unmoved == ASSUME IInv, rec # None PROVE rec \in Records /\ SameWork(rec, rec)
  BY Types DEF IInv, SameWork

\* At most "many" deliveries.
LEMMA DeliverType == ASSUME TypeOK, Deliver PROVE posts' \in 0 .. 2 /\ posts' > 0
  BY DEF TypeOK, Deliver

LEMMA NotifyKeeps == ASSUME IInv, Notify PROVE IInv'
  <1> DEFINE n == [rec EXCEPT !.notified = TRUE]
  <1>1. /\ rec # None /\ rec.state = "settled" /\ rec' = n
        /\ UNCHANGED <<envVars, fate, ledger>>
        /\ IF rec.hook THEN Deliver ELSE UNCHANGED posts
    BY DEF Notify, Due
  <1>2. rec \in Records
    BY <1>1, Unmoved
  <1>3. n \in Records
    BY <1>2 DEF Records
  <1>4. /\ SameWork(rec, n) /\ n.state = rec.state /\ n.failed_from = rec.failed_from
        /\ n.hook = rec.hook
    BY <1>2 DEF Records, SameWork
  <1> HIDE DEF n
  <1>5. posts' \in 0 .. 2 /\ (rec.hook => posts' > 0)
    BY <1>1, DeliverType DEF IInv, TypeOK
  <1>6. EnvOK'
    BY <1>1, <1>5 DEF EnvOK, envVars, IInv, TypeOK
  <1>7. Called'
    BY <1>1, <1>4, <1>5 DEF Called
  <1> QED
    BY <1>1, <1>3, <1>4, <1>6, <1>7, QuietStep

LEMMA NotifyErrorKeeps == ASSUME IInv, NotifyError PROVE IInv'
  <1>1. /\ rec # None /\ rec.state = "settled" /\ ~rec.notified
        /\ UNCHANGED <<envVars, fate, ledger>>
        /\ Deliver \/ UNCHANGED posts
        /\ \/ rec' = [rec EXCEPT !.backoff = TRUE]
           \/ rec' = RecordFailure(rec, MaxAttempts)
           \/ rec' = rec
    BY DEF NotifyError, Due
  <1>2. rec \in Records /\ SameWork(rec, rec)
    BY <1>1, Unmoved
  <1>3. posts' \in 0 .. 2
    BY <1>1, DeliverType DEF IInv, TypeOK
  <1>4. EnvOK'
    BY <1>1, <1>3 DEF EnvOK, envVars, IInv, TypeOK
  <1>5. /\ rec' \in Records /\ SameWork(rec, rec') /\ rec'.state = rec.state
        /\ rec'.failed_from = rec.failed_from /\ rec'.notified = rec.notified
    <2>1. CASE rec' = [rec EXCEPT !.backoff = TRUE]
      <3>1. rec' \in Records
        BY <1>2, <2>1 DEF Records
      <3>2. /\ SameWork(rec, rec') /\ rec'.state = rec.state
            /\ rec'.failed_from = rec.failed_from /\ rec'.notified = rec.notified
        BY <1>2, <2>1 DEF Records, SameWork
      <3> QED
        BY <3>1, <3>2
    <2>2. CASE rec' = RecordFailure(rec, MaxAttempts)
      <3>1. ~CanTransition("settled", "failed") /\ MaxAttempts \in Nat
        BY Moves, PaymentAssumption DEF States
      <3> QED
        BY <1>1, <1>2, <2>2, <3>1, FailureFields
    <2>3. CASE rec' = rec
      BY <1>2, <2>3
    <2> QED
      BY <1>1, <2>1, <2>2, <2>3
  <1>6. Called'
    BY <1>1, <1>5 DEF Called
  <1> QED
    BY <1>1, <1>4, <1>5, <1>6, QuietStep

LEMMA ClockKeeps == ASSUME IInv, Clock PROVE IInv'
  <1>1. /\ rec # None /\ UNCHANGED <<stake, free, tstake, fate, posts, ledger>>
        /\ \/ late' = TRUE /\ rec' = rec
           \/ rec' = [rec EXCEPT !.backoff = FALSE] /\ late' = late
    BY DEF Clock
  <1>2. rec \in Records /\ SameWork(rec, rec)
    BY <1>1, Unmoved
  <1>3. /\ rec' \in Records /\ SameWork(rec, rec') /\ rec'.state = rec.state
        /\ rec'.failed_from = rec.failed_from /\ rec'.notified = rec.notified
        /\ rec'.hook = rec.hook
    <2>1. CASE rec' = rec
      BY <1>2, <2>1
    <2>2. CASE rec' = [rec EXCEPT !.backoff = FALSE]
      <3>1. rec' \in Records
        BY <1>2, <2>2 DEF Records
      <3>2. /\ SameWork(rec, rec') /\ rec'.state = rec.state
            /\ rec'.failed_from = rec.failed_from /\ rec'.notified = rec.notified
            /\ rec'.hook = rec.hook
        BY <1>2, <2>2 DEF Records, SameWork
      <3> QED
        BY <3>1, <3>2
    <2> QED
      BY <1>1, <2>1, <2>2
  <1>4. EnvOK'
    BY <1>1 DEF EnvOK, IInv, TypeOK
  <1>5. Called'
    BY <1>1, <1>3 DEF Called, IInv
  <1> QED
    BY <1>1, <1>3, <1>4, <1>5, QuietStep

LEMMA PayKeeps == ASSUME IInv, Pay PROVE IInv'
  <1>1. /\ rec # None /\ UNCHANGED <<rec, tstake, fate, late, posts, ledger>>
    BY DEF Pay
  <1>2. stake' \in [Hotkeys -> Nat] /\ free' \in Nat
    <2>1. stake \in [Hotkeys -> Nat] /\ free \in Nat
      BY DEF IInv, TypeOK
    <2>2. ASSUME NEW h \in Hotkeys, stake' = [stake EXCEPT ![h] = @ + 1]
          PROVE  stake' \in [Hotkeys -> Nat]
      BY <2>1, <2>2
    <2>3. stake' = stake \/ \E h \in Hotkeys : stake' = [stake EXCEPT ![h] = @ + 1]
      BY DEF Pay
    <2>4. free' = free \/ free' = free + 1
      BY DEF Pay
    <2> QED
      BY <2>1, <2>2, <2>3, <2>4
  <1>3. EnvOK'
    BY <1>1, <1>2 DEF EnvOK, IInv, TypeOK
  <1>4. Called'
    BY <1>1 DEF Called, IInv
  <1> QED
    BY <1>1, <1>3, <1>4, Unmoved, QuietStep

LEMMA OtherJobsKeeps == ASSUME IInv, OtherJobs PROVE IInv'
  <1>1. /\ rec # None /\ UNCHANGED <<rec, stake, free, fate, late, posts, ledger>>
    BY DEF OtherJobs
  <1>2. tstake' \in [Hotkeys -> Nat]
    BY DEF OtherJobs, IInv, TypeOK
  <1>3. EnvOK'
    BY <1>1, <1>2 DEF EnvOK, IInv, TypeOK
  <1>4. Called'
    BY <1>1 DEF Called, IInv
  <1> QED
    BY <1>1, <1>3, <1>4, Unmoved, QuietStep

\* The chain takes no more than there is.
LEMMA EffectTypes ==
    ASSUME IInv, Open, Accepts(rec.pending), Effect(rec.pending)
    PROVE  stake' \in [Hotkeys -> Nat] /\ tstake' \in [Hotkeys -> Nat] /\ free' \in Nat
  <1> DEFINE p == rec.pending
  <1>1. /\ rec \in Records /\ p \in Actions /\ p.amount \in Nat
        /\ p.kind = "sweep" => p.hotkey \in Hotkeys
        /\ p.kind = "consolidate" => p.hotkey \in Hotkeys
    <2>1. rec \in Records /\ p \in Actions /\ Asks(rec, p)
      BY OpenFacts
    <2>2. rec.swept \in Seq(Hotkeys) /\ rec.consolidated \in Nat
      BY <2>1 DEF Records
    <2>3. p.kind = "consolidate" => rec.swept[rec.consolidated + 1] \in Hotkeys
      BY <2>1, <2>2 DEF Asks
    <2> QED
      BY <2>1, <2>3 DEF Asks, Actions
  <1>2. stake \in [Hotkeys -> Nat] /\ tstake \in [Hotkeys -> Nat] /\ free \in Nat
    BY DEF IInv, TypeOK
  <1> HIDE DEF p
  <1>3. Accepts(p) /\ Effect(p)
    BY DEF p
  <1>4. CASE p.kind = "sweep"
    <2>1. stake[p.hotkey] >= p.amount /\ free >= 2
      BY <1>2, <1>3, <1>4 DEF Accepts, Fee, ED
    <2>2. /\ stake' = [stake EXCEPT ![p.hotkey] = stake[p.hotkey] - p.amount]
          /\ tstake' = [tstake EXCEPT ![p.hotkey] = tstake[p.hotkey] + p.amount]
          /\ free' = free - 1
      BY <1>1, <1>2, <1>3, <1>4 DEF Effect, Fee
    <2>3. /\ stake[p.hotkey] - p.amount \in Nat /\ free - 1 \in Nat
          /\ tstake[p.hotkey] + p.amount \in Nat
      BY <1>1, <1>2, <1>4, <2>1
    <2> QED
      BY <1>2, <2>2, <2>3
  <1>5. CASE p.kind = "consolidate"
    <2>1. tstake[p.hotkey] >= p.amount
      BY <1>3, <1>5 DEF Accepts
    <2>2. /\ tstake' = [tstake EXCEPT ![p.hotkey] = tstake[p.hotkey] - p.amount]
          /\ stake' = stake /\ free' = free
      BY <1>1, <1>2, <1>3, <1>5 DEF Effect
    <2>3. tstake[p.hotkey] - p.amount \in Nat
      BY <1>1, <1>2, <1>5, <2>1
    <2> QED
      BY <1>2, <2>2, <2>3
  <1>6. CASE p.kind \notin {"sweep", "consolidate"}
    <2>1. /\ stake' = stake /\ tstake' = tstake
          /\ free' = free + p.amount \/ free' = 0 \/ free' = free
      BY <1>3, <1>6 DEF Effect
    <2> QED
      BY <1>1, <1>2, <2>1
  <1> QED
    BY <1>4, <1>5, <1>6

LEMMA ExecuteKeeps ==
    ASSUME IInv, NEW o \in Fates, Execute(o)
    PROVE  IInv'
  <1> DEFINE e == Line(rec.pending)
  <1>1. /\ Open /\ fate = None /\ fate' = o
        /\ UNCHANGED <<rec, late, posts>>
    BY DEF Execute, Open, IInv, RecordInv, Journaled
  <1>2. /\ rec # None /\ rec.pending # None /\ rec.quarantined = None
        /\ rec \in Records /\ rec.pending \in Actions /\ Asks(rec, rec.pending)
    BY <1>1, OpenFacts DEF Open
  <1>3. ~InFlight /\ Called'
    BY <1>1, <1>2, NoneAssumption DEF InFlight, Called, Fates, IInv
  <1>4. CASE o = "failed"
    <2>1. UNCHANGED <<free, stake, tstake, ledger>>
      BY <1>4 DEF Execute
    <2>2. EnvOK'
      BY <1>1, <2>1 DEF EnvOK, IInv, TypeOK
    <2>3. ~InFlight'
      BY <1>1, <1>4 DEF InFlight
    <2> QED
      BY <1>1, <1>2, <1>3, <2>1, <2>2, <2>3, OffChain DEF IInv
  <1>5. CASE o # "failed"
    <2>1. /\ Accepts(rec.pending) /\ Effect(rec.pending)
          /\ ledger' = Append(ledger, e)
      BY <1>5 DEF Execute, Line
    <2>2. e \in Actions /\ e.kind = rec.pending.kind /\ ~Booked(rec, e)
      BY <1>2, LineFields DEF Asks
    <2>3. stake' \in [Hotkeys -> Nat] /\ tstake' \in [Hotkeys -> Nat] /\ free' \in Nat
      BY <1>1, <2>1, EffectTypes
    <2> HIDE DEF e
    <2>4. /\ ledger \in Seq(Actions) /\ ledger' \in Seq(Actions)
          /\ Len(ledger) \in Nat /\ Len(ledger) + 1 \in DOMAIN ledger'
          /\ ledger'[Len(ledger) + 1] = e
          /\ \A n \in DOMAIN ledger : n \in DOMAIN ledger' /\ ledger'[n] = ledger[n]
          /\ \A n \in DOMAIN ledger' : n \in DOMAIN ledger \/ n = Len(ledger) + 1
      BY <2>1, <2>2 DEF IInv, TypeOK
    <2>5. TypeOK'
      BY <1>1, <2>3, <2>4 DEF IInv, TypeOK, Fates
    <2>6. InFlight'
      BY <1>1, <1>2, <1>5 DEF InFlight, Fates
    <2>7. \A n \in DOMAIN ledger : Booked(rec, ledger[n])
      BY <1>2, <1>3 DEF IInv, LinesKnown
    <2>8. LinesKnown'
      BY <1>1, <2>4, <2>6, <2>7 DEF LinesKnown, e
    <2>9. \A k : Happened(k) => Happened(k)'
      BY <2>4 DEF Happened
    <2>10. Happened(rec.pending.kind)'
      BY <1>1, <2>2, <2>4 DEF Happened
    <2>11. LinesThere'
      BY <1>1, <1>2, <2>9, <2>10 DEF IInv, LinesThere
    <2>12. EachOnce'
      BY <2>2, <2>4, <2>7 DEF IInv, EachOnce
    <2> QED
      BY <1>1, <1>2, <1>3, <2>5, <2>8, <2>11, <2>12 DEF IInv
  <1> QED
    BY <1>4, <1>5

-----------------------------------------------------------------------------
(* A job is created, once. *)

LEMMA CreateStep ==
    ASSUME IInv, rec = None, NEW s \in {"pending", "detected"},
           NEW min_alpha \in Nat, NEW min_tao \in Nat \cup {None},
           NEW o \in [policy : {"none", "keep", "burn"}, consolidate : BOOLEAN,
                      return_dust : BOOLEAN, hook : BOOLEAN],
           rec' = NewRecord(s, min_alpha, min_tao, o),
           UNCHANGED <<envVars, fate, posts, ledger>>
    PROVE  IInv'
  <1> DEFINE n == NewRecord(s, min_alpha, min_tao, o)
  <1>1. ledger = <<>> /\ posts = 0 /\ ledger' = <<>> /\ posts' = 0
    BY DEF IInv
  <1>2. <<>> \in Seq(Hotkeys) /\ Len(<<>>) = 0 /\ DOMAIN <<>> = {}
    OBVIOUS
  <1>3. n \in Records
    BY <1>2 DEF NewRecord, Records, States
  <1>4. /\ n.state = s /\ n.failed_from = None /\ n.pending = None
        /\ n.quarantined = None /\ n.swept = <<>> /\ n.consolidated = 0
        /\ n.buyback = None /\ n.notified = FALSE
    BY DEF NewRecord
  <1>5. rec' = n
    OBVIOUS
  <1> HIDE DEF n
  <1>6. None # "destroyed" /\ None \notin Working
    BY NoneAssumption DEF Receipts, Working, States
  <1>7. RecordInv(n)
    BY <1>2, <1>4, <1>6
    DEF RecordInv, Lifecycle, Journaled, Held, Receipted, SweptOnce, Working
  <1>8. TypeOK'
    BY <1>1, <1>2, <1>3, <1>4, <1>5 DEF IInv, TypeOK, envVars
  <1>9. LinesKnown' /\ LinesThere' /\ Called' /\ EachOnce'
    BY <1>1, <1>2, <1>4, <1>5, <1>6
    DEF LinesKnown, LinesThere, Called, EachOnce, InFlight
  <1> QED
    BY <1>1, <1>5, <1>7, <1>8, <1>9 DEF IInv

LEMMA CreatePaymentKeeps == ASSUME IInv, CreatePayment PROVE IInv'
  BY CreateStep, PaymentAssumption DEF CreatePayment

LEMMA CreateSweepJobKeeps == ASSUME IInv, CreateSweepJob PROVE IInv'
  <1>1. PICK o \in Options :
          rec' = NewRecord("detected", 0, None, [o EXCEPT !.hook = FALSE])
    BY DEF CreateSweepJob
  <1> DEFINE u == [o EXCEPT !.hook = FALSE]
  <1>2. u \in [policy : {"none", "keep", "burn"}, consolidate : BOOLEAN,
               return_dust : BOOLEAN, hook : BOOLEAN]
    BY PaymentAssumption
  <1>3. rec' = NewRecord("detected", 0, None, u)
    BY <1>1
  <1> HIDE DEF u
  <1> QED
    BY <1>2, <1>3, CreateStep DEF CreateSweepJob

LEMMA InitHolds == ASSUME Init PROVE IInv
  <1>1. <<>> \in Seq(Actions) /\ DOMAIN <<>> = {}
    OBVIOUS
  <1>2. stake \in [Hotkeys -> Nat] /\ tstake \in [Hotkeys -> Nat]
    BY DEF Init
  <1>3. rec \in Records \cup {None} /\ fate \in Fates \cup {None}
    BY DEF Init
  <1>4. free \in Nat /\ posts \in 0 .. 2 /\ ledger \in Seq(Actions)
    BY <1>1 DEF Init
  <1>5. late \in BOOLEAN
    BY DEF Init
  <1>6. TypeOK
    BY <1>2, <1>3, <1>4, <1>5 DEF Init, TypeOK
  <1> QED
    BY <1>1, <1>6 DEF Init, IInv, EachOnce

LEMMA NextKeeps == ASSUME IInv, [Next]_vars PROVE IInv'
  <1>1. CASE Next
    BY <1>1, CreatePaymentKeeps, CreateSweepJobKeeps, DetectKeeps, ExpireKeeps,
       StepDetectedKeeps, StepFundedKeeps, ConsolidateKeeps, ReturnDustKeeps,
       AutoBuybackKeeps, SettleKeeps, NotifyKeeps, StepErrorKeeps, ResolveKeeps,
       NotifyErrorKeeps, RetryKeeps, ForceSweepKeeps, ExecuteKeeps, PayKeeps,
       OtherJobsKeeps, ClockKeeps
    DEF Next, EngineStep
  <1>2. CASE UNCHANGED vars
    BY <1>2
    DEF vars, IInv, TypeOK, LinesKnown, LinesThere, Called, EachOnce, InFlight,
        Happened
  <1> QED
    BY <1>1, <1>2

-----------------------------------------------------------------------------
(* What the invariant says of the properties of Payment. *)

LEMMA FitsStage == IInv => JournalFitsStage
  BY DEF IInv, RecordInv, Journaled, Asks, StageOf, JournalFitsStage

LEMMA Swept == IInv => SweepsBooked
  <1> SUFFICES ASSUME IInv, NEW n \in DOMAIN ledger, ledger[n].kind = "sweep"
               PROVE  \/ \E m \in DOMAIN rec.swept : rec.swept[m] = ledger[n].hotkey
                      \/ \E p \in {rec.pending, rec.quarantined} :
                            p # None /\ p.hotkey = ledger[n].hotkey
    BY DEF SweepsBooked
  <1>1. rec # None
    BY DEF IInv
  <1>2. /\ rec.pending \in Actions \cup {None}
        /\ rec.quarantined \in Actions \cup {None}
    BY <1>1, Types DEF IInv
  <1>3. CASE Booked(rec, ledger[n])
    BY <1>3 DEF Booked
  <1>4. CASE InFlight /\ ledger[n] = Line(rec.pending)
    BY <1>2, <1>4, LineFields DEF InFlight
  <1>5. CASE rec.quarantined # None /\ ledger[n] = Line(rec.quarantined)
    BY <1>2, <1>5, LineFields
  <1> QED
    BY <1>1, <1>3, <1>4, <1>5 DEF IInv, LinesKnown

LEMMA Complete == IInv => SettledComplete
  <1> SUFFICES ASSUME IInv, rec # None, rec.state = "settled"
               PROVE  /\ rec.policy # "none" <=> Happened("buy")
                      /\ rec.policy = "burn" <=> Happened("destroy")
                      /\ rec.consolidate => rec.consolidated = Len(rec.swept)
                      /\ rec.return_dust => rec.dust_returned
    BY DEF SettledComplete
  <1>1. Receipted(rec) /\ LinesThere /\ LinesKnown
    BY DEF IInv, RecordInv
  <1>2. rec.pending = None /\ rec.quarantined = None
    BY DEF IInv, RecordInv, Journaled, Asks, StageOf, Held
  <1>3. \A n \in DOMAIN ledger : Booked(rec, ledger[n])
    BY <1>1, <1>2 DEF LinesKnown, InFlight
  <1>4. Happened("buy") => rec.buyback # None
    BY <1>3 DEF Happened, Booked
  <1>5. Happened("destroy") => rec.buyback = "destroyed"
    BY <1>3 DEF Happened, Booked
  <1>6. None # "bought" /\ None # "destroyed" /\ rec.policy \in {"none", "keep", "burn"}
    BY NoneAssumption, Types DEF Receipts, IInv
  <1> QED
    BY <1>1, <1>4, <1>5, <1>6 DEF Receipted, LinesThere

LEMMA Callback == IInv => CallbackOrder
  BY DEF IInv, Called, CallbackOrder

-----------------------------------------------------------------------------
(* The theorems. *)

(* IInv holds throughout, for every set of hotkeys, policy and limit. *)
THEOREM Inductive == Spec => []IInv
  BY InitHolds, NextKeeps, PTL DEF Spec

(* Record, environment and history keep their types; no position of the    *)
(* wallet or the treasury and no balance goes below zero.                   *)
THEOREM TypeCorrect == Spec => []TypeOK
  <1>1. IInv => TypeOK
    BY DEF IInv
  <1> QED
    BY <1>1, Inductive, PTL

(* The journal of a job is always of its stage, so that its result applies, *)
(* whatever retry, force_sweep and record_failure do in between.            *)
THEOREM JournalsFit == Spec => []JournalFitsStage
  BY FitsStage, Inductive, PTL

(* Nothing takes effect twice for a job: not the funding, the sweep or the  *)
(* consolidation of any of its hotkeys, the dust, the purchase or the burn, *)
(* however often its steps fail, are retried or resumed by an operator.     *)
THEOREM EffectsOnce == Spec => []EachOnce
  <1>1. IInv => EachOnce
    BY DEF IInv
  <1> QED
    BY <1>1, Inductive, PTL

(* No sweep is lost to the record: it is booked, journaled or quarantined.  *)
THEOREM SweepsKnown == Spec => []SweepsBooked
  BY Swept, Inductive, PTL

(* A settled job did on the chain what its policy asks for, and no more.    *)
THEOREM SettledMeansDone == Spec => []SettledComplete
  BY Complete, Inductive, PTL

(* The receiver hears of settled jobs only, and of each before it is marked *)
(* notified.                                                                *)
THEOREM CallbackInOrder == Spec => []CallbackOrder
  BY Callback, Inductive, PTL

-----------------------------------------------------------------------------
(* What a step may not do. *)

\* The rank of every stage a job can be in.
LEMMA Ranks ==
    /\ Rank("pending") = 0 /\ Rank("expired") = 0 /\ Rank("detected") = 1
    /\ Rank("funded") = 2 /\ Rank("swept") = 3 /\ Rank("settled") = 4
  BY DEF Rank

\* How a step moves the stage of a job.
LEMMA StageMoves ==
    ASSUME IInv, Next, rec # None
    PROVE  \/ Stage(rec') = Stage(rec)
           \/ Stage(rec) \in {"pending", "expired"} /\ Stage(rec') = "detected"
           \/ Stage(rec) = "pending" /\ Stage(rec') = "expired"
           \/ Stage(rec) = "detected" /\ Stage(rec') = "funded"
           \/ Stage(rec) = "funded" /\ Stage(rec') = "swept"
           \/ Stage(rec) = "swept" /\ Stage(rec') = "settled"
  <1>1. rec \in Records /\ rec.state \in States
    BY Types DEF IInv
  <1>2. CASE rec' = rec
    BY <1>2
  <1>3. CASE Detect \/ Expire \/ StepDetected \/ StepFunded
    <2>1. CASE Detect
      <3> DEFINE t == Transition(rec, "detected")
      <3>1. t \in Records /\ t.state = "detected"
        BY <1>1, TransitionFields DEF States
      <3>2. rec' = [t EXCEPT !.paid_tao = TaoOk /\ free > 0] /\ rec.state = "pending"
        BY <2>1 DEF Detect, Due, Store
      <3> HIDE DEF t
      <3>3. rec'.state = "detected"
        BY <3>1, <3>2 DEF Records
      <3> QED
        BY <3>2, <3>3 DEF Stage
    <2>2. CASE Expire
      <3>1. rec' = Transition(rec, "expired") /\ rec.state = "pending"
        BY <2>2 DEF Expire, Due, Store
      <3>2. rec'.state = "expired"
        BY <1>1, <3>1, TransitionFields DEF States
      <3> QED
        BY <3>1, <3>2 DEF Stage
    <2>3. CASE StepDetected
      <3>1. rec.state = "detected"
        BY <2>3 DEF StepDetected, Due
      <3>2. CASE rec' = Transition(rec, "funded")
        BY <1>1, <3>1, <3>2, TransitionFields DEF Stage, States
      <3>3. ASSUME NEW a, rec' = [rec EXCEPT !.pending = a]
            PROVE  Stage(rec') = Stage(rec)
        BY <1>1, <3>3 DEF Stage, Records
      <3> QED
        BY <2>3, <3>2, <3>3 DEF StepDetected, Store, Send
    <2>4. CASE StepFunded
      <3>1. rec.state = "funded"
        BY <2>4 DEF StepFunded, Due
      <3>2. CASE rec' = Transition(rec, "swept")
        BY <1>1, <3>1, <3>2, TransitionFields DEF Stage, States
      <3>3. ASSUME NEW a, rec' = [rec EXCEPT !.pending = a]
            PROVE  Stage(rec') = Stage(rec)
        BY <1>1, <3>3 DEF Stage, Records
      <3> QED
        BY <2>4, <3>2, <3>3 DEF StepFunded, Store, Send
    <2> QED
      BY <1>3, <2>1, <2>2, <2>3, <2>4
  <1>4. CASE Consolidate \/ ReturnDust \/ Notify
    <2>1. \/ \E a : rec' = [rec EXCEPT !.pending = a]
          \/ rec' = [rec EXCEPT !.consolidated = @ + 1]
          \/ rec' = [rec EXCEPT !.notified = TRUE]
      BY <1>4 DEF Consolidate, ReturnDust, Notify, Store, Send
    <2>2. rec'.state = rec.state /\ rec'.failed_from = rec.failed_from
      BY <1>1, <2>1 DEF Records
    <2> QED
      BY <2>2 DEF Stage
  <1>5. CASE AutoBuyback \/ Settle
    <2>1. /\ Dustless \in Records /\ Dustless.state = rec.state
          /\ Dustless.failed_from = rec.failed_from
      BY DustlessFields DEF IInv
    <2>2. rec.state = "swept"
      BY <1>5 DEF AutoBuyback, Settle, AfterDust, Due
    <2>3. \/ \E a : rec' = [Dustless EXCEPT !.pending = a]
          \/ rec' = [Dustless EXCEPT !.buyback_done = TRUE]
          \/ rec' = Transition(Dustless, "settled")
      BY <1>5 DEF AutoBuyback, Settle, Store, Send
    <2>4. rec'.state \in {"swept", "settled"}
      BY <2>1, <2>2, <2>3, TransitionFields DEF Records, States
    <2> QED
      BY <2>2, <2>4 DEF Stage
  <1>6. CASE StepError \/ NotifyError
    <2>1. \/ rec' = RecordFailure(rec, MaxAttempts) \/ rec' = rec
          \/ rec' = [rec EXCEPT !.backoff = TRUE]
      BY <1>6 DEF StepError, NotifyError, Store
    <2>2. rec.state \in Working \cup {"settled"}
      BY <1>6 DEF StepError, NotifyError, Due, Working
    <2>3. CASE rec' = RecordFailure(rec, MaxAttempts)
      <3>1. \/ rec'.state = rec.state /\ rec'.failed_from = rec.failed_from
            \/ rec'.state = "failed" /\ rec'.failed_from = rec.state
        BY <1>1, <2>3, FailureFields, PaymentAssumption
      <3> QED
        BY <2>2, <3>1 DEF Stage, Working
    <2>4. CASE rec' = [rec EXCEPT !.backoff = TRUE]
      BY <1>1, <2>4 DEF Stage, Records
    <2> QED
      BY <1>2, <2>1, <2>3, <2>4
  <1>7. CASE Resolve
    <2>1. Open /\ rec.state \in Working /\ Stage(rec) = rec.state
      BY <1>7, OpenFacts DEF Resolve, Open
    <2>2. ASSUME NEW q \in Actions \cup {None}, NEW max \in Nat,
                 rec' = RecordFailure([rec EXCEPT !.pending = None,
                                                  !.quarantined = q], max)
          PROVE  Stage(rec') = Stage(rec)
      <3> DEFINE r == [rec EXCEPT !.pending = None, !.quarantined = q]
      <3>1. r \in Records /\ r.state = rec.state /\ r.failed_from = rec.failed_from
        BY <2>1, <2>2, ClearedFields
      <3>2. rec' = RecordFailure(r, max)
        BY <2>2
      <3> HIDE DEF r
      <3>3. \/ rec'.state = r.state /\ rec'.failed_from = r.failed_from
            \/ rec'.state = "failed" /\ rec'.failed_from = r.state
        BY <2>2, <3>1, <3>2, FailureFields
      <3> QED
        BY <2>1, <3>1, <3>3 DEF Stage, Working
    <2>3. CASE fate = None
      <3>1. rec' = [rec EXCEPT !.pending = None]
        BY <1>7, <2>3, NoneAssumption DEF Resolve, Fates
      <3> QED
        BY <1>1, <3>1 DEF Stage, Records
    <2>4. CASE fate = "failed"
      <3>1. rec' = RecordFailure([rec EXCEPT !.pending = None], MaxAttempts)
        BY <1>7, <2>4, NoneAssumption DEF Resolve, Fates
      <3>2. rec.quarantined = None
        BY <2>1 DEF Open
      <3>3. [rec EXCEPT !.pending = None]
              = [rec EXCEPT !.pending = None, !.quarantined = None]
        BY <1>1, <3>2 DEF Records
      <3> QED
        BY <2>2, <3>1, <3>3, PaymentAssumption
    <2>5. CASE fate # None /\ fate # "failed" /\ Mismatch
      <3>1. rec' = Quarantine
        BY <1>7, <2>5 DEF Resolve
      <3> QED
        BY <2>1, <2>2, <3>1, OpenFacts DEF Quarantine
    <2>6. CASE fate # None /\ fate # "failed" /\ ~Mismatch
      <3>1. rec' = Applied
        BY <1>7, <2>6 DEF Resolve
      <3>2. /\ Clear \in Records /\ Clear.state = rec.state
            /\ Clear.failed_from = rec.failed_from
        BY <2>1, ClearFields
      <3>3. CASE rec.pending.kind = "fund"
        <4>1. rec.state = "detected"
          BY <2>1, <3>3, OpenFacts DEF Asks, StageOf
        <4>2. rec' = Transition(Clear, "funded")
          BY <3>1, <3>3 DEF Applied, Clear
        <4> QED
          BY <3>2, <4>1, <4>2, TransitionFields DEF Stage, States
      <3>4. CASE rec.pending.kind # "fund"
        <4>1. \/ \E x : rec' = [Clear EXCEPT !.swept = x]
              \/ \E x : rec' = [Clear EXCEPT !.consolidated = x]
              \/ \E x : rec' = [Clear EXCEPT !.dust_returned = x]
              \/ \E x : rec' = [Clear EXCEPT !.buyback = x]
              \/ rec' = [Clear EXCEPT !.buyback = "destroyed", !.buyback_done = TRUE]
          BY <3>1, <3>4 DEF Applied, Clear
        <4>2. rec'.state = rec.state /\ rec'.failed_from = rec.failed_from
          BY <3>2, <4>1 DEF Records
        <4> QED
          BY <4>2 DEF Stage
      <3> QED
        BY <3>3, <3>4
    <2> QED
      BY <2>3, <2>4, <2>5, <2>6
  <1>8. CASE Retry \/ ForceSweep
    <2>1. PICK to \in Working :
             /\ TransitionOk(rec, to) /\ rec' = Transition(rec, to)
             /\ to = "detected" \/ to = rec.failed_from
      <3>1. CASE ForceSweep
        BY <3>1 DEF ForceSweep, Store, Working
      <3>2. CASE Retry
        <4> DEFINE to == IF rec.failed_from \in {"pending", None} THEN "detected"
                         ELSE rec.failed_from
        <4>1. TransitionOk(rec, to) /\ rec' = Transition(rec, to)
          BY <3>2 DEF Retry, Store
        <4>2. to \in Working /\ (to = "detected" \/ to = rec.failed_from)
          BY DEF Working, IInv, RecordInv, Lifecycle
        <4> HIDE DEF to
        <4> QED
          BY <4>1, <4>2
      <3> QED
        BY <1>8, <3>1, <3>2
    <2>2. \/ rec.state \in {"pending", "expired"} /\ to = "detected"
          \/ rec.state = "failed" /\ to = rec.failed_from
      BY <2>1, Resumed
    <2>3. rec'.state = to /\ to # "failed"
      BY <1>1, <2>1, TransitionFields DEF Working, States
    <2> QED
      BY <2>2, <2>3 DEF Stage
  <1>9. CASE Clock
    <2>1. rec' = rec \/ rec' = [rec EXCEPT !.backoff = FALSE]
      BY <1>9 DEF Clock
    <2>2. CASE rec' = [rec EXCEPT !.backoff = FALSE]
      BY <1>1, <2>2 DEF Stage, Records
    <2> QED
      BY <1>2, <2>1, <2>2
  <1>10. CASE (\E o \in Fates : Execute(o)) \/ Pay \/ OtherJobs
    BY <1>2, <1>10 DEF Execute, Pay, OtherJobs
  <1> QED
    BY <1>3, <1>4, <1>5, <1>6, <1>7, <1>8, <1>9, <1>10
    DEF Next, EngineStep, CreatePayment, CreateSweepJob

LEMMA Advances ==
    ASSUME IInv, [Next]_vars, rec # None
    PROVE  Rank(Stage(rec')) >= Rank(Stage(rec))
  <1>1. Stage(rec) \in {"pending", "expired", "detected", "funded", "swept", "settled"}
    <2>1. rec.state \in States /\ Lifecycle(rec)
      BY Types DEF IInv, RecordInv
    <2> QED
      BY <2>1 DEF Lifecycle, Stage, States, Working
  <1>2. Rank(Stage(rec)) \in Nat
    BY <1>1, Ranks
  <1>3. CASE Next
    BY <1>1, <1>2, <1>3, StageMoves, Ranks
  <1>4. CASE UNCHANGED vars
    BY <1>2, <1>4 DEF vars
  <1> QED
    BY <1>3, <1>4

(* A job never goes back to an earlier stage, whatever fails, is retried or *)
(* forced, and in whatever order.                                           *)
THEOREM NeverBack == Spec => NoRegress
  <1>1. IInv /\ [Next]_vars => [rec # None => Rank(Stage(rec')) >= Rank(Stage(rec))]_vars
    BY Advances
  <1> QED
    BY <1>1, Inductive, PTL DEF Spec, NoRegress

\* No step of the engine, the operator or the chain touches a quarantined job.
LEMMA QuarantineHeld ==
    ASSUME IInv, [Next]_vars, rec # None, rec.quarantined # None
    PROVE  /\ rec.state = "failed" /\ rec'.state = "failed"
           /\ rec'.quarantined = rec.quarantined
           /\ rec'.pending = None
           /\ ledger' = ledger
  <1>1. /\ rec.state = "failed" /\ rec.failed_from \in {"funded", "swept"}
        /\ rec.pending = None /\ rec \in Records
    BY Types DEF IInv, RecordInv, Held
  <1>2. \A s : ~Due(s)
    BY DEF Due
  <1>3. ~(CreatePayment \/ CreateSweepJob \/ EngineStep \/ StepError \/ NotifyError)
    BY <1>2
    DEF CreatePayment, CreateSweepJob, EngineStep, StepError, NotifyError, Detect,
        Expire, StepDetected, StepFunded, Consolidate, ReturnDust, AutoBuyback,
        Settle, AfterDust, Notify
  <1>4. ~(Resolve \/ Retry \/ \E o \in Fates : Execute(o))
    BY <1>1 DEF Resolve, Retry, Execute
  <1>5. ~ForceSweep
    <2> SUFFICES ASSUME ForceSweep
                 PROVE  FALSE
      OBVIOUS
    <2>1. TransitionOk(rec, "detected") /\ "detected" \in Working
      BY DEF ForceSweep, Working
    <2>2. rec.state \in {"pending", "expired"} \/ rec.failed_from = "detected"
      BY <2>1, Resumed
    <2> QED
      BY <1>1, <2>2
  <1>6. \/ rec' = rec /\ ledger' = ledger
        \/ rec' = [rec EXCEPT !.backoff = FALSE] /\ ledger' = ledger
    BY <1>3, <1>4, <1>5 DEF Next, Pay, OtherJobs, Clock, vars
  <1>7. CASE rec' = [rec EXCEPT !.backoff = FALSE]
    <2>1. /\ rec'.state = rec.state /\ rec'.quarantined = rec.quarantined
          /\ rec'.pending = rec.pending
      BY <1>1, <1>7 DEF Records
    <2> QED
      BY <1>1, <1>6, <2>1
  <1> QED
    BY <1>1, <1>6, <1>7

(* A quarantined job stays failed, keeps its intent and sends nothing more, *)
(* whatever the operator calls: force_sweep has no check of its own and is  *)
(* held back because only a funded or a swept job can be quarantined.       *)
THEOREM QuarantineFinal == Spec => QuarantineStops
  <1>1. IInv /\ [Next]_vars =>
          [rec # None /\ rec.quarantined # None =>
             /\ rec.state = "failed" /\ rec'.state = "failed"
             /\ rec'.quarantined = rec.quarantined
             /\ rec'.pending = None
             /\ ledger' = ledger]_vars
    BY QuarantineHeld
  <1> QED
    BY <1>1, Inductive, PTL DEF Spec, QuarantineStops
=============================================================================
