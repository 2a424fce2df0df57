------------------------------ MODULE Payment ------------------------------
(***************************************************************************)
(* One payment or sweep job from creation to the callback (src/src/        *)
(* engine.rs: create_*, retry, force_sweep, tick, step_*, apply, notify),   *)
(* against a chain where payers deposit at any time, other jobs move the   *)
(* treasury's stake, and a journaled transaction succeeds, fails, emits    *)
(* unexpected events or dies.                                              *)
(*                                                                         *)
(* A step of the engine is one compare-and-swap of the record, so it is    *)
(* one action here; Journal shows that the copy it was computed from is    *)
(* the stored one and that a journaled transaction takes effect at most    *)
(* once.  Amounts are small numbers: a fee and the existential deposit are *)
(* 1 each.                                                                 *)
(***************************************************************************)
EXTENDS PaymentState, Sequences, FiniteSetsExt

CONSTANTS
    Hotkeys,         \* hotkeys payers stake on
    TreasuryHotkey,  \* Config::treasury_hotkey, which may be one of them
    Options,         \* the policy and the configuration frozen into a job
    MinAlpha,        \* min_alpha of a payment request
    MinTao,          \* min_tao, or None
    Floor,           \* sweep_floor: the smallest position worth sweeping
    MaxAttempts,     \* Config::max_attempts
    MaxStake,        \* bound on a position of the deposit wallet
    MaxFree          \* bound on the TAO of the deposit wallet

ASSUME PaymentAssumption ==
    /\ Options \subseteq [policy : {"none", "keep", "burn"},
                          consolidate : BOOLEAN, return_dust : BOOLEAN,
                          hook : BOOLEAN]
    /\ MinTao \in Nat \cup {None} /\ None \notin Nat
    /\ {MinAlpha, Floor, MaxStake, MaxFree} \subseteq Nat
    /\ Floor > 0
    /\ MaxAttempts \in Nat \ {0}
    /\ IsFiniteSet(Hotkeys)

VARIABLES
    rec,      \* the stored record, None before it is created
    stake,    \* alpha of the deposit wallet per hotkey
    free,     \* TAO of the deposit wallet
    tstake,   \* alpha of the treasury per hotkey other than its own
    fate,     \* what became of the journaled transaction: None while open
    late,     \* now() > expires_at
    posts,    \* webhook deliveries that reached the receiver, 2 for many
    ledger    \* history: what took effect on the chain for this job

envVars == <<stake, free, tstake, late>>
vars == <<rec, stake, free, tstake, fate, late, posts, ledger>>

-----------------------------------------------------------------------------
Fee == 1
ED == 1

Actions == [kind : {"fund", "sweep", "consolidate", "dust", "buy", "destroy"},
            hotkey : Hotkeys \cup {None}, amount : Nat]

Act(kind, hotkey, amount) ==
    [kind |-> kind, hotkey |-> hotkey, amount |-> amount]

(* buyback is the receipt: bought, and burned or recycled in full. *)
Receipts == {"bought", "destroyed"}

(* policy: no buyback, buy and keep, buy and burn (or recycle). *)
Records ==
    [state : States, failed_from : States \cup {None}, attempts : Nat,
     backoff : BOOLEAN, min_alpha : Nat, min_tao : Nat \cup {None},
     policy : {"none", "keep", "burn"}, consolidate : BOOLEAN,
     return_dust : BOOLEAN, hook : BOOLEAN, pending : Actions \cup {None},
     quarantined : Actions \cup {None}, paid_tao : BOOLEAN,
     swept : Seq(Hotkeys), consolidated : Nat, dust_returned : BOOLEAN,
     buyback : Receipts \cup {None}, buyback_done : BOOLEAN,
     notified : BOOLEAN]

Fates == {"ok", "failed", "odd"}

\* Option::None is none of the values it stands in for.
ASSUME NoneAssumption ==
    /\ None \notin States /\ None \notin Receipts /\ None \notin Fates
    /\ None \notin Records

NewRecord(state, min_alpha, min_tao, option) ==
    [state |-> state, failed_from |-> None, attempts |-> 0, backoff |-> FALSE,
     min_alpha |-> min_alpha, min_tao |-> min_tao, policy |-> option.policy,
     consolidate |-> option.consolidate, return_dust |-> option.return_dust,
     hook |-> option.hook, pending |-> None, quarantined |-> None,
     paid_tao |-> FALSE, swept |-> <<>>, consolidated |-> 0,
     dust_returned |-> FALSE, buyback |-> None, buyback_done |-> FALSE,
     notified |-> FALSE]

Init ==
    /\ rec = None
    /\ stake = [h \in Hotkeys |-> 0] /\ free = 0
    /\ tstake \in [Hotkeys -> {0, 1}]
    /\ fate = None /\ late = FALSE /\ posts = 0 /\ ledger = <<>>

-----------------------------------------------------------------------------
(* create_payment and create_sweep_job. *)
CreatePayment ==
    /\ rec = None
    /\ \E o \in Options : rec' = NewRecord("pending", MinAlpha, MinTao, o)
    /\ UNCHANGED <<envVars, fate, posts, ledger>>

CreateSweepJob ==
    /\ rec = None
    /\ \E o \in Options :
         rec' = NewRecord("detected", 0, None, [o EXCEPT !.hook = FALSE])
    /\ UNCHANGED <<envVars, fate, posts, ledger>>

-----------------------------------------------------------------------------
\* Mutant of Due: a record with a journal is stepped.
DueJournaled(state) ==
    rec # None /\ rec.state = state /\ rec.quarantined = None /\ ~rec.backoff

(* tick and step: what is skipped without a look at the chain. *)
Due(state) ==
    /\ rec # None
    /\ rec.state = state
    /\ rec.quarantined = None
    /\ rec.pending = None
    /\ ~rec.backoff

Store(new) == rec' = new /\ UNCHANGED <<envVars, fate, posts, ledger>>

(* send_journaled up to the journal write; what follows is Resolve. *)
Send(new, action) ==
    /\ rec' = [new EXCEPT !.pending = action]
    /\ fate' = None
    /\ UNCHANGED <<envVars, posts, ledger>>

(* A read fails, capital is missing, a preparation is refused: step's error *)
(* handler counts a failure.                                                *)
StepError ==
    /\ \E s \in {"detected", "funded", "swept"} : Due(s)
    /\ Store(RecordFailure(rec, MaxAttempts))

Alpha == MapThenSumSet(LAMBDA h : stake[h], Hotkeys)

(* step_pending: the minimum in alpha, or in TAO where TAO is accepted;     *)
(* else expiry.                                                             *)
TaoOk == rec.min_tao # None /\ free >= rec.min_tao
Paid == Alpha >= rec.min_alpha \/ TaoOk

Detect ==
    /\ Due("pending") /\ Paid
    /\ Store([Transition(rec, "detected") EXCEPT !.paid_tao = TaoOk /\ free > 0])

Expire ==
    /\ Due("pending") /\ ~Paid /\ late
    /\ Store(Transition(rec, "expired"))

(* step_detected: fees of the positions to sweep, plus the existential      *)
(* deposit, less what the wallet holds.  A wallet without any position      *)
(* needs nothing.                                                           *)
Worth == {h \in Hotkeys : stake[h] >= Floor}
Required == Fee * Cardinality(Worth) + ED
FundingNeeded ==
    IF Alpha = 0 \/ free >= Required THEN 0 ELSE Required - free

StepDetected ==
    /\ Due("detected")
    /\ IF FundingNeeded = 0 THEN Store(Transition(rec, "funded"))
       ELSE Send(rec, Act("fund", None, FundingNeeded))

\* Mutant of Unswept: a hotkey that was swept is swept again.
UnsweptAgain == Worth

(* step_funded: each hotkey once, with its live amount; then swept. *)
Unswept == {h \in Worth : \A n \in DOMAIN rec.swept : rec.swept[n] # h}

StepFunded ==
    /\ Due("funded")
    /\ \/ \E h \in Unswept : Send(rec, Act("sweep", h, stake[h]))
       \/ Unswept = {} /\ Store(Transition(rec, "swept"))

(* step_swept, 1: one position after the other onto the treasury hotkey. *)
Consolidating == rec.consolidate /\ rec.consolidated < Len(rec.swept)

\* Mutant of Consolidate: a position is counted when sent and when applied.
ConsolidateTwice ==
    /\ Due("swept") /\ Consolidating
    /\ LET h == rec.swept[rec.consolidated + 1]
           live == IF h = TreasuryHotkey THEN 0 ELSE tstake[h]
           next == [rec EXCEPT !.consolidated = @ + 1]
       IN  IF live = 0 THEN Store(next)
           ELSE Send(next, Act("consolidate", h, live))

Consolidate ==
    /\ Due("swept") /\ Consolidating
    /\ LET h == rec.swept[rec.consolidated + 1]
           live == IF h = TreasuryHotkey THEN 0 ELSE tstake[h]
       IN  IF live = 0 THEN Store([rec EXCEPT !.consolidated = @ + 1])
           ELSE Send(rec, Act("consolidate", h, live))

\* Mutant of DustDue: only a payment made in TAO gets its dust returned.
DustOfTao == ~rec.dust_returned /\ rec.paid_tao

(* step_swept, 2: what TAO is left, once.  An empty wallet is noted in the  *)
(* copy of the record and stored by whatever the step writes next.          *)
DustDue == ~rec.dust_returned /\ (rec.return_dust \/ rec.paid_tao)
Dustless == [rec EXCEPT !.dust_returned = @ \/ DustDue]

ReturnDust ==
    /\ Due("swept") /\ ~Consolidating /\ DustDue /\ free > 0
    /\ Send(rec, Act("dust", None, free))

(* step_swept, 3: step_auto_buyback.  Buying needs the whole budget to be   *)
(* spendable; when it is not, the step is a StepError.                      *)
AfterDust == Due("swept") /\ ~Consolidating /\ ~(DustDue /\ free > 0)
BuybackDue == rec.policy # "none" /\ ~rec.buyback_done

AutoBuyback ==
    /\ AfterDust /\ BuybackDue
    /\ \/ rec.buyback = None /\ Send(Dustless, Act("buy", None, 0))
       \/ /\ rec.buyback # None
          /\ IF rec.policy = "keep" \/ rec.buyback = "destroyed"
             THEN Store([Dustless EXCEPT !.buyback_done = TRUE])
             ELSE Send(Dustless, Act("destroy", None, 0))

(* step_swept, end: a finished buyback must have its complete receipt. *)
CompletedBuyback ==
    rec.buyback = "destroyed" \/ (rec.policy = "keep" /\ rec.buyback = "bought")

Settle ==
    /\ AfterDust /\ ~BuybackDue
    /\ rec.policy = "none" \/ CompletedBuyback
    /\ Store(Transition(Dustless, "settled"))

-----------------------------------------------------------------------------
(* What became of the journal (send_journaled's last write or               *)
(* reconcile_journaled).  apply reads the events of a sweep, a purchase and *)
(* a burn, and refuses a fund that does not fit the state: what it refuses  *)
(* quarantines the job.  A dead transaction only clears the journal.        *)
Applied ==
    LET p == rec.pending
        clear == [rec EXCEPT !.pending = None, !.attempts = 0, !.backoff = FALSE]
    IN  CASE p.kind = "fund"        -> Transition(clear, "funded")
          [] p.kind = "sweep"       -> [clear EXCEPT !.swept = Append(@, p.hotkey)]
          [] p.kind = "consolidate" -> [clear EXCEPT !.consolidated = @ + 1]
          [] p.kind = "dust"        -> [clear EXCEPT !.dust_returned = TRUE]
          [] p.kind = "buy"         -> [clear EXCEPT !.buyback = "bought"]
          [] OTHER                  -> [clear EXCEPT !.buyback = "destroyed",
                                                     !.buyback_done = TRUE]

\* Mutant of Quarantine: the intent is dropped, the job only fails.
QuarantineForgets == RecordFailure([rec EXCEPT !.pending = None], 1)

Quarantine ==
    RecordFailure([rec EXCEPT !.pending = None, !.quarantined = rec.pending], 1)

Mismatch ==
    \/ fate = "odd" /\ rec.pending.kind \in {"sweep", "buy", "destroy"}
    \/ rec.pending.kind = "fund" /\ ~TransitionOk(rec, "funded")

Resolve ==
    /\ rec # None /\ rec.quarantined = None /\ rec.pending # None
    /\ rec' =
        CASE fate = None     -> [rec EXCEPT !.pending = None]
          [] fate = "failed" ->
                RecordFailure([rec EXCEPT !.pending = None], MaxAttempts)
          [] OTHER           -> IF Mismatch THEN Quarantine ELSE Applied
    /\ fate' = None
    /\ UNCHANGED <<envVars, posts, ledger>>

-----------------------------------------------------------------------------
(* notify: the webhook, if the job has a callback and the engine a secret,  *)
(* then notified.  The answer may be lost after the receiver got the call,  *)
(* or the process may die: then it is called again, after 30 s or at the    *)
(* next tick.  A database error in the first call, made by step_swept       *)
(* itself, is one of the step's.                                            *)
Deliver == posts' = IF posts < 2 THEN posts + 1 ELSE 2

\* Mutants of Notify: notified is stored without the call, or not at all.
NotifySilent ==
    /\ Due("settled") /\ ~rec.notified
    /\ rec' = [rec EXCEPT !.notified = TRUE]
    /\ UNCHANGED <<envVars, posts, fate, ledger>>
NotifyForgets ==
    /\ Due("settled") /\ ~rec.notified
    /\ Deliver
    /\ UNCHANGED <<rec, envVars, fate, ledger>>

Notify ==
    /\ Due("settled") /\ ~rec.notified
    /\ IF rec.hook THEN Deliver ELSE UNCHANGED posts
    /\ rec' = [rec EXCEPT !.notified = TRUE]
    /\ UNCHANGED <<envVars, fate, ledger>>

NotifyError ==
    /\ Due("settled") /\ ~rec.notified
    /\ (rec.hook /\ Deliver) \/ UNCHANGED posts
    /\ \/ rec.hook /\ rec' = [rec EXCEPT !.backoff = TRUE]
       \/ rec.attempts = 0 /\ rec' = RecordFailure(rec, MaxAttempts)
       \/ UNCHANGED rec
    /\ UNCHANGED <<envVars, fate, ledger>>

-----------------------------------------------------------------------------
\* Mutant of Retry: a quarantined job is retried.
RetryBlindly ==
    /\ rec # None
    /\ LET to == IF rec.failed_from \in {"pending", None} THEN "detected"
                 ELSE rec.failed_from
       IN  TransitionOk(rec, to) /\ Store(Transition(rec, to))

(* The operator. *)
Retry ==
    /\ rec # None /\ rec.quarantined = None
    /\ LET to == IF rec.failed_from \in {"pending", None} THEN "detected"
                 ELSE rec.failed_from
       IN  TransitionOk(rec, to) /\ Store(Transition(rec, to))

ForceSweep ==
    /\ rec # None
    /\ TransitionOk(rec, "detected")
    /\ Store(Transition(rec, "detected"))

-----------------------------------------------------------------------------
(* External: the chain executes the journaled transaction. *)
Accepts(p) ==
    CASE p.kind = "sweep"       -> stake[p.hotkey] >= p.amount /\ free >= Fee + ED
      [] p.kind = "consolidate" -> tstake[p.hotkey] >= p.amount
      [] OTHER                  -> TRUE

Effect(p) ==
    /\ free' = CASE p.kind = "fund"  -> free + p.amount
                 [] p.kind = "sweep" -> free - Fee
                 [] p.kind = "dust"  -> 0
                 [] OTHER            -> free
    /\ stake' = IF p.kind = "sweep"
                THEN [stake EXCEPT ![p.hotkey] = @ - p.amount] ELSE stake
    /\ tstake' = CASE p.kind = "sweep" ->
                        [tstake EXCEPT ![p.hotkey] = @ + p.amount]
                   [] p.kind = "consolidate" ->
                        [tstake EXCEPT ![p.hotkey] = @ - p.amount]
                   [] OTHER -> tstake

Execute(outcome) ==
    /\ rec # None /\ rec.pending # None /\ fate = None
    /\ fate' = outcome
    /\ IF outcome = "failed" THEN UNCHANGED <<free, stake, tstake, ledger>>
       ELSE /\ Accepts(rec.pending)
            /\ Effect(rec.pending)
            /\ ledger' = Append(ledger, [rec.pending EXCEPT !.amount = 0])
    /\ UNCHANGED <<rec, late, posts>>

(* External: payers, the other jobs on the same hotkeys, the clock. *)
Pay ==
    /\ \/ \E h \in Hotkeys : /\ stake[h] < MaxStake
                              /\ stake' = [stake EXCEPT ![h] = @ + 1]
                              /\ UNCHANGED free
       \/ free < MaxFree /\ free' = free + 1 /\ UNCHANGED stake
    /\ rec # None
    /\ UNCHANGED <<rec, tstake, fate, late, posts, ledger>>

OtherJobs ==
    /\ rec # None
    /\ \E h \in Hotkeys, n \in {0, 1} : tstake' = [tstake EXCEPT ![h] = n]
    /\ UNCHANGED <<rec, stake, free, fate, late, posts, ledger>>

Clock ==
    /\ rec # None
    /\ \/ ~late /\ late' = TRUE /\ UNCHANGED rec
       \/ rec.backoff /\ rec' = [rec EXCEPT !.backoff = FALSE] /\ UNCHANGED late
    /\ UNCHANGED <<stake, free, tstake, fate, posts, ledger>>

-----------------------------------------------------------------------------
EngineStep ==
    \/ Detect \/ Expire \/ StepDetected \/ StepFunded
    \/ Consolidate \/ ReturnDust \/ AutoBuyback \/ Settle
    \/ Notify

Next ==
    \/ CreatePayment \/ CreateSweepJob
    \/ EngineStep \/ StepError \/ Resolve \/ NotifyError
    \/ Retry \/ ForceSweep
    \/ \E o \in Fates : Execute(o)
    \/ Pay \/ OtherJobs \/ Clock

Spec == Init /\ [][Next]_vars

(* Fairness.  The clock runs; run ticks after every finalized block, so a   *)
(* due record is stepped and a journal resolved; the chain does not drop    *)
(* every transaction, nor the receiver every call.                          *)
Fairness ==
    /\ WF_vars(Clock)
    /\ WF_vars(EngineStep \/ StepError)
    /\ WF_vars(Resolve)
    /\ SF_vars(\E o \in Fates : Execute(o))
    /\ SF_vars(Notify)

FairSpec == Spec /\ Fairness

-----------------------------------------------------------------------------
(* Record, environment and history hold values of their types. *)
TypeOK ==
    /\ rec \in Records \cup {None}
    /\ rec # None => rec.consolidated <= Len(rec.swept)
    /\ stake \in [Hotkeys -> Nat] /\ tstake \in [Hotkeys -> Nat] /\ free \in Nat
    /\ fate \in Fates \cup {None}
    /\ late \in BOOLEAN /\ posts \in 0 .. 2 /\ ledger \in Seq(Actions)

\* The step a record is in, or failed in, and how far that is.
Stage(r) == IF r.state = "failed" THEN r.failed_from ELSE r.state
Rank(s) ==
    CASE s \in {"pending", "expired"} -> 0
      [] s = "detected" -> 1
      [] s = "funded"   -> 2
      [] s = "swept"    -> 3
      [] s = "settled"  -> 4

(* A job never goes back to an earlier stage: not by failing, retrying,     *)
(* force_sweep, or a failed_from left over from an earlier failure.         *)
NoRegress ==
    [][rec # None => Rank(Stage(rec')) >= Rank(Stage(rec))]_vars

(* A journal is always of the stage the job is in, so its result applies:   *)
(* neither retry nor force_sweep moves a job under an open journal.         *)
JournalFitsStage ==
    rec # None /\ rec.pending # None =>
        rec.state = CASE rec.pending.kind = "fund"  -> "detected"
                      [] rec.pending.kind = "sweep" -> "funded"
                      [] OTHER                      -> "swept"

(* Over the whole life of a job the wallet is funded once, each hotkey is   *)
(* swept and consolidated once, dust is returned, the budget spent and the  *)
(* purchase destroyed once.                                                 *)
EachOnce ==
    \A m, n \in DOMAIN ledger : ledger[m] = ledger[n] => m = n

Happened(kind) == \E n \in DOMAIN ledger : ledger[n].kind = kind

(* settled means done on the chain: the required purchase was made, and     *)
(* destroyed where the policy says so; none was made where none is wanted;  *)
(* every swept position was handled and the dust is gone.                   *)
SettledComplete ==
    rec # None /\ rec.state = "settled" =>
        /\ rec.policy # "none" <=> Happened("buy")
        /\ rec.policy = "burn" <=> Happened("destroy")
        /\ rec.consolidate => rec.consolidated = Len(rec.swept)
        /\ rec.return_dust => rec.dust_returned

(* The record knows every position that left the wallet: booked, or the     *)
(* open journal, or the quarantined intent.                                 *)
SweepsBooked ==
    \A n \in DOMAIN ledger : ledger[n].kind = "sweep" =>
        \/ \E m \in DOMAIN rec.swept : rec.swept[m] = ledger[n].hotkey
        \/ \E p \in {rec.pending, rec.quarantined} :
              p # None /\ p.hotkey = ledger[n].hotkey

(* After a receipt mismatch the job stays failed, keeps the intent and      *)
(* sends nothing more, whatever the operator calls.  retry checks for it;   *)
(* force_sweep does not, and is held back by failed_from alone, because     *)
(* nothing a Detected job sends can mismatch.  (state.rs, quarantined:      *)
(* "never retry blindly".)                                                  *)
QuarantineStops ==
    [][rec # None /\ rec.quarantined # None =>
          /\ rec.state = "failed" /\ rec'.state = "failed"
          /\ rec'.quarantined = rec.quarantined
          /\ rec'.pending = None
          /\ ledger' = ledger]_vars

(* The receiver hears only of settled jobs, and of each before the engine   *)
(* stops calling.                                                           *)
CallbackOrder ==
    rec # None =>
        /\ posts > 0 => rec.state = "settled"
        /\ rec.notified /\ rec.hook => posts > 0


(* Every settled job is reported in the end. *)
Reported == (rec # None /\ rec.state = "settled") ~> (rec # None /\ rec.notified)

-----------------------------------------------------------------------------
(* README.md, state machine: "pending --> detected: alpha >= min (or TAO >= *)
(* min_tao)"; engine.rs: retry will "Resume a `failed` payment".            *)
DetectedMeansPaid ==
    [][rec # None /\ rec.state = "pending" /\ rec'.state = "detected"
        => Paid]_vars
=============================================================================
