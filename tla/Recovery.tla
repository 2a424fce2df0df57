------------------------------ MODULE Recovery ------------------------------
(***************************************************************************)
(* A legacy job, from the engine without a journal that left it behind to  *)
(* SqliteStore::recover_legacy and the new engine that resumes it          *)
(* (src/src/recovery.rs, store.rs, chain.rs).                              *)
(*                                                                         *)
(* The old engine signs before it stores anything: a crash loses the       *)
(* receipt of what it sent, and it sends the same step again; operators    *)
(* used the treasury by hand; extrinsics failed.  Its signatures live for  *)
(* Mortality blocks.  The operator stops it, attests truthfully when it    *)
(* began, when it stopped and how long its signatures live, and submits a  *)
(* manifest whose list and settings may be wrong.  The archive may have    *)
(* gaps in the middle of a signer's history.                               *)
(***************************************************************************)
EXTENDS Replay, SequencesExt

CONSTANTS
    Hotkeys,      \* hotkeys the deposit's alpha sits on
    Lives,        \* what the treasury may hold on a hotkey it swept one unit to
    Mortality,    \* lifetime of the old engine's signatures, in blocks
    Settings,     \* [consolidate, return_dust, budget] an engine may run under
    MaxPast,      \* bound: transactions of the past Init starts from
    MaxOld,       \* bound: blocks after them, before the old engine is stopped
    MaxWait,      \* bound: blocks after the last old signature expired
    MaxSigned,    \* bound: transactions signed in a behaviour
    MaxTrouble    \* bound: resends, failures, skips and manual transactions

Events == {"ok", "off", "odd", "failed"}

Budgets == [amount : Nat, destroy : {"Keep", "BurnAlpha", "RecycleAlpha"}]

Buybacks == [spent : Nat, bought : Nat, stake_tx : Nat,
             destroy_tx : Nat \cup {None}]

(* BuybackBudget::validate: no engine runs under a smaller budget. *)
ASSUME RecoveryAssumption ==
    /\ Mortality \in Nat \ {0} /\ Lives \subseteq Nat \ {0} /\ Lives # {}
    /\ MaxScan \in Nat /\ MinStake \in Nat
    /\ MaxListed \in Nat /\ MaxMortality \in Nat
    /\ MaxPast \in Nat /\ MaxOld \in Nat /\ MaxSigned \in Nat
    /\ MaxTrouble \in Nat /\ MaxWait \in Nat
    /\ Settings \subseteq [consolidate : BOOLEAN, return_dust : BOOLEAN,
                           budget : Budgets \cup {None}]
    /\ \A cfg \in Settings : ValidBudget(cfg.budget)

ASSUME NoneAssumption ==
    None \notin Nat \cup {"set"} /\ None \notin Budgets /\ None \notin Buybacks

VARIABLES
    rec,       \* the stored record
    head,      \* last finalized block
    exts,      \* extrinsics of the two signers, block head + 1 included
    pool,      \* old transactions that are signed
    signed,    \* number of transactions signed
    trouble,   \* how much went wrong
    stopped,   \* block at which the old engine was stopped, or None
    setting    \* what the running engine is configured with

vars == <<rec, head, exts, pool, signed, trouble, stopped, setting>>

-----------------------------------------------------------------------------
LegacyRecord(state, tao) ==
    [state |-> state, failed_from |-> None, identity |-> None,
     auto_required |-> None, buyback_budget |-> None, notified |-> FALSE,
     detected_tao |-> tao, funded_tao |-> 0, swept_positions |-> <<>>,
     consolidated |-> 0, dust_returned |-> FALSE, buyback |-> None,
     buyback_done |-> FALSE, txs |-> <<>>]

Call(kind, hot, amount) ==
    [kind |-> kind, job |-> TRUE, hot |-> hot, amount |-> amount]

\* What a record accounts for, in the words of the replay.
Account(r) ==
    [funded |-> r.funded_tao, positions |-> r.swept_positions,
     consolidated |-> r.consolidated, dust |-> r.dust_returned,
     buyback |-> r.buyback]

Swept(r) == {r.swept_positions[i][1] : i \in DOMAIN r.swept_positions}

(* What the engine signs next for a record: fund, sweep, consolidate,       *)
(* return dust, buy, destroy (the order of the step_ functions).  A move    *)
(* takes all the treasury holds on the hotkey then: what was swept, more    *)
(* (emissions, other jobs) or less (another job moved it).                  *)
Moving(r, cfg) == cfg.consolidate /\ r.consolidated < Len(r.swept_positions)

Returning(r, cfg) ==
    ~Moving(r, cfg) /\ DustExpected(r, cfg) /\ ~r.dust_returned

Buying(r, cfg) ==
    /\ ~Moving(r, cfg) /\ ~Returning(r, cfg)
    /\ cfg.budget # None /\ r.buyback = None

Destroying(r, cfg) ==
    /\ ~Moving(r, cfg) /\ ~Returning(r, cfg)
    /\ cfg.budget # None /\ r.buyback # None /\ ~r.buyback_done
    /\ cfg.budget.destroy # "Keep" /\ r.buyback.destroy_tx = None

SweptDue(r, cfg) ==
    CASE Moving(r, cfg) ->
           LET hot == r.swept_positions[r.consolidated + 1][1] IN
           {<<"treasury", Call("MoveStake", hot, live)>> : live \in Lives}
      [] Returning(r, cfg) -> {<<"deposit", Call("TransferAll", None, 0)>>}
      [] Buying(r, cfg) ->
           {<<"treasury", Call("AddStakeLimit", None, cfg.budget.amount)>>}
      [] Destroying(r, cfg) ->
           {<<"treasury", Call(cfg.budget.destroy, None, r.buyback.bought)>>}
      [] OTHER -> {}

Due(r, cfg) ==
    CASE r.state = "detected" -> {<<"treasury", Call("TransferTao", None, 1)>>}
      [] r.state = "funded"   ->
           {<<"deposit", Call("TransferStake", h, 1)>> : h \in Hotkeys \ Swept(r)}
      [] r.state = "swept"    -> SweptDue(r, cfg)
      [] OTHER                -> {}

(* apply: the receipt and what it accounts for. *)
Booked(r, e) ==
    LET s == [r EXCEPT !.txs = Append(@, Receipt(e))] IN
    CASE e.call.kind = "TransferTao" ->
           [s EXCEPT !.funded_tao = e.call.amount, !.state = "funded"]
      [] e.call.kind = "TransferStake" ->
           [s EXCEPT !.swept_positions =
                Append(@, <<e.call.hot, e.call.amount>>)]
      [] e.call.kind = "MoveStake"   -> [s EXCEPT !.consolidated = @ + 1]
      [] e.call.kind = "TransferAll" -> [s EXCEPT !.dust_returned = TRUE]
      [] e.call.kind = "AddStakeLimit" ->
           [s EXCEPT !.buyback = [spent |-> e.call.amount, bought |-> e.bought,
                                  stake_tx |-> e.id, destroy_tx |-> None]]
      [] OTHER -> [s EXCEPT !.buyback.destroy_tx = e.id, !.buyback_done = TRUE]

(* Steps that need no transaction; a position is skipped when the treasury  *)
(* holds nothing on its hotkey, or it is the treasury's own.                *)
SweptAdvances(r, cfg) ==
    CASE Moving(r, cfg)    -> {[r EXCEPT !.consolidated = @ + 1]}
      [] Returning(r, cfg) -> {[r EXCEPT !.dust_returned = TRUE]}
      [] Buying(r, cfg) \/ Destroying(r, cfg) -> {}
      [] OTHER -> {IF cfg.budget # None /\ ~r.buyback_done
                   THEN [r EXCEPT !.buyback_done = TRUE]
                   ELSE [r EXCEPT !.state = "settled"]}

Advances(r, cfg) ==
    CASE r.state = "pending"  -> {[r EXCEPT !.state = "detected"]}
      [] r.state = "detected" -> {[r EXCEPT !.state = "funded"]}
      [] r.state = "funded"   -> {[r EXCEPT !.state = "swept"]}
      [] r.state = "swept"    -> SweptAdvances(r, cfg)
      [] OTHER                -> {}

(* An extrinsic after es; sig tells one signature from another. *)
Extrinsic(es, n, tx, event) ==
    [id |-> Len(es) + 1, sig |-> tx.sig, block |-> n, signer |-> tx.signer,
     nonce |-> Cardinality({i \in DOMAIN es : es[i].signer = tx.signer}),
     call |-> tx.call, event |-> event,
     bought |-> IF tx.call.kind = "AddStakeLimit" THEN 1 ELSE 0]

(* The first n transactions of a job without trouble, one in each block, or *)
(* as many as the settings ask for; its moves take live.                    *)
Past(cfg, tao, live) ==
    LET run[n \in 0 .. MaxPast] ==
          IF n = 0 THEN <<LegacyRecord("detected", tao), <<>>>>
          ELSE LET r  == run[n - 1][1]
                   es == run[n - 1][2]
                   at == IF r.state = "funded" /\ Due(r, cfg) = {}
                         THEN [r EXCEPT !.state = "swept"] ELSE r
               IN  IF Due(at, cfg) = {} THEN run[n - 1]
                   ELSE LET d == CHOOSE d \in Due(at, cfg) :
                                    d[2].kind = "MoveStake" => d[2].amount = live
                            e == Extrinsic(es, n, [sig |-> None, signer |-> d[1],
                                                   call |-> d[2]], "ok")
                        IN  <<Booked(at, e), Append(es, e)>>
    IN  run

Init ==
    /\ setting \in Settings
    /\ \E tao \in BOOLEAN, live \in Lives, n \in 0 .. MaxPast :
         /\ \/ rec = Past(setting, tao, live)[n][1]
            \/ n = 0 /\ rec = LegacyRecord("pending", tao)
         /\ exts = Past(setting, tao, live)[n][2]
    /\ head = Len(exts) /\ pool = {} /\ signed = 0 /\ trouble = 0
    /\ stopped = None

-----------------------------------------------------------------------------
(* External: the chain.  Extrinsics of a signer enter in nonce order, each  *)
(* once, inside its mortality window.                                       *)
Nonce(signer, n) ==
    Cardinality({i \in DOMAIN exts :
                    exts[i].signer = signer /\ exts[i].block <= n})

Admissible(tx) ==
    /\ \A i \in DOMAIN exts : exts[i].sig # tx.sig
    /\ tx.nonce = Nonce(tx.signer, head + 1)
    /\ tx.birth < head + 1
    /\ head + 1 <= tx.birth + Mortality

Include(tx, event) ==
    /\ Admissible(tx)
    /\ exts' = Append(exts, Extrinsic(exts, head + 1, tx, event))
    /\ event # "ok" => trouble < MaxTrouble
    /\ trouble' = IF event = "ok" THEN trouble ELSE trouble + 1
    /\ UNCHANGED <<rec, head, pool, signed, stopped, setting>>

\* The blocks of the past that Init starts from.
PastBlocks == Cardinality({i \in DOMAIN exts : exts[i].sig = None})

Finalize ==
    /\ head < IF stopped = None THEN PastBlocks + MaxOld
              ELSE stopped + Mortality + MaxWait
    /\ head' = head + 1
    /\ UNCHANGED <<rec, exts, pool, signed, trouble, stopped, setting>>

-----------------------------------------------------------------------------
(* External: the old engine. *)
Running == stopped = None

SameStep(c, d) == c.kind = d.kind /\ c.job = d.job /\ c.hot = d.hot

\* Signed at the finalized head and sent; the record says nothing of it.
OldSend(signer, call) ==
    /\ Running /\ signed < MaxSigned
    /\ <<signer, call>> \in Due(rec, setting)
    /\ LET again == \E tx \in pool : SameStep(tx.call, call) IN
       /\ again => trouble < MaxTrouble
       /\ trouble' = IF again THEN trouble + 1 ELSE trouble
    /\ pool' = pool \cup {[sig |-> signed, signer |-> signer,
                           nonce |-> Nonce(signer, head), birth |-> head,
                           call |-> call]}
    /\ signed' = signed + 1
    /\ UNCHANGED <<rec, head, exts, stopped, setting>>

\* The receipt of a finalized extrinsic of the step the record is in, taken
\* for a success whatever else its events say.
OldBook ==
    /\ Running
    /\ \E i \in DOMAIN exts :
         /\ exts[i].block <= head /\ exts[i].event # "failed"
         /\ <<exts[i].signer, exts[i].call>> \in Due(rec, setting)
         /\ \A k \in DOMAIN rec.txs : rec.txs[k].id # exts[i].id
         /\ rec' = Booked(rec, exts[i])
    /\ UNCHANGED <<head, exts, pool, signed, trouble, stopped, setting>>

\* A position is skipped, no dust is found, no funding is needed.
OldAdvance ==
    /\ Running
    /\ \E r \in Advances(rec, setting) :
         LET skipped == \/ r.state = rec.state /\ ~r.buyback_done
                        \/ rec.state = "detected"
         IN  /\ rec' = r
             /\ skipped => trouble < MaxTrouble
             /\ trouble' = IF skipped THEN trouble + 1 ELSE trouble
    /\ UNCHANGED <<head, exts, pool, signed, stopped, setting>>

OldFail ==
    /\ Running
    /\ rec.state \in {"detected", "funded", "swept"}
    /\ rec' = [rec EXCEPT !.state = "failed", !.failed_from = rec.state]
    /\ UNCHANGED <<head, exts, pool, signed, trouble, stopped, setting>>

\* Somebody uses the treasury for something else.
Manual ==
    /\ Running /\ signed < MaxSigned /\ trouble < MaxTrouble
    /\ trouble' = trouble + 1
    /\ pool' = pool \cup {[sig |-> signed, signer |-> "treasury",
                           nonce |-> Nonce("treasury", head), birth |-> head,
                           call |-> [Call("TransferTao", None, 1)
                                        EXCEPT !.job = FALSE]]}
    /\ signed' = signed + 1
    /\ UNCHANGED <<rec, head, exts, stopped, setting>>

Stop ==
    /\ Running /\ head > 0
    /\ stopped' = head
    /\ UNCHANGED <<rec, head, exts, pool, signed, trouble, setting>>

-----------------------------------------------------------------------------
(* The archive's answer for first .. head: everything, or with one gap that *)
(* a later extrinsic of the same signer follows.                            *)
UpTo(n) == Cardinality({i \in DOMAIN exts : exts[i].block <= n})
Window(first) == SubSeq(exts, UpTo(first - 1) + 1, UpTo(head))

Answers(first) ==
    LET w == Window(first) IN
    {w} \cup {RemoveAt(w, i) : i \in
                {i \in DOMAIN w : \E k \in i + 1 .. Len(w) :
                                      w[k].signer = w[i].signer}}

NoncesBefore(first) ==
    [s \in {"treasury", "deposit"} |-> Nonce(s, first - 1)]

(* Manifests of an operator who tells the truth about the emitters: the     *)
(* scan starts before their first signature could land.  The list holds     *)
(* what the record has a receipt for, or all the archive shows, and may     *)
(* claim that every call was one of this job.                               *)
Firsts == {f \in 1 .. head : /\ \A tx \in pool : f <= tx.birth + 1
                             /\ \A i \in DOMAIN exts : f <= exts[i].block}

Listed(es, claim) ==
    [n \in DOMAIN es |->
        [id |-> es[n].id, block |-> es[n].block, signer |-> es[n].signer,
         nonce |-> es[n].nonce,
         call |-> [es[n].call EXCEPT !.job = @ \/ claim]]]

Claims == {FALSE, \E i \in DOMAIN exts : ~exts[i].call.job}

\* The extrinsics that the record has a receipt of.
Receipted == [k \in DOMAIN rec.txs |-> exts[rec.txs[k].id]]

Manifest(first, stop, cfg, transactions) ==
    [first_block |-> first, stopped_at |-> stop,
     maximum_mortality |-> Mortality, consolidate |-> cfg.consolidate,
     return_dust |-> cfg.return_dust, budget |-> cfg.budget,
     transactions |-> transactions]

(* recover_legacy: verify and, if everything agrees, install the identity   *)
(* and the policy; nothing else of the record changes.                      *)
Recover(m, found) ==
    /\ Verify(rec, m, found, NoncesBefore(m.first_block), head)
    /\ rec' = [rec EXCEPT !.identity = "set", !.auto_required = m.budget # None,
                          !.buyback_budget = m.budget]
    /\ setting' = [consolidate |-> m.consolidate, return_dust |-> m.return_dust,
                   budget |-> m.budget]
    /\ UNCHANGED <<head, exts, pool, signed, trouble, stopped>>

RecoverAny ==
    /\ ~Running
    /\ \E es \in {exts, Receipted}, claim \in Claims :
         LET list == Listed(es, claim) IN
         \E first \in Firsts, stop \in stopped .. head, cfg \in Settings :
            LET m == Manifest(first, stop, cfg, list) IN
            /\ Expired(m, head) /\ ValidateManifest(rec, m)
            /\ \E found \in Answers(first) : Recover(m, found)

-----------------------------------------------------------------------------
(* migrate_legacy_policy may have decided the policy of an untouched job    *)
(* before its identity is recovered.                                        *)
Migrate ==
    /\ ~Running /\ rec.state \in {"pending", "detected"}
    /\ rec.auto_required = None /\ rec.txs = <<>> /\ Pristine(rec)
    /\ \E cfg \in Settings :
         rec' = [rec EXCEPT !.auto_required = cfg.budget # None,
                            !.buyback_budget = cfg.budget]
    /\ UNCHANGED <<head, exts, pool, signed, trouble, stopped, setting>>

-----------------------------------------------------------------------------
(* The new engine resumes the job.  It sends, and books what it sent, as    *)
(* JobLedger says, so one step stands for both.                             *)
Resumed == rec.identity # None

NewSend ==
    /\ Resumed /\ signed < MaxSigned
    /\ \E d \in Due(rec, setting) :
         LET e == Extrinsic(exts, head + 1, [sig |-> signed, signer |-> d[1],
                                             call |-> d[2]], "ok")
         IN  /\ exts' = Append(exts, e)
             /\ rec' = Booked(rec, e)
    /\ signed' = signed + 1
    /\ UNCHANGED <<head, pool, trouble, stopped, setting>>

NewAdvance ==
    /\ Resumed
    /\ \E r \in Advances(rec, setting) : rec' = r
    /\ UNCHANGED <<head, exts, pool, signed, trouble, stopped, setting>>

\* retry
NewRetry ==
    /\ Resumed /\ rec.state = "failed"
    /\ rec' = [rec EXCEPT !.state = rec.failed_from]
    /\ UNCHANGED <<head, exts, pool, signed, trouble, stopped, setting>>

Next ==
    \/ \E tx \in pool, ev \in Events : Include(tx, ev)
    \/ Finalize
    \/ \E d \in Due(rec, setting) : OldSend(d[1], d[2])
    \/ OldBook \/ OldAdvance \/ OldFail \/ Manual \/ Stop
    \/ RecoverAny \/ Migrate
    \/ NewSend \/ NewAdvance \/ NewRetry

Spec == Init /\ [][Next]_vars

-----------------------------------------------------------------------------
(* What happened on the chain es in the name of this job, as positions. *)
Effects(es, kind) ==
    {i \in DOMAIN es : /\ es[i].call.kind = kind /\ es[i].call.job
                       /\ es[i].event # "failed"}

Position(e) == <<e.call.hot, e.call.amount>>
Ids(es, is) == {es[i].id : i \in is}

FundedOnce(a, es) ==
    LET fund == Effects(es, "TransferTao") IN
    Cardinality(fund) = IF a.funded = 0 THEN 0 ELSE 1

\* The nth sweep on the chain is the nth position.
SweptExactly(a, es) ==
    LET sweeps == Effects(es, "TransferStake") IN
    /\ Cardinality(sweeps) = Len(a.positions)
    /\ \A i \in sweeps :
         a.positions[Cardinality({k \in sweeps : k <= i})] = Position(es[i])

\* No hotkey is moved from twice, and only those that were consolidated.
MovedOnce(a, es) ==
    LET moves == Effects(es, "MoveStake") IN
    /\ \A i, k \in moves : es[i].call.hot = es[k].call.hot => i = k
    /\ \A i \in moves : \E n \in 1 .. a.consolidated :
                          a.positions[n][1] = es[i].call.hot

ReturnedOnce(a, es) ==
    /\ \A i, k \in Effects(es, "TransferAll") : i = k
    /\ Effects(es, "TransferAll") # {} => a.dust

BoughtOnce(a, es) ==
    Ids(es, Effects(es, "AddStakeLimit")) =
        IF a.buyback = None THEN {} ELSE {a.buyback.stake_tx}

DestroyedOnce(a, es) ==
    Ids(es, Effects(es, "BurnAlpha") \cup Effects(es, "RecycleAlpha")) =
        IF a.buyback = None THEN {} ELSE {a.buyback.destroy_tx} \ {None}

Exact(a, es) ==
    /\ FundedOnce(a, es) /\ SweptExactly(a, es) /\ MovedOnce(a, es)
    /\ ReturnedOnce(a, es) /\ BoughtOnce(a, es) /\ DestroyedOnce(a, es)

(* A job that was recovered has spent what its record says and nothing      *)
(* more, now and later: no lost receipt, no old signature that lands after  *)
(* the import and no manual transaction makes the new engine fund, sweep,   *)
(* move, buy or destroy again.  (recover_legacy, verify, replay.)           *)
RecoveredExactly == Resumed => Exact(Account(rec), exts)

\* A history without trouble, whose signatures have expired.
Clean ==
    /\ trouble = 0
    /\ Receipts(exts) = rec.txs
    /\ \A i \in DOMAIN exts : exts[i].block <= stopped
    /\ \/ rec.state \in {"pending", "detected"}
       \/ Stage(rec) \in {"funded", "swept"}

Complete ==
    /\ ~Running /\ ~Resumed /\ Clean
    /\ head > stopped + Mortality + 1 /\ head - 1 <= MaxScan
    /\ Len(exts) <= MaxListed /\ Mortality <= MaxMortality

\* The manifest that tells all of it passes verify.
Imports ==
    LET cfg == [setting EXCEPT !.budget =
                  IF rec.auto_required = None THEN @ ELSE rec.buyback_budget]
        m == Manifest(1, stopped, cfg, Listed(exts, FALSE))
    IN  Verify(rec, m, Window(1), NoncesBefore(1), head)

\* The moves in es took what r says was swept to their hotkeys.
MovedAsSwept(r, es) ==
    \A i \in DOMAIN es, n \in DOMAIN r.swept_positions :
        es[i].call.kind = "MoveStake" /\ es[i].call.hot = r.swept_positions[n][1]
        => es[i].call.amount = r.swept_positions[n][2]

(* A history without trouble can be imported once its signatures have       *)
(* expired, whatever step the old engine was stopped in or failed in,       *)
(* exactly if each position was still what was swept when it was moved.     *)
(* (replay: stages, order of calls, the amount of a move.)                  *)
CleanImportable == Complete => (Imports <=> MovedAsSwept(rec, exts))

(* README.md: "Only pristine jobs and completely explained Funded/Swept     *)
(* prefixes (including Failed at those stages) are supported.  Conservative *)
(* replay may reject valid histories with skipped consolidation or dust     *)
(* steps."  In a history without trouble neither step was skipped.          *)
ExplainedImportable == Complete => Imports
=============================================================================
