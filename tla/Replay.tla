------------------------------- MODULE Replay -------------------------------
(***************************************************************************)
(* recovery::validate_manifest, Chain::verify_legacy_archive and           *)
(* recovery::replay of src/src: what an operator's manifest must say, what *)
(* the archive must show, and how the record's accounting is recomputed    *)
(* from the listed transactions, one operator for each kind of call.       *)
(*                                                                         *)
(* A call is [kind, job, hot, amount]: job says that its destination,      *)
(* netuid and hotkeys are those of this job.  An extrinsic of the archive  *)
(* is [id, block, signer, nonce, call, event, bought]; id stands for the   *)
(* hash and the position in the block.  event is "ok" (success, the        *)
(* expected event and the amounts of the call), "off" (the expected event, *)
(* other amounts), "odd" (success without the expected event) or "failed". *)
(***************************************************************************)
EXTENDS Integers, Sequences, FiniteSets

CONSTANTS
    None,       \* Option::None
    MaxScan,    \* 100_000: blocks one scan may cover
    MaxListed,  \* 4096: transactions of a manifest
    MaxMortality,  \* 65536: the longest lifetime an operator may attest
    MinStake    \* MIN_STAKE_RAO: the smallest budget

Kinds == {"TransferTao", "TransferStake", "MoveStake", "TransferAll",
          "AddStakeLimit", "BurnAlpha", "RecycleAlpha", "Other"}

Receipt(t) == [id |-> t.id, block |-> t.block, action |-> t.call.kind,
               amount |-> t.call.amount]

Receipts(ts) == [i \in DOMAIN ts |-> Receipt(ts[i])]

-----------------------------------------------------------------------------
(* What replay has reproduced so far. *)
Start == [ok |-> TRUE, funded |-> 0, positions |-> <<>>, consolidated |-> 0,
          dust |-> FALSE, post_sweep |-> FALSE, buyback |-> None]

Reject(a) == [a EXCEPT !.ok = FALSE]
Accept(a, cond, next) == IF a.ok /\ cond THEN next ELSE Reject(a)

Consolidated(a, m) == m.consolidate => a.consolidated = Len(a.positions)
DustExpected(r, m) == m.return_dust \/ r.detected_tao

ReplayFund(r, m, a, t) ==
    Accept(a, /\ t.signer = "treasury" /\ t.call.job
              /\ a.funded = 0 /\ a.positions = <<>>
              /\ ~a.dust /\ a.buyback = None
              /\ t.call.amount > 0 /\ t.event = "ok",
           [a EXCEPT !.funded = t.call.amount])

ReplaySweep(r, m, a, t) ==
    Accept(a, /\ t.signer = "deposit" /\ t.call.job
              /\ ~a.post_sweep /\ a.consolidated = 0
              /\ ~a.dust /\ a.buyback = None
              /\ t.call.amount > 0
              /\ \A i \in DOMAIN a.positions : a.positions[i][1] # t.call.hot,
           [a EXCEPT !.positions = Append(@, <<t.call.hot, t.call.amount>>)])

\* Mutant of ReplayMove: the count is advanced before the position is read.
ReplayMoveNext(r, m, a, t) ==
    Accept(a, /\ m.consolidate /\ t.signer = "treasury" /\ t.call.job
              /\ ~a.dust /\ a.buyback = None
              /\ a.consolidated + 1 < Len(a.positions)
              /\ a.positions[a.consolidated + 2] =
                    <<t.call.hot, t.call.amount>>,
           [a EXCEPT !.post_sweep = TRUE, !.consolidated = @ + 1])

ReplayMove(r, m, a, t) ==
    Accept(a, /\ m.consolidate /\ t.signer = "treasury" /\ t.call.job
              /\ ~a.dust /\ a.buyback = None
              /\ a.consolidated < Len(a.positions)
              /\ a.positions[a.consolidated + 1] =
                    <<t.call.hot, t.call.amount>>,
           [a EXCEPT !.post_sweep = TRUE, !.consolidated = @ + 1])

ReplayDust(r, m, a, t) ==
    Accept(a, /\ DustExpected(r, m) /\ t.signer = "deposit" /\ t.call.job
              /\ ~a.dust /\ a.buyback = None
              /\ Consolidated(a, m),
           [a EXCEPT !.post_sweep = TRUE, !.dust = TRUE])

ReplayBuy(r, m, a, t) ==
    Accept(a, /\ t.signer = "treasury" /\ a.buyback = None
              /\ Consolidated(a, m)
              /\ DustExpected(r, m) => a.dust
              /\ m.budget # None /\ t.call.job
              /\ t.call.amount = m.budget.amount
              /\ t.event = "ok" /\ t.bought > 0,
           [a EXCEPT !.post_sweep = TRUE,
                     !.buyback = [spent |-> t.call.amount, bought |-> t.bought,
                                  stake_tx |-> t.id, destroy_tx |-> None]])

ReplayDestroy(r, m, a, t) ==
    Accept(a, /\ t.signer = "treasury" /\ m.budget # None /\ a.buyback # None
              /\ t.call.kind = m.budget.destroy /\ t.call.job
              /\ a.buyback.destroy_tx = None
              /\ t.call.amount = a.buyback.bought /\ t.event = "ok",
           [a EXCEPT !.buyback.destroy_tx = t.id])

ReplayStep(r, m, a, t) ==
    IF t.event \notin {"ok", "off"} THEN Reject(a)
    ELSE CASE t.call.kind = "TransferTao"   -> ReplayFund(r, m, a, t)
           [] t.call.kind = "TransferStake" -> ReplaySweep(r, m, a, t)
           [] t.call.kind = "MoveStake"     -> ReplayMove(r, m, a, t)
           [] t.call.kind = "TransferAll"   -> ReplayDust(r, m, a, t)
           [] t.call.kind = "AddStakeLimit" -> ReplayBuy(r, m, a, t)
           [] t.call.kind \in {"BurnAlpha", "RecycleAlpha"} ->
                 ReplayDestroy(r, m, a, t)
           [] OTHER -> Reject(a)

\* The loop over the transactions ts.
ReplayAll(r, m, ts) ==
    LET account[n \in 0 .. Len(ts)] ==
            IF n = 0 THEN Start ELSE ReplayStep(r, m, account[n - 1], ts[n])
    IN  account[Len(ts)]

\* The events of a transaction come from the archive, its call from the manifest.
Replayed(r, m, found) ==
    ReplayAll(r, m, [i \in DOMAIN found |->
                        [found[i] EXCEPT !.call = m.transactions[i].call]])

(* The state the record is in, or failed in. *)
Stage(r) == IF r.state = "failed" THEN r.failed_from ELSE r.state

Reproduces(r, m, a) ==
    /\ a.ok
    /\ Stage(r) = "funded" =>
         a.consolidated = 0 /\ ~a.dust /\ a.buyback = None /\ ~r.buyback_done
    /\ a.funded = r.funded_tao
    /\ a.positions = r.swept_positions
    /\ a.consolidated = r.consolidated
    /\ a.dust = r.dust_returned
    /\ a.buyback = r.buyback
    /\ r.buyback_done =>
         /\ a.buyback # None
         /\ a.buyback.destroy_tx # None \/ m.budget.destroy = "Keep"

-----------------------------------------------------------------------------
(* validate_manifest. *)
Pristine(r) ==
    /\ r.funded_tao = 0 /\ r.swept_positions = <<>> /\ r.consolidated = 0
    /\ ~r.dust_returned /\ r.buyback = None /\ ~r.buyback_done

ValidBudget(b) == b # None => b.amount >= MinStake

(* A record with a journal or a quarantine is StoreClients' subject.        *)
Importable(r, m) ==
    /\ ValidBudget(m.budget)
    /\ r.identity = None
    /\ r.auto_required # None =>
         /\ r.auto_required = (m.budget # None)
         /\ r.buyback_budget = m.budget
    /\ ~r.notified
    /\ \/ /\ r.state \in {"pending", "detected"}
          /\ m.transactions = <<>> /\ Pristine(r)
       \/ /\ Stage(r) \in {"funded", "swept"}
          /\ m.transactions # <<>>
    /\ Len(m.transactions) <= MaxListed

Chronological(m) ==
    /\ 0 < m.first_block /\ m.first_block <= m.stopped_at
    /\ 0 < m.maximum_mortality /\ m.maximum_mortality <= MaxMortality
    /\ \A i \in DOMAIN m.transactions :
         /\ m.first_block <= m.transactions[i].block
         /\ m.transactions[i].block <= m.stopped_at
         /\ \A k \in 1 .. i - 1 :
              m.transactions[k].id < m.transactions[i].id

ValidateManifest(r, m) ==
    /\ Importable(r, m)
    /\ Chronological(m)
    /\ Receipts(m.transactions) = r.txs

-----------------------------------------------------------------------------
(* verify_legacy_archive, over the extrinsics of the two signers that the   *)
(* archive shows in first_block .. head, with the nonces it has for them    *)
(* before first_block.                                                      *)

\* Mutant of Expired: unpublished signatures are not waited for.
ExpiredEarly(m, head) ==
    head > m.stopped_at /\ head - m.first_block <= MaxScan

Expired(m, head) ==
    /\ head > m.stopped_at + m.maximum_mortality + 1
    /\ head - m.first_block <= MaxScan

\* The nonce a signer's extrinsic at position i must have.
NextNonce(found, i, nonces) ==
    nonces[found[i].signer] +
        Cardinality({k \in 1 .. i - 1 : found[k].signer = found[i].signer})

Matches(m, found, nonces) ==
    /\ Len(found) = Len(m.transactions)
    /\ \A i \in DOMAIN found :
         LET t == m.transactions[i] IN
         /\ t.id = found[i].id /\ t.block = found[i].block
         /\ t.signer = found[i].signer /\ t.nonce = found[i].nonce
         /\ t.nonce = NextNonce(found, i, nonces)
         /\ t.call = found[i].call

(* verify *)
Verify(r, m, found, nonces, head) ==
    /\ ValidateManifest(r, m)
    /\ Expired(m, head)
    /\ Matches(m, found, nonces)
    /\ Reproduces(r, m, Replayed(r, m, found))
=============================================================================
