-------------------------- MODULE Recovery_proofs --------------------------
(***************************************************************************)
(* Recovery's two invariants, for any number of hotkeys, any mortality,    *)
(* any settings and any bound on what the old engine did.                  *)
(*                                                                         *)
(* RecoveredExactly.  An account is good for a chain when it is exact,     *)
(* sweeps no hotkey twice and has moved no more than was swept.  By        *)
(* induction over the transactions, what replay accepts is good for the    *)
(* chain it read (ReplayGood): each check of replay is what keeps one      *)
(* clause of Exact.  What it read is the whole chain (RecoverInv): the     *)
(* archive cannot hide an extrinsic that another of the same signer        *)
(* follows, as the later nonce would not fit (NoGap), and none can land    *)
(* after the scan, as every signature has expired (ExpiryInv).  From then  *)
(* on only the new engine signs, and each of its steps keeps the account   *)
(* good (NewSendInv).                                                      *)
(*                                                                         *)
(* CleanImportable.  While nothing goes wrong, the record is what replay   *)
(* makes of the extrinsics it has receipts of (CleanInv): the order of the *)
(* step_ functions that the old engine follows is the one that replay      *)
(* asks for (KeptBook).                                                    *)
(***************************************************************************)
EXTENDS Recovery, Recursion, FiniteSetTheorems, SequenceTheorems, TLAPS

-----------------------------------------------------------------------------
(* Types. *)
Signers == {"treasury", "deposit"}
Positions == (Hotkeys \cup {None}) \X Nat
Calls == [kind : Kinds, job : BOOLEAN, hot : Hotkeys \cup {None}, amount : Nat]

Exts == [id : Nat, sig : Nat \cup {None}, block : Nat, signer : Signers,
         nonce : Nat, call : Calls, event : Events, bought : Nat]

Txs == [sig : Nat, signer : Signers, nonce : Nat, birth : Nat, call : Calls]

ReceiptSet == [id : Nat, block : Nat, action : Kinds, amount : Nat]

Accounts ==
    [ok : BOOLEAN, funded : Nat, positions : Seq(Positions),
     consolidated : Nat, dust : BOOLEAN, post_sweep : BOOLEAN,
     buyback : Buybacks \cup {None}]

States == {"pending", "detected", "funded", "swept", "settled", "failed"}

Records ==
    [state : States, failed_from : {None, "detected", "funded", "swept"},
     identity : {None, "set"}, auto_required : BOOLEAN \cup {None},
     buyback_budget : Budgets \cup {None}, notified : {FALSE},
     detected_tao : BOOLEAN, funded_tao : Nat,
     swept_positions : Seq(Positions), consolidated : Nat,
     dust_returned : BOOLEAN, buyback : Buybacks \cup {None},
     buyback_done : BOOLEAN, txs : Seq(ReceiptSet)]

Configs == [consolidate : BOOLEAN, return_dust : BOOLEAN,
            budget : Budgets \cup {None}]

-----------------------------------------------------------------------------
(* The replay. *)

\* The replay starts from an account.
LEMMA StartType == Start \in Accounts
  BY DEF Start, Accounts

\* A checked step yields an account if its outcome is one.
LEMMA AcceptType ==
    ASSUME NEW a \in Accounts, NEW cond, NEW next, a.ok /\ cond => next \in Accounts
    PROVE  Accept(a, cond, next) \in Accounts
  BY DEF Accept, Reject, Accounts

(* A step of the replay yields an account. *)
LEMMA ReplayStepType ==
    ASSUME NEW r, NEW m, NEW a \in Accounts, NEW t \in Exts
    PROVE  ReplayStep(r, m, a, t) \in Accounts
  <1>1. Reject(a) \in Accounts
    BY DEF Reject, Accounts
  <1>2. ReplayFund(r, m, a, t) \in Accounts
    <2>1. [a EXCEPT !.funded = t.call.amount] \in Accounts
      BY DEF Accounts, Exts, Calls
    <2> QED
      BY <2>1, AcceptType DEF ReplayFund
  <1>3. ReplaySweep(r, m, a, t) \in Accounts
    <2>1. <<t.call.hot, t.call.amount>> \in Positions
      BY DEF Exts, Calls, Positions
    <2>2. Append(a.positions, <<t.call.hot, t.call.amount>>) \in Seq(Positions)
      BY <2>1 DEF Accounts
    <2>3. [a EXCEPT !.positions = Append(@, <<t.call.hot, t.call.amount>>)]
             \in Accounts
      BY <2>2 DEF Accounts
    <2> QED
      BY <2>3, AcceptType DEF ReplaySweep
  <1>4. ReplayMove(r, m, a, t) \in Accounts
    <2>1. a.consolidated + 1 \in Nat
      BY DEF Accounts
    <2>2. [a EXCEPT !.post_sweep = TRUE, !.consolidated = @ + 1] \in Accounts
      BY <2>1 DEF Accounts
    <2> QED
      BY <2>2, AcceptType DEF ReplayMove
  <1>5. ReplayDust(r, m, a, t) \in Accounts
    <2>1. [a EXCEPT !.post_sweep = TRUE, !.dust = TRUE] \in Accounts
      BY DEF Accounts
    <2> QED
      BY <2>1, AcceptType DEF ReplayDust
  <1>6. ReplayBuy(r, m, a, t) \in Accounts
    <2>1. [spent |-> t.call.amount, bought |-> t.bought, stake_tx |-> t.id,
           destroy_tx |-> None] \in Buybacks
      BY DEF Exts, Calls, Buybacks
    <2>2. ASSUME NEW b \in Buybacks
          PROVE  [a EXCEPT !.post_sweep = TRUE, !.buyback = b] \in Accounts
      BY DEF Accounts
    <2> QED
      BY <2>1, <2>2, AcceptType DEF ReplayBuy
  <1>7. ReplayDestroy(r, m, a, t) \in Accounts
    <2>1. a.buyback # None => [a.buyback EXCEPT !.destroy_tx = t.id] \in Buybacks
      BY DEF Exts, Accounts, Buybacks
    <2> QED
      BY <2>1 DEF ReplayDestroy, Accept, Reject, Accounts
  <1> QED
    BY <1>1, <1>2, <1>3, <1>4, <1>5, <1>6, <1>7 DEF ReplayStep

(* The accounts after each transaction. *)
ReplayFn(r, m, ts) ==
    CHOOSE account : account = [n \in 0 .. Len(ts) |->
        IF n = 0 THEN Start ELSE ReplayStep(r, m, account[n - 1], ts[n])]

\* The recursion of ReplayAll is well defined, and unfolds.
LEMMA ReplayFnDef ==
    ASSUME NEW r, NEW m, NEW ts \in Seq(Exts)
    PROVE  /\ ReplayAll(r, m, ts) = ReplayFn(r, m, ts)[Len(ts)]
           /\ \A n \in 0 .. Len(ts) : ReplayFn(r, m, ts)[n] \in Accounts
           /\ ReplayFn(r, m, ts)[0] = Start
           /\ \A n \in 1 .. Len(ts) : ReplayFn(r, m, ts)[n] =
                 ReplayStep(r, m, ReplayFn(r, m, ts)[n - 1], ts[n])
  <1> DEFINE L == Len(ts)
             step == [p \in (1 .. L) \X Accounts |->
                         ReplayStep(r, m, p[2], ts[p[1]])]
             IsRun(f) == f = [n \in 0 .. L |-> IF n = 0 THEN Start ELSE
                                 ReplayStep(r, m, f[n - 1], ts[n])]
  <1>1. L \in Nat /\ \A n \in 1 .. L : ts[n] \in Exts
    OBVIOUS
  <1>2. step \in [(1 .. L) \X Accounts -> Accounts]
    <2>1. ASSUME NEW p \in (1 .. L) \X Accounts
          PROVE  ReplayStep(r, m, p[2], ts[p[1]]) \in Accounts
      BY <1>1, ReplayStepType
    <2> QED
      BY <2>1
  <1>3. PICK f \in [0 .. L -> Accounts] : Unfolds(f, Start, step, L)
    <2> HIDE DEF step, L
    <2> QED
      BY <1>1, <1>2, StartType, RecursionExists
  <1>4. \A n \in 1 .. L : step[<<n, f[n - 1]>>] = ReplayStep(r, m, f[n - 1], ts[n])
    <2>1. \A p \in (1 .. L) \X Accounts : step[p] = ReplayStep(r, m, p[2], ts[p[1]])
      OBVIOUS
    <2> HIDE DEF step, L, IsRun
    <2> TAKE n \in 1 .. L
    <2>2. n - 1 \in 0 .. L
      BY <1>1
    <2>3. <<n, f[n - 1]>> \in (1 .. L) \X Accounts
      BY <2>2
    <2> QED
      BY <2>1, <2>3
  <1>5. IsRun(f)
    <2> HIDE DEF step
    <2>1. f[0] = Start /\ \A n \in 1 .. L : f[n] = ReplayStep(r, m, f[n - 1], ts[n])
      BY <1>3, <1>4 DEF Unfolds
    <2> QED
      BY <2>1
  <1>6. IsRun(ReplayFn(r, m, ts))
    <2> HIDE DEF IsRun
    <2>1. IsRun(CHOOSE g : IsRun(g))
      BY <1>5
    <2> QED
      BY <2>1 DEF IsRun, ReplayFn
  <1> DEFINE g == ReplayFn(r, m, ts)
  <1> HIDE DEF g
  <1>7. g = [n \in 0 .. L |-> IF n = 0 THEN Start ELSE
                                ReplayStep(r, m, g[n - 1], ts[n])]
    BY <1>6 DEF g
  <1> HIDE DEF IsRun
  <1>8. g[0] = Start /\ \A n \in 1 .. L : g[n] = ReplayStep(r, m, g[n - 1], ts[n])
    <2> HIDE DEF L
    <2> QED
      BY <1>1, <1>7
  <1>9. \A n \in 0 .. L : g[n] \in Accounts
    <2> DEFINE G == {n \in 0 .. L : g[n] \in Accounts}
    <2>1. 0 \in G
      BY <1>8, StartType
    <2>2. ASSUME NEW n \in 0 .. L - 1, n \in G
          PROVE  n + 1 \in G
      <3>1. g[n + 1] = ReplayStep(r, m, g[n], ts[n + 1]) /\ ts[n + 1] \in Exts
        BY <1>8
      <3> QED
        BY <2>2, <3>1, ReplayStepType
    <2> HIDE DEF G, L
    <2>3. \A n \in 0 .. L : n \in G
      BY <1>1, <2>1, <2>2, InductUpTo
    <2> QED
      BY <2>3 DEF G
  <1>10. ReplayAll(r, m, ts) = g[L]
    BY DEF ReplayAll, ReplayFn, g
  <1> QED
    BY <1>8, <1>9, <1>10 DEF g

\* No transactions, nothing accounted for.
LEMMA ReplayEmpty ==
    ASSUME NEW r, NEW m
    PROVE  ReplayAll(r, m, <<>>) = Start
  <1>1. <<>> \in Seq(Exts) /\ Len(<<>>) = 0
    OBVIOUS
  <1>2. /\ ReplayAll(r, m, <<>>) = ReplayFn(r, m, <<>>)[Len(<<>>)]
        /\ ReplayFn(r, m, <<>>)[0] = Start
    BY <1>1, ReplayFnDef
  <1> QED
    BY <1>1, <1>2, Zenon

\* The replay yields an account.
LEMMA ReplayType ==
    ASSUME NEW r, NEW m, NEW ts \in Seq(Exts)
    PROVE  ReplayAll(r, m, ts) \in Accounts
  <1>1. Len(ts) \in 0 .. Len(ts)
    OBVIOUS
  <1> QED
    BY <1>1, ReplayFnDef

(* The replay of one more transaction goes on from the replay so far. *)
LEMMA ReplayAppend ==
    ASSUME NEW r, NEW m, NEW ts \in Seq(Exts), NEW t \in Exts
    PROVE  ReplayAll(r, m, Append(ts, t)) = ReplayStep(r, m, ReplayAll(r, m, ts), t)
  <1> DEFINE us == Append(ts, t)
             L == Len(ts)
             A == ReplayFn(r, m, ts)
             B == ReplayFn(r, m, us)
  <1>1. /\ us \in Seq(Exts) /\ Len(us) = L + 1 /\ L \in Nat /\ us[L + 1] = t
        /\ \A n \in 1 .. L : us[n] = ts[n]
    OBVIOUS
  <1>2. /\ ReplayAll(r, m, ts) = A[L] /\ A[0] = Start
        /\ \A n \in 1 .. L : A[n] = ReplayStep(r, m, A[n - 1], ts[n])
    BY ReplayFnDef
  <1> HIDE DEF us
  <1>3. /\ ReplayAll(r, m, us) = B[L + 1] /\ B[0] = Start
        /\ \A n \in 1 .. L + 1 : B[n] = ReplayStep(r, m, B[n - 1], us[n])
    BY <1>1, ReplayFnDef
  <1> HIDE DEF A, B, L
  <1> DEFINE G == {n \in 0 .. L : A[n] = B[n]}
  <1>4. 0 \in G
    BY <1>1, <1>2, <1>3
  <1>5. ASSUME NEW n \in 0 .. L - 1, n \in G
        PROVE  n + 1 \in G
    <2>1. /\ A[n + 1] = ReplayStep(r, m, A[n], ts[n + 1])
          /\ B[n + 1] = ReplayStep(r, m, B[n], us[n + 1])
          /\ us[n + 1] = ts[n + 1]
      BY <1>1, <1>2, <1>3
    <2> QED
      BY <2>1, <1>1, <1>5
  <1> HIDE DEF G
  <1>6. L \in G
    <2>1. \A n \in 0 .. L : n \in G
      BY <1>1, <1>4, <1>5, InductUpTo
    <2>2. L \in 0 .. L
      BY <1>1
    <2> QED
      BY <2>1, <2>2
  <1>7. B[L + 1] = ReplayStep(r, m, B[L], t)
    BY <1>1, <1>3
  <1> QED
    BY <1>2, <1>3, <1>6, <1>7 DEF G, us

(* The replay only reads these settings. *)
LEMMA ReplaySame ==
    ASSUME NEW r, NEW q, NEW m, NEW k, NEW ts \in Seq(Exts),
           r.detected_tao = q.detected_tao,
           m.consolidate = k.consolidate, m.return_dust = k.return_dust,
           m.budget = k.budget
    PROVE  ReplayAll(r, m, ts) = ReplayAll(q, k, ts)
  <1> DEFINE S == {s \in Seq(Exts) : ReplayAll(r, m, s) = ReplayAll(q, k, s)}
  <1>1. <<>> \in S
    BY ReplayEmpty
  <1>2. ASSUME NEW s \in Seq(Exts), NEW e \in Exts, s \in S
        PROVE  Append(s, e) \in S
    <2> DEFINE a == ReplayAll(r, m, s)
    <2>1. a = ReplayAll(q, k, s)
      BY <1>2
    <2>2. ReplayAll(r, m, Append(s, e)) = ReplayStep(r, m, a, e)
      BY ReplayAppend
    <2>3. ReplayAll(q, k, Append(s, e)) = ReplayStep(q, k, a, e)
      BY <2>1, ReplayAppend
    <2> HIDE DEF a
    <2>4. ReplayStep(r, m, a, e) = ReplayStep(q, k, a, e)
      BY DEF ReplayStep, ReplayFund, ReplaySweep, ReplayMove, ReplayDust,
             ReplayBuy, ReplayDestroy, Consolidated, DustExpected
    <2>5. Append(s, e) \in Seq(Exts)
      OBVIOUS
    <2> QED
      BY <2>2, <2>3, <2>4, <2>5
  <1> HIDE DEF S
  <1>3. ts \in S
    BY <1>1, <1>2, InductSeq
  <1> QED
    BY <1>3 DEF S

-----------------------------------------------------------------------------
(* What one more extrinsic does to each part of Exact. *)
Counts(e, kind) == e.call.kind = kind /\ e.call.job /\ e.event # "failed"

\* What appending leaves in place.
LEMMA Appended ==
    ASSUME NEW es \in Seq(Exts), NEW e \in Exts
    PROVE  /\ Append(es, e) \in Seq(Exts)
           /\ DOMAIN es = 1 .. Len(es) /\ Len(es) \in Nat
           /\ Len(Append(es, e)) = Len(es) + 1
           /\ DOMAIN Append(es, e) = 1 .. Len(es) + 1
           /\ \A i \in 1 .. Len(es) : Append(es, e)[i] = es[i]
           /\ Append(es, e)[Len(es) + 1] = e
  OBVIOUS

\* Effects are positions of the chain.
LEMMA EffectsType ==
    ASSUME NEW es \in Seq(Exts), NEW kind
    PROVE  /\ Effects(es, kind) \subseteq 1 .. Len(es)
           /\ IsFiniteSet(Effects(es, kind))
           /\ Len(es) + 1 \notin Effects(es, kind)
  <1>1. Effects(es, kind) \subseteq 1 .. Len(es) /\ Len(es) \in Nat
    BY DEF Effects
  <1>2. IsFiniteSet(1 .. Len(es))
    BY <1>1, FS_Interval
  <1> QED
    BY <1>1, <1>2, FS_Subset

\* One more extrinsic, at most one more effect, of its own kind.
LEMMA EffectsAppend ==
    ASSUME NEW es \in Seq(Exts), NEW e \in Exts, NEW kind
    PROVE  Effects(Append(es, e), kind) =
               IF Counts(e, kind) THEN Effects(es, kind) \cup {Len(es) + 1}
               ELSE Effects(es, kind)
  <1> DEFINE fs == Append(es, e)
  <1>1. /\ DOMAIN es = 1 .. Len(es) /\ Len(es) \in Nat
        /\ DOMAIN fs = 1 .. Len(es) + 1 /\ fs[Len(es) + 1] = e
        /\ \A i \in 1 .. Len(es) : fs[i] = es[i]
    BY Appended
  <1> HIDE DEF fs
  <1>2. \A i : i \in 1 .. Len(es) + 1 <=> i \in 1 .. Len(es) \/ i = Len(es) + 1
    BY <1>1
  <1>3. \A i : i \in Effects(fs, kind) <=>
               \/ i \in Effects(es, kind)
               \/ i = Len(es) + 1 /\ Counts(e, kind)
    BY <1>1, <1>2 DEF Effects, Counts
  <1> QED
    BY <1>3 DEF fs

\* An extrinsic of another kind leaves the funding as it is.
LEMMA KeepFunded ==
    ASSUME NEW a, NEW b, NEW es \in Seq(Exts), NEW e \in Exts,
           FundedOnce(a, es), ~Counts(e, "TransferTao"), b.funded = a.funded
    PROVE  FundedOnce(b, Append(es, e))
  BY EffectsAppend DEF FundedOnce

\* The first funding is the only one.
LEMMA AddFunded ==
    ASSUME NEW a, NEW b, NEW es \in Seq(Exts), NEW e \in Exts,
           FundedOnce(a, es), Counts(e, "TransferTao"),
           a.funded = 0, b.funded # 0
    PROVE  FundedOnce(b, Append(es, e))
  <1> DEFINE F == Effects(es, "TransferTao")
  <1>1. Cardinality(F) = 0 /\ IsFiniteSet(F) /\ Len(es) + 1 \notin F
    BY EffectsType DEF FundedOnce
  <1>2. Effects(Append(es, e), "TransferTao") = F \cup {Len(es) + 1}
    BY EffectsAppend
  <1> HIDE DEF F
  <1>3. Cardinality(F \cup {Len(es) + 1}) = 1
    <2>1. Cardinality(F \cup {Len(es) + 1}) = Cardinality(F) + 1
      BY <1>1, FS_AddElement
    <2> QED
      BY <1>1, <2>1
  <1> QED
    BY <1>2, <1>3 DEF FundedOnce

\* An extrinsic of another kind leaves the sweeps as they are.
LEMMA KeepSwept ==
    ASSUME NEW a, NEW b, NEW es \in Seq(Exts), NEW e \in Exts,
           SweptExactly(a, es), ~Counts(e, "TransferStake"),
           b.positions = a.positions
    PROVE  SweptExactly(b, Append(es, e))
  <1> DEFINE S == Effects(es, "TransferStake")
             fs == Append(es, e)
  <1>1. Effects(fs, "TransferStake") = S
    BY EffectsAppend
  <1>2. \A i \in S : fs[i] = es[i]
    BY EffectsType, Appended
  <1> HIDE DEF fs
  <1> QED
    BY <1>1, <1>2 DEF SweptExactly, fs

\* A sweep is the next position.
LEMMA AddSwept ==
    ASSUME NEW a, NEW b, NEW es \in Seq(Exts), NEW e \in Exts,
           SweptExactly(a, es), Counts(e, "TransferStake"),
           a.positions \in Seq(Positions), Position(e) \in Positions,
           b.positions = Append(a.positions, Position(e))
    PROVE  SweptExactly(b, Append(es, e))
  <1> DEFINE S == Effects(es, "TransferStake")
             fs == Append(es, e)
             L == Len(es)
             T == Effects(fs, "TransferStake")
  <1>1. T = S \cup {L + 1}
    BY EffectsAppend
  <1>2. S \subseteq 1 .. L /\ IsFiniteSet(S) /\ L + 1 \notin S /\ L \in Nat
    BY EffectsType
  <1>3. fs[L + 1] = e /\ \A i \in S : fs[i] = es[i]
    BY <1>2, Appended
  <1>4. /\ Cardinality(S) = Len(a.positions)
        /\ \A i \in S : a.positions[Cardinality({k \in S : k <= i})]
                          = Position(es[i])
    BY DEF SweptExactly
  <1> HIDE DEF S, T, L, fs
  <1>5. Cardinality(T) = Cardinality(S) + 1
    BY <1>1, <1>2, FS_AddElement
  <1>6. Len(b.positions) = Len(a.positions) + 1
    OBVIOUS
  <1>7. ASSUME NEW i \in T
        PROVE  b.positions[Cardinality({k \in T : k <= i})] = Position(fs[i])
    <2>1. CASE i = L + 1
      <3>1. \A k \in T : k <= i
        BY <1>1, <1>2, <2>1
      <3>2. {k \in T : k <= i} = T
        BY <3>1
      <3>3. b.positions[Len(a.positions) + 1] = Position(e)
        OBVIOUS
      <3> QED
        BY <1>3, <1>4, <1>5, <2>1, <3>2, <3>3
    <2>2. CASE i # L + 1
      <3>1. i \in S
        BY <1>1, <2>2
      <3> DEFINE K == {k \in S : k <= i}
      <3>2. {k \in T : k <= i} = K
        BY <1>1, <1>2, <3>1
      <3>3. K \subseteq S /\ i \in K
        BY <1>2, <3>1
      <3> HIDE DEF K
      <3>4. IsFiniteSet(K) /\ Cardinality(K) <= Cardinality(S)
        BY <1>2, <3>3, FS_Subset
      <3>5. Cardinality(K) \in Nat /\ Cardinality(K) # 0
        BY <3>3, <3>4, FS_CardinalityType, FS_EmptySet
      <3>6. Cardinality(K) \in 1 .. Len(a.positions)
        BY <1>4, <3>4, <3>5
      <3>7. b.positions[Cardinality(K)] = a.positions[Cardinality(K)]
        BY <3>6
      <3> QED
        BY <1>3, <1>4, <3>1, <3>2, <3>7 DEF K
    <2> QED
      BY <2>1, <2>2
  <1> QED
    BY <1>4, <1>5, <1>6, <1>7 DEF SweptExactly, T, fs

\* An extrinsic of another kind leaves the moves as they are.
LEMMA KeepMoved ==
    ASSUME NEW a, NEW b, NEW es \in Seq(Exts), NEW e \in Exts,
           MovedOnce(a, es), ~Counts(e, "MoveStake"),
           a.consolidated \in Nat, b.consolidated \in Nat,
           a.consolidated <= b.consolidated,
           \A n \in 1 .. a.consolidated : b.positions[n] = a.positions[n]
    PROVE  MovedOnce(b, Append(es, e))
  <1> DEFINE M == Effects(es, "MoveStake")
             fs == Append(es, e)
  <1>1. Effects(fs, "MoveStake") = M
    BY EffectsAppend
  <1>2. \A i \in M : fs[i] = es[i]
    BY EffectsType, Appended
  <1>3. \A i, k \in M : es[i].call.hot = es[k].call.hot => i = k
    BY DEF MovedOnce
  <1>4. \A i \in M : \E n \in 1 .. a.consolidated :
                       a.positions[n][1] = es[i].call.hot
    BY DEF MovedOnce
  <1> HIDE DEF fs, M
  <1>5. \A i \in M : \E n \in 1 .. b.consolidated :
                       b.positions[n][1] = fs[i].call.hot
    BY <1>2, <1>4
  <1> QED
    BY <1>1, <1>2, <1>3, <1>5 DEF MovedOnce, fs

Distinct(a) ==
    \A i, k \in DOMAIN a.positions :
        a.positions[i][1] = a.positions[k][1] => i = k

\* A move of the next position moves none a second time.
LEMMA AddMoved ==
    ASSUME NEW a, NEW b, NEW es \in Seq(Exts), NEW e \in Exts,
           MovedOnce(a, es), Counts(e, "MoveStake"),
           a.positions \in Seq(Positions), a.consolidated \in Nat, Distinct(a),
           a.consolidated < Len(a.positions),
           a.positions[a.consolidated + 1][1] = e.call.hot,
           b.positions = a.positions, b.consolidated = a.consolidated + 1
    PROVE  MovedOnce(b, Append(es, e))
  <1> DEFINE M == Effects(es, "MoveStake")
             fs == Append(es, e)
             L == Len(es)
             c == a.consolidated
  <1>1. Effects(fs, "MoveStake") = M \cup {L + 1}
    BY EffectsAppend
  <1>2. fs[L + 1] = e /\ \A i \in M : fs[i] = es[i]
    BY EffectsType, Appended
  <1>3. \A i, k \in M : es[i].call.hot = es[k].call.hot => i = k
    BY DEF MovedOnce
  <1>4. \A i \in M : \E n \in 1 .. c : a.positions[n][1] = es[i].call.hot
    BY DEF MovedOnce
  <1> HIDE DEF fs, M, L
  <1>5. \A n \in 1 .. c : a.positions[n][1] # a.positions[c + 1][1]
    <2>1. c + 1 \in DOMAIN a.positions /\ \A n \in 1 .. c : n \in DOMAIN a.positions
      OBVIOUS
    <2>2. \A n \in 1 .. c : n # c + 1
      OBVIOUS
    <2> HIDE DEF c
    <2> QED
      BY <2>1, <2>2 DEF Distinct
  <1>6. \A i \in M : fs[i].call.hot # e.call.hot
    BY <1>2, <1>4, <1>5
  <1>7. \A i \in M : \E n \in 1 .. b.consolidated :
                       b.positions[n][1] = fs[i].call.hot
    BY <1>2, <1>4
  <1>8. \E n \in 1 .. b.consolidated : b.positions[n][1] = e.call.hot
    OBVIOUS
  <1>9. \A i, k \in M \cup {L + 1} : fs[i].call.hot = fs[k].call.hot => i = k
    BY <1>2, <1>3, <1>6
  <1>10. \A i \in M \cup {L + 1} : \E n \in 1 .. b.consolidated :
                       b.positions[n][1] = fs[i].call.hot
    BY <1>2, <1>7, <1>8
  <1> QED
    BY <1>1, <1>9, <1>10 DEF MovedOnce, fs

\* An extrinsic of another kind leaves the return as it is.
LEMMA KeepReturned ==
    ASSUME NEW a, NEW b, NEW es \in Seq(Exts), NEW e \in Exts,
           ReturnedOnce(a, es), ~Counts(e, "TransferAll"), a.dust => b.dust
    PROVE  ReturnedOnce(b, Append(es, e))
  BY EffectsAppend DEF ReturnedOnce

\* The first return of dust is the only one.
LEMMA AddReturned ==
    ASSUME NEW a, NEW b, NEW es \in Seq(Exts), NEW e \in Exts,
           ReturnedOnce(a, es), ~a.dust, b.dust
    PROVE  ReturnedOnce(b, Append(es, e))
  <1>1. Effects(es, "TransferAll") = {}
    BY DEF ReturnedOnce
  <1>2. Effects(Append(es, e), "TransferAll") \subseteq {Len(es) + 1}
    BY <1>1, EffectsAppend
  <1> QED
    BY <1>2 DEF ReturnedOnce

\* The extrinsics of a purchase, as the record names them.
StakeIds(a) == IF a.buyback = None THEN {} ELSE {a.buyback.stake_tx}
DestroyIds(a) == IF a.buyback = None THEN {} ELSE {a.buyback.destroy_tx} \ {None}

\* An extrinsic of another kind leaves the purchase as it is.
LEMMA KeepBought ==
    ASSUME NEW a, NEW b, NEW es \in Seq(Exts), NEW e \in Exts,
           BoughtOnce(a, es), ~Counts(e, "AddStakeLimit"),
           StakeIds(b) = StakeIds(a)
    PROVE  BoughtOnce(b, Append(es, e))
  <1> DEFINE B == Effects(es, "AddStakeLimit")
  <1>1. B \subseteq 1 .. Len(es)
    BY EffectsType
  <1>2. Effects(Append(es, e), "AddStakeLimit") = B
    BY EffectsAppend
  <1> HIDE DEF B
  <1>3. Ids(Append(es, e), B) = Ids(es, B)
    <2>1. \A i \in B : Append(es, e)[i] = es[i]
      BY <1>1, Appended
    <2> QED
      BY <2>1, Zenon DEF Ids
  <1> QED
    BY <1>2, <1>3 DEF BoughtOnce, StakeIds, B

\* The first purchase is the only one.
LEMMA AddBought ==
    ASSUME NEW a, NEW b, NEW es \in Seq(Exts), NEW e \in Exts,
           BoughtOnce(a, es), Counts(e, "AddStakeLimit"),
           StakeIds(a) = {}, StakeIds(b) = {e.id}
    PROVE  BoughtOnce(b, Append(es, e))
  <1> DEFINE B == Effects(es, "AddStakeLimit")
  <1>1. B \subseteq 1 .. Len(es)
    BY EffectsType
  <1>2. Effects(Append(es, e), "AddStakeLimit") = B \cup {Len(es) + 1}
    BY EffectsAppend
  <1>3. Ids(es, B) = {}
    BY DEF BoughtOnce, StakeIds
  <1> HIDE DEF B
  <1>4. Ids(Append(es, e), B \cup {Len(es) + 1}) = {e.id}
    <2>1. Ids(Append(es, e), B \cup {Len(es) + 1}) = Ids(es, B) \cup {e.id}
      BY <1>1, Appended DEF Ids
    <2> QED
      BY <1>3, <2>1
  <1> QED
    BY <1>2, <1>4 DEF BoughtOnce, StakeIds

\* An extrinsic of another kind leaves the destruction as it is.
LEMMA KeepDestroyed ==
    ASSUME NEW a, NEW b, NEW es \in Seq(Exts), NEW e \in Exts,
           DestroyedOnce(a, es),
           ~Counts(e, "BurnAlpha"), ~Counts(e, "RecycleAlpha"),
           DestroyIds(b) = DestroyIds(a)
    PROVE  DestroyedOnce(b, Append(es, e))
  <1> DEFINE D == Effects(es, "BurnAlpha") \cup Effects(es, "RecycleAlpha")
  <1>1. D \subseteq 1 .. Len(es)
    BY EffectsType
  <1>2. Effects(Append(es, e), "BurnAlpha") \cup
            Effects(Append(es, e), "RecycleAlpha") = D
    BY EffectsAppend
  <1> HIDE DEF D
  <1>3. Ids(Append(es, e), D) = Ids(es, D)
    BY <1>1, Appended DEF Ids
  <1> QED
    BY <1>2, <1>3 DEF DestroyedOnce, DestroyIds, D

\* The first destruction is the only one.
LEMMA AddDestroyed ==
    ASSUME NEW a, NEW b, NEW es \in Seq(Exts), NEW e \in Exts,
           DestroyedOnce(a, es),
           Counts(e, "BurnAlpha") \/ Counts(e, "RecycleAlpha"),
           DestroyIds(a) = {}, DestroyIds(b) = {e.id}
    PROVE  DestroyedOnce(b, Append(es, e))
  <1> DEFINE D == Effects(es, "BurnAlpha") \cup Effects(es, "RecycleAlpha")
  <1>1. D \subseteq 1 .. Len(es)
    BY EffectsType
  <1>2. Effects(Append(es, e), "BurnAlpha") \cup
            Effects(Append(es, e), "RecycleAlpha") = D \cup {Len(es) + 1}
    BY EffectsAppend
  <1>3. Ids(es, D) = {}
    BY DEF DestroyedOnce, DestroyIds
  <1> HIDE DEF D
  <1>4. Ids(Append(es, e), D \cup {Len(es) + 1}) = {e.id}
    <2>1. Ids(Append(es, e), D \cup {Len(es) + 1}) = Ids(es, D) \cup {e.id}
      BY <1>1, Appended DEF Ids
    <2> QED
      BY <1>3, <2>1
  <1> QED
    BY <1>2, <1>4 DEF DestroyedOnce, DestroyIds

-----------------------------------------------------------------------------
(* An account is good for a chain when it says exactly what happened there, *)
(* its positions differ and it moved no more of them than there are.        *)
Ledger(a) ==
    /\ a.funded \in Nat /\ a.positions \in Seq(Positions)
    /\ a.consolidated \in Nat /\ a.dust \in BOOLEAN
    /\ a.buyback \in Buybacks \cup {None}

Good(a, es) ==
    Exact(a, es) /\ Distinct(a) /\ a.consolidated <= Len(a.positions)

\* Nothing happened, and nothing is accounted for.
LEMMA StartGood == Good(Start, <<>>)
  <1>1. \A kind : Effects(<<>>, kind) = {}
    BY DEF Effects
  <1>2. Cardinality({}) = 0
    BY FS_EmptySet
  <1>3. Exact(Start, <<>>)
    BY <1>1, <1>2 DEF Start, Exact, FundedOnce, SweptExactly, MovedOnce,
                      ReturnedOnce, BoughtOnce, DestroyedOnce, Ids
  <1>4. Distinct(Start) /\ Start.consolidated <= Len(Start.positions)
    BY DEF Start, Distinct
  <1> QED
    BY <1>3, <1>4 DEF Good

\* What each kind of call, accounted for, keeps good.
LEMMA GoodFund ==
    ASSUME NEW a, NEW b, NEW es \in Seq(Exts), NEW e \in Exts,
           Ledger(a), Good(a, es), Counts(e, "TransferTao"),
           a.funded = 0, b.funded # 0,
           b.positions = a.positions, b.consolidated = a.consolidated,
           b.dust = a.dust, b.buyback = a.buyback
    PROVE  Good(b, Append(es, e))
  <1>1. /\ ~Counts(e, "TransferStake") /\ ~Counts(e, "MoveStake")
        /\ ~Counts(e, "TransferAll") /\ ~Counts(e, "AddStakeLimit")
        /\ ~Counts(e, "BurnAlpha") /\ ~Counts(e, "RecycleAlpha")
    BY DEF Counts
  <1>2. StakeIds(b) = StakeIds(a) /\ DestroyIds(b) = DestroyIds(a)
    BY DEF StakeIds, DestroyIds
  <1> USE DEF Good, Exact, Ledger
  <1>3. FundedOnce(b, Append(es, e))
    BY AddFunded
  <1>4. SweptExactly(b, Append(es, e))
    BY <1>1, KeepSwept
  <1>5. MovedOnce(b, Append(es, e))
    BY <1>1, KeepMoved
  <1>6. ReturnedOnce(b, Append(es, e))
    BY <1>1, KeepReturned
  <1>7. BoughtOnce(b, Append(es, e))
    BY <1>1, <1>2, KeepBought
  <1>8. DestroyedOnce(b, Append(es, e))
    BY <1>1, <1>2, KeepDestroyed
  <1>9. Distinct(b) /\ b.consolidated <= Len(b.positions)
    BY DEF Distinct
  <1> QED
    BY <1>3, <1>4, <1>5, <1>6, <1>7, <1>8, <1>9

LEMMA GoodSweep ==
    ASSUME NEW a, NEW b, NEW es \in Seq(Exts), NEW e \in Exts,
           Ledger(a), Good(a, es), Counts(e, "TransferStake"),
           \A i \in DOMAIN a.positions : a.positions[i][1] # e.call.hot,
           b.funded = a.funded, b.positions = Append(a.positions, Position(e)),
           b.consolidated = a.consolidated,
           b.dust = a.dust, b.buyback = a.buyback
    PROVE  Good(b, Append(es, e))
  <1>1. /\ ~Counts(e, "TransferTao") /\ ~Counts(e, "MoveStake")
        /\ ~Counts(e, "TransferAll") /\ ~Counts(e, "AddStakeLimit")
        /\ ~Counts(e, "BurnAlpha") /\ ~Counts(e, "RecycleAlpha")
    BY DEF Counts
  <1>2. StakeIds(b) = StakeIds(a) /\ DestroyIds(b) = DestroyIds(a)
    BY DEF StakeIds, DestroyIds
  <1>3. Position(e) \in Positions /\ Position(e)[1] = e.call.hot
    BY DEF Position, Positions, Exts, Calls
  <1> DEFINE n == Len(a.positions)
  <1>4. /\ n \in Nat /\ DOMAIN a.positions = 1 .. n
        /\ DOMAIN b.positions = 1 .. n + 1
        /\ Len(b.positions) = n + 1 /\ b.positions[n + 1] = Position(e)
        /\ \A i \in 1 .. n : b.positions[i] = a.positions[i]
    BY <1>3 DEF Ledger
  <1> HIDE DEF n
  <1>5. FundedOnce(b, Append(es, e))
    BY <1>1, KeepFunded DEF Good, Exact
  <1>6. SweptExactly(b, Append(es, e))
    BY <1>3, AddSwept DEF Good, Exact, Ledger
  <1>7. MovedOnce(b, Append(es, e))
    <2>1. \A i \in 1 .. a.consolidated : b.positions[i] = a.positions[i]
      BY <1>4 DEF Good, Ledger, n
    <2> QED
      <3>1. /\ MovedOnce(a, es) /\ a.consolidated \in Nat /\ b.consolidated \in Nat
            /\ a.consolidated <= b.consolidated
        BY DEF Good, Exact, Ledger
      <3> QED
        BY <1>1, <2>1, <3>1, KeepMoved
  <1>8. ReturnedOnce(b, Append(es, e))
    BY <1>1, KeepReturned DEF Good, Exact
  <1>9. BoughtOnce(b, Append(es, e))
    BY <1>1, <1>2, KeepBought DEF Good, Exact
  <1>10. DestroyedOnce(b, Append(es, e))
    BY <1>1, <1>2, KeepDestroyed DEF Good, Exact
  <1>11. Distinct(b)
    <2>1. \A i \in 1 .. n + 1 : i = n + 1 \/ i \in 1 .. n
      BY <1>4
    <2>2. \A i \in 1 .. n : b.positions[i][1] # b.positions[n + 1][1]
      BY <1>3, <1>4
    <2>3. \A i, k \in 1 .. n : b.positions[i][1] = b.positions[k][1] => i = k
      <3>1. \A i, k \in 1 .. n : a.positions[i][1] = a.positions[k][1] => i = k
        BY <1>4 DEF Good, Distinct
      <3>2. \A i \in 1 .. n : b.positions[i][1] = a.positions[i][1]
        BY <1>4
      <3> QED
        BY <3>1, <3>2
    <2> QED
      BY <1>4, <2>1, <2>2, <2>3 DEF Distinct
  <1>12. b.consolidated <= Len(b.positions)
    BY <1>4 DEF Good, Ledger, n
  <1> QED
    BY <1>5, <1>6, <1>7, <1>8, <1>9, <1>10, <1>11, <1>12 DEF Good, Exact

LEMMA GoodMove ==
    ASSUME NEW a, NEW b, NEW es \in Seq(Exts), NEW e \in Exts,
           Ledger(a), Good(a, es), Counts(e, "MoveStake"),
           a.consolidated < Len(a.positions),
           a.positions[a.consolidated + 1][1] = e.call.hot,
           b.funded = a.funded, b.positions = a.positions,
           b.consolidated = a.consolidated + 1,
           b.dust = a.dust, b.buyback = a.buyback
    PROVE  Good(b, Append(es, e))
  <1>1. /\ ~Counts(e, "TransferTao") /\ ~Counts(e, "TransferStake")
        /\ ~Counts(e, "TransferAll") /\ ~Counts(e, "AddStakeLimit")
        /\ ~Counts(e, "BurnAlpha") /\ ~Counts(e, "RecycleAlpha")
    BY DEF Counts
  <1>2. StakeIds(b) = StakeIds(a) /\ DestroyIds(b) = DestroyIds(a)
    BY DEF StakeIds, DestroyIds
  <1>3. FundedOnce(b, Append(es, e))
    BY <1>1, KeepFunded DEF Good, Exact
  <1>4. SweptExactly(b, Append(es, e))
    BY <1>1, KeepSwept DEF Good, Exact
  <1>5. MovedOnce(b, Append(es, e))
    BY AddMoved DEF Good, Exact, Ledger
  <1>6. ReturnedOnce(b, Append(es, e))
    BY <1>1, KeepReturned DEF Good, Exact
  <1>7. BoughtOnce(b, Append(es, e))
    BY <1>1, <1>2, KeepBought DEF Good, Exact
  <1>8. DestroyedOnce(b, Append(es, e))
    BY <1>1, <1>2, KeepDestroyed DEF Good, Exact
  <1>9. Distinct(b) /\ b.consolidated <= Len(b.positions)
    BY DEF Distinct, Good, Ledger
  <1> QED
    BY <1>3, <1>4, <1>5, <1>6, <1>7, <1>8, <1>9 DEF Good, Exact

LEMMA GoodReturn ==
    ASSUME NEW a, NEW b, NEW es \in Seq(Exts), NEW e \in Exts,
           Ledger(a), Good(a, es), Counts(e, "TransferAll"),
           ~a.dust, b.dust,
           b.funded = a.funded, b.positions = a.positions,
           b.consolidated = a.consolidated, b.buyback = a.buyback
    PROVE  Good(b, Append(es, e))
  <1>1. /\ ~Counts(e, "TransferTao") /\ ~Counts(e, "TransferStake")
        /\ ~Counts(e, "MoveStake") /\ ~Counts(e, "AddStakeLimit")
        /\ ~Counts(e, "BurnAlpha") /\ ~Counts(e, "RecycleAlpha")
    BY DEF Counts
  <1>2. StakeIds(b) = StakeIds(a) /\ DestroyIds(b) = DestroyIds(a)
    BY DEF StakeIds, DestroyIds
  <1>3. FundedOnce(b, Append(es, e))
    BY <1>1, KeepFunded DEF Good, Exact
  <1>4. SweptExactly(b, Append(es, e))
    BY <1>1, KeepSwept DEF Good, Exact
  <1>5. MovedOnce(b, Append(es, e))
    BY <1>1, KeepMoved DEF Good, Exact, Ledger
  <1>6. ReturnedOnce(b, Append(es, e))
    BY AddReturned DEF Good, Exact
  <1>7. BoughtOnce(b, Append(es, e))
    BY <1>1, <1>2, KeepBought DEF Good, Exact
  <1>8. DestroyedOnce(b, Append(es, e))
    BY <1>1, <1>2, KeepDestroyed DEF Good, Exact
  <1>9. Distinct(b) /\ b.consolidated <= Len(b.positions)
    BY DEF Distinct, Good
  <1> QED
    BY <1>3, <1>4, <1>5, <1>6, <1>7, <1>8, <1>9 DEF Good, Exact

LEMMA GoodBuy ==
    ASSUME NEW a, NEW b, NEW es \in Seq(Exts), NEW e \in Exts,
           Ledger(a), Good(a, es), Counts(e, "AddStakeLimit"),
           a.buyback = None, b.buyback # None,
           b.buyback.stake_tx = e.id, b.buyback.destroy_tx = None,
           b.funded = a.funded, b.positions = a.positions,
           b.consolidated = a.consolidated, b.dust = a.dust
    PROVE  Good(b, Append(es, e))
  <1>1. /\ ~Counts(e, "TransferTao") /\ ~Counts(e, "TransferStake")
        /\ ~Counts(e, "MoveStake") /\ ~Counts(e, "TransferAll")
        /\ ~Counts(e, "BurnAlpha") /\ ~Counts(e, "RecycleAlpha")
    BY DEF Counts
  <1>2. /\ StakeIds(a) = {} /\ StakeIds(b) = {e.id}
        /\ DestroyIds(b) = DestroyIds(a)
    BY DEF StakeIds, DestroyIds
  <1>3. FundedOnce(b, Append(es, e))
    BY <1>1, KeepFunded DEF Good, Exact
  <1>4. SweptExactly(b, Append(es, e))
    BY <1>1, KeepSwept DEF Good, Exact
  <1>5. MovedOnce(b, Append(es, e))
    BY <1>1, KeepMoved DEF Good, Exact, Ledger
  <1>6. ReturnedOnce(b, Append(es, e))
    BY <1>1, KeepReturned DEF Good, Exact
  <1>7. BoughtOnce(b, Append(es, e))
    BY <1>2, AddBought DEF Good, Exact
  <1>8. DestroyedOnce(b, Append(es, e))
    BY <1>1, <1>2, KeepDestroyed DEF Good, Exact
  <1>9. Distinct(b) /\ b.consolidated <= Len(b.positions)
    BY DEF Distinct, Good
  <1> QED
    BY <1>3, <1>4, <1>5, <1>6, <1>7, <1>8, <1>9 DEF Good, Exact

LEMMA GoodDestroy ==
    ASSUME NEW a, NEW b, NEW es \in Seq(Exts), NEW e \in Exts,
           Ledger(a), Good(a, es),
           Counts(e, "BurnAlpha") \/ Counts(e, "RecycleAlpha"),
           a.buyback # None, a.buyback.destroy_tx = None,
           b.buyback = [a.buyback EXCEPT !.destroy_tx = e.id],
           b.funded = a.funded, b.positions = a.positions,
           b.consolidated = a.consolidated, b.dust = a.dust
    PROVE  Good(b, Append(es, e))
  <1>1. /\ ~Counts(e, "TransferTao") /\ ~Counts(e, "TransferStake")
        /\ ~Counts(e, "MoveStake") /\ ~Counts(e, "TransferAll")
        /\ ~Counts(e, "AddStakeLimit")
    BY DEF Counts
  <1>2. /\ b.buyback \in Buybacks /\ b.buyback.destroy_tx = e.id
        /\ b.buyback.stake_tx = a.buyback.stake_tx /\ e.id \in Nat
    BY DEF Ledger, Buybacks, Exts
  <1>3. b.buyback # None /\ e.id # None
    BY <1>2, NoneAssumption
  <1>4. /\ StakeIds(b) = StakeIds(a)
        /\ DestroyIds(a) = {} /\ DestroyIds(b) = {e.id}
    BY <1>2, <1>3 DEF StakeIds, DestroyIds
  <1>5. FundedOnce(b, Append(es, e))
    BY <1>1, KeepFunded DEF Good, Exact
  <1>6. SweptExactly(b, Append(es, e))
    BY <1>1, KeepSwept DEF Good, Exact
  <1>7. MovedOnce(b, Append(es, e))
    <2>1. /\ MovedOnce(a, es) /\ a.consolidated \in Nat /\ b.consolidated \in Nat
          /\ a.consolidated <= b.consolidated
          /\ \A i \in 1 .. a.consolidated : b.positions[i] = a.positions[i]
      BY DEF Good, Exact, Ledger
    <2> QED
      BY <1>1, <2>1, KeepMoved
  <1>8. ReturnedOnce(b, Append(es, e))
    BY <1>1, KeepReturned DEF Good, Exact
  <1>9. BoughtOnce(b, Append(es, e))
    BY <1>1, <1>4, KeepBought DEF Good, Exact
  <1>10. DestroyedOnce(b, Append(es, e))
    BY <1>4, AddDestroyed DEF Good, Exact
  <1>11. Distinct(b) /\ b.consolidated <= Len(b.positions)
    BY DEF Distinct, Good
  <1> QED
    BY <1>5, <1>6, <1>7, <1>8, <1>9, <1>10, <1>11 DEF Good, Exact

(* Steps without a transaction. *)
LEMMA GoodSkip ==
    ASSUME NEW a, NEW b, NEW es \in Seq(Exts), Ledger(a), Good(a, es),
           b.funded = a.funded, b.positions = a.positions,
           b.consolidated \in a.consolidated .. Len(a.positions),
           a.dust => b.dust, b.buyback = a.buyback
    PROVE  Good(b, es)
  <1>1. FundedOnce(b, es) /\ SweptExactly(b, es)
    BY DEF Good, Exact, FundedOnce, SweptExactly
  <1>2. MovedOnce(b, es)
    <2>1. 1 .. a.consolidated \subseteq 1 .. b.consolidated
      BY DEF Ledger
    <2> QED
      BY <2>1 DEF Good, Exact, MovedOnce
  <1>3. ReturnedOnce(b, es) /\ BoughtOnce(b, es) /\ DestroyedOnce(b, es)
    BY DEF Good, Exact, ReturnedOnce, BoughtOnce, DestroyedOnce
  <1>4. Distinct(b) /\ b.consolidated <= Len(b.positions)
    BY DEF Good, Distinct, Ledger
  <1> QED
    BY <1>1, <1>2, <1>3, <1>4 DEF Good, Exact

-----------------------------------------------------------------------------
(* What the replay accepts is exactly what happened. *)
LEMMA ReplayStepGood ==
    ASSUME NEW r, NEW m, NEW a \in Accounts, NEW es \in Seq(Exts), NEW t \in Exts,
           a.ok => Good(a, es), ReplayStep(r, m, a, t).ok
    PROVE  Good(ReplayStep(r, m, a, t), Append(es, t))
  <1> DEFINE b == ReplayStep(r, m, a, t)
  <1>1. t.event \in {"ok", "off"} /\ a.ok
    BY DEF ReplayStep, Accept, Reject, ReplayFund, ReplaySweep, ReplayMove,
           ReplayDust, ReplayBuy, ReplayDestroy, Accounts
  <1>2. Ledger(a)
    BY DEF Ledger, Accounts
  <1> USE DEF Accept, Reject, Accounts
  <1>3. CASE t.call.kind = "TransferTao"
    <2>1. b = ReplayFund(r, m, a, t)
      BY <1>1, <1>3 DEF ReplayStep
    <2>2. /\ t.call.job /\ a.funded = 0 /\ t.call.amount > 0
          /\ b = [a EXCEPT !.funded = t.call.amount]
      BY <2>1 DEF ReplayFund
    <2>3. Counts(t, "TransferTao")
      BY <1>1, <1>3, <2>2 DEF Counts
    <2>4. /\ b.funded # 0
          /\ b.positions = a.positions /\ b.consolidated = a.consolidated
          /\ b.dust = a.dust /\ b.buyback = a.buyback
      BY <2>2 DEF Exts, Calls
    <2> HIDE DEF b
    <2> QED
      BY <1>1, <1>2, <2>2, <2>3, <2>4, GoodFund DEF b
  <1>4. CASE t.call.kind = "TransferStake"
    <2>1. b = ReplaySweep(r, m, a, t)
      BY <1>1, <1>4 DEF ReplayStep
    <2>2. /\ t.call.job
          /\ \A i \in DOMAIN a.positions : a.positions[i][1] # t.call.hot
          /\ b = [a EXCEPT !.positions = Append(@, <<t.call.hot, t.call.amount>>)]
      BY <2>1 DEF ReplaySweep
    <2>3. Counts(t, "TransferStake")
      BY <1>1, <1>4, <2>2 DEF Counts
    <2>4. /\ b.funded = a.funded /\ b.positions = Append(a.positions, Position(t))
          /\ b.consolidated = a.consolidated
          /\ b.dust = a.dust /\ b.buyback = a.buyback
      BY <2>2 DEF Position
    <2> HIDE DEF b
    <2> QED
      BY <1>1, <1>2, <2>2, <2>3, <2>4, GoodSweep DEF b
  <1>5. CASE t.call.kind = "MoveStake"
    <2>1. b = ReplayMove(r, m, a, t)
      BY <1>1, <1>5 DEF ReplayStep
    <2>2. /\ t.call.job /\ a.consolidated < Len(a.positions)
          /\ a.positions[a.consolidated + 1][1] = t.call.hot
          /\ b = [a EXCEPT !.post_sweep = TRUE, !.consolidated = @ + 1]
      BY <2>1 DEF ReplayMove
    <2>3. Counts(t, "MoveStake")
      BY <1>1, <1>5, <2>2 DEF Counts
    <2>4. /\ b.funded = a.funded /\ b.positions = a.positions
          /\ b.consolidated = a.consolidated + 1
          /\ b.dust = a.dust /\ b.buyback = a.buyback
      BY <2>2
    <2> HIDE DEF b
    <2> QED
      BY <1>1, <1>2, <2>2, <2>3, <2>4, GoodMove DEF b
  <1>6. CASE t.call.kind = "TransferAll"
    <2>1. b = ReplayDust(r, m, a, t)
      BY <1>1, <1>6 DEF ReplayStep
    <2>2. /\ t.call.job /\ ~a.dust
          /\ b = [a EXCEPT !.post_sweep = TRUE, !.dust = TRUE]
      BY <2>1 DEF ReplayDust
    <2>3. Counts(t, "TransferAll")
      BY <1>1, <1>6, <2>2 DEF Counts
    <2>4. /\ b.funded = a.funded /\ b.positions = a.positions
          /\ b.consolidated = a.consolidated
          /\ b.dust /\ b.buyback = a.buyback
      BY <2>2
    <2> HIDE DEF b
    <2> QED
      BY <1>1, <1>2, <2>2, <2>3, <2>4, GoodReturn DEF b
  <1>7. CASE t.call.kind = "AddStakeLimit"
    <2> DEFINE bb == [spent |-> t.call.amount, bought |-> t.bought,
                      stake_tx |-> t.id, destroy_tx |-> None]
    <2>1. b = ReplayBuy(r, m, a, t)
      BY <1>1, <1>7 DEF ReplayStep
    <2>2. /\ t.call.job /\ a.buyback = None
          /\ b = [a EXCEPT !.post_sweep = TRUE, !.buyback = bb]
      BY <2>1 DEF ReplayBuy
    <2>3. Counts(t, "AddStakeLimit")
      BY <1>1, <1>7, <2>2 DEF Counts
    <2>4. bb \in Buybacks /\ bb.stake_tx = t.id /\ bb.destroy_tx = None
      BY DEF Exts, Calls, Buybacks
    <2>5. bb # None
      BY <2>4, NoneAssumption
    <2> HIDE DEF bb
    <2>6. /\ b.funded = a.funded /\ b.positions = a.positions
          /\ b.consolidated = a.consolidated
          /\ b.dust = a.dust /\ b.buyback = bb
      BY <2>2
    <2> HIDE DEF b
    <2> QED
      BY <1>1, <1>2, <2>2, <2>3, <2>4, <2>5, <2>6, GoodBuy DEF b
  <1>8. CASE t.call.kind \in {"BurnAlpha", "RecycleAlpha"}
    <2>1. b = ReplayDestroy(r, m, a, t)
      BY <1>1, <1>8 DEF ReplayStep
    <2>2. /\ t.call.job /\ a.buyback # None /\ a.buyback.destroy_tx = None
          /\ b = [a EXCEPT !.buyback.destroy_tx = t.id]
      BY <2>1 DEF ReplayDestroy
    <2>3. Counts(t, "BurnAlpha") \/ Counts(t, "RecycleAlpha")
      BY <1>1, <1>8, <2>2 DEF Counts
    <2>4. /\ b.funded = a.funded /\ b.positions = a.positions
          /\ b.consolidated = a.consolidated
          /\ b.dust = a.dust
          /\ b.buyback = [a.buyback EXCEPT !.destroy_tx = t.id]
      BY <2>2
    <2> HIDE DEF b
    <2> QED
      BY <1>1, <1>2, <2>2, <2>3, <2>4, GoodDestroy DEF b
  <1>9. t.call.kind # "Other"
    BY <1>1 DEF ReplayStep
  <1> QED
    BY <1>3, <1>4, <1>5, <1>6, <1>7, <1>8, <1>9 DEF Exts, Calls, Kinds

\* An accepted replay is a good account of the chain it read.
LEMMA ReplayGood ==
    ASSUME NEW r, NEW m, NEW ts \in Seq(Exts), ReplayAll(r, m, ts).ok
    PROVE  Good(ReplayAll(r, m, ts), ts)
  <1> DEFINE S == {s \in Seq(Exts) : ReplayAll(r, m, s).ok =>
                                      Good(ReplayAll(r, m, s), s)}
  <1>1. <<>> \in S
    BY ReplayEmpty, StartGood
  <1>2. ASSUME NEW s \in Seq(Exts), NEW e \in Exts, s \in S
        PROVE  Append(s, e) \in S
    <2> DEFINE a == ReplayAll(r, m, s)
    <2>1. a \in Accounts /\ (a.ok => Good(a, s))
      BY <1>2, ReplayType
    <2>2. ReplayAll(r, m, Append(s, e)) = ReplayStep(r, m, a, e)
      BY ReplayAppend
    <2> HIDE DEF a
    <2>3. ReplayStep(r, m, a, e).ok => Good(ReplayStep(r, m, a, e), Append(s, e))
      BY <2>1, ReplayStepGood
    <2>4. Append(s, e) \in Seq(Exts)
      OBVIOUS
    <2> QED
      BY <2>2, <2>3, <2>4
  <1> HIDE DEF S
  <1>3. ts \in S
    BY <1>1, <1>2, InductSeq
  <1> QED
    BY <1>3 DEF S

(* What the replay accepts moved what was swept. *)
MovedIn(a, ts) ==
    \A i \in DOMAIN ts : ts[i].call.kind = "MoveStake" =>
        \E n \in DOMAIN a.positions : a.positions[n] = Position(ts[i])

LEMMA ReplayStepMoved ==
    ASSUME NEW r, NEW m, NEW a \in Accounts, NEW es \in Seq(Exts), NEW t \in Exts,
           a.ok => MovedIn(a, es), ReplayStep(r, m, a, t).ok
    PROVE  MovedIn(ReplayStep(r, m, a, t), Append(es, t))
  <1> DEFINE b == ReplayStep(r, m, a, t)
             fs == Append(es, t)
  <1>1. t.event \in {"ok", "off"} /\ a.ok
    BY DEF ReplayStep, Accept, Reject, ReplayFund, ReplaySweep, ReplayMove,
           ReplayDust, ReplayBuy, ReplayDestroy, Accounts
  <1>2. a.positions \in Seq(Positions) /\ Position(t) \in Positions
    BY DEF Accounts, Position, Positions, Exts, Calls
  <1>3. \/ b.positions = a.positions
        \/ b.positions = Append(a.positions, Position(t))
    <2> USE DEF Accept, Reject, Accounts
    <2>1. CASE t.call.kind = "TransferTao"
      BY <1>1, <2>1 DEF ReplayStep, ReplayFund
    <2>2. CASE t.call.kind = "TransferStake"
      BY <1>1, <2>2 DEF ReplayStep, ReplaySweep, Position
    <2>3. CASE t.call.kind = "MoveStake"
      BY <1>1, <2>3 DEF ReplayStep, ReplayMove
    <2>4. CASE t.call.kind = "TransferAll"
      BY <1>1, <2>4 DEF ReplayStep, ReplayDust
    <2>5. CASE t.call.kind = "AddStakeLimit"
      BY <1>1, <2>5 DEF ReplayStep, ReplayBuy
    <2>6. CASE t.call.kind \in {"BurnAlpha", "RecycleAlpha"}
      BY <1>1, <2>6 DEF ReplayStep, ReplayDestroy
    <2>7. t.call.kind # "Other"
      BY <1>1 DEF ReplayStep
    <2> QED
      BY <2>1, <2>2, <2>3, <2>4, <2>5, <2>6, <2>7 DEF Exts, Calls, Kinds
  <1>4. t.call.kind = "MoveStake" =>
          \E n \in DOMAIN a.positions : a.positions[n] = Position(t)
    <2> SUFFICES ASSUME t.call.kind = "MoveStake"
                 PROVE  \E n \in DOMAIN a.positions : a.positions[n] = Position(t)
      OBVIOUS
    <2>1. b = ReplayMove(r, m, a, t)
      BY <1>1 DEF ReplayStep
    <2>2. /\ a.consolidated < Len(a.positions)
          /\ a.positions[a.consolidated + 1] = Position(t)
      BY <2>1 DEF ReplayMove, Accept, Reject, Accounts, Position
    <2>3. a.consolidated + 1 \in DOMAIN a.positions
      BY <1>2, <2>2 DEF Accounts
    <2> QED
      BY <2>2, <2>3
  <1>5. /\ DOMAIN fs = 1 .. Len(es) + 1 /\ DOMAIN es = 1 .. Len(es)
        /\ Len(es) \in Nat /\ fs[Len(es) + 1] = t
        /\ \A i \in 1 .. Len(es) : fs[i] = es[i]
    BY Appended
  <1> HIDE DEF b, fs
  <1>6. \A n \in DOMAIN a.positions :
           n \in DOMAIN b.positions /\ b.positions[n] = a.positions[n]
    <2>1. CASE b.positions = a.positions
      BY <2>1
    <2>2. CASE b.positions = Append(a.positions, Position(t))
      <3> DEFINE p == a.positions
                 x == Position(t)
      <3> HIDE DEF p, x
      <3>1. p \in Seq(Positions) /\ x \in Positions
        BY <1>2 DEF p, x
      <3>2. \A n \in DOMAIN p : n \in DOMAIN Append(p, x) /\ Append(p, x)[n] = p[n]
        BY <3>1
      <3> QED
        BY <2>2, <3>2 DEF p, x
    <2> QED
      BY <1>3, <2>1, <2>2
  <1>7. ASSUME NEW i \in DOMAIN fs, fs[i].call.kind = "MoveStake"
        PROVE  \E n \in DOMAIN b.positions : b.positions[n] = Position(fs[i])
    <2>1. CASE i \in 1 .. Len(es)
      <3>1. PICK n \in DOMAIN a.positions : a.positions[n] = Position(es[i])
        BY <1>1, <1>5, <1>7, <2>1 DEF MovedIn
      <3> QED
        BY <1>5, <1>6, <2>1, <3>1
    <2>2. CASE i = Len(es) + 1
      <3>1. PICK n \in DOMAIN a.positions : a.positions[n] = Position(t)
        BY <1>4, <1>5, <1>7, <2>2
      <3> QED
        BY <1>5, <1>6, <2>2, <3>1
    <2> QED
      BY <1>5, <2>1, <2>2
  <1>8. MovedIn(b, fs)
    BY <1>7 DEF MovedIn
  <1> QED
    BY <1>8 DEF b, fs

LEMMA ReplayMoved ==
    ASSUME NEW r, NEW m, NEW ts \in Seq(Exts), ReplayAll(r, m, ts).ok
    PROVE  MovedIn(ReplayAll(r, m, ts), ts)
  <1> DEFINE S == {s \in Seq(Exts) : ReplayAll(r, m, s).ok =>
                                      MovedIn(ReplayAll(r, m, s), s)}
  <1>1. <<>> \in S
    BY ReplayEmpty DEF MovedIn
  <1>2. ASSUME NEW s \in Seq(Exts), NEW e \in Exts, s \in S
        PROVE  Append(s, e) \in S
    <2> DEFINE a == ReplayAll(r, m, s)
    <2>1. a \in Accounts /\ (a.ok => MovedIn(a, s))
      BY <1>2, ReplayType
    <2>2. ReplayAll(r, m, Append(s, e)) = ReplayStep(r, m, a, e)
      BY ReplayAppend
    <2> HIDE DEF a
    <2>3. ReplayStep(r, m, a, e).ok => MovedIn(ReplayStep(r, m, a, e), Append(s, e))
      BY <2>1, ReplayStepMoved
    <2>4. Append(s, e) \in Seq(Exts)
      OBVIOUS
    <2> QED
      BY <2>2, <2>3, <2>4
  <1> HIDE DEF S
  <1>3. ts \in S
    BY <1>1, <1>2, InductSeq
  <1> QED
    BY <1>3 DEF S

-----------------------------------------------------------------------------
(* The inductive invariant. *)
TypeOK ==
    /\ rec \in Records /\ head \in Nat /\ exts \in Seq(Exts)
    /\ pool \subseteq Txs /\ signed \in Nat /\ trouble \in Nat
    /\ stopped \in Nat \cup {None} /\ setting \in Settings

(* An extrinsic's place on the chain: the hash names it, the nonce counts   *)
(* the signer's earlier ones, and only a purchase buys.                     *)
Placed(es, i) ==
    /\ es[i].id = i
    /\ es[i].nonce = Cardinality({k \in 1 .. i - 1 : es[k].signer = es[i].signer})
    /\ es[i].bought = IF es[i].call.kind = "AddStakeLimit" THEN 1 ELSE 0

ChainInv ==
    /\ \A i \in DOMAIN exts : Placed(exts, i) /\ exts[i].block \in 1 .. head + 1
    /\ \A k \in DOMAIN rec.txs : rec.txs[k].id \in DOMAIN exts
    /\ trouble = 0 => \A i \in DOMAIN exts : exts[i].event = "ok"

(* No old signature outlives its mortality, and none is alive after import. *)
ExpiryInv ==
    /\ \A tx \in pool : tx.birth <= head
    /\ ~Running =>
         /\ stopped \in 1 .. head
         /\ \A tx \in pool : tx.birth <= stopped
         /\ ~Resumed => \A i \in DOMAIN exts : exts[i].block <= stopped + Mortality
    /\ Resumed => ~Running /\ \A tx \in pool : tx.birth + Mortality <= head

(* A recovered job goes on from an account of all that happened. *)
ResumedInv ==
    Resumed =>
        /\ Good(Account(rec), exts)
        /\ rec.state \in {"pending", "detected"} => rec.funded_tao = 0
        /\ rec.state = "failed" => rec.failed_from \in {"funded", "swept"}

(* A policy that was decided before the import is that of an untouched job. *)
MigratedInv ==
    rec.auto_required # None /\ ~Resumed =>
        /\ ~Running /\ Pristine(rec) /\ rec.txs = <<>>
        /\ rec.state \in {"pending", "detected"}
        /\ rec.auto_required = (rec.buyback_budget # None)
        /\ ValidBudget(rec.buyback_budget)

(* The record r is what the replay of the receipts' extrinsics ts makes of  *)
(* them, and its steps were taken in order.                                 *)
Kept(r, cfg, ts) ==
    LET a == ReplayAll(r, cfg, ts) IN
    /\ Reproduces(r, cfg, a)
    /\ a.post_sweep => a.consolidated > 0 \/ a.dust \/ a.buyback # None
    /\ r.consolidated <= Len(r.swept_positions)
    /\ r.state \in {"pending", "detected"} => Pristine(r) /\ r.txs = <<>>
    /\ Stage(r) \in {"funded", "swept"} => r.txs # <<>>
    /\ r.dust_returned \/ r.buyback # None => ~Moving(r, cfg)
    /\ r.buyback # None => ~Returning(r, cfg)

\* As long as every move took what was swept.
KeptIf(r, cfg, ts) == MovedAsSwept(r, ts) => Kept(r, cfg, ts)

CleanInv == trouble = 0 /\ ~Resumed => KeptIf(rec, setting, Receipted)

IInv == /\ TypeOK /\ ChainInv /\ ExpiryInv /\ ResumedInv /\ MigratedInv
        /\ CleanInv

-----------------------------------------------------------------------------
(* What is due, and what booking it makes of a record. *)
LEMMA SettingsType ==
    ASSUME NEW cfg \in Settings
    PROVE  cfg \in Configs /\ ValidBudget(cfg.budget)
  BY RecoveryAssumption DEF Configs

DueFund(r, signer, call) ==
    /\ r.state = "detected" /\ signer = "treasury"
    /\ call = Call("TransferTao", None, 1)

DueSweep(r, signer, call) ==
    /\ r.state = "funded" /\ signer = "deposit"
    /\ \E h \in Hotkeys \ Swept(r) : call = Call("TransferStake", h, 1)

DueMove(r, cfg, signer, call) ==
    /\ r.state = "swept" /\ Moving(r, cfg) /\ signer = "treasury"
    /\ \E live \in Lives :
         call = Call("MoveStake", r.swept_positions[r.consolidated + 1][1], live)

DueReturn(r, cfg, signer, call) ==
    /\ r.state = "swept" /\ Returning(r, cfg) /\ signer = "deposit"
    /\ call = Call("TransferAll", None, 0)

DueBuy(r, cfg, signer, call) ==
    /\ r.state = "swept" /\ Buying(r, cfg) /\ signer = "treasury"
    /\ call = Call("AddStakeLimit", None, cfg.budget.amount)

DueDestroy(r, cfg, signer, call) ==
    /\ r.state = "swept" /\ Destroying(r, cfg) /\ signer = "treasury"
    /\ call = Call(cfg.budget.destroy, None, r.buyback.bought)

\* What is due is one of six things.
LEMMA DueCases ==
    ASSUME NEW r \in Records, NEW cfg \in Configs, NEW signer, NEW call,
           <<signer, call>> \in Due(r, cfg)
    PROVE  \/ DueFund(r, signer, call) \/ DueSweep(r, signer, call)
           \/ DueMove(r, cfg, signer, call) \/ DueReturn(r, cfg, signer, call)
           \/ DueBuy(r, cfg, signer, call) \/ DueDestroy(r, cfg, signer, call)
  <1>1. CASE r.state = "detected"
    BY <1>1 DEF Due, DueFund
  <1>2. CASE r.state = "funded"
    BY <1>2 DEF Due, DueSweep
  <1>3. CASE r.state = "swept"
    <2>1. <<signer, call>> \in SweptDue(r, cfg)
      BY <1>3 DEF Due
    <2>2. CASE Moving(r, cfg)
      <3>1. ~Returning(r, cfg) /\ ~Buying(r, cfg) /\ ~Destroying(r, cfg)
        BY <2>2 DEF Returning, Buying, Destroying
      <3> QED
        BY <1>3, <2>1, <2>2, <3>1 DEF SweptDue, DueMove
    <2>3. CASE Returning(r, cfg)
      <3>1. ~Moving(r, cfg) /\ ~Buying(r, cfg) /\ ~Destroying(r, cfg)
        BY <2>3 DEF Returning, Buying, Destroying
      <3> QED
        BY <1>3, <2>1, <2>3, <3>1 DEF SweptDue, DueReturn
    <2>4. CASE Buying(r, cfg)
      <3>1. ~Moving(r, cfg) /\ ~Returning(r, cfg) /\ ~Destroying(r, cfg)
        BY <2>4 DEF Buying, Destroying
      <3> QED
        BY <1>3, <2>1, <2>4, <3>1 DEF SweptDue, DueBuy
    <2>5. CASE Destroying(r, cfg)
      <3>1. ~Moving(r, cfg) /\ ~Returning(r, cfg) /\ ~Buying(r, cfg)
        BY <2>5 DEF Buying, Destroying
      <3> QED
        BY <1>3, <2>1, <2>5, <3>1 DEF SweptDue, DueDestroy
    <2>6. CASE ~Moving(r, cfg) /\ ~Returning(r, cfg) /\ ~Buying(r, cfg) /\ ~Destroying(r, cfg)
      BY <2>1, <2>6 DEF SweptDue
    <2> QED
      BY <2>2, <2>3, <2>4, <2>5, <2>6
  <1>4. CASE r.state \notin {"detected", "funded", "swept"}
    BY <1>4 DEF Due
  <1> QED
    BY <1>1, <1>2, <1>3, <1>4

(* Everything that is due is a call of this job. *)
LEMMA DueType ==
    ASSUME NEW r \in Records, NEW cfg \in Configs, NEW signer, NEW call,
           <<signer, call>> \in Due(r, cfg)
    PROVE  /\ signer \in Signers /\ call \in Calls /\ call.job
           /\ call.kind # "Other"
           /\ call.kind \in {"BurnAlpha", "RecycleAlpha"} => r.buyback # None
  <1>1. CASE DueFund(r, signer, call)
    BY <1>1 DEF DueFund, Call, Calls, Kinds, Signers
  <1>2. CASE DueSweep(r, signer, call)
    BY <1>2 DEF DueSweep, Call, Calls, Kinds, Signers
  <1>3. CASE DueMove(r, cfg, signer, call)
    <2>1. r.consolidated + 1 \in 1 .. Len(r.swept_positions)
      BY <1>3 DEF DueMove, Moving, Records
    <2>2. r.swept_positions[r.consolidated + 1] \in Positions
      BY <2>1 DEF Records
    <2>3. r.swept_positions[r.consolidated + 1][1] \in Hotkeys \cup {None}
      BY <2>2 DEF Positions
    <2>4. \A live \in Lives : live \in Nat
      BY RecoveryAssumption
    <2> QED
      BY <1>3, <2>3, <2>4 DEF DueMove, Call, Calls, Kinds, Signers
  <1>4. CASE DueReturn(r, cfg, signer, call)
    BY <1>4 DEF DueReturn, Call, Calls, Kinds, Signers
  <1>5. CASE DueBuy(r, cfg, signer, call)
    <2>1. cfg.budget.amount \in Nat
      BY <1>5 DEF DueBuy, Buying, Configs, Budgets
    <2> QED
      BY <1>5, <2>1 DEF DueBuy, Call, Calls, Kinds, Signers
  <1>6. CASE DueDestroy(r, cfg, signer, call)
    <2>1. cfg.budget.destroy \in {"BurnAlpha", "RecycleAlpha"}
      BY <1>6 DEF DueDestroy, Destroying, Configs, Budgets
    <2>2. r.buyback # None /\ r.buyback.bought \in Nat
      BY <1>6 DEF DueDestroy, Destroying, Records, Buybacks
    <2> QED
      BY <1>6, <2>1, <2>2 DEF DueDestroy, Call, Calls, Kinds, Signers
  <1> QED
    BY <1>1, <1>2, <1>3, <1>4, <1>5, <1>6, DueCases

\* The record with one more receipt.
Noted(r, e) == [r EXCEPT !.txs = Append(@, Receipt(e))]

\* A receipt more keeps the record a record.
LEMMA NotedType ==
    ASSUME NEW r \in Records, NEW e \in Exts
    PROVE  /\ Receipt(e) \in ReceiptSet
           /\ Append(r.txs, Receipt(e)) \in Seq(ReceiptSet)
           /\ Noted(r, e) \in Records
  <1>1. Receipt(e) \in ReceiptSet
    BY DEF Receipt, ReceiptSet, Exts, Calls
  <1>2. Append(r.txs, Receipt(e)) \in Seq(ReceiptSet)
    BY <1>1 DEF Records
  <1> QED
    BY <1>1, <1>2 DEF Noted, Records

\* A record in the stage of s, with its receipts and its policy.
SameStage(q, s) ==
    /\ q \in Records /\ q.txs = s.txs /\ q.identity = s.identity
    /\ q.auto_required = s.auto_required /\ q.detected_tao = s.detected_tao
    /\ q.failed_from = s.failed_from /\ q.state = s.state

Destroys == {"BurnAlpha", "RecycleAlpha"}

\* Booking what is due keeps the record a record.
LEMMA BookedType ==
    ASSUME NEW r \in Records, NEW e \in Exts,
           e.call.kind # "Other",
           e.call.kind \in {"BurnAlpha", "RecycleAlpha"} => r.buyback # None
    PROVE  /\ Booked(r, e) \in Records
           /\ Booked(r, e).txs = Append(r.txs, Receipt(e))
           /\ Booked(r, e).identity = r.identity
           /\ Booked(r, e).auto_required = r.auto_required
           /\ Booked(r, e).detected_tao = r.detected_tao
           /\ Booked(r, e).failed_from = r.failed_from
           /\ Booked(r, e).state \in {r.state, "funded"}
           /\ e.call.kind \notin Destroys =>
                Booked(r, e).buyback_done = r.buyback_done
           /\ e.call.kind \in Destroys => Booked(r, e).buyback_done = TRUE
  <1> USE DEF Destroys
  <1> DEFINE s == Noted(r, e)
  <1>1. s \in Records /\ s.buyback = r.buyback
    BY NotedType DEF Noted, Records
  <1>2. /\ s.txs = Append(r.txs, Receipt(e)) /\ s.identity = r.identity
        /\ s.auto_required = r.auto_required /\ s.detected_tao = r.detected_tao
        /\ s.failed_from = r.failed_from /\ s.state = r.state
        /\ s.buyback_done = r.buyback_done
    BY DEF Noted, Records
  <1>3. Booked(r, e) =
          CASE e.call.kind = "TransferTao" ->
                 [s EXCEPT !.funded_tao = e.call.amount, !.state = "funded"]
            [] e.call.kind = "TransferStake" ->
                 [s EXCEPT !.swept_positions =
                      Append(@, <<e.call.hot, e.call.amount>>)]
            [] e.call.kind = "MoveStake"   -> [s EXCEPT !.consolidated = @ + 1]
            [] e.call.kind = "TransferAll" -> [s EXCEPT !.dust_returned = TRUE]
            [] e.call.kind = "AddStakeLimit" ->
                 [s EXCEPT !.buyback = [spent |-> e.call.amount,
                                        bought |-> e.bought,
                                        stake_tx |-> e.id, destroy_tx |-> None]]
            [] OTHER -> [s EXCEPT !.buyback.destroy_tx = e.id,
                                  !.buyback_done = TRUE]
    BY DEF Booked, Noted
  <1> HIDE DEF s
  <1>4. CASE e.call.kind = "TransferTao"
    <2>1. Booked(r, e) = [s EXCEPT !.funded_tao = e.call.amount, !.state = "funded"]
      BY <1>3, <1>4
    <2>2. e.call.amount \in Nat /\ "funded" \in States
      BY DEF Exts, Calls, States
    <2>3. [s EXCEPT !.funded_tao = e.call.amount, !.state = "funded"] \in Records
      BY <1>1, <2>2 DEF Records
    <2> DEFINE q == [s EXCEPT !.funded_tao = e.call.amount, !.state = "funded"]
    <2>4. /\ q.txs = s.txs /\ q.identity = s.identity
          /\ q.auto_required = s.auto_required /\ q.detected_tao = s.detected_tao
          /\ q.failed_from = s.failed_from /\ q.state = "funded"
          /\ q.buyback_done = s.buyback_done
      BY <1>1 DEF Records
    <2> HIDE DEF q
    <2> QED
      BY <1>2, <1>4, <2>1, <2>3, <2>4 DEF q
  <1>5. CASE e.call.kind = "TransferStake"
    <2>1. Booked(r, e) = [s EXCEPT !.swept_positions =
                            Append(@, <<e.call.hot, e.call.amount>>)]
      BY <1>3, <1>5
    <2>2. Append(s.swept_positions, <<e.call.hot, e.call.amount>>) \in Seq(Positions)
      BY <1>1 DEF Records, Exts, Calls, Positions
    <2>3. ASSUME NEW x \in Seq(Positions)
          PROVE  /\ SameStage([s EXCEPT !.swept_positions = x], s)
                 /\ [s EXCEPT !.swept_positions = x].buyback_done = s.buyback_done
      BY <1>1 DEF Records, SameStage
    <2>4. SameStage(Booked(r, e), s) /\ Booked(r, e).buyback_done = s.buyback_done
      BY <2>1, <2>2, <2>3
    <2> QED
      BY <1>2, <1>5, <2>4 DEF SameStage
  <1>6. CASE e.call.kind = "MoveStake"
    <2>1. Booked(r, e) = [s EXCEPT !.consolidated = @ + 1]
      BY <1>3, <1>6
    <2>2. s.consolidated + 1 \in Nat
      BY <1>1 DEF Records
    <2>3. ASSUME NEW x \in Nat
          PROVE  /\ SameStage([s EXCEPT !.consolidated = x], s)
                 /\ [s EXCEPT !.consolidated = x].buyback_done = s.buyback_done
      BY <1>1 DEF Records, SameStage
    <2>4. SameStage(Booked(r, e), s) /\ Booked(r, e).buyback_done = s.buyback_done
      BY <2>1, <2>2, <2>3
    <2> QED
      BY <1>2, <1>6, <2>4 DEF SameStage
  <1>7. CASE e.call.kind = "TransferAll"
    <2>1. Booked(r, e) = [s EXCEPT !.dust_returned = TRUE]
      BY <1>3, <1>7
    <2>2. /\ SameStage([s EXCEPT !.dust_returned = TRUE], s)
          /\ [s EXCEPT !.dust_returned = TRUE].buyback_done = s.buyback_done
      BY <1>1 DEF Records, SameStage
    <2>3. SameStage(Booked(r, e), s) /\ Booked(r, e).buyback_done = s.buyback_done
      BY <2>1, <2>2
    <2> QED
      BY <1>2, <1>7, <2>3 DEF SameStage
  <1>8. CASE e.call.kind = "AddStakeLimit"
    <2> DEFINE bb == [spent |-> e.call.amount, bought |-> e.bought,
                      stake_tx |-> e.id, destroy_tx |-> None]
    <2>1. Booked(r, e) = [s EXCEPT !.buyback = bb]
      BY <1>3, <1>8
    <2>2. bb \in Buybacks
      BY DEF Exts, Calls, Buybacks
    <2> HIDE DEF bb
    <2>3. /\ SameStage([s EXCEPT !.buyback = bb], s)
          /\ [s EXCEPT !.buyback = bb].buyback_done = s.buyback_done
      BY <1>1, <2>2 DEF Records, SameStage
    <2>4. SameStage(Booked(r, e), s) /\ Booked(r, e).buyback_done = s.buyback_done
      BY <2>1, <2>3
    <2> QED
      BY <1>2, <1>8, <2>4 DEF SameStage
  <1>9. CASE e.call.kind \in {"BurnAlpha", "RecycleAlpha"}
    <2> DEFINE x == [s.buyback EXCEPT !.destroy_tx = e.id]
    <2>1. Booked(r, e) = [s EXCEPT !.buyback = x, !.buyback_done = TRUE]
      BY <1>3, <1>9
    <2>2. x \in Buybacks
      BY <1>1, <1>9 DEF Records, Buybacks, Exts
    <2> HIDE DEF x
    <2> DEFINE q == [s EXCEPT !.buyback = x, !.buyback_done = TRUE]
    <2>3. SameStage(q, s) /\ q.buyback_done = TRUE
      BY <1>1, <2>2 DEF Records, SameStage
    <2>4. SameStage(Booked(r, e), s) /\ Booked(r, e).buyback_done = TRUE
      BY <2>1, <2>3
    <2> QED
      BY <1>2, <1>9, <2>4 DEF SameStage
  <1> QED
    BY <1>4, <1>5, <1>6, <1>7, <1>8, <1>9 DEF Exts, Calls, Kinds

(* What booking a call changes of the record's account. *)
LEMMA BookedFund ==
    ASSUME NEW r \in Records, NEW e \in Exts, NEW q, q = Booked(r, e),
           e.call.kind = "TransferTao"
    PROVE  /\ q.state = "funded"
           /\ q.funded_tao = e.call.amount
           /\ q.swept_positions = r.swept_positions
           /\ q.consolidated = r.consolidated
           /\ q.dust_returned = r.dust_returned
           /\ q.buyback = r.buyback
  BY DEF Booked, Records

LEMMA BookedSweep ==
    ASSUME NEW r \in Records, NEW e \in Exts, NEW q, q = Booked(r, e),
           e.call.kind = "TransferStake"
    PROVE  /\ q.state = r.state
           /\ q.funded_tao = r.funded_tao
           /\ q.swept_positions = Append(r.swept_positions, Position(e))
           /\ q.consolidated = r.consolidated
           /\ q.dust_returned = r.dust_returned
           /\ q.buyback = r.buyback
  BY DEF Booked, Records, Position

LEMMA BookedMove ==
    ASSUME NEW r \in Records, NEW e \in Exts, NEW q, q = Booked(r, e),
           e.call.kind = "MoveStake"
    PROVE  /\ q.state = r.state
           /\ q.funded_tao = r.funded_tao
           /\ q.swept_positions = r.swept_positions
           /\ q.consolidated = r.consolidated + 1
           /\ q.dust_returned = r.dust_returned
           /\ q.buyback = r.buyback
  BY DEF Booked, Records

LEMMA BookedReturn ==
    ASSUME NEW r \in Records, NEW e \in Exts, NEW q, q = Booked(r, e),
           e.call.kind = "TransferAll"
    PROVE  /\ q.state = r.state
           /\ q.funded_tao = r.funded_tao
           /\ q.swept_positions = r.swept_positions
           /\ q.consolidated = r.consolidated
           /\ q.dust_returned = TRUE
           /\ q.buyback = r.buyback
  BY DEF Booked, Records

LEMMA BookedBuy ==
    ASSUME NEW r \in Records, NEW e \in Exts, NEW q, q = Booked(r, e),
           e.call.kind = "AddStakeLimit"
    PROVE  /\ q.state = r.state
           /\ q.funded_tao = r.funded_tao
           /\ q.swept_positions = r.swept_positions
           /\ q.consolidated = r.consolidated
           /\ q.dust_returned = r.dust_returned
           /\ q.buyback = [spent |-> e.call.amount, bought |-> e.bought,
                            stake_tx |-> e.id, destroy_tx |-> None]
  BY DEF Booked, Records

LEMMA BookedDestroy ==
    ASSUME NEW r \in Records, NEW e \in Exts, NEW q, q = Booked(r, e),
           e.call.kind \in {"BurnAlpha", "RecycleAlpha"}
    PROVE  /\ q.state = r.state
           /\ q.funded_tao = r.funded_tao
           /\ q.swept_positions = r.swept_positions
           /\ q.consolidated = r.consolidated
           /\ q.dust_returned = r.dust_returned
           /\ q.buyback = [r.buyback EXCEPT !.destroy_tx = e.id]
  BY DEF Booked, Records

\* The account of a record is an account.
LEMMA AccountType ==
    ASSUME NEW r \in Records
    PROVE  /\ Ledger(Account(r))
           /\ Account(r).funded = r.funded_tao
           /\ Account(r).positions = r.swept_positions
           /\ Account(r).consolidated = r.consolidated
           /\ Account(r).dust = r.dust_returned
           /\ Account(r).buyback = r.buyback
  BY DEF Account, Ledger, Records

(* What is due, sent once and booked, keeps the account good. *)
LEMMA BookGood ==
    ASSUME NEW r \in Records, NEW cfg \in Configs, NEW es \in Seq(Exts),
           NEW e \in Exts, <<e.signer, e.call>> \in Due(r, cfg), e.event = "ok",
           Good(Account(r), es), r.state = "detected" => r.funded_tao = 0
    PROVE  Good(Account(Booked(r, e)), Append(es, e))
  <1> DEFINE a == Account(r)
             b == Account(Booked(r, e))
  <1>1. /\ Ledger(a) /\ a.funded = r.funded_tao /\ a.positions = r.swept_positions
        /\ a.consolidated = r.consolidated /\ a.dust = r.dust_returned
        /\ a.buyback = r.buyback /\ Good(a, es)
    BY AccountType
  <1>2. e.call.job /\ e.event # "failed"
    BY DueType
  <1>3. CASE DueFund(r, e.signer, e.call)
    <2>1. e.call.kind = "TransferTao" /\ e.call.amount = 1 /\ r.funded_tao = 0
      BY <1>3 DEF DueFund, Call
    <2>2. Counts(e, "TransferTao")
      BY <1>2, <2>1 DEF Counts
    <2>3. /\ b.funded # 0 /\ b.positions = a.positions
          /\ b.consolidated = a.consolidated
          /\ b.dust = a.dust /\ b.buyback = a.buyback
      BY <2>1, BookedFund DEF Account
    <2> HIDE DEF a, b
    <2> QED
      BY <1>1, <2>1, <2>2, <2>3, GoodFund DEF b
  <1>4. CASE DueSweep(r, e.signer, e.call)
    <2>1. PICK h \in Hotkeys \ Swept(r) : e.call = Call("TransferStake", h, 1)
      BY <1>4 DEF DueSweep
    <2>2. e.call.kind = "TransferStake" /\ e.call.hot = h
      BY <2>1 DEF Call
    <2>3. Counts(e, "TransferStake")
      BY <1>2, <2>2 DEF Counts
    <2>4. \A i \in DOMAIN a.positions : a.positions[i][1] # e.call.hot
      BY <1>1, <2>2 DEF Swept
    <2>5. /\ b.funded = a.funded /\ b.positions = Append(a.positions, Position(e))
          /\ b.consolidated = a.consolidated
          /\ b.dust = a.dust /\ b.buyback = a.buyback
      BY <2>2, BookedSweep DEF Account
    <2> HIDE DEF a, b
    <2> QED
      BY <1>1, <2>3, <2>4, <2>5, GoodSweep DEF b
  <1>5. CASE DueMove(r, cfg, e.signer, e.call)
    <2> DEFINE p == r.swept_positions[r.consolidated + 1]
    <2>1. e.call.kind = "MoveStake" /\ e.call.hot = p[1]
      BY <1>5 DEF DueMove, Call
    <2>2. r.consolidated < Len(r.swept_positions)
      BY <1>5 DEF DueMove, Moving
    <2> HIDE DEF p
    <2>6. Counts(e, "MoveStake")
      BY <1>2, <2>1 DEF Counts
    <2>7. /\ b.funded = a.funded /\ b.positions = a.positions
          /\ b.consolidated = a.consolidated + 1
          /\ b.dust = a.dust /\ b.buyback = a.buyback
      BY <2>1, BookedMove DEF Account
    <2>8. /\ a.consolidated < Len(a.positions)
          /\ a.positions[a.consolidated + 1][1] = e.call.hot
      BY <1>1, <2>1, <2>2 DEF p
    <2> HIDE DEF a, b
    <2> QED
      BY <1>1, <2>6, <2>7, <2>8, GoodMove DEF b
  <1>6. CASE DueReturn(r, cfg, e.signer, e.call)
    <2>1. e.call.kind = "TransferAll" /\ ~r.dust_returned
      BY <1>6 DEF DueReturn, Call, Returning
    <2>2. Counts(e, "TransferAll")
      BY <1>2, <2>1 DEF Counts
    <2>3. /\ b.funded = a.funded /\ b.positions = a.positions
          /\ b.consolidated = a.consolidated /\ b.dust = TRUE /\ b.buyback = a.buyback
      <3> DEFINE q == Booked(r, e)
      <3>1. /\ q.funded_tao = r.funded_tao /\ q.swept_positions = r.swept_positions
            /\ q.consolidated = r.consolidated /\ q.dust_returned = TRUE
            /\ q.buyback = r.buyback
        <4> HIDE DEF a, b
        <4>1. e.call.kind = "TransferAll"
          BY <2>1
        <4> QED
          BY <4>1, BookedReturn
      <3> HIDE DEF q
      <3>2. Account(q).dust = TRUE
        BY <3>1 DEF Account
      <3> QED
        BY <3>1, <3>2 DEF Account, q
    <2> HIDE DEF a, b
    <2> QED
      BY <1>1, <2>1, <2>2, <2>3, GoodReturn DEF b
  <1>7. CASE DueBuy(r, cfg, e.signer, e.call)
    <2> DEFINE bb == [spent |-> e.call.amount, bought |-> e.bought,
                      stake_tx |-> e.id, destroy_tx |-> None]
    <2>1. e.call.kind = "AddStakeLimit" /\ r.buyback = None
      BY <1>7 DEF DueBuy, Call, Buying
    <2>2. Counts(e, "AddStakeLimit")
      BY <1>2, <2>1 DEF Counts
    <2>3. bb \in Buybacks /\ bb.stake_tx = e.id /\ bb.destroy_tx = None
      BY DEF Exts, Calls, Buybacks
    <2>4. bb # None
      BY <2>3, NoneAssumption
    <2>5. /\ b.funded = a.funded /\ b.positions = a.positions
          /\ b.consolidated = a.consolidated /\ b.dust = a.dust
          /\ b.buyback = bb
      BY <2>1, BookedBuy DEF Account
    <2> HIDE DEF a, b, bb
    <2> QED
      BY <1>1, <2>1, <2>2, <2>3, <2>4, <2>5, GoodBuy DEF b
  <1>8. CASE DueDestroy(r, cfg, e.signer, e.call)
    <2>1. /\ e.call.kind \in {"BurnAlpha", "RecycleAlpha"} /\ r.buyback # None
          /\ r.buyback.destroy_tx = None
      BY <1>8 DEF DueDestroy, Call, Destroying, Configs, Budgets
    <2>2. Counts(e, "BurnAlpha") \/ Counts(e, "RecycleAlpha")
      BY <1>2, <2>1 DEF Counts
    <2>3. /\ b.funded = a.funded /\ b.positions = a.positions
          /\ b.consolidated = a.consolidated /\ b.dust = a.dust
          /\ b.buyback = [a.buyback EXCEPT !.destroy_tx = e.id]
      BY <2>1, BookedDestroy DEF Account
    <2> HIDE DEF a, b
    <2> QED
      BY <1>1, <2>1, <2>2, <2>3, GoodDestroy DEF b
  <1> QED
    BY <1>3, <1>4, <1>5, <1>6, <1>7, <1>8, DueCases

-----------------------------------------------------------------------------
(* Without trouble the record is what the replay makes of its receipts. *)
Agrees(r, a) ==
    /\ a.ok /\ a.funded = r.funded_tao /\ a.positions = r.swept_positions
    /\ a.consolidated = r.consolidated /\ a.dust = r.dust_returned
    /\ a.buyback = r.buyback

\* A record that agrees with the replay after one more transaction.
LEMMA KeptStep ==
    ASSUME NEW q, NEW cfg, NEW ts, NEW b, ReplayAll(q, cfg, ts) = b,
           Agrees(q, b), q.txs # <<>>, q.state \in {"funded", "swept"},
           q.buyback_done => /\ q.state = "swept" /\ b.buyback # None
                             /\ b.buyback.destroy_tx # None,
           q.state = "funded" =>
               q.consolidated = 0 /\ ~q.dust_returned /\ q.buyback = None,
           b.post_sweep => b.consolidated > 0 \/ b.dust \/ b.buyback # None,
           q.consolidated <= Len(q.swept_positions),
           q.dust_returned \/ q.buyback # None => ~Moving(q, cfg),
           q.buyback # None => ~Returning(q, cfg)
    PROVE  Kept(q, cfg, ts)
  BY DEF Kept, Agrees, Reproduces, Stage

\* The replay accepts what the old engine books, step by step.
LEMMA KeptBook ==
    ASSUME NEW r \in Records, NEW cfg \in Configs, NEW ts \in Seq(Exts),
           NEW e \in Exts, <<e.signer, e.call>> \in Due(r, cfg), e.event = "ok",
           e.bought = IF e.call.kind = "AddStakeLimit" THEN 1 ELSE 0,
           Kept(r, cfg, ts), MovedAsSwept(r, Append(ts, e))
    PROVE  Kept(Booked(r, e), cfg, Append(ts, e))
  <1> DEFINE a == ReplayAll(r, cfg, ts)
             b == ReplayStep(r, cfg, a, e)
             q == Booked(r, e)
             us == Append(ts, e)
  <1>1. a \in Accounts /\ us \in Seq(Exts)
    BY ReplayType
  <1>2. /\ e.call.job /\ e.call \in Calls /\ e.call.kind # "Other"
        /\ e.call.kind \in {"BurnAlpha", "RecycleAlpha"} => r.buyback # None
    BY DueType
  <1>3. /\ q \in Records /\ q.txs = Append(r.txs, Receipt(e))
        /\ q.detected_tao = r.detected_tao
    BY <1>2, BookedType
  <1>4. q.txs # <<>>
    <2>1. r.txs \in Seq(ReceiptSet) /\ Receipt(e) \in ReceiptSet
      BY NotedType DEF Records
    <2> DEFINE rs == r.txs
               x == Receipt(e)
    <2> HIDE DEF q, rs, x
    <2>2. Append(rs, x) # <<>>
      BY <2>1 DEF rs, x
    <2> QED
      BY <1>3, <2>2 DEF rs, x
  <1>5. ReplayAll(q, cfg, us) = b
    <2>1. ReplayAll(q, cfg, us) = ReplayAll(r, cfg, us)
      <3> HIDE DEF q, us
      <3> QED
        BY <1>1, <1>3, ReplaySame
    <2>2. ReplayAll(r, cfg, us) = b
      BY ReplayAppend
    <2> QED
      BY <2>1, <2>2
  <1>6. /\ Agrees(r, a)
        /\ r.state = "funded" =>
             a.consolidated = 0 /\ ~a.dust /\ a.buyback = None /\ ~r.buyback_done
        /\ r.buyback_done => a.buyback # None
    BY DEF Kept, Reproduces, Agrees, Stage
  <1>8. e.call.kind \notin Destroys => q.buyback_done = r.buyback_done
    BY <1>2, BookedType
  <1>7. /\ a.post_sweep => a.consolidated > 0 \/ a.dust \/ a.buyback # None
        /\ r.consolidated <= Len(r.swept_positions)
        /\ r.state = "detected" => Pristine(r)
        /\ r.dust_returned \/ r.buyback # None => ~Moving(r, cfg)
        /\ r.buyback # None => ~Returning(r, cfg)
    BY DEF Kept
  <1> HIDE DEF a, us
  <1>10. CASE DueFund(r, e.signer, e.call)
    <2>1. /\ e.call.kind = "TransferTao" /\ e.call.amount = 1
          /\ e.signer = "treasury" /\ r.state = "detected"
      BY <1>10 DEF DueFund, Call
    <2>2. /\ r.funded_tao = 0 /\ r.swept_positions = <<>> /\ r.consolidated = 0
          /\ ~r.dust_returned /\ r.buyback = None /\ ~r.buyback_done
      BY <1>7, <2>1 DEF Pristine
    <2>3. b = [a EXCEPT !.funded = 1]
      BY <1>2, <1>6, <2>1, <2>2 DEF ReplayStep, ReplayFund, Accept, Agrees
    <2>4. /\ b.ok = a.ok /\ b.funded = 1 /\ b.positions = a.positions
          /\ b.consolidated = a.consolidated /\ b.dust = a.dust
          /\ b.buyback = a.buyback /\ b.post_sweep = a.post_sweep
      BY <1>1, <2>3 DEF Accounts
    <2>5. /\ q.state = "funded" /\ q.funded_tao = 1
          /\ q.swept_positions = r.swept_positions
          /\ q.consolidated = r.consolidated
          /\ q.dust_returned = r.dust_returned /\ q.buyback = r.buyback
      BY <2>1, BookedFund
    <2> HIDE DEF b, q
    <2>6. Agrees(q, b)
      BY <1>6, <2>4, <2>5 DEF Agrees
    <2>8. ~q.buyback_done
      BY <1>8, <2>1, <2>2 DEF Destroys
    <2>7. Kept(q, cfg, us)
      BY <1>3, <1>4, <1>5, <1>6, <1>7, <2>2, <2>4, <2>5, <2>6, <2>8, KeptStep
    <2> QED
      BY <2>7 DEF q, us
  <1>11. CASE DueSweep(r, e.signer, e.call)
    <2>1. PICK h \in Hotkeys \ Swept(r) : e.call = Call("TransferStake", h, 1)
      BY <1>11 DEF DueSweep
    <2>2. /\ e.call.kind = "TransferStake" /\ e.call.amount = 1 /\ e.call.hot = h
          /\ e.signer = "deposit" /\ r.state = "funded"
      BY <1>11, <2>1 DEF DueSweep, Call
    <2>3. \A i \in DOMAIN a.positions : a.positions[i][1] # e.call.hot
      BY <1>6, <2>2 DEF Agrees, Swept
    <2>4. /\ a.consolidated = 0 /\ ~a.dust /\ a.buyback = None
          /\ ~r.buyback_done /\ ~a.post_sweep /\ a.ok
      BY <1>6, <1>7, <2>2 DEF Agrees
    <2>5. b = [a EXCEPT !.positions = Append(@, <<e.call.hot, e.call.amount>>)]
      BY <1>2, <2>2, <2>3, <2>4 DEF ReplayStep, ReplaySweep, Accept
    <2>6. /\ b.ok = a.ok /\ b.funded = a.funded
          /\ b.positions = Append(a.positions, Position(e))
          /\ b.consolidated = a.consolidated /\ b.dust = a.dust
          /\ b.buyback = a.buyback /\ b.post_sweep = a.post_sweep
      BY <1>1, <2>5 DEF Accounts, Position
    <2>7. /\ q.state = "funded" /\ q.funded_tao = r.funded_tao
          /\ q.swept_positions = Append(r.swept_positions, Position(e))
          /\ q.consolidated = r.consolidated
          /\ q.dust_returned = r.dust_returned /\ q.buyback = r.buyback
      BY <2>2, BookedSweep
    <2> HIDE DEF b, q
    <2>8. Agrees(q, b)
      BY <1>6, <2>6, <2>7 DEF Agrees
    <2>9. /\ q.consolidated = 0 /\ ~q.dust_returned /\ q.buyback = None
          /\ ~q.buyback_done /\ ~b.post_sweep
      BY <1>8, <1>6, <2>2, <2>4, <2>6, <2>7 DEF Agrees, Destroys
    <2>10. q.consolidated <= Len(q.swept_positions)
      BY <1>3, <2>9 DEF Records
    <2>11. Kept(q, cfg, us)
      BY <1>4, <1>5, <2>7, <2>8, <2>9, <2>10, KeptStep
    <2> QED
      BY <2>11 DEF q, us
  <1>12. CASE DueMove(r, cfg, e.signer, e.call)
    <2> DEFINE p == r.swept_positions[r.consolidated + 1]
    <2>1. /\ e.call.kind = "MoveStake" /\ e.call.hot = p[1]
          /\ e.signer = "treasury" /\ r.state = "swept" /\ Moving(r, cfg)
      BY <1>12 DEF DueMove, Call
    <2>2. r.consolidated < Len(r.swept_positions) /\ cfg.consolidate
      BY <2>1 DEF Moving
    <2>3. r.consolidated + 1 \in 1 .. Len(r.swept_positions)
      BY <2>2 DEF Records
    <2>4. p \in Positions
      BY <2>3 DEF Records
    <2> HIDE DEF p
    <2>13. e.call.amount = p[2]
      <3>1. Len(us) \in DOMAIN us /\ us[Len(us)] = e
        BY DEF us
      <3>2. MovedAsSwept(r, us)
        BY DEF us
      <3>3. r.consolidated + 1 \in DOMAIN r.swept_positions
        BY <2>3 DEF Records
      <3> QED
        BY <2>1, <3>1, <3>2, <3>3 DEF MovedAsSwept, p
    <2>5. <<e.call.hot, e.call.amount>> = p
      BY <2>1, <2>4, <2>13 DEF Positions
    <2>6. ~r.dust_returned /\ r.buyback = None /\ ~r.buyback_done
      BY <1>6, <1>7, <2>1 DEF Agrees
    <2>7. b = [a EXCEPT !.post_sweep = TRUE, !.consolidated = @ + 1]
      BY <1>2, <1>6, <2>1, <2>2, <2>5, <2>6
         DEF ReplayStep, ReplayMove, Accept, Agrees, p
    <2>8. /\ b.ok = a.ok /\ b.funded = a.funded /\ b.positions = a.positions
          /\ b.consolidated = a.consolidated + 1 /\ b.dust = a.dust
          /\ b.buyback = a.buyback
      BY <1>1, <2>7 DEF Accounts
    <2>9. /\ q.state = "swept" /\ q.funded_tao = r.funded_tao
          /\ q.swept_positions = r.swept_positions
          /\ q.consolidated = r.consolidated + 1
          /\ q.dust_returned = r.dust_returned /\ q.buyback = r.buyback
      BY <2>1, BookedMove
    <2> HIDE DEF b, q
    <2>10. Agrees(q, b)
      BY <1>6, <2>8, <2>9 DEF Agrees
    <2>11. b.consolidated > 0 /\ q.consolidated <= Len(q.swept_positions)
      BY <1>1, <2>3, <2>8, <2>9 DEF Accounts
    <2>14. ~q.buyback_done
      BY <1>8, <2>1, <2>6 DEF Destroys
    <2>12. Kept(q, cfg, us)
      BY <1>3, <1>4, <1>5, <2>6, <2>9, <2>10, <2>11, <2>14, KeptStep
    <2> QED
      BY <2>12 DEF q, us
  <1>13. CASE DueReturn(r, cfg, e.signer, e.call)
    <2>1. /\ e.call.kind = "TransferAll" /\ e.signer = "deposit"
          /\ r.state = "swept" /\ Returning(r, cfg)
      BY <1>13 DEF DueReturn, Call
    <2>2. ~Moving(r, cfg) /\ DustExpected(r, cfg) /\ ~r.dust_returned
      BY <2>1 DEF Returning
    <2>3. r.buyback = None /\ ~r.buyback_done
      BY <1>6, <1>7, <2>1 DEF Agrees
    <2>4. Consolidated(a, cfg)
      BY <1>6, <1>7, <2>2 DEF Moving, Consolidated, Agrees, Records
    <2>5. b = [a EXCEPT !.post_sweep = TRUE, !.dust = TRUE]
      BY <1>2, <1>6, <2>1, <2>2, <2>3, <2>4
         DEF ReplayStep, ReplayDust, Accept, Agrees
    <2>6. /\ b.ok = a.ok /\ b.funded = a.funded /\ b.positions = a.positions
          /\ b.consolidated = a.consolidated /\ b.dust = TRUE
          /\ b.buyback = a.buyback
      BY <1>1, <2>5 DEF Accounts
    <2>7. /\ q.state = "swept" /\ q.funded_tao = r.funded_tao
          /\ q.swept_positions = r.swept_positions
          /\ q.consolidated = r.consolidated
          /\ q.dust_returned = TRUE /\ q.buyback = r.buyback
      BY <2>1, BookedReturn
    <2> HIDE DEF b, q
    <2>9. Agrees(q, b)
      BY <1>6, <2>6, <2>7 DEF Agrees
    <2>10. ~Moving(q, cfg)
      BY <2>2, <2>7 DEF Moving
    <2>12. ~q.buyback_done
      BY <1>8, <2>1, <2>3 DEF Destroys
    <2>11. Kept(q, cfg, us)
      BY <1>3, <1>4, <1>5, <1>7, <2>3, <2>6, <2>7, <2>9, <2>10, <2>12, KeptStep
    <2> QED
      BY <2>11 DEF q, us
  <1>14. CASE DueBuy(r, cfg, e.signer, e.call)
    <2> DEFINE bb == [spent |-> e.call.amount, bought |-> e.bought,
                      stake_tx |-> e.id, destroy_tx |-> None]
    <2>1. /\ e.call.kind = "AddStakeLimit" /\ e.signer = "treasury"
          /\ e.call.amount = cfg.budget.amount
          /\ r.state = "swept" /\ Buying(r, cfg)
      BY <1>14 DEF DueBuy, Call
    <2>2. /\ ~Moving(r, cfg) /\ ~Returning(r, cfg) /\ cfg.budget # None
          /\ r.buyback = None /\ ~r.buyback_done
      BY <1>6, <2>1 DEF Buying, Agrees
    <2>3. Consolidated(a, cfg)
      BY <1>6, <1>7, <2>2 DEF Moving, Consolidated, Agrees, Records
    <2>4. DustExpected(r, cfg) => a.dust
      BY <1>6, <2>2 DEF Returning, Agrees
    <2>5. e.bought > 0
      BY <2>1
    <2>6. b = [a EXCEPT !.post_sweep = TRUE, !.buyback = bb]
      BY <1>2, <1>6, <2>1, <2>2, <2>3, <2>4, <2>5
         DEF ReplayStep, ReplayBuy, Accept, Agrees
    <2>7. bb \in Buybacks
      BY <1>2 DEF Exts, Calls, Buybacks
    <2>8. bb # None
      BY <2>7, NoneAssumption
    <2>9. /\ q.state = "swept" /\ q.funded_tao = r.funded_tao
          /\ q.swept_positions = r.swept_positions
          /\ q.consolidated = r.consolidated
          /\ q.dust_returned = r.dust_returned /\ q.buyback = bb
      BY <2>1, BookedBuy
    <2> HIDE DEF bb
    <2>10. /\ b.ok = a.ok /\ b.funded = a.funded /\ b.positions = a.positions
           /\ b.consolidated = a.consolidated /\ b.dust = a.dust
           /\ b.buyback = bb
      BY <1>1, <2>6 DEF Accounts
    <2> HIDE DEF b, q
    <2>11. Agrees(q, b)
      BY <1>6, <2>9, <2>10 DEF Agrees
    <2>12. ~Moving(q, cfg) /\ ~Returning(q, cfg)
      BY <1>3, <2>2, <2>9 DEF Moving, Returning, DustExpected
    <2>14. ~q.buyback_done
      BY <1>8, <2>1, <2>2 DEF Destroys
    <2>13. Kept(q, cfg, us)
      BY <1>3, <1>4, <1>5, <1>7, <2>2, <2>8, <2>9, <2>10, <2>11, <2>12, <2>14,
         KeptStep
    <2> QED
      BY <2>13 DEF q, us
  <1>15. CASE DueDestroy(r, cfg, e.signer, e.call)
    <2>1. /\ e.call.kind = cfg.budget.destroy /\ e.signer = "treasury"
          /\ e.call.amount = r.buyback.bought
          /\ r.state = "swept" /\ Destroying(r, cfg)
      BY <1>15 DEF DueDestroy, Call
    <2>2. /\ ~Moving(r, cfg) /\ ~Returning(r, cfg) /\ cfg.budget # None
          /\ r.buyback # None /\ ~r.buyback_done
          /\ r.buyback.destroy_tx = None
          /\ cfg.budget.destroy # "Keep"
      BY <2>1 DEF Destroying
    <2>3. e.call.kind \in {"BurnAlpha", "RecycleAlpha"}
      BY <2>1, <2>2 DEF Configs, Budgets
    <2>4. b = [a EXCEPT !.buyback.destroy_tx = e.id]
      BY <1>2, <1>6, <2>1, <2>2, <2>3
         DEF ReplayStep, ReplayDestroy, Accept, Agrees
    <2>5. /\ b.ok = a.ok /\ b.funded = a.funded /\ b.positions = a.positions
          /\ b.consolidated = a.consolidated /\ b.dust = a.dust
          /\ b.buyback = [a.buyback EXCEPT !.destroy_tx = e.id]
      BY <1>1, <2>4 DEF Accounts
    <2>6. /\ q.state = "swept" /\ q.funded_tao = r.funded_tao
          /\ q.swept_positions = r.swept_positions
          /\ q.consolidated = r.consolidated
          /\ q.dust_returned = r.dust_returned
          /\ q.buyback = [r.buyback EXCEPT !.destroy_tx = e.id]
      BY <2>1, <2>3, BookedDestroy
    <2>7. [r.buyback EXCEPT !.destroy_tx = e.id] \in Buybacks
      BY <2>2 DEF Records, Buybacks, Exts
    <2>8. q.buyback # None
      BY <2>6, <2>7, NoneAssumption
    <2>13. e.id \in Nat /\ e.id # None
      BY NoneAssumption DEF Exts
    <2>14. q.buyback.destroy_tx # None
      BY <2>2, <2>6, <2>13 DEF Records, Buybacks
    <2> HIDE DEF b, q
    <2>9. Agrees(q, b)
      BY <1>6, <2>5, <2>6 DEF Agrees
    <2>10. ~Moving(q, cfg) /\ ~Returning(q, cfg)
      BY <1>3, <2>2, <2>6 DEF Moving, Returning, DustExpected
    <2>11. b.buyback # None /\ b.buyback.destroy_tx # None
      BY <2>8, <2>9, <2>14 DEF Agrees
    <2>12. Kept(q, cfg, us)
      BY <1>3, <1>4, <1>5, <1>7, <2>2, <2>6, <2>8, <2>9, <2>10, <2>11, KeptStep
    <2> QED
      BY <2>12 DEF q, us
  <1> QED
    BY <1>10, <1>11, <1>12, <1>13, <1>14, <1>15, DueCases

\* Booking adds a position or leaves them.
LEMMA BookedPositions ==
    ASSUME NEW r \in Records, NEW e \in Exts, e.call.kind # "Other"
    PROVE  \A n \in DOMAIN r.swept_positions :
             /\ n \in DOMAIN Booked(r, e).swept_positions
             /\ Booked(r, e).swept_positions[n] = r.swept_positions[n]
  <1> DEFINE q == Booked(r, e)
  <1>1. r.swept_positions \in Seq(Positions) /\ Position(e) \in Positions
    BY DEF Records, Position, Positions, Exts, Calls
  <1>2. CASE e.call.kind = "TransferStake"
    <2>1. q.swept_positions = Append(r.swept_positions, Position(e))
      BY <1>2, BookedSweep
    <2> HIDE DEF q
    <2>2. \A n \in DOMAIN r.swept_positions :
             /\ n \in DOMAIN q.swept_positions
             /\ q.swept_positions[n] = r.swept_positions[n]
      BY <1>1, <2>1
    <2> QED
      BY <2>2 DEF q
  <1>3. CASE e.call.kind # "TransferStake"
    <2>1. q.swept_positions = r.swept_positions
      <3>1. e.call.kind \in {"TransferTao", "MoveStake", "TransferAll",
                             "AddStakeLimit", "BurnAlpha", "RecycleAlpha"}
        BY <1>3 DEF Exts, Calls, Kinds
      <3>2. CASE e.call.kind = "TransferTao"
        BY <3>2, BookedFund
      <3>3. CASE e.call.kind = "MoveStake"
        BY <3>3, BookedMove
      <3>4. CASE e.call.kind = "TransferAll"
        BY <3>4, BookedReturn
      <3>5. CASE e.call.kind = "AddStakeLimit"
        BY <3>5, BookedBuy
      <3>6. CASE e.call.kind \in {"BurnAlpha", "RecycleAlpha"}
        BY <3>6 DEF Booked, Records
      <3> QED
        BY <3>1, <3>2, <3>3, <3>4, <3>5, <3>6
    <2> QED
      BY <2>1
  <1> QED
    BY <1>2, <1>3

\* What the moves took is compared with no fewer positions after a booking.
LEMMA KeptIfBook ==
    ASSUME NEW r \in Records, NEW cfg \in Configs, NEW ts \in Seq(Exts),
           NEW e \in Exts, <<e.signer, e.call>> \in Due(r, cfg), e.event = "ok",
           e.bought = IF e.call.kind = "AddStakeLimit" THEN 1 ELSE 0,
           KeptIf(r, cfg, ts)
    PROVE  KeptIf(Booked(r, e), cfg, Append(ts, e))
  <1> DEFINE q == Booked(r, e)
             us == Append(ts, e)
  <1> SUFFICES ASSUME MovedAsSwept(q, us)
               PROVE  Kept(q, cfg, us)
    BY DEF KeptIf
  <1>1. \A n \in DOMAIN r.swept_positions :
           n \in DOMAIN q.swept_positions
             /\ q.swept_positions[n] = r.swept_positions[n]
    BY DueType, BookedPositions
  <1>2. \A i \in DOMAIN ts : i \in DOMAIN us /\ us[i] = ts[i]
    OBVIOUS
  <1> HIDE DEF q, us
  <1>3. MovedAsSwept(r, us)
    BY <1>1 DEF MovedAsSwept
  <1>4. MovedAsSwept(r, ts)
    BY <1>2, <1>3 DEF MovedAsSwept
  <1>5. Kept(r, cfg, ts)
    BY <1>4 DEF KeptIf
  <1> QED
    BY <1>3, <1>5, KeptBook DEF q, us

\* It is compared with the positions only.
LEMMA MovedSame ==
    ASSUME NEW r, NEW q, NEW ts, q.swept_positions = r.swept_positions
    PROVE  MovedAsSwept(q, ts) => MovedAsSwept(r, ts)
  BY DEF MovedAsSwept

(* A record that accounts for the same in the same or a later stage. *)
SameAccount(q, r) ==
    /\ q.funded_tao = r.funded_tao /\ q.swept_positions = r.swept_positions
    /\ q.consolidated = r.consolidated /\ q.dust_returned = r.dust_returned
    /\ q.buyback = r.buyback
    /\ q.detected_tao = r.detected_tao /\ q.txs = r.txs

\* Kept looks at the settings and at what is accounted for only.
LEMMA KeptSame ==
    ASSUME NEW r, NEW q, NEW cfg, NEW ts \in Seq(Exts), SameAccount(q, r),
           q.buyback_done = r.buyback_done,
           Stage(q) = "funded" => Stage(r) = "funded",
           Stage(q) = "swept" => Stage(r) \in {"funded", "swept"},
           q.state \in {"pending", "detected"} => r.state \in {"pending", "detected"},
           Kept(r, cfg, ts)
    PROVE  Kept(q, cfg, ts)
  <1>1. ReplayAll(q, cfg, ts) = ReplayAll(r, cfg, ts)
    BY ReplaySame DEF SameAccount
  <1>2. Moving(q, cfg) = Moving(r, cfg) /\ Returning(q, cfg) = Returning(r, cfg)
    BY DEF SameAccount, Moving, Returning, DustExpected
  <1> DEFINE a == ReplayAll(r, cfg, ts)
  <1> HIDE DEF a
  <1>3. Reproduces(r, cfg, a)
    BY DEF Kept, a
  <1>4. Reproduces(q, cfg, a)
    BY <1>3 DEF Reproduces, SameAccount
  <1>5. /\ a.post_sweep => a.consolidated > 0 \/ a.dust \/ a.buyback # None
        /\ r.consolidated <= Len(r.swept_positions)
        /\ r.state \in {"pending", "detected"} => Pristine(r) /\ r.txs = <<>>
        /\ Stage(r) \in {"funded", "swept"} => r.txs # <<>>
        /\ r.dust_returned \/ r.buyback # None => ~Moving(r, cfg)
        /\ r.buyback # None => ~Returning(r, cfg)
    BY DEF Kept, a
  <1>6. q.state \in {"pending", "detected"} => Pristine(q) /\ q.txs = <<>>
    BY <1>5 DEF Pristine, SameAccount
  <1>7. Stage(q) \in {"funded", "swept"} => q.txs # <<>>
    BY <1>5 DEF SameAccount
  <1> QED
    BY <1>1, <1>2, <1>4, <1>5, <1>6, <1>7 DEF Kept, SameAccount, a

-----------------------------------------------------------------------------
(* Steps without a transaction. *)
Ahead(q, r, from, to) == r.state = from /\ q = [r EXCEPT !.state = to]

Finished(r, cfg) ==
    /\ r.state = "swept" /\ ~Moving(r, cfg) /\ ~Returning(r, cfg)
    /\ ~Buying(r, cfg) /\ ~Destroying(r, cfg)

\* What a step without a transaction does.
LEMMA AdvanceCases ==
    ASSUME NEW r \in Records, NEW cfg \in Configs, NEW q \in Advances(r, cfg)
    PROVE  \/ Ahead(q, r, "pending", "detected")
           \/ Ahead(q, r, "detected", "funded")
           \/ Ahead(q, r, "funded", "swept")
           \/ r.state = "swept" /\ Moving(r, cfg)
                /\ q = [r EXCEPT !.consolidated = @ + 1]
           \/ r.state = "swept" /\ Returning(r, cfg)
                /\ q = [r EXCEPT !.dust_returned = TRUE]
           \/ Finished(r, cfg) /\ cfg.budget # None /\ ~r.buyback_done
                /\ q = [r EXCEPT !.buyback_done = TRUE]
           \/ Finished(r, cfg) /\ Ahead(q, r, "swept", "settled")
  <1>1. CASE r.state = "pending"
    BY <1>1 DEF Advances, Ahead
  <1>2. CASE r.state = "detected"
    BY <1>2 DEF Advances, Ahead
  <1>3. CASE r.state = "funded"
    BY <1>3 DEF Advances, Ahead
  <1>4. CASE r.state = "swept"
    <2>1. q \in SweptAdvances(r, cfg)
      BY <1>4 DEF Advances
    <2>2. CASE Moving(r, cfg)
      <3>1. ~Returning(r, cfg) /\ ~Buying(r, cfg) /\ ~Destroying(r, cfg)
        BY <2>2 DEF Returning, Buying, Destroying
      <3> QED
        BY <1>4, <2>1, <2>2, <3>1 DEF SweptAdvances
    <2>3. CASE Returning(r, cfg)
      <3>1. ~Moving(r, cfg) /\ ~Buying(r, cfg) /\ ~Destroying(r, cfg)
        BY <2>3 DEF Returning, Buying, Destroying
      <3> QED
        BY <1>4, <2>1, <2>3, <3>1 DEF SweptAdvances
    <2>4. CASE ~Moving(r, cfg) /\ ~Returning(r, cfg)
                /\ (Buying(r, cfg) \/ Destroying(r, cfg))
      BY <2>1, <2>4 DEF SweptAdvances
    <2>5. CASE Finished(r, cfg)
      <3>1. q = IF cfg.budget # None /\ ~r.buyback_done
                THEN [r EXCEPT !.buyback_done = TRUE]
                ELSE [r EXCEPT !.state = "settled"]
        BY <2>1, <2>5 DEF SweptAdvances, Finished
      <3> QED
        BY <1>4, <2>5, <3>1 DEF Ahead
    <2> QED
      BY <1>4, <2>2, <2>3, <2>4, <2>5 DEF Finished
  <1>5. CASE r.state \notin {"pending", "detected", "funded", "swept"}
    BY <1>5 DEF Advances
  <1> QED
    BY <1>1, <1>2, <1>3, <1>4, <1>5

\* Such a step keeps the record a record.
LEMMA AheadType ==
    ASSUME NEW r \in Records, NEW q, NEW from, NEW to \in States,
           Ahead(q, r, from, to)
    PROVE  /\ q \in Records /\ q.state = to /\ r.state = from
           /\ SameAccount(q, r) /\ q.buyback_done = r.buyback_done
           /\ q.identity = r.identity /\ q.auto_required = r.auto_required
  BY DEF Ahead, SameAccount, Records

LEMMA AdvanceType ==
    ASSUME NEW r \in Records, NEW cfg \in Configs, NEW q \in Advances(r, cfg)
    PROVE  /\ q \in Records /\ q.txs = r.txs /\ q.identity = r.identity
           /\ q.auto_required = r.auto_required
           /\ q.state # "failed" /\ q.state # "pending"
           /\ q.state = "detected" => r.state = "pending"
           /\ q.funded_tao = r.funded_tao
           /\ q.swept_positions = r.swept_positions
  <1>1. CASE Ahead(q, r, "pending", "detected")
    BY <1>1, AheadType DEF States, SameAccount
  <1>2. CASE Ahead(q, r, "detected", "funded")
    BY <1>2, AheadType DEF States, SameAccount
  <1>3. CASE Ahead(q, r, "funded", "swept")
    BY <1>3, AheadType DEF States, SameAccount
  <1>4. CASE r.state = "swept" /\ Moving(r, cfg)
                /\ q = [r EXCEPT !.consolidated = @ + 1]
    <2>1. r.consolidated + 1 \in Nat
      BY DEF Records
    <2> QED
      BY <1>4, <2>1 DEF Records
  <1>5. CASE r.state = "swept" /\ q = [r EXCEPT !.dust_returned = TRUE]
    BY <1>5 DEF Records
  <1>6. CASE Finished(r, cfg) /\ q = [r EXCEPT !.buyback_done = TRUE]
    BY <1>6 DEF Records, Finished
  <1>7. CASE Ahead(q, r, "swept", "settled")
    BY <1>7, AheadType DEF States, SameAccount
  <1> QED
    BY <1>1, <1>2, <1>3, <1>4, <1>5, <1>6, <1>7, AdvanceCases

\* A step without a transaction keeps the account good.
LEMMA AdvanceGood ==
    ASSUME NEW r \in Records, NEW cfg \in Configs, NEW q \in Advances(r, cfg),
           NEW es \in Seq(Exts), Good(Account(r), es)
    PROVE  Good(Account(q), es)
  <1> DEFINE a == Account(r)
             b == Account(q)
  <1>1. /\ q.funded_tao = r.funded_tao /\ q.swept_positions = r.swept_positions
        /\ q.consolidated \in r.consolidated .. Len(r.swept_positions)
        /\ r.dust_returned => q.dust_returned
        /\ q.buyback = r.buyback
    <2>1. /\ r.consolidated \in Nat /\ r.consolidated <= Len(r.swept_positions)
          /\ Len(r.swept_positions) \in Nat
      <3>1. Account(r).consolidated <= Len(Account(r).positions)
        BY DEF Good
      <3> QED
        BY <3>1 DEF Account, Records
    <2>2. ASSUME SameAccount(q, r)
          PROVE  <1>1
      BY <2>1, <2>2 DEF SameAccount
    <2>3. CASE \E from, to \in States : Ahead(q, r, from, to)
      BY <2>2, <2>3, AheadType
    <2>4. CASE Moving(r, cfg) /\ q = [r EXCEPT !.consolidated = @ + 1]
      <3>1. r.consolidated < Len(r.swept_positions)
        BY <2>4 DEF Moving
      <3>2. /\ q.funded_tao = r.funded_tao /\ q.swept_positions = r.swept_positions
            /\ q.consolidated = r.consolidated + 1
            /\ q.dust_returned = r.dust_returned /\ q.buyback = r.buyback
        BY <2>4 DEF Records
      <3> QED
        BY <2>1, <3>1, <3>2
    <2>5. CASE q = [r EXCEPT !.dust_returned = TRUE]
      BY <2>1, <2>5 DEF Records
    <2>6. CASE q = [r EXCEPT !.buyback_done = TRUE]
      BY <2>1, <2>6 DEF Records
    <2> QED
      BY <2>3, <2>4, <2>5, <2>6, AdvanceCases DEF States
  <1>2. Ledger(a) /\ Good(a, es)
    BY AccountType
  <1>3. /\ b.funded = a.funded /\ b.positions = a.positions
        /\ b.consolidated \in a.consolidated .. Len(a.positions)
        /\ a.dust => b.dust
        /\ b.buyback = a.buyback
    BY <1>1 DEF Account
  <1> HIDE DEF a, b
  <1>4. Good(b, es)
    BY <1>2, <1>3, GoodSkip
  <1> QED
    BY <1>4 DEF b

(* A step that is not counted as trouble loses nothing. *)
LEMMA KeptAdvance ==
    ASSUME NEW r \in Records, NEW cfg \in Configs, NEW q \in Advances(r, cfg),
           NEW ts \in Seq(Exts), Kept(r, cfg, ts), r.state # "detected",
           q.state # r.state \/ q.buyback_done
    PROVE  Kept(q, cfg, ts)
  <1>1. ASSUME NEW from \in States, NEW to \in States, Ahead(q, r, from, to),
               <<from, to>> \in {<<"pending", "detected">>, <<"funded", "swept">>,
                                <<"swept", "settled">>}
        PROVE  Kept(q, cfg, ts)
    <2>1. /\ q.state = to /\ r.state = from /\ SameAccount(q, r)
          /\ q.buyback_done = r.buyback_done
      BY <1>1, AheadType
    <2> QED
      BY <1>1, <2>1, KeptSame DEF Stage
  <1>11. ~Ahead(q, r, "detected", "funded")
    BY DEF Ahead
  <1>2. r.buyback_done => r.buyback # None
    BY DEF Kept, Reproduces
  <1>3. ~(Moving(r, cfg) /\ q = [r EXCEPT !.consolidated = @ + 1])
    <2> SUFFICES ASSUME Moving(r, cfg), q = [r EXCEPT !.consolidated = @ + 1]
                 PROVE  FALSE
      OBVIOUS
    <2>1. r.buyback_done
      BY DEF Records
    <2> QED
      BY <1>2, <2>1 DEF Kept
  <1>4. ~(Returning(r, cfg) /\ q = [r EXCEPT !.dust_returned = TRUE])
    <2> SUFFICES ASSUME Returning(r, cfg), q = [r EXCEPT !.dust_returned = TRUE]
                 PROVE  FALSE
      OBVIOUS
    <2>1. r.buyback_done
      BY DEF Records
    <2> QED
      BY <1>2, <2>1 DEF Kept
  <1>5. CASE Finished(r, cfg) /\ cfg.budget # None /\ ~r.buyback_done
                /\ q = [r EXCEPT !.buyback_done = TRUE]
    <2>1. SameAccount(q, r) /\ q.state = "swept" /\ r.state = "swept"
      BY <1>5 DEF SameAccount, Records, Finished
    <2>2. /\ r.buyback # None
          /\ cfg.budget.destroy = "Keep" \/ r.buyback.destroy_tx # None
      BY <1>5 DEF Finished, Buying, Destroying
    <2>3. ReplayAll(q, cfg, ts) = ReplayAll(r, cfg, ts)
      BY <2>1, ReplaySame DEF SameAccount
    <2>4. Moving(q, cfg) = Moving(r, cfg) /\ Returning(q, cfg) = Returning(r, cfg)
      BY <2>1 DEF SameAccount, Moving, Returning, DustExpected
    <2> DEFINE a == ReplayAll(r, cfg, ts)
    <2> HIDE DEF a
    <2>5. Reproduces(r, cfg, a)
      BY DEF Kept, a
    <2>6. Reproduces(q, cfg, a)
      BY <2>1, <2>2, <2>5 DEF Reproduces, SameAccount, Stage
    <2> QED
      BY <2>1, <2>3, <2>4, <2>6 DEF Kept, SameAccount, Stage, a
  <1> QED
    BY <1>1, <1>11, <1>3, <1>4, <1>5, AdvanceCases DEF States

-----------------------------------------------------------------------------
(* One more extrinsic has its place on the chain. *)
LEMMA ExtrinsicType ==
    ASSUME NEW es \in Seq(Exts), NEW n \in Nat, NEW tx,
           NEW event \in Events, tx.sig \in Nat \cup {None},
           tx.signer \in Signers, tx.call \in Calls
    PROVE  LET e == Extrinsic(es, n, tx, event) IN
           /\ e \in Exts /\ e.id = Len(es) + 1 /\ e.block = n
           /\ e.signer = tx.signer /\ e.call = tx.call /\ e.event = event
           /\ e.bought = IF e.call.kind = "AddStakeLimit" THEN 1 ELSE 0
           /\ Placed(Append(es, e), Len(es) + 1)
  <1> DEFINE S == {i \in DOMAIN es : es[i].signer = tx.signer}
             L == Len(es)
             e == Extrinsic(es, n, tx, event)
             fs == Append(es, e)
  <1>1. L \in Nat /\ DOMAIN es = 1 .. L
    OBVIOUS
  <1>2. IsFiniteSet(1 .. L) /\ S \subseteq 1 .. L
    BY <1>1, FS_Interval
  <1>3. Cardinality(S) \in Nat
    BY <1>2, FS_Subset, FS_CardinalityType
  <1>4. e = [id |-> L + 1, sig |-> tx.sig, block |-> n, signer |-> tx.signer,
             nonce |-> Cardinality(S), call |-> tx.call, event |-> event,
             bought |-> IF tx.call.kind = "AddStakeLimit" THEN 1 ELSE 0]
    BY DEF Extrinsic
  <1> HIDE DEF S, e
  <1>5. e \in Exts
    <2>1. L + 1 \in Nat
      BY <1>1
    <2>2. (IF tx.call.kind = "AddStakeLimit" THEN 1 ELSE 0) \in Nat
      OBVIOUS
    <2> HIDE DEF L
    <2> QED
      BY <1>3, <1>4, <2>1, <2>2 DEF Exts
  <1>6. /\ e.id = L + 1 /\ e.block = n /\ e.signer = tx.signer
        /\ e.call = tx.call /\ e.event = event /\ e.nonce = Cardinality(S)
        /\ e.bought = IF e.call.kind = "AddStakeLimit" THEN 1 ELSE 0
    BY <1>4
  <1>7. fs[L + 1] = e /\ \A i \in 1 .. L : fs[i] = es[i]
    BY <1>5, Appended
  <1> HIDE DEF fs
  <1>8. {k \in 1 .. (L + 1) - 1 : fs[k].signer = fs[L + 1].signer} = S
    BY <1>1, <1>6, <1>7 DEF S
  <1>9. Placed(fs, L + 1)
    BY <1>6, <1>7, <1>8 DEF Placed
  <1> QED
    BY <1>5, <1>6, <1>9 DEF e, fs

\* The next extrinsic leaves the place of the others.
LEMMA PlacedAppend ==
    ASSUME NEW es \in Seq(Exts), NEW e \in Exts, NEW i \in 1 .. Len(es),
           Placed(es, i)
    PROVE  Placed(Append(es, e), i)
  <1> DEFINE fs == Append(es, e)
  <1>1. Len(es) \in Nat /\ \A k \in 1 .. Len(es) : fs[k] = es[k]
    BY Appended
  <1> HIDE DEF fs
  <1>2. fs[i] = es[i] /\ \A k \in 1 .. i - 1 : fs[k] = es[k]
    BY <1>1
  <1>3. {k \in 1 .. i - 1 : fs[k].signer = fs[i].signer} =
        {k \in 1 .. i - 1 : es[k].signer = es[i].signer}
    BY <1>2
  <1> QED
    BY <1>2, <1>3 DEF Placed, fs

\* Every extrinsic has its place if the last one has.
LEMMA AllPlaced ==
    ASSUME NEW es \in Seq(Exts), NEW e \in Exts,
           \A i \in DOMAIN es : Placed(es, i), Placed(Append(es, e), Len(es) + 1)
    PROVE  \A i \in DOMAIN Append(es, e) : Placed(Append(es, e), i)
  <1>1. /\ DOMAIN es = 1 .. Len(es) /\ Len(es) \in Nat
        /\ DOMAIN Append(es, e) = 1 .. Len(es) + 1
    BY Appended
  <1>2. \A i \in 1 .. Len(es) + 1 : i = Len(es) + 1 \/ i \in 1 .. Len(es)
    BY <1>1
  <1> QED
    BY <1>1, <1>2, PlacedAppend

\* One more extrinsic, one more receipt.
LEMMA ReceiptsAppend ==
    ASSUME NEW es \in Seq(Exts), NEW e \in Exts
    PROVE  Receipts(Append(es, e)) = Append(Receipts(es), Receipt(e))
  <1> DEFINE fs == Append(es, e)
             L == Len(es)
  <1>1. /\ DOMAIN es = 1 .. L /\ L \in Nat /\ DOMAIN fs = 1 .. L + 1
        /\ fs[L + 1] = e /\ \A k \in 1 .. L : fs[k] = es[k]
    BY Appended
  <1> HIDE DEF fs, L
  <1>2. \A t \in Exts : Receipt(t) \in ReceiptSet
    BY DEF Receipt, ReceiptSet, Exts, Calls
  <1>3. \A k \in 1 .. L : es[k] \in Exts
    BY DEF L
  <1>4. Receipts(es) = [k \in 1 .. L |-> Receipt(es[k])]
    BY <1>1 DEF Receipts
  <1>5. Receipts(es) \in Seq(ReceiptSet) /\ Len(Receipts(es)) = L
    BY <1>1, <1>2, <1>3, <1>4
  <1>6. Receipts(fs) = [k \in 1 .. L + 1 |-> Receipt(fs[k])]
    BY <1>1 DEF Receipts
  <1> DEFINE rs == Append(Receipts(es), Receipt(e))
  <1>7. /\ rs \in Seq(ReceiptSet) /\ Len(rs) = L + 1 /\ rs[L + 1] = Receipt(e)
        /\ \A k \in 1 .. L : rs[k] = Receipts(es)[k]
    BY <1>2, <1>5
  <1>8. \A k \in 1 .. L + 1 : Receipt(fs[k]) \in ReceiptSet
    BY <1>1, <1>2, <1>3
  <1>9. Receipts(fs) \in Seq(ReceiptSet) /\ Len(Receipts(fs)) = L + 1
    BY <1>1, <1>6, <1>8
  <1> HIDE DEF rs
  <1>10. \A k \in 1 .. L + 1 : Receipts(fs)[k] = rs[k]
    BY <1>1, <1>4, <1>6, <1>7
  <1>11. Receipts(fs) = rs
    BY <1>7, <1>9, <1>10, SeqEqual
  <1> QED
    BY <1>11 DEF fs, rs

\* What is due is a signer and a call.
LEMMA DuePair ==
    ASSUME NEW r \in Records, NEW cfg \in Configs, NEW d \in Due(r, cfg)
    PROVE  <<d[1], d[2]>> \in Due(r, cfg)
  <1>1. CASE r.state = "detected"
    BY <1>1 DEF Due
  <1>2. CASE r.state = "funded"
    BY <1>2 DEF Due
  <1>3. CASE r.state = "swept"
    <2>1. Due(r, cfg) = SweptDue(r, cfg)
      BY <1>3 DEF Due
    <2>2. \A x \in SweptDue(r, cfg) : \E s, c : x = <<s, c>>
      <3> DEFINE M == Moving(r, cfg)
                 R == Returning(r, cfg)
                 B == Buying(r, cfg)
                 D == Destroying(r, cfg)
      <3>1. (M => ~R) /\ (M => ~B) /\ (M => ~D) /\ (R => ~B) /\ (R => ~D) /\ (B => ~D)
        BY DEF Returning, Buying, Destroying
      <3>2. CASE M
        BY <3>1, <3>2 DEF SweptDue
      <3>3. CASE R
        BY <3>1, <3>3 DEF SweptDue
      <3>4. CASE B
        BY <3>1, <3>4 DEF SweptDue
      <3>5. CASE D
        BY <3>1, <3>5 DEF SweptDue
      <3>6. CASE ~M /\ ~R /\ ~B /\ ~D
        BY <3>6 DEF SweptDue
      <3> QED
        BY <3>2, <3>3, <3>4, <3>5, <3>6
    <2>3. PICK s, c : d = <<s, c>>
      BY <2>1, <2>2
    <2> QED
      BY <2>3
  <1>4. CASE r.state \notin {"detected", "funded", "swept"}
    BY <1>4 DEF Due
  <1> QED
    BY <1>1, <1>2, <1>3, <1>4

\* What is due may be chosen such that a move takes live.
Takes(d, live) == d[2].kind = "MoveStake" => d[2].amount = live

LEMMA DueTakes ==
    ASSUME NEW r \in Records, NEW cfg \in Configs, NEW live \in Lives,
           Due(r, cfg) # {}
    PROVE  \E d \in Due(r, cfg) : Takes(d, live)
  <1>1. PICK d \in Due(r, cfg) : TRUE
    OBVIOUS
  <1>2. CASE d[2].kind # "MoveStake"
    BY <1>2 DEF Takes
  <1>3. CASE d[2].kind = "MoveStake"
    <2>1. <<d[1], d[2]>> \in Due(r, cfg)
      BY <1>1, DuePair
    <2>2. DueMove(r, cfg, d[1], d[2])
      <3>1. ~DueFund(r, d[1], d[2])
        BY <1>3 DEF DueFund, Call
      <3>4. ~DueSweep(r, d[1], d[2])
        <4> SUFFICES ASSUME NEW h, d[2] = Call("TransferStake", h, 1) PROVE FALSE
          BY DEF DueSweep
        <4> QED
          BY <1>3 DEF Call
      <3>2. ~DueReturn(r, cfg, d[1], d[2]) /\ ~DueBuy(r, cfg, d[1], d[2])
        BY <1>3 DEF DueReturn, DueBuy, Call
      <3>3. ~DueDestroy(r, cfg, d[1], d[2])
        <4> SUFFICES ASSUME DueDestroy(r, cfg, d[1], d[2]) PROVE FALSE
          OBVIOUS
        <4>1. cfg.budget.destroy \in {"BurnAlpha", "RecycleAlpha"}
          BY DEF DueDestroy, Destroying, Configs, Budgets
        <4> QED
          BY <1>3, <4>1 DEF DueDestroy, Call
      <3> QED
        BY <2>1, <3>1, <3>2, <3>3, <3>4, DueCases
    <2> DEFINE hot == r.swept_positions[r.consolidated + 1][1]
               x == <<"treasury", Call("MoveStake", hot, live)>>
    <2>3. Due(r, cfg) = SweptDue(r, cfg) /\ Moving(r, cfg)
      BY <2>2 DEF DueMove, Due
    <2>4. SweptDue(r, cfg) =
            {<<"treasury", Call("MoveStake", hot, l)>> : l \in Lives}
      <3>1. ~Returning(r, cfg) /\ ~Buying(r, cfg) /\ ~Destroying(r, cfg)
        BY <2>3 DEF Returning, Buying, Destroying
      <3> QED
        BY <2>3, <3>1 DEF SweptDue
    <2>5. x \in Due(r, cfg)
      BY <2>3, <2>4
    <2>6. x[2].amount = live
      BY DEF Call
    <2> QED
      BY <2>5, <2>6 DEF Takes
  <1> QED
    BY <1>2, <1>3

-----------------------------------------------------------------------------
(* The pasts that Init starts from. *)
SweptIf(r, cfg) ==
    IF r.state = "funded" /\ Due(r, cfg) = {} THEN [r EXCEPT !.state = "swept"]
    ELSE r

PastExt(cfg, live, n, p) ==
    LET d == CHOOSE d \in Due(SweptIf(p[1], cfg), cfg) : Takes(d, live) IN
    Extrinsic(p[2], n, [sig |-> None, signer |-> d[1], call |-> d[2]], "ok")

PastStep(cfg, live, n, p) ==
    IF Due(SweptIf(p[1], cfg), cfg) = {} THEN p
    ELSE <<Booked(SweptIf(p[1], cfg), PastExt(cfg, live, n, p)),
           Append(p[2], PastExt(cfg, live, n, p))>>

Pasts(cfg) ==
    {p \in Records \X Seq(Exts) :
        /\ KeptIf(p[1], cfg, p[2]) /\ Receipts(p[2]) = p[1].txs
        /\ p[1].identity = None /\ p[1].auto_required = None
        /\ \A i \in DOMAIN p[2] : Placed(p[2], i) /\ p[2][i].event = "ok"}

\* A record that swept everything may go on to the next stage.
LEMMA SweptIfKept ==
    ASSUME NEW r \in Records, NEW cfg \in Configs, NEW ts \in Seq(Exts),
           KeptIf(r, cfg, ts)
    PROVE  /\ SweptIf(r, cfg) \in Records /\ KeptIf(SweptIf(r, cfg), cfg, ts)
           /\ SweptIf(r, cfg).txs = r.txs /\ SweptIf(r, cfg).identity = r.identity
           /\ SweptIf(r, cfg).auto_required = r.auto_required
  <1>1. CASE SweptIf(r, cfg) = r
    BY <1>1
  <1>2. CASE SweptIf(r, cfg) # r
    <2> DEFINE q == SweptIf(r, cfg)
    <2>1. Ahead(q, r, "funded", "swept")
      BY <1>2 DEF SweptIf, Ahead
    <2> HIDE DEF q
    <2>2. /\ q \in Records /\ q.state = "swept" /\ r.state = "funded"
          /\ SameAccount(q, r) /\ q.buyback_done = r.buyback_done
          /\ q.identity = r.identity /\ q.auto_required = r.auto_required
      BY <2>1, AheadType DEF States
    <2>3. Kept(r, cfg, ts) => Kept(q, cfg, ts)
      BY <2>2, KeptSame DEF Stage
    <2>4. KeptIf(q, cfg, ts)
      BY <2>2, <2>3, MovedSame DEF KeptIf, SameAccount
    <2> QED
      BY <2>2, <2>4 DEF q, SameAccount
  <1> QED
    BY <1>1, <1>2

\* A transaction of the past keeps the record of it.
LEMMA PastStepType ==
    ASSUME NEW cfg \in Configs, NEW live \in Lives, NEW n \in Nat,
           NEW p \in Pasts(cfg)
    PROVE  /\ PastStep(cfg, live, n, p) \in Pasts(cfg)
           /\ Due(SweptIf(p[1], cfg), cfg) # {} =>
                /\ PastExt(cfg, live, n, p) \in Exts
                /\ PastExt(cfg, live, n, p).block = n
  <1> DEFINE q == SweptIf(p[1], cfg)
             es == p[2]
             e == PastExt(cfg, live, n, p)
  <1>1. /\ p[1] \in Records /\ es \in Seq(Exts) /\ KeptIf(p[1], cfg, es)
        /\ Receipts(es) = p[1].txs /\ p[1].identity = None
        /\ p[1].auto_required = None
        /\ \A i \in DOMAIN es : Placed(es, i) /\ es[i].event = "ok"
    BY DEF Pasts
  <1>2. /\ q \in Records /\ KeptIf(q, cfg, es) /\ q.txs = p[1].txs
        /\ q.identity = None /\ q.auto_required = None
    BY <1>1, SweptIfKept
  <1>3. ASSUME Due(q, cfg) # {}
        PROVE  /\ <<Booked(q, e), Append(es, e)>> \in Pasts(cfg)
               /\ e \in Exts /\ e.block = n
    <2> DEFINE d == CHOOSE d \in Due(q, cfg) : Takes(d, live)
               tx == [sig |-> None, signer |-> d[1], call |-> d[2]]
    <2>1. d \in Due(q, cfg)
      <3>1. \E x \in Due(q, cfg) : Takes(x, live)
        <4> HIDE DEF q
        <4> QED
          BY <1>2, <1>3, DueTakes
      <3> QED
        BY <3>1
    <2>2. e = Extrinsic(es, n, tx, "ok")
      BY DEF PastExt
    <2> HIDE DEF d, q, es, e
    <2>3. <<d[1], d[2]>> \in Due(q, cfg)
      BY <1>2, <2>1, DuePair
    <2>4. /\ tx.sig \in Nat \cup {None} /\ tx.signer = d[1] /\ tx.call = d[2]
          /\ tx.signer \in Signers /\ tx.call \in Calls
          /\ d[2].kind # "Other"
          /\ d[2].kind \in {"BurnAlpha", "RecycleAlpha"} => q.buyback # None
      BY <1>2, <2>3, DueType
    <2> HIDE DEF tx
    <2>5. /\ e \in Exts /\ e.block = n /\ e.signer = d[1] /\ e.call = d[2]
          /\ e.event = "ok" /\ Placed(Append(es, e), Len(es) + 1)
          /\ e.bought = IF e.call.kind = "AddStakeLimit" THEN 1 ELSE 0
      <3>1. "ok" \in Events
        BY DEF Events
      <3> QED
        BY <1>1, <2>2, <2>4, <3>1, ExtrinsicType
    <2>6. KeptIf(Booked(q, e), cfg, Append(es, e))
      BY <1>1, <1>2, <2>3, <2>5, KeptIfBook
    <2>7. /\ Booked(q, e) \in Records
          /\ Booked(q, e).txs = Append(q.txs, Receipt(e))
          /\ Booked(q, e).identity = None /\ Booked(q, e).auto_required = None
      BY <1>2, <2>4, <2>5, BookedType
    <2>8. Receipts(Append(es, e)) = Append(Receipts(es), Receipt(e))
      BY <1>1, <2>5, ReceiptsAppend
    <2>9. \A i \in DOMAIN Append(es, e) : Placed(Append(es, e), i)
      BY <1>1, <2>5, AllPlaced
    <2>10. Append(es, e) \in Seq(Exts)
      BY <1>1, <2>5
    <2> DEFINE b == Booked(q, e)
               fs == Append(es, e)
    <2>11. Receipts(fs) = b.txs
      BY <1>1, <1>2, <2>7, <2>8
    <2>13. \A i \in DOMAIN fs : fs[i].event = "ok"
      BY <1>1, <2>5, Appended
    <2> HIDE DEF b, fs
    <2>12. <<b, fs>> \in Pasts(cfg)
      BY <2>6, <2>7, <2>9, <2>10, <2>11, <2>13 DEF Pasts, b, fs
    <2> QED
      BY <2>5, <2>12 DEF b, fs
  <1> HIDE DEF e
  <1>4. CASE Due(q, cfg) = {}
    BY <1>4 DEF PastStep
  <1>5. CASE Due(q, cfg) # {}
    BY <1>3, <1>5 DEF PastStep, e
  <1> QED
    BY <1>4, <1>5

\* A job that has done nothing is kept.
LEMMA FreshKept ==
    ASSUME NEW cfg \in Configs, NEW tao \in BOOLEAN,
           NEW state \in {"pending", "detected"}
    PROVE  <<LegacyRecord(state, tao), <<>>>> \in Pasts(cfg)
  <1> DEFINE r == LegacyRecord(state, tao)
  <1>1. r \in Records
    BY DEF LegacyRecord, Records, States
  <1>2. /\ r.state = state /\ r.identity = None /\ r.auto_required = None
        /\ r.funded_tao = 0 /\ r.swept_positions = <<>> /\ r.consolidated = 0
        /\ r.dust_returned = FALSE /\ r.buyback = None
        /\ r.buyback_done = FALSE /\ r.txs = <<>>
    BY DEF LegacyRecord
  <1> HIDE DEF r
  <1>3. ReplayAll(r, cfg, <<>>) = Start
    BY ReplayEmpty
  <1>4. Reproduces(r, cfg, Start)
    BY <1>2 DEF Reproduces, Stage, Start
  <1>5. Kept(r, cfg, <<>>)
    <2>1. Stage(r) = state /\ Stage(r) \notin {"funded", "swept"}
      BY <1>2 DEF Stage
    <2>2. ~Start.post_sweep
      BY DEF Start
    <2>3. r.consolidated <= Len(r.swept_positions) /\ Pristine(r)
      BY <1>2 DEF Pristine
    <2> QED
      BY <1>2, <1>3, <1>4, <2>1, <2>2, <2>3 DEF Kept
  <1>6. Receipts(<<>>) = <<>> /\ <<>> \in Seq(Exts) /\ DOMAIN <<>> = {}
    BY DEF Receipts
  <1> DEFINE p == <<r, <<>>>>
  <1>7. p \in Records \X Seq(Exts) /\ p[1] = r /\ p[2] = <<>>
    BY <1>1, <1>6
  <1> HIDE DEF p
  <1>8. p \in Pasts(cfg)
    BY <1>2, <1>5, <1>6, <1>7 DEF Pasts, KeptIf
  <1> QED
    BY <1>8 DEF p, r

\* The recursion of Past is well defined, and every past is kept.
LEMMA PastUnfolds ==
    ASSUME NEW cfg \in Configs, NEW tao \in BOOLEAN, NEW live \in Lives
    PROVE  LET g == Past(cfg, tao, live) IN
           /\ g[0] = <<LegacyRecord("detected", tao), <<>>>>
           /\ \A n \in 1 .. MaxPast : g[n] = PastStep(cfg, live, n, g[n - 1])
           /\ \A n \in 0 .. MaxPast : g[n] \in Pasts(cfg)
  <1> DEFINE c == <<LegacyRecord("detected", tao), <<>>>>
             S == Pasts(cfg)
             step == [x \in (1 .. MaxPast) \X S |->
                         PastStep(cfg, live, x[1], x[2])]
             IsPast(f) == f = [n \in 0 .. MaxPast |-> IF n = 0 THEN c ELSE
                                  PastStep(cfg, live, n, f[n - 1])]
  <1>1. MaxPast \in Nat /\ c \in S
    BY RecoveryAssumption, FreshKept
  <1>2. step \in [(1 .. MaxPast) \X S -> S]
    <2>1. ASSUME NEW x \in (1 .. MaxPast) \X S
          PROVE  PastStep(cfg, live, x[1], x[2]) \in S
      <3>1. x[1] \in Nat /\ x[2] \in S
        OBVIOUS
      <3> QED
        BY <3>1, PastStepType
    <2> HIDE DEF S
    <2> QED
      BY <2>1
  <1>3. PICK f \in [0 .. MaxPast -> S] : Unfolds(f, c, step, MaxPast)
    <2> HIDE DEF step, S, c
    <2> QED
      BY <1>1, <1>2, RecursionExists
  <1> HIDE DEF S
  <1>4. \A n \in 1 .. MaxPast : step[<<n, f[n - 1]>>] = PastStep(cfg, live, n, f[n - 1])
    BY <1>1
  <1> HIDE DEF c
  <1>5. IsPast(f)
    <2> HIDE DEF step
    <2>1. f[0] = c /\ \A n \in 1 .. MaxPast : f[n] = PastStep(cfg, live, n, f[n - 1])
      BY <1>3, <1>4 DEF Unfolds
    <2> QED
      BY <1>1, <2>1
  <1>6. IsPast(Past(cfg, tao, live))
    <2> HIDE DEF IsPast
    <2>1. IsPast(CHOOSE g : IsPast(g))
      BY <1>5
    <2> QED
      BY <2>1 DEF IsPast, Past, PastStep, PastExt, SweptIf, Takes, c
  <1> DEFINE g == Past(cfg, tao, live)
  <1> HIDE DEF g
  <1>7. g = [n \in 0 .. MaxPast |-> 
             IF n = 0 THEN c ELSE PastStep(cfg, live, n, g[n - 1])]
    BY <1>6 DEF g
  <1> HIDE DEF IsPast
  <1>8. g[0] = c /\ \A n \in 1 .. MaxPast : g[n] = PastStep(cfg, live, n, g[n - 1])
    BY <1>1, <1>7
  <1>9. \A n \in 0 .. MaxPast : g[n] \in S
    <2> DEFINE G == {n \in 0 .. MaxPast : g[n] \in S}
    <2>1. 0 \in G
      BY <1>1, <1>8
    <2>2. ASSUME NEW n \in 0 .. MaxPast - 1, n \in G
          PROVE  n + 1 \in G
      <3>1. g[n + 1] = PastStep(cfg, live, n + 1, g[n]) /\ n + 1 \in Nat
            /\ n + 1 \in 0 .. MaxPast
        BY <1>1, <1>8
      <3> QED
        BY <2>2, <3>1, PastStepType DEF S
    <2> HIDE DEF G
    <2> QED
      BY <1>1, <2>1, <2>2, InductUpTo DEF G
  <1> QED
    BY <1>8, <1>9 DEF g, S, c

\* One transaction in each block, until nothing is due.
PastShape(cfg, n, p) ==
    /\ Len(p[2]) <= n
    /\ \A i \in DOMAIN p[2] : p[2][i].block = i
    /\ Len(p[2]) = n \/ Due(SweptIf(p[1], cfg), cfg) = {}

\* The ith extrinsic of the past is in block i.
LEMMA PastBlocksShape ==
    ASSUME NEW cfg \in Configs, NEW tao \in BOOLEAN, NEW live \in Lives
    PROVE  \A n \in 0 .. MaxPast : PastShape(cfg, n, Past(cfg, tao, live)[n])
  <1> DEFINE g == Past(cfg, tao, live)
             G == {n \in 0 .. MaxPast : PastShape(cfg, n, g[n])}
  <1>1. /\ g[0] = <<LegacyRecord("detected", tao), <<>>>>
        /\ \A n \in 1 .. MaxPast : g[n] = PastStep(cfg, live, n, g[n - 1])
        /\ \A n \in 0 .. MaxPast : g[n] \in Pasts(cfg)
    BY PastUnfolds
  <1> HIDE DEF g
  <1>2. MaxPast \in Nat
    BY RecoveryAssumption
  <1>3. 0 \in G
    BY <1>1, <1>2 DEF PastShape
  <1>4. ASSUME NEW n \in 0 .. MaxPast - 1, n \in G
        PROVE  n + 1 \in G
    <2> DEFINE p == g[n]
               e == PastExt(cfg, live, n + 1, p)
               es == p[2]
    <2>1. /\ n + 1 \in 0 .. MaxPast /\ n + 1 \in Nat /\ n \in Nat
          /\ g[n + 1] = PastStep(cfg, live, n + 1, p)
          /\ p \in Pasts(cfg) /\ PastShape(cfg, n, p)
      BY <1>1, <1>2, <1>4
    <2>2. es \in Seq(Exts)
      BY <2>1 DEF Pasts
    <2> HIDE DEF p
    <2>3. CASE Due(SweptIf(p[1], cfg), cfg) = {}
      <3>1. g[n + 1] = p
        BY <2>1, <2>3 DEF PastStep
      <3> QED
        BY <2>1, <2>2, <2>3, <3>1 DEF PastShape
    <2>4. CASE Due(SweptIf(p[1], cfg), cfg) # {}
      <3>1. e \in Exts /\ e.block = n + 1
        BY <2>1, <2>4, PastStepType
      <3>2. Len(es) = n /\ \A i \in DOMAIN es : es[i].block = i
        BY <2>1, <2>4 DEF PastShape
      <3> DEFINE fs == Append(es, e)
      <3>3. g[n + 1][2] = fs
        BY <2>1, <2>4 DEF PastStep
      <3>4. /\ Len(fs) = n + 1 /\ DOMAIN fs = 1 .. n + 1 /\ fs[n + 1] = e
            /\ \A i \in 1 .. n : fs[i] = es[i] /\ i \in DOMAIN es
        BY <2>2, <3>1, <3>2, Appended
      <3> HIDE DEF fs, es, e
      <3>5. \A i \in DOMAIN fs : fs[i].block = i
        BY <2>1, <3>1, <3>2, <3>4
      <3>6. PastShape(cfg, n + 1, g[n + 1])
        BY <2>1, <3>3, <3>4, <3>5 DEF PastShape
      <3> QED
        BY <2>1, <3>6
    <2> QED
      BY <2>3, <2>4
  <1> HIDE DEF G
  <1>5. \A n \in 0 .. MaxPast : n \in G
    BY <1>2, <1>3, <1>4, InductUpTo
  <1> QED
    BY <1>5 DEF G, g

(* A record with a receipt of everything that happened. *)
LEMMA ReceiptedAll ==
    ASSUME TypeOK, \A i \in DOMAIN exts : exts[i].id = i, Receipts(exts) = rec.txs
    PROVE  Receipted = exts
  <1>1. exts \in Seq(Exts) /\ DOMAIN exts = 1 .. Len(exts)
    BY DEF TypeOK
  <1>2. rec.txs = [i \in DOMAIN exts |-> Receipt(exts[i])]
    BY DEF Receipts
  <1>3. DOMAIN rec.txs = DOMAIN exts
    BY <1>2
  <1>4. \A i \in DOMAIN exts : rec.txs[i].id = i
    BY <1>2 DEF Receipt
  <1>5. Receipted = [i \in DOMAIN exts |-> exts[i]]
    BY <1>3, <1>4 DEF Receipted
  <1> QED
    BY <1>1, <1>5

-----------------------------------------------------------------------------
\* The initial states.
LEMMA InitInv == Init => IInv
  <1> SUFFICES ASSUME Init PROVE IInv
    OBVIOUS
  <1>1. PICK tao \in BOOLEAN, live \in Lives, n \in 0 .. MaxPast :
          /\ \/ rec = Past(setting, tao, live)[n][1]
             \/ n = 0 /\ rec = LegacyRecord("pending", tao)
          /\ exts = Past(setting, tao, live)[n][2]
    BY DEF Init
  <1>2. /\ setting \in Settings /\ setting \in Configs
        /\ head = Len(exts) /\ pool = {} /\ signed = 0 /\ trouble = 0
        /\ stopped = None
    BY SettingsType DEF Init
  <1> DEFINE p == Past(setting, tao, live)[n]
  <1>3. p \in Pasts(setting) /\ PastShape(setting, n, p)
    BY <1>2, PastUnfolds, PastBlocksShape
  <1>4. n = 0 => exts = <<>>
    BY <1>1, <1>2, PastUnfolds
  <1> HIDE DEF p
  <1>5. <<rec, exts>> \in Pasts(setting)
    <2>1. CASE rec = p[1]
      <3>1. exts = p[2] /\ p \in Records \X Seq(Exts)
        BY <1>1, <1>3 DEF p, Pasts
      <3>2. <<rec, exts>> = p
        BY <2>1, <3>1
      <3> QED
        BY <1>3, <3>2
    <2>2. CASE n = 0 /\ rec = LegacyRecord("pending", tao)
      BY <1>2, <1>4, <2>2, FreshKept
    <2> QED
      BY <1>1, <2>1, <2>2 DEF p
  <1>6. /\ rec \in Records /\ exts \in Seq(Exts) /\ KeptIf(rec, setting, exts)
        /\ Receipts(exts) = rec.txs /\ rec.identity = None
        /\ rec.auto_required = None
        /\ \A i \in DOMAIN exts : Placed(exts, i) /\ exts[i].event = "ok"
    BY <1>5 DEF Pasts
  <1>7. \A i \in DOMAIN exts : exts[i].block = i
    BY <1>1, <1>3 DEF PastShape, p
  <1>8. TypeOK
    BY <1>2, <1>6 DEF TypeOK
  <1>9. ~Resumed /\ Running
    BY <1>2, <1>6 DEF Resumed, Running
  <1>10. \A i \in DOMAIN exts : exts[i].id = i
    BY <1>6 DEF Placed
  <1>11. Receipted = exts
    BY <1>6, <1>8, <1>10, ReceiptedAll
  <1>12. ChainInv
    <2>1. \A i \in DOMAIN exts : exts[i].block \in 1 .. head + 1
      BY <1>2, <1>6, <1>7
    <2>2. \A k \in DOMAIN rec.txs : rec.txs[k].id \in DOMAIN exts
      <3>1. rec.txs = [i \in DOMAIN exts |-> Receipt(exts[i])]
        BY <1>6 DEF Receipts
      <3> QED
        BY <1>10, <3>1 DEF Receipt
    <2> QED
      BY <1>6, <2>1, <2>2 DEF ChainInv
  <1>13. ExpiryInv
    BY <1>2, <1>9 DEF ExpiryInv
  <1>14. ResumedInv /\ MigratedInv
    BY <1>6, <1>9 DEF ResumedInv, MigratedInv
  <1>15. CleanInv
    BY <1>6, <1>11 DEF CleanInv
  <1> QED
    BY <1>8, <1>12, <1>13, <1>14, <1>15 DEF IInv

-----------------------------------------------------------------------------
(* One more extrinsic leaves the receipts with theirs. *)
LEMMA ReceiptedKept ==
    ASSUME TypeOK, ChainInv, NEW e \in Exts, exts' = Append(exts, e),
           rec'.txs = rec.txs
    PROVE  Receipted' = Receipted
  <1>1. exts \in Seq(Exts) /\ \A i \in DOMAIN exts : exts'[i] = exts[i]
    BY Appended DEF TypeOK
  <1>2. \A k \in DOMAIN rec.txs : exts'[rec.txs[k].id] = exts[rec.txs[k].id]
    BY <1>1 DEF ChainInv
  <1> QED
    BY <1>2 DEF Receipted

\* The receipts name extrinsics.
LEMMA ReceiptedType ==
    ASSUME TypeOK, ChainInv
    PROVE  Receipted \in Seq(Exts)
  <1>1. rec.txs \in Seq(ReceiptSet) /\ exts \in Seq(Exts)
    BY DEF TypeOK, Records
  <1>2. \A k \in DOMAIN rec.txs : exts[rec.txs[k].id] \in Exts
    BY <1>1 DEF ChainInv
  <1>3. DOMAIN rec.txs = 1 .. Len(rec.txs) /\ Len(rec.txs) \in Nat
    BY <1>1
  <1> QED
    BY <1>2, <1>3 DEF Receipted

\* External: an old transaction lands, with whatever outcome.
LEMMA IncludeInv ==
    ASSUME IInv, NEW tx \in pool, NEW ev \in Events, Include(tx, ev)
    PROVE  IInv'
  <1> DEFINE e == Extrinsic(exts, head + 1, tx, ev)
  <1>1. TypeOK /\ ChainInv /\ ExpiryInv
    BY DEF IInv
  <1>2. /\ tx \in Txs /\ tx.birth \in Nat /\ exts \in Seq(Exts) /\ head \in Nat
        /\ trouble \in Nat
    BY <1>1 DEF TypeOK, Txs
  <1>3. /\ exts' = Append(exts, e) /\ rec' = rec /\ head' = head /\ pool' = pool
        /\ signed' = signed /\ stopped' = stopped /\ setting' = setting
        /\ trouble' = IF ev = "ok" THEN trouble ELSE trouble + 1
        /\ head + 1 <= tx.birth + Mortality
    BY DEF Include, Admissible
  <1>4. /\ e \in Exts /\ e.block = head + 1 /\ e.event = ev
        /\ Placed(Append(exts, e), Len(exts) + 1)
    <2>1. /\ head + 1 \in Nat /\ tx.sig \in Nat \cup {None}
          /\ tx.signer \in Signers /\ tx.call \in Calls
      BY <1>2 DEF Txs
    <2> DEFINE n == head + 1
    <2>2. e = Extrinsic(exts, n, tx, ev) /\ n \in Nat
      BY <2>1
    <2> HIDE DEF n, e
    <2>3. /\ e \in Exts /\ e.block = n /\ e.event = ev
          /\ Placed(Append(exts, e), Len(exts) + 1)
      BY <1>2, <2>1, <2>2, ExtrinsicType
    <2> QED
      BY <2>3 DEF n
  <1> HIDE DEF e
  <1>5. /\ DOMAIN exts = 1 .. Len(exts) /\ Len(exts) \in Nat
        /\ exts' \in Seq(Exts) /\ DOMAIN exts' = 1 .. Len(exts) + 1
        /\ \A i \in 1 .. Len(exts) : exts'[i] = exts[i]
        /\ exts'[Len(exts) + 1] = e
    BY <1>2, <1>3, <1>4, Appended
  <1>6. ~Resumed
    BY <1>1, <1>2, <1>3, RecoveryAssumption DEF ExpiryInv
  <1>7. TypeOK'
    BY <1>1, <1>3, <1>5 DEF TypeOK
  <1>8. \A i \in DOMAIN exts' : i \in DOMAIN exts \/ i = Len(exts) + 1
    BY <1>5
  <1>9. ChainInv'
    <2>1. \A i \in DOMAIN exts' : Placed(exts', i)
      BY <1>1, <1>2, <1>3, <1>4, AllPlaced DEF ChainInv
    <2>2. \A i \in DOMAIN exts' : exts'[i].block \in 1 .. head' + 1
      BY <1>1, <1>2, <1>3, <1>4, <1>5, <1>8 DEF ChainInv
    <2>3. \A k \in DOMAIN rec'.txs : rec'.txs[k].id \in DOMAIN exts'
      BY <1>1, <1>3, <1>5 DEF ChainInv
    <2>4. trouble' = 0 => \A i \in DOMAIN exts' : exts'[i].event = "ok"
      <3> SUFFICES ASSUME trouble' = 0
                   PROVE  \A i \in DOMAIN exts' : exts'[i].event = "ok"
        OBVIOUS
      <3>1. ev = "ok" /\ trouble = 0
        BY <1>2, <1>3
      <3>2. \A i \in DOMAIN exts : exts[i].event = "ok"
        BY <1>1, <3>1 DEF ChainInv
      <3> QED
        BY <1>4, <1>5, <1>8, <3>1, <3>2
    <2> QED
      BY <2>1, <2>2, <2>3, <2>4 DEF ChainInv
  <1>10. ExpiryInv'
    <2>1. ~Running => e.block <= stopped + Mortality
      <3>1. ~Running => tx.birth <= stopped /\ stopped \in Nat
        BY <1>1 DEF ExpiryInv
      <3> QED
        BY <1>2, <1>3, <1>4, <3>1, RecoveryAssumption
    <2>2. ~Running => \A i \in DOMAIN exts' : exts'[i].block <= stopped + Mortality
      BY <1>1, <1>5, <1>6, <1>8, <2>1 DEF ExpiryInv
    <2> QED
      BY <1>1, <1>3, <1>6, <2>2 DEF ExpiryInv, Running, Resumed
  <1>11. ResumedInv'
    BY <1>3, <1>6 DEF ResumedInv, Resumed
  <1>12. MigratedInv'
    BY <1>3 DEF IInv, MigratedInv, Resumed, Running
  <1>13. CleanInv'
    <2>1. trouble' = 0 => trouble = 0
      BY <1>2, <1>3
    <2>2. Receipted' = Receipted
      BY <1>1, <1>3, <1>4, ReceiptedKept
    <2> QED
      BY <1>3, <2>1, <2>2 DEF IInv, CleanInv, Resumed
  <1> QED
    BY <1>7, <1>9, <1>10, <1>11, <1>12, <1>13 DEF IInv

(* Steps that leave the record and the chain alone. *)
LEMMA QuietInv ==
    ASSUME IInv, UNCHANGED <<rec, exts, setting>>, trouble' = 0 => trouble = 0,
           Running' => Running
    PROVE  ResumedInv' /\ MigratedInv' /\ CleanInv'
  <1>1. ResumedInv'
    BY DEF IInv, ResumedInv, Resumed
  <1>2. MigratedInv'
    BY DEF IInv, MigratedInv, Resumed
  <1>3. Receipted' = Receipted
    BY DEF Receipted
  <1>4. CleanInv'
    BY <1>3 DEF IInv, CleanInv, Resumed
  <1> QED
    BY <1>1, <1>2, <1>4

\* External: a block is finalized.
LEMMA FinalizeInv ==
    ASSUME IInv, Finalize
    PROVE  IInv'
  <1>1. /\ head' = head + 1 /\ head \in Nat
        /\ UNCHANGED <<rec, exts, pool, signed, trouble, stopped, setting>>
    BY DEF Finalize, IInv, TypeOK
  <1>2. TypeOK'
    BY <1>1 DEF IInv, TypeOK
  <1>3. ChainInv'
    <2>1. \A i \in DOMAIN exts : Placed(exts', i) <=> Placed(exts, i)
      BY <1>1 DEF Placed
    <2> QED
      BY <1>1, <2>1 DEF IInv, ChainInv
  <1>4. ExpiryInv'
    <2>1. \A tx \in pool : tx.birth \in Nat
      BY DEF IInv, TypeOK, Txs
    <2>2. \A tx \in pool : tx.birth <= head'
      BY <1>1, <2>1 DEF IInv, ExpiryInv
    <2>3. Resumed => ~Running /\ \A tx \in pool : tx.birth + Mortality <= head'
      BY <1>1, <2>1, RecoveryAssumption DEF IInv, ExpiryInv
    <2>4. ~Running => stopped \in 1 .. head'
      BY <1>1 DEF IInv, ExpiryInv
    <2> QED
      BY <1>1, <2>2, <2>3, <2>4 DEF IInv, ExpiryInv, Running, Resumed
  <1>5. ResumedInv' /\ MigratedInv' /\ CleanInv'
    BY <1>1, QuietInv DEF Running
  <1> QED
    BY <1>2, <1>3, <1>4, <1>5 DEF IInv

(* A signature of the running engine, or of somebody at the treasury. *)
LEMMA SignInv ==
    ASSUME IInv, Running, NEW tx \in Txs, tx.birth = head,
           pool' = pool \cup {tx}, signed' = signed + 1, trouble' \in Nat,
           trouble' = 0 => trouble = 0,
           UNCHANGED <<rec, head, exts, stopped, setting>>
    PROVE  IInv'
  <1>1. TypeOK'
    BY DEF IInv, TypeOK
  <1>2. ChainInv'
    <2>1. \A i \in DOMAIN exts : Placed(exts', i) <=> Placed(exts, i)
      BY DEF Placed
    <2> QED
      BY <2>1 DEF IInv, ChainInv
  <1>3. ExpiryInv'
    <2>1. head \in Nat
      BY DEF IInv, TypeOK
    <2> QED
      BY <2>1 DEF IInv, ExpiryInv, Running, Resumed
  <1>4. ResumedInv' /\ MigratedInv' /\ CleanInv'
    BY QuietInv DEF Running
  <1> QED
    BY <1>1, <1>2, <1>3, <1>4 DEF IInv

\* A nonce is a number.
LEMMA NonceType ==
    ASSUME exts \in Seq(Exts), NEW signer, NEW n
    PROVE  Nonce(signer, n) \in Nat
  <1> DEFINE S == {i \in DOMAIN exts : exts[i].signer = signer /\ exts[i].block <= n}
  <1>1. S \subseteq 1 .. Len(exts) /\ IsFiniteSet(1 .. Len(exts))
    BY FS_Interval
  <1> HIDE DEF S
  <1>2. Cardinality(S) \in Nat
    BY <1>1, FS_Subset, FS_CardinalityType
  <1> QED
    BY <1>2 DEF Nonce, S

\* External: the old engine signs.
LEMMA OldSendInv ==
    ASSUME IInv, NEW d \in Due(rec, setting), OldSend(d[1], d[2])
    PROVE  IInv'
  <1> DEFINE tx == [sig |-> signed, signer |-> d[1], nonce |-> Nonce(d[1], head),
                    birth |-> head, call |-> d[2]]
  <1>1. /\ rec \in Records /\ setting \in Configs /\ head \in Nat
        /\ signed \in Nat /\ trouble \in Nat
    BY SettingsType DEF IInv, TypeOK
  <1>2. d[1] \in Signers /\ d[2] \in Calls
    BY <1>1, DuePair, DueType
  <1>3. Nonce(d[1], head) \in Nat
    BY NonceType DEF IInv, TypeOK
  <1>4. tx \in Txs /\ tx.birth = head
    BY <1>1, <1>2, <1>3 DEF Txs
  <1>5. /\ Running /\ pool' = pool \cup {tx} /\ signed' = signed + 1
        /\ UNCHANGED <<rec, head, exts, stopped, setting>>
        /\ trouble' = trouble \/ trouble' = trouble + 1
    BY DEF OldSend
  <1> HIDE DEF tx
  <1>6. trouble' \in Nat /\ (trouble' = 0 => trouble = 0)
    BY <1>1, <1>5
  <1> QED
    BY <1>4, <1>5, <1>6, SignInv

\* External: somebody else signs.
LEMMA ManualInv ==
    ASSUME IInv, Manual
    PROVE  IInv'
  <1> DEFINE c == [Call("TransferTao", None, 1) EXCEPT !.job = FALSE]
             tx == [sig |-> signed, signer |-> "treasury",
                    nonce |-> Nonce("treasury", head), birth |-> head, call |-> c]
  <1>1. head \in Nat /\ signed \in Nat /\ trouble \in Nat
    BY DEF IInv, TypeOK
  <1>2. c \in Calls
    BY DEF Call, Calls, Kinds
  <1>3. Nonce("treasury", head) \in Nat
    BY NonceType DEF IInv, TypeOK
  <1>4. /\ Running /\ pool' = pool \cup {tx} /\ signed' = signed + 1
        /\ UNCHANGED <<rec, head, exts, stopped, setting>>
        /\ trouble' = trouble + 1
    BY DEF Manual
  <1> HIDE DEF c
  <1>5. tx \in Txs /\ tx.birth = head
    BY <1>1, <1>2, <1>3 DEF Txs, Signers
  <1> HIDE DEF tx
  <1>6. trouble' \in Nat /\ (trouble' = 0 => trouble = 0)
    BY <1>1, <1>4
  <1> QED
    BY <1>4, <1>5, <1>6, SignInv

\* The old engine is stopped: nothing it signed is younger.
LEMMA StopInv ==
    ASSUME IInv, Stop
    PROVE  IInv'
  <1>1. /\ Running /\ head > 0 /\ stopped' = head /\ head \in Nat
        /\ UNCHANGED <<rec, head, exts, pool, signed, trouble, setting>>
    BY DEF Stop, IInv, TypeOK
  <1>2. TypeOK'
    BY <1>1 DEF IInv, TypeOK
  <1>3. ChainInv'
    <2>1. \A i \in DOMAIN exts : Placed(exts', i) <=> Placed(exts, i)
      BY <1>1 DEF Placed
    <2> QED
      BY <1>1, <2>1 DEF IInv, ChainInv
  <1>4. ~Running' /\ ~Resumed
    BY <1>1, NoneAssumption DEF Running, IInv, ExpiryInv
  <1>5. ExpiryInv'
    <2>1. stopped' \in 1 .. head'
      BY <1>1
    <2>2. \A i \in DOMAIN exts' : exts'[i].block <= stopped' + Mortality
      BY <1>1, RecoveryAssumption DEF IInv, ChainInv
    <2>3. \A tx \in pool' : tx.birth <= stopped' /\ tx.birth <= head'
      BY <1>1 DEF IInv, ExpiryInv
    <2> QED
      BY <1>1, <1>4, <2>1, <2>2, <2>3 DEF ExpiryInv, Resumed
  <1>6. ResumedInv' /\ MigratedInv' /\ CleanInv'
    BY <1>1, <1>4, QuietInv
  <1> QED
    BY <1>2, <1>3, <1>5, <1>6 DEF IInv

(* Steps of the running engine that only change the record. *)
LEMMA RunningFacts ==
    ASSUME IInv, Running
    PROVE  /\ ~Resumed /\ rec.identity = None /\ rec.auto_required = None
           /\ rec \in Records /\ exts \in Seq(Exts) /\ setting \in Configs
           /\ head \in Nat /\ trouble \in Nat
  BY SettingsType DEF IInv, TypeOK, ExpiryInv, MigratedInv, Resumed

\* A step of the old engine on the record alone.
LEMMA RecordInv ==
    ASSUME IInv, Running, rec' \in Records, rec'.identity = None,
           rec'.auto_required = None, trouble' \in Nat,
           trouble' = 0 => trouble = 0,
           \A k \in DOMAIN rec'.txs : rec'.txs[k].id \in DOMAIN exts,
           trouble' = 0 => KeptIf(rec', setting, Receipted'),
           UNCHANGED <<head, exts, pool, signed, stopped, setting>>
    PROVE  IInv'
  <1>1. TypeOK'
    BY DEF IInv, TypeOK
  <1>2. ChainInv'
    <2>1. \A i \in DOMAIN exts : Placed(exts', i) <=> Placed(exts, i)
      BY DEF Placed
    <2> QED
      BY <2>1 DEF IInv, ChainInv
  <1>3. ~Resumed' /\ Running'
    BY DEF Resumed, Running
  <1>4. ExpiryInv'
    BY <1>3 DEF IInv, ExpiryInv
  <1>5. ResumedInv' /\ MigratedInv' /\ CleanInv'
    BY <1>3 DEF ResumedInv, MigratedInv, CleanInv
  <1> QED
    BY <1>1, <1>2, <1>4, <1>5 DEF IInv

\* A booked extrinsic is the last of the receipts.
LEMMA ReceiptedBook ==
    ASSUME TypeOK, ChainInv, NEW e \in Exts,
           rec'.txs = Append(rec.txs, Receipt(e)),
           \A i \in DOMAIN exts : exts'[i] = exts[i], exts'[e.id] = e
    PROVE  Receipted' = Append(Receipted, e)
  <1> DEFINE n == Len(rec.txs)
             fs == Append(Receipted, e)
  <1>1. rec.txs \in Seq(ReceiptSet) /\ n \in Nat /\ DOMAIN rec.txs = 1 .. n
    BY DEF TypeOK, Records
  <1>2. Receipt(e) \in ReceiptSet /\ Receipt(e).id = e.id
    BY DEF Receipt, ReceiptSet, Exts, Calls
  <1>3. /\ DOMAIN rec'.txs = 1 .. n + 1 /\ rec'.txs[n + 1] = Receipt(e)
        /\ \A k \in 1 .. n : rec'.txs[k] = rec.txs[k]
    BY <1>1, <1>2
  <1>4. /\ Receipted \in Seq(Exts) /\ Len(Receipted) = n
        /\ \A k \in 1 .. n : Receipted[k] = exts[rec.txs[k].id]
    BY <1>1, ReceiptedType DEF Receipted
  <1>5. /\ fs \in Seq(Exts) /\ Len(fs) = n + 1 /\ fs[n + 1] = e
        /\ \A k \in 1 .. n : fs[k] = exts[rec.txs[k].id]
    BY <1>1, <1>4
  <1> HIDE DEF fs, n
  <1>6. Receipted' = [k \in 1 .. n + 1 |-> exts'[rec'.txs[k].id]]
    BY <1>3 DEF Receipted
  <1>7. \A k \in 1 .. n + 1 : exts'[rec'.txs[k].id] = fs[k]
    <2>1. \A k \in 1 .. n : rec.txs[k].id \in DOMAIN exts
      BY <1>1 DEF ChainInv
    <2>2. \A k \in 1 .. n : exts'[rec'.txs[k].id] = fs[k]
      <3> TAKE k \in 1 .. n
      <3>1. rec'.txs[k].id = rec.txs[k].id
        BY <1>3
      <3>2. exts'[rec.txs[k].id] = exts[rec.txs[k].id]
        BY <2>1
      <3>3. fs[k] = exts[rec.txs[k].id]
        BY <1>5
      <3> QED
        BY <3>1, <3>2, <3>3, Zenon
    <2>3. exts'[rec'.txs[n + 1].id] = fs[n + 1]
      BY <1>2, <1>3, <1>5
    <2>4. \A k \in 1 .. n + 1 : k \in 1 .. n \/ k = n + 1
      BY <1>1
    <2> QED
      BY <2>2, <2>3, <2>4
  <1>8. fs = [k \in 1 .. n + 1 |-> fs[k]]
    BY <1>1, <1>5
  <1> QED
    BY <1>6, <1>7, <1>8 DEF fs

\* External: the old engine books an extrinsic.
LEMMA OldBookInv ==
    ASSUME IInv, OldBook
    PROVE  IInv'
  <1>1. PICK i \in DOMAIN exts :
          /\ <<exts[i].signer, exts[i].call>> \in Due(rec, setting)
          /\ rec' = Booked(rec, exts[i])
    BY DEF OldBook
  <1>2. /\ Running
        /\ UNCHANGED <<head, exts, pool, signed, trouble, stopped, setting>>
    BY DEF OldBook
  <1> DEFINE e == exts[i]
  <1>3. /\ ~Resumed /\ rec.identity = None /\ rec.auto_required = None
        /\ rec \in Records /\ exts \in Seq(Exts) /\ setting \in Configs
        /\ trouble \in Nat /\ e \in Exts
    BY <1>2, RunningFacts
  <1>4. /\ e.id = i
        /\ e.bought = IF e.call.kind = "AddStakeLimit" THEN 1 ELSE 0
    BY DEF IInv, ChainInv, Placed
  <1>5. exts' = exts /\ exts'[e.id] = e
    BY <1>2, <1>4
  <1> HIDE DEF e
  <1>6. /\ rec' \in Records /\ rec'.txs = Append(rec.txs, Receipt(e))
        /\ rec'.identity = None /\ rec'.auto_required = None
    <2>1. /\ <<e.signer, e.call>> \in Due(rec, setting)
          /\ rec' = Booked(rec, e)
      BY <1>1 DEF e
    <2>2. /\ e.call.kind # "Other"
          /\ e.call.kind \in {"BurnAlpha", "RecycleAlpha"} => rec.buyback # None
      BY <1>3, <2>1, DueType
    <2> QED
      BY <1>3, <2>1, <2>2, BookedType
  <1>7. Receipted' = Append(Receipted, e)
    BY <1>3, <1>5, <1>6, ReceiptedBook DEF IInv
  <1>8. \A k \in DOMAIN rec'.txs : rec'.txs[k].id \in DOMAIN exts
    <2>1. rec.txs \in Seq(ReceiptSet) /\ Receipt(e).id = i
      BY <1>3, <1>4 DEF Records, Receipt
    <2>2. \A k \in DOMAIN rec.txs : rec.txs[k].id \in DOMAIN exts
      BY DEF IInv, ChainInv
    <2> QED
      BY <1>6, <2>1, <2>2
  <1>9. trouble' = 0 => KeptIf(rec', setting, Receipted')
    <2> SUFFICES ASSUME trouble' = 0
                 PROVE  KeptIf(rec', setting, Receipted')
      OBVIOUS
    <2>1. KeptIf(rec, setting, Receipted) /\ Receipted \in Seq(Exts)
      BY <1>2, <1>3, ReceiptedType DEF IInv, CleanInv
    <2>3. e.event = "ok"
      BY <1>2 DEF IInv, ChainInv, e
    <2>2. KeptIf(Booked(rec, e), setting, Append(Receipted, e))
      BY <1>1, <1>3, <1>4, <2>1, <2>3, KeptIfBook DEF e
    <2> QED
      BY <1>1, <1>7, <2>2 DEF e
  <1> QED
    BY <1>2, <1>3, <1>6, <1>8, <1>9, RecordInv

\* External: the old engine skips a transaction or goes on.
LEMMA OldAdvanceInv ==
    ASSUME IInv, OldAdvance
    PROVE  IInv'
  <1>1. PICK q \in Advances(rec, setting) :
          LET skipped == \/ q.state = rec.state /\ ~q.buyback_done
                         \/ rec.state = "detected"
          IN  /\ rec' = q
              /\ trouble' = IF skipped THEN trouble + 1 ELSE trouble
    BY DEF OldAdvance
  <1>2. /\ Running
        /\ UNCHANGED <<head, exts, pool, signed, stopped, setting>>
    BY DEF OldAdvance
  <1>3. /\ ~Resumed /\ rec.identity = None /\ rec.auto_required = None
        /\ rec \in Records /\ exts \in Seq(Exts) /\ setting \in Configs
        /\ trouble \in Nat
    BY <1>2, RunningFacts
  <1>4. /\ rec' \in Records /\ rec'.txs = rec.txs /\ rec'.identity = None
        /\ rec'.auto_required = None
        /\ rec'.swept_positions = rec.swept_positions
    BY <1>1, <1>3, AdvanceType
  <1>5. \A k \in DOMAIN rec'.txs : rec'.txs[k].id \in DOMAIN exts
    BY <1>4 DEF IInv, ChainInv
  <1>6. Receipted' = Receipted
    BY <1>2, <1>4 DEF Receipted
  <1>7. trouble' \in Nat /\ (trouble' = 0 => trouble = 0)
    BY <1>1, <1>3
  <1>8. trouble' = 0 => KeptIf(rec', setting, Receipted')
    <2> SUFFICES ASSUME trouble' = 0
                 PROVE  KeptIf(rec', setting, Receipted')
      OBVIOUS
    <2>1. /\ trouble = 0 /\ rec.state # "detected"
          /\ q.state # rec.state \/ q.buyback_done
      BY <1>1, <1>3
    <2>2. KeptIf(rec, setting, Receipted) /\ Receipted \in Seq(Exts)
      BY <1>3, <2>1, ReceiptedType DEF IInv, CleanInv
    <2>4. Kept(rec, setting, Receipted) => Kept(q, setting, Receipted)
      BY <1>3, <2>1, <2>2, KeptAdvance
    <2>3. KeptIf(q, setting, Receipted)
      BY <1>1, <1>4, <2>2, <2>4, MovedSame DEF KeptIf
    <2> QED
      BY <1>1, <1>6, <2>3
  <1> QED
    BY <1>2, <1>3, <1>4, <1>5, <1>7, <1>8, RecordInv

\* External: the old engine fails.
LEMMA OldFailInv ==
    ASSUME IInv, OldFail
    PROVE  IInv'
  <1>1. /\ Running /\ rec.state \in {"detected", "funded", "swept"}
        /\ rec' = [rec EXCEPT !.state = "failed", !.failed_from = rec.state]
        /\ UNCHANGED <<head, exts, pool, signed, trouble, stopped, setting>>
    BY DEF OldFail
  <1>2. /\ ~Resumed /\ rec.identity = None /\ rec.auto_required = None
        /\ rec \in Records /\ exts \in Seq(Exts) /\ setting \in Configs
        /\ trouble \in Nat
    BY <1>1, RunningFacts
  <1>3. /\ rec' \in Records /\ rec'.identity = None /\ rec'.auto_required = None
        /\ SameAccount(rec', rec) /\ rec'.buyback_done = rec.buyback_done
        /\ rec'.state = "failed" /\ rec'.failed_from = rec.state
    BY <1>1, <1>2 DEF Records, States, SameAccount
  <1>4. rec'.txs = rec.txs
    BY <1>3 DEF SameAccount
  <1>5. \A k \in DOMAIN rec'.txs : rec'.txs[k].id \in DOMAIN exts
    BY <1>4 DEF IInv, ChainInv
  <1>6. Receipted' = Receipted
    BY <1>1, <1>4 DEF Receipted
  <1>7. trouble' = 0 => KeptIf(rec', setting, Receipted')
    <2> SUFFICES ASSUME trouble' = 0
                 PROVE  KeptIf(rec', setting, Receipted')
      OBVIOUS
    <2>1. KeptIf(rec, setting, Receipted) /\ Receipted \in Seq(Exts)
      BY <1>1, <1>2, ReceiptedType DEF IInv, CleanInv
    <2>2. Stage(rec') = rec.state /\ Stage(rec) = rec.state
      BY <1>1, <1>3 DEF Stage
    <2>4. Kept(rec, setting, Receipted) => Kept(rec', setting, Receipted)
      BY <1>3, <2>1, <2>2, KeptSame
    <2>3. KeptIf(rec', setting, Receipted)
      BY <1>3, <2>1, <2>4, MovedSame DEF KeptIf, SameAccount
    <2> QED
      BY <1>6, <2>3
  <1> QED
    BY <1>1, <1>2, <1>3, <1>5, <1>7, RecordInv

\* migrate_legacy_policy.
LEMMA MigrateInv ==
    ASSUME IInv, Migrate
    PROVE  IInv'
  <1>1. PICK cfg \in Settings :
          rec' = [rec EXCEPT !.auto_required = cfg.budget # None,
                             !.buyback_budget = cfg.budget]
    BY DEF Migrate
  <1>2. /\ ~Running /\ rec.state \in {"pending", "detected"}
        /\ rec.auto_required = None /\ rec.txs = <<>> /\ Pristine(rec)
        /\ UNCHANGED <<head, exts, pool, signed, trouble, stopped, setting>>
    BY DEF Migrate
  <1>3. rec \in Records /\ cfg \in Configs /\ ValidBudget(cfg.budget)
    BY SettingsType DEF IInv, TypeOK
  <1>4. (cfg.budget # None) \in BOOLEAN /\ cfg.budget \in Budgets \cup {None}
    BY <1>3 DEF Configs
  <1>5. /\ rec' \in Records /\ rec'.identity = rec.identity
        /\ SameAccount(rec', rec) /\ rec'.buyback_done = rec.buyback_done
        /\ rec'.state = rec.state /\ rec'.failed_from = rec.failed_from
        /\ rec'.auto_required = (cfg.budget # None)
        /\ rec'.buyback_budget = cfg.budget
    BY <1>1, <1>3, <1>4 DEF Records, SameAccount
  <1>6. TypeOK'
    BY <1>2, <1>5 DEF IInv, TypeOK
  <1>7. rec'.txs = rec.txs
    BY <1>5 DEF SameAccount
  <1>8. ChainInv'
    <2>1. \A i \in DOMAIN exts : Placed(exts', i) <=> Placed(exts, i)
      BY <1>2 DEF Placed
    <2> QED
      BY <1>2, <1>7, <2>1 DEF IInv, ChainInv
  <1>9. Running' = Running /\ Resumed' = Resumed
    BY <1>2, <1>5 DEF Running, Resumed
  <1>10. ExpiryInv'
    BY <1>2, <1>9 DEF IInv, ExpiryInv
  <1>11. Account(rec') = Account(rec)
    BY <1>5 DEF Account, SameAccount
  <1>12. ResumedInv'
    BY <1>2, <1>5, <1>9, <1>11 DEF IInv, ResumedInv, SameAccount
  <1>13. MigratedInv'
    BY <1>2, <1>3, <1>5, <1>7, <1>9 DEF MigratedInv, Pristine, SameAccount
  <1>14. CleanInv'
    <2> SUFFICES ASSUME trouble' = 0, ~Resumed'
                 PROVE  KeptIf(rec', setting', Receipted')
      BY DEF CleanInv
    <2>1. KeptIf(rec, setting, Receipted) /\ Receipted \in Seq(Exts)
      BY <1>2, <1>9, ReceiptedType DEF IInv, CleanInv
    <2>2. Stage(rec') = Stage(rec)
      BY <1>5 DEF Stage
    <2>5. Kept(rec, setting, Receipted) => Kept(rec', setting, Receipted)
      BY <1>5, <2>1, <2>2, KeptSame
    <2>3. KeptIf(rec', setting, Receipted)
      BY <1>5, <2>1, <2>5, MovedSame DEF KeptIf, SameAccount
    <2>4. Receipted' = Receipted
      BY <1>2, <1>7 DEF Receipted
    <2> QED
      BY <1>2, <2>3, <2>4
  <1> QED
    BY <1>6, <1>8, <1>10, <1>12, <1>13, <1>14 DEF IInv

-----------------------------------------------------------------------------
(* The new engine. *)
LEMMA NewSendInv ==
    ASSUME IInv, NewSend
    PROVE  IInv'
  <1>1. /\ Resumed /\ signed' = signed + 1
        /\ UNCHANGED <<head, pool, trouble, stopped, setting>>
    BY DEF NewSend
  <1>2. PICK d \in Due(rec, setting) :
          LET e == Extrinsic(exts, head + 1, [sig |-> signed, signer |-> d[1],
                                              call |-> d[2]], "ok")
          IN  exts' = Append(exts, e) /\ rec' = Booked(rec, e)
    BY DEF NewSend
  <1> DEFINE n == head + 1
             tx == [sig |-> signed, signer |-> d[1], call |-> d[2]]
             e == Extrinsic(exts, n, tx, "ok")
  <1>3. exts' = Append(exts, e) /\ rec' = Booked(rec, e)
    BY <1>2
  <1>4. /\ rec \in Records /\ setting \in Configs /\ exts \in Seq(Exts)
        /\ head \in Nat /\ signed \in Nat
    BY SettingsType DEF IInv, TypeOK
  <1>5. n \in Nat /\ n \in 1 .. head + 1
    BY <1>4
  <1>6. <<d[1], d[2]>> \in Due(rec, setting)
    BY <1>4, DuePair
  <1>7. /\ d[1] \in Signers /\ d[2] \in Calls /\ d[2].kind # "Other"
        /\ d[2].kind \in {"BurnAlpha", "RecycleAlpha"} => rec.buyback # None
    BY <1>4, <1>6, DueType
  <1>8. tx.sig \in Nat \cup {None} /\ tx.signer = d[1] /\ tx.call = d[2]
    BY <1>4
  <1>9. e = Extrinsic(exts, n, tx, "ok") /\ tx.signer \in Signers /\ tx.call \in Calls
    BY <1>7, <1>8
  <1> HIDE DEF n, tx, e
  <1>10. /\ e \in Exts /\ e.block = n /\ e.signer = d[1] /\ e.call = d[2]
        /\ e.event = "ok" /\ e.id = Len(exts) + 1
        /\ Placed(Append(exts, e), Len(exts) + 1)
    <2>1. "ok" \in Events
      BY DEF Events
    <2> QED
      BY <1>4, <1>5, <1>8, <1>9, <2>1, ExtrinsicType
  <1>11. /\ rec' \in Records /\ rec'.txs = Append(rec.txs, Receipt(e))
         /\ rec'.identity = rec.identity /\ rec'.failed_from = rec.failed_from
         /\ rec'.state \in {rec.state, "funded"}
    BY <1>3, <1>4, <1>7, <1>10, BookedType
  <1>12. /\ DOMAIN exts = 1 .. Len(exts) /\ Len(exts) \in Nat
         /\ exts' \in Seq(Exts) /\ DOMAIN exts' = 1 .. Len(exts) + 1
         /\ \A i \in 1 .. Len(exts) : exts'[i] = exts[i]
         /\ exts'[Len(exts) + 1] = e
    BY <1>3, <1>4, <1>10, Appended
  <1>13. Resumed' /\ Running' = Running
    BY <1>1, <1>11 DEF Resumed, Running
  <1>14. TypeOK'
    BY <1>1, <1>4, <1>11, <1>12 DEF IInv, TypeOK
  <1>15. ChainInv'
    <2>1. \A i \in DOMAIN exts' : Placed(exts', i)
      BY <1>3, <1>4, <1>10, AllPlaced DEF IInv, ChainInv
    <2>2. \A i \in DOMAIN exts' : i \in DOMAIN exts \/ i = Len(exts) + 1
      BY <1>12
    <2>3. \A i \in DOMAIN exts' : exts'[i].block \in 1 .. head' + 1
      BY <1>1, <1>5, <1>10, <1>12, <2>2 DEF IInv, ChainInv
    <2>4. \A k \in DOMAIN rec'.txs : rec'.txs[k].id \in DOMAIN exts'
      <3>1. rec.txs \in Seq(ReceiptSet) /\ Receipt(e).id = Len(exts) + 1
        BY <1>4, <1>10 DEF Records, Receipt
      <3>2. \A k \in DOMAIN rec.txs : rec.txs[k].id \in 1 .. Len(exts)
        BY <1>12 DEF IInv, ChainInv
      <3>3. \A k \in DOMAIN rec'.txs :
               \/ k \in DOMAIN rec.txs /\ rec'.txs[k] = rec.txs[k]
               \/ rec'.txs[k] = Receipt(e)
        BY <1>11, <3>1
      <3> QED
        BY <1>12, <3>1, <3>2, <3>3
    <2>5. trouble' = 0 => \A i \in DOMAIN exts' : exts'[i].event = "ok"
      BY <1>1, <1>10, <1>12, <2>2 DEF IInv, ChainInv
    <2> QED
      BY <2>1, <2>3, <2>4, <2>5 DEF ChainInv
  <1>16. ExpiryInv'
    BY <1>1, <1>13 DEF IInv, ExpiryInv
  <1>17. ResumedInv'
    <2>1. /\ Good(Account(rec), exts)
          /\ rec.state \in {"pending", "detected"} => rec.funded_tao = 0
          /\ rec.state = "failed" => rec.failed_from \in {"funded", "swept"}
      BY <1>1 DEF IInv, ResumedInv
    <2>2. Good(Account(Booked(rec, e)), Append(exts, e))
      BY <1>4, <1>6, <1>10, <2>1, BookGood
    <2>3. rec'.state \notin {"pending", "detected"}
      <3>1. rec.state \in {"detected", "funded", "swept"}
        BY <1>6 DEF Due
      <3>2. CASE rec.state = "detected"
        <4>1. e.call.kind = "TransferTao"
          BY <1>6, <1>10, <3>2 DEF Due, Call
        <4> QED
          BY <1>3, <1>4, <1>10, <4>1, BookedFund
      <3> QED
        BY <1>11, <3>1, <3>2
    <2> QED
      BY <1>3, <1>11, <2>1, <2>2, <2>3 DEF ResumedInv
  <1>18. MigratedInv' /\ CleanInv'
    BY <1>13 DEF MigratedInv, CleanInv
  <1> QED
    BY <1>14, <1>15, <1>16, <1>17, <1>18 DEF IInv

\* A step of the new engine on the record alone.
LEMMA NewRecordInv ==
    ASSUME IInv, Resumed, rec' \in Records, rec'.txs = rec.txs,
           rec'.identity = rec.identity, Good(Account(rec'), exts),
           rec'.state \in {"pending", "detected"} => rec'.funded_tao = 0,
           rec'.state # "failed",
           UNCHANGED <<head, exts, pool, signed, trouble, stopped, setting>>
    PROVE  IInv'
  <1>1. TypeOK'
    BY DEF IInv, TypeOK
  <1>2. ChainInv'
    <2>1. \A i \in DOMAIN exts : Placed(exts', i) <=> Placed(exts, i)
      BY DEF Placed
    <2> QED
      BY <2>1 DEF IInv, ChainInv
  <1>3. Resumed' /\ Running' = Running
    BY DEF Resumed, Running
  <1>4. ExpiryInv'
    BY <1>3 DEF IInv, ExpiryInv
  <1>5. ResumedInv' /\ MigratedInv' /\ CleanInv'
    BY <1>3 DEF ResumedInv, MigratedInv, CleanInv
  <1> QED
    BY <1>1, <1>2, <1>4, <1>5 DEF IInv

\* The new engine skips a transaction or goes on.
LEMMA NewAdvanceInv ==
    ASSUME IInv, NewAdvance
    PROVE  IInv'
  <1>1. PICK q \in Advances(rec, setting) : rec' = q
    BY DEF NewAdvance
  <1>2. /\ Resumed
        /\ UNCHANGED <<head, exts, pool, signed, trouble, stopped, setting>>
    BY DEF NewAdvance
  <1>3. rec \in Records /\ setting \in Configs /\ exts \in Seq(Exts)
    BY SettingsType DEF IInv, TypeOK
  <1>4. /\ q \in Records /\ q.txs = rec.txs /\ q.identity = rec.identity
        /\ q.state # "failed" /\ q.state # "pending"
        /\ q.state = "detected" => rec.state = "pending"
        /\ q.funded_tao = rec.funded_tao
    BY <1>3, AdvanceType
  <1>5. /\ Good(Account(rec), exts)
        /\ rec.state \in {"pending", "detected"} => rec.funded_tao = 0
    BY <1>2 DEF IInv, ResumedInv
  <1>6. Good(Account(q), exts)
    BY <1>3, <1>5, AdvanceGood
  <1> QED
    BY <1>1, <1>2, <1>4, <1>5, <1>6, NewRecordInv

\* retry.
LEMMA NewRetryInv ==
    ASSUME IInv, NewRetry
    PROVE  IInv'
  <1>1. /\ Resumed /\ rec.state = "failed"
        /\ rec' = [rec EXCEPT !.state = rec.failed_from]
        /\ UNCHANGED <<head, exts, pool, signed, trouble, stopped, setting>>
    BY DEF NewRetry
  <1>2. rec \in Records
    BY DEF IInv, TypeOK
  <1>3. Good(Account(rec), exts) /\ rec.failed_from \in {"funded", "swept"}
    BY <1>1 DEF IInv, ResumedInv
  <1>4. /\ rec' \in Records /\ rec'.txs = rec.txs /\ rec'.identity = rec.identity
        /\ rec'.state \in {"funded", "swept"} /\ Account(rec') = Account(rec)
    BY <1>1, <1>2, <1>3 DEF Records, States, Account
  <1> QED
    BY <1>1, <1>3, <1>4, NewRecordInv

-----------------------------------------------------------------------------
(* The archive's answer to a scan that starts before the first extrinsic    *)
(* and ends after the last is all of the chain.                             *)
LEMMA WholeWindow ==
    ASSUME exts \in Seq(Exts), NEW first \in Nat, head \in Nat,
           \A i \in DOMAIN exts : first <= exts[i].block /\ exts[i].block <= head
    PROVE  /\ Window(first) = exts
           /\ NoncesBefore(first) = [s \in Signers |-> 0]
  <1>1. DOMAIN exts = 1 .. Len(exts) /\ Len(exts) \in Nat
    OBVIOUS
  <1>2. \A i \in DOMAIN exts : exts[i].block \in Nat
    <2>1. \A i \in DOMAIN exts : exts[i] \in Exts
      OBVIOUS
    <2> QED
      BY <2>1 DEF Exts
  <1>3. \A i \in DOMAIN exts : ~(exts[i].block <= first - 1)
    BY <1>2
  <1>4. UpTo(first - 1) = 0
    <2>1. {i \in DOMAIN exts : exts[i].block <= first - 1} = {}
      BY <1>3
    <2> QED
      BY <2>1, FS_EmptySet DEF UpTo
  <1>5. UpTo(head) = Len(exts)
    <2>1. {i \in DOMAIN exts : exts[i].block <= head} = 1 .. Len(exts)
      BY <1>1
    <2>2. Cardinality(1 .. Len(exts)) = Len(exts)
      <3> DEFINE L == Len(exts)
      <3>1. L \in Nat
        BY <1>1
      <3> HIDE DEF L
      <3>2. Cardinality(1 .. L) = IF 1 > L THEN 0 ELSE L - 1 + 1
        BY <3>1, FS_Interval
      <3>3. Cardinality(1 .. L) = L
        BY <3>1, <3>2
      <3> QED
        BY <3>3 DEF L
    <2> QED
      BY <2>1, <2>2 DEF UpTo
  <1>6. Window(first) = exts
    <2>1. Window(first) = SubSeq(exts, 1, Len(exts))
      BY <1>4, <1>5 DEF Window
    <2> QED
      BY <2>1, SubSeqFull
  <1>7. \A s : Nonce(s, first - 1) = 0
    <2> TAKE s
    <2>1. {i \in DOMAIN exts : exts[i].signer = s /\ exts[i].block <= first - 1} = {}
      BY <1>3
    <2> QED
      BY <2>1, FS_EmptySet DEF Nonce
  <1>8. NoncesBefore(first) = [s \in Signers |-> 0]
    BY <1>7 DEF NoncesBefore, Signers
  <1> QED
    BY <1>6, <1>8

(* A gap in a signer's history shows in the nonces after it. *)
LEMMA NoGap ==
    ASSUME NEW es \in Seq(Exts), \A i \in DOMAIN es : Placed(es, i),
           NEW i \in DOMAIN es, NEW k \in i + 1 .. Len(es),
           es[k].signer = es[i].signer, NEW m,
           Matches(m, RemoveAt(es, i), [s \in Signers |-> 0])
    PROVE  FALSE
  <1> DEFINE L == Len(es)
             fs == RemoveAt(es, i)
             s == es[i].signer
             j == k - 1
             A == {x \in 1 .. j - 1 : fs[x].signer = fs[j].signer}
             B == {x \in 1 .. k - 1 : es[x].signer = es[k].signer}
  <1>1. L \in Nat /\ DOMAIN es = 1 .. L /\ i \in 1 .. L /\ k \in 1 .. L /\ i < k
    OBVIOUS
  <1>2. /\ Len(fs) = L - 1 /\ DOMAIN fs = 1 .. L - 1
        /\ \A x \in 1 .. L - 1 : fs[x] = IF x < i THEN es[x] ELSE es[x + 1]
    <2> DEFINE u == SubSeq(es, 1, i - 1)
               v == SubSeq(es, i + 1, L)
    <2>1. /\ u \in Seq(Exts) /\ Len(u) = i - 1
          /\ \A x \in 1 .. i - 1 : u[x] = es[x]
      BY <1>1
    <2>2. /\ v \in Seq(Exts) /\ Len(v) = L - i
          /\ \A x \in 1 .. L - i : v[x] = es[x + i]
      <3> DEFINE n == i + 1
      <3>1. n \in 1 .. L + 1 /\ v = SubSeq(es, n, L)
        BY <1>1
      <3> HIDE DEF n, v
      <3>2. v \in Seq(Exts)
        BY <1>1, <3>1, SubSeqProperties
      <3>3. Len(v) = IF n <= L THEN L - n + 1 ELSE 0
        BY <1>1, <3>1, SubSeqProperties
      <3>4. \A x \in 1 .. L - n + 1 : v[x] = es[n + x - 1]
        BY <1>1, <3>1, SubSeqProperties
      <3>5. L - n + 1 = L - i /\ (n <= L <=> i < L) /\ L - i \in Nat
        BY <1>1 DEF n
      <3>6. \A x \in 1 .. L - i : n + x - 1 = x + i
        BY <1>1 DEF n
      <3>7. Len(v) = L - i
        BY <1>1, <3>3, <3>5
      <3>8. \A x \in 1 .. L - i : v[x] = es[x + i]
        BY <3>4, <3>5, <3>6
      <3> QED
        BY <3>2, <3>7, <3>8
    <2>3. fs = u \o v
      BY DEF RemoveAt
    <2> HIDE DEF u, v, fs
    <2>4. /\ u \o v \in Seq(Exts) /\ Len(u \o v) = (i - 1) + (L - i)
          /\ \A x \in 1 .. (i - 1) + (L - i) :
                (u \o v)[x] = IF x <= i - 1 THEN u[x] ELSE v[x - (i - 1)]
      <3>1. /\ u \o v \in Seq(Exts) /\ Len(u \o v) = Len(u) + Len(v)
            /\ \A x \in 1 .. Len(u) + Len(v) :
                  (u \o v)[x] = IF x <= Len(u) THEN u[x] ELSE v[x - Len(u)]
        BY <2>1, <2>2, ConcatProperties
      <3> QED
        BY <2>1, <2>2, <3>1
    <2>5. fs \in Seq(Exts) /\ Len(fs) = L - 1
      BY <1>1, <2>3, <2>4
    <2>6. ASSUME NEW x \in 1 .. L - 1
          PROVE  fs[x] = IF x < i THEN es[x] ELSE es[x + 1]
      <3>1. fs[x] = IF x <= i - 1 THEN u[x] ELSE v[x - (i - 1)]
        BY <1>1, <2>3, <2>4
      <3>2. CASE x < i
        BY <1>1, <2>1, <3>1, <3>2
      <3>3. CASE ~(x < i)
        <4>1. x - (i - 1) \in 1 .. L - i /\ (x - (i - 1)) + i = x + 1
          BY <1>1, <3>3
        <4>2. v[x - (i - 1)] = es[x + 1]
          BY <2>2, <4>1
        <4> QED
          BY <1>1, <3>1, <3>3, <4>2
      <3> QED
        BY <3>2, <3>3
    <2> QED
      BY <2>5, <2>6
  <1> HIDE DEF fs, L
  <1>3. j \in 1 .. L - 1 /\ fs[j] = es[k]
    BY <1>1, <1>2
  <1>4. fs[j].nonce = Cardinality(A)
    <2>1. es[k] \in Exts
      BY <1>1 DEF L
    <2>2. fs[j].nonce = [t \in Signers |-> 0][fs[j].signer] + Cardinality(A)
      BY <1>2, <1>3 DEF Matches, NextNonce, fs
    <2>3. [t \in Signers |-> 0][fs[j].signer] = 0
      BY <1>3, <2>1 DEF Exts
    <2>4. IsFiniteSet(1 .. j - 1) /\ A \subseteq 1 .. j - 1
      <3>1. j - 1 \in Int /\ A \subseteq 1 .. j - 1
        BY <1>1
      <3> HIDE DEF j, A
      <3> QED
        BY <3>1, FS_Interval
    <2>5. Cardinality(A) \in Nat
      BY <2>4, FS_Subset, FS_CardinalityType
    <2> HIDE DEF A, j
    <2> QED
      BY <2>2, <2>3, <2>5
  <1>5. es[k].nonce = Cardinality(B)
    BY <1>1 DEF Placed
  <1>6. i \in B /\ IsFiniteSet(B)
    <2>1. IsFiniteSet(1 .. k - 1) /\ B \subseteq 1 .. k - 1
      <3>1. j \in Int /\ k - 1 = j /\ B \subseteq 1 .. j
        BY <1>1
      <3> HIDE DEF B, j
      <3>2. IsFiniteSet(1 .. j)
        BY <3>1, FS_Interval
      <3> QED
        BY <3>1, <3>2
    <2>2. IsFiniteSet(B)
      BY <2>1, FS_Subset
    <2> QED
      BY <1>1, <2>2
  <1>7. ExistsInjection(A, B \ {i})
    <2> DEFINE f == [x \in A |-> IF x < i THEN x ELSE x + 1]
    <2>1. ASSUME NEW x \in A
          PROVE  (IF x < i THEN x ELSE x + 1) \in B \ {i}
      <3>1. x \in 1 .. L - 1 /\ x \in 1 .. k - 2 /\ fs[x].signer = es[k].signer
        BY <1>1, <1>3
      <3>2. fs[x] = IF x < i THEN es[x] ELSE es[x + 1]
        BY <1>2, <3>1
      <3> QED
        BY <1>1, <3>1, <3>2
    <2>2. A \subseteq Int
      OBVIOUS
    <2> HIDE DEF A, B
    <2>3. f \in [A -> B \ {i}]
      BY <2>1
    <2>4. \A x, y \in A : f[x] = f[y] => x = y
      BY <1>1, <2>2
    <2> QED
      BY <2>3, <2>4 DEF ExistsInjection, Injection, IsInjective
  <1> HIDE DEF A, B
  <1>8. Cardinality(A) <= Cardinality(B \ {i})
    BY <1>6, <1>7, FS_RemoveElement, FS_Injection DEF ExistsInjection
  <1>9. Cardinality(B \ {i}) = Cardinality(B) - 1 /\ Cardinality(B) \in Nat
    BY <1>6, FS_RemoveElement, FS_CardinalityType
  <1>10. Cardinality(A) = Cardinality(B)
    BY <1>3, <1>4, <1>5
  <1> QED
    BY <1>8, <1>9, <1>10

(* What matches the chain is replayed as it is on the chain. *)
LEMMA ReplayedExts ==
    ASSUME NEW r, NEW m, NEW es \in Seq(Exts), NEW nonces, Matches(m, es, nonces)
    PROVE  Replayed(r, m, es) = ReplayAll(r, m, es)
  <1>1. \A i \in DOMAIN es : m.transactions[i].call = es[i].call
    BY DEF Matches
  <1>2. \A i \in DOMAIN es : es[i] \in Exts
    OBVIOUS
  <1>3. \A i \in DOMAIN es : [es[i] EXCEPT !.call = m.transactions[i].call] = es[i]
    BY <1>1, <1>2 DEF Exts
  <1>4. [i \in DOMAIN es |-> [es[i] EXCEPT !.call = m.transactions[i].call]] = es
    BY <1>3
  <1> QED
    BY <1>4 DEF Replayed

(* The import: what it accepts is an account of all that ever happened. *)
LEMMA RecoverInv ==
    ASSUME IInv, RecoverAny
    PROVE  IInv'
  <1>1. PICK es \in {exts, Receipted}, claim \in Claims, first \in Firsts,
             stop \in stopped .. head, cfg \in Settings :
          LET m == Manifest(first, stop, cfg, Listed(es, claim)) IN
          /\ Expired(m, head)
          /\ \E found \in Answers(first) : Recover(m, found)
    BY DEF RecoverAny
  <1> DEFINE m == Manifest(first, stop, cfg, Listed(es, claim))
  <1>2. PICK found \in Answers(first) : Recover(m, found)
    BY <1>1
  <1>3. Expired(m, head) /\ ~Running
    BY <1>1 DEF RecoverAny
  <1>4. /\ m.first_block = first /\ m.stopped_at = stop
        /\ m.maximum_mortality = Mortality /\ m.consolidate = cfg.consolidate
        /\ m.return_dust = cfg.return_dust /\ m.budget = cfg.budget
    BY DEF Manifest
  <1> HIDE DEF m
  <1>5. /\ rec \in Records /\ exts \in Seq(Exts) /\ head \in Nat /\ cfg \in Configs
        /\ \A tx \in pool : tx.birth \in Nat
    BY SettingsType DEF IInv, TypeOK, Txs
  <1>6. /\ stopped \in 1 .. head
        /\ \A tx \in pool : tx.birth <= stopped
    BY <1>3 DEF IInv, ExpiryInv
  <1>7. stop \in Nat /\ stopped <= stop /\ head > stop + Mortality + 1
    BY <1>3, <1>4, <1>5, <1>6 DEF Expired
  <1>8. /\ Verify(rec, m, found, NoncesBefore(first), head)
        /\ rec' = [rec EXCEPT !.identity = "set",
                              !.auto_required = m.budget # None,
                              !.buyback_budget = m.budget]
        /\ setting' = [consolidate |-> m.consolidate,
                       return_dust |-> m.return_dust, budget |-> m.budget]
        /\ UNCHANGED <<head, exts, pool, signed, trouble, stopped>>
    BY <1>2, <1>4 DEF Recover
  <1>9. /\ Importable(rec, m) /\ Matches(m, found, NoncesBefore(first))
        /\ Reproduces(rec, m, Replayed(rec, m, found))
    BY <1>8 DEF Verify, ValidateManifest
  <1>10. ~Resumed
    BY <1>9 DEF Importable, Resumed
  <1>11. first \in Nat /\ \A i \in DOMAIN exts : first <= exts[i].block
    BY <1>5 DEF Firsts
  <1>12. \A i \in DOMAIN exts : exts[i].block <= head
    <2>1. \A i \in DOMAIN exts : exts[i].block <= stopped + Mortality /\ exts[i].block \in Nat
      <3>1. \A i \in DOMAIN exts : exts[i] \in Exts
        BY <1>5
      <3>2. \A i \in DOMAIN exts : exts[i].block <= stopped + Mortality
        BY <1>3, <1>10 DEF IInv, ExpiryInv
      <3> QED
        BY <3>1, <3>2 DEF Exts
    <2> QED
      <3>1. head \in Nat /\ stopped \in Nat /\ stop \in Nat /\ Mortality \in Nat
        BY <1>5, <1>6, <1>7, RecoveryAssumption
      <3>2. stopped + Mortality <= head
        BY <1>7, <3>1
      <3> QED
        BY <2>1, <3>1, <3>2
  <1>13. Window(first) = exts /\ NoncesBefore(first) = [s \in Signers |-> 0]
    BY <1>5, <1>11, <1>12, WholeWindow
  <1>14. \A i \in DOMAIN exts : Placed(exts, i)
    BY DEF IInv, ChainInv
  <1>15. found = exts
    <2>1. \/ found = exts
          \/ \E i \in DOMAIN exts : \E k \in i + 1 .. Len(exts) :
               exts[k].signer = exts[i].signer /\ found = RemoveAt(exts, i)
      BY <1>13 DEF Answers
    <2>2. ASSUME NEW i \in DOMAIN exts, NEW k \in i + 1 .. Len(exts),
                 exts[k].signer = exts[i].signer, found = RemoveAt(exts, i)
          PROVE  FALSE
      BY <1>5, <1>9, <1>13, <1>14, <2>2, NoGap
    <2> QED
      BY <2>1, <2>2
  <1> DEFINE a == ReplayAll(rec, m, exts)
  <1>16. Reproduces(rec, m, a)
    BY <1>5, <1>9, <1>15, ReplayedExts
  <1>17. a \in Accounts
    BY <1>5, ReplayType
  <1>18. a.ok => Good(a, exts)
    BY <1>5, ReplayGood
  <1> HIDE DEF a
  <1>19. Good(Account(rec), exts)
    <2>1. /\ a.ok /\ a.funded = rec.funded_tao /\ a.positions = rec.swept_positions
          /\ a.consolidated = rec.consolidated /\ a.dust = rec.dust_returned
          /\ a.buyback = rec.buyback
      BY <1>16 DEF Reproduces
    <2>2. Ledger(a) /\ Good(a, exts)
      BY <1>17, <1>18, <2>1 DEF Ledger, Accounts
    <2>3. a.consolidated \in a.consolidated .. Len(a.positions)
      BY <2>2 DEF Good, Ledger
    <2> DEFINE b == Account(rec)
    <2>4. /\ b.funded = a.funded /\ b.positions = a.positions
          /\ b.consolidated \in a.consolidated .. Len(a.positions)
          /\ a.dust => b.dust
          /\ b.buyback = a.buyback
      BY <2>1, <2>3 DEF Account
    <2> HIDE DEF b
    <2>5. Good(b, exts)
      BY <1>5, <2>2, <2>4, GoodSkip
    <2> QED
      BY <2>5 DEF b
  <1>20. (m.budget # None) \in BOOLEAN /\ m.budget \in Budgets \cup {None}
    BY <1>4, <1>5 DEF Configs
  <1>21. /\ rec' \in Records /\ rec'.identity = "set" /\ rec'.txs = rec.txs
         /\ rec'.state = rec.state /\ rec'.failed_from = rec.failed_from
         /\ rec'.funded_tao = rec.funded_tao /\ Account(rec') = Account(rec)
    BY <1>5, <1>8, <1>20 DEF Records, Account
  <1>22. setting' = cfg
    BY <1>4, <1>5, <1>8 DEF Configs
  <1>23. TypeOK'
    BY <1>8, <1>21, <1>22 DEF IInv, TypeOK
  <1>24. Resumed' /\ ~Running'
    BY <1>3, <1>8, <1>21, NoneAssumption DEF Resumed, Running
  <1>25. ChainInv'
    <2>1. \A i \in DOMAIN exts : Placed(exts', i) <=> Placed(exts, i)
      BY <1>8 DEF Placed
    <2> QED
      BY <1>8, <1>21, <2>1 DEF IInv, ChainInv
  <1>26. ExpiryInv'
    <2>1. \A tx \in pool : tx.birth + Mortality <= head
      BY <1>5, <1>6, <1>7, RecoveryAssumption
    <2> QED
      BY <1>3, <1>6, <1>8, <1>24, <2>1 DEF IInv, ExpiryInv
  <1>27. ResumedInv'
    <2>1. rec.state \in {"pending", "detected"} => rec.funded_tao = 0
      BY <1>9 DEF Importable, Stage, Pristine
    <2>2. rec.state = "failed" => rec.failed_from \in {"funded", "swept"}
      BY <1>9 DEF Importable, Stage
    <2> QED
      BY <1>8, <1>19, <1>21, <2>1, <2>2 DEF ResumedInv
  <1>28. MigratedInv' /\ CleanInv'
    BY <1>24 DEF MigratedInv, CleanInv
  <1> QED
    BY <1>23, <1>25, <1>26, <1>27, <1>28 DEF IInv

-----------------------------------------------------------------------------
\* A step of somebody else.
LEMMA Stutter ==
    ASSUME IInv, UNCHANGED vars
    PROVE  IInv'
  <1> USE DEF vars
  <1>1. TypeOK'
    BY DEF IInv, TypeOK
  <1>2. ChainInv'
    <2>1. \A i \in DOMAIN exts : Placed(exts', i) <=> Placed(exts, i)
      BY DEF Placed
    <2> QED
      BY <2>1 DEF IInv, ChainInv
  <1>3. ExpiryInv'
    BY DEF IInv, ExpiryInv, Running, Resumed
  <1>4. ResumedInv' /\ MigratedInv' /\ CleanInv'
    BY QuietInv DEF Running
  <1> QED
    BY <1>1, <1>2, <1>3, <1>4 DEF IInv

(* The invariant of the import, for every number of hotkeys, mortality,     *)
(* bound and set of settings: the record's receipts name extrinsics of the  *)
(* chain, no signature outlives its mortality, a recovered record accounts  *)
(* for all of the chain, and a record without trouble whose moves took what *)
(* was swept is what the replay makes of its receipts.  (recover_legacy,    *)
(* verify, replay.)                                                         *)
THEOREM Inductive == Spec => []IInv
  <1>1. Init => IInv
    BY InitInv
  <1>2. IInv /\ [Next]_vars => IInv'
    <2> SUFFICES ASSUME IInv, [Next]_vars
                 PROVE  IInv'
      OBVIOUS
    <2>1. CASE \E tx \in pool, ev \in Events : Include(tx, ev)
      BY <2>1, IncludeInv
    <2>2. CASE Finalize
      BY <2>2, FinalizeInv
    <2>3. CASE \E d \in Due(rec, setting) : OldSend(d[1], d[2])
      BY <2>3, OldSendInv
    <2>4. CASE OldBook
      BY <2>4, OldBookInv
    <2>5. CASE OldAdvance
      BY <2>5, OldAdvanceInv
    <2>6. CASE OldFail
      BY <2>6, OldFailInv
    <2>7. CASE Manual
      BY <2>7, ManualInv
    <2>8. CASE Stop
      BY <2>8, StopInv
    <2>9. CASE RecoverAny
      BY <2>9, RecoverInv
    <2>10. CASE Migrate
      BY <2>10, MigrateInv
    <2>11. CASE NewSend
      BY <2>11, NewSendInv
    <2>12. CASE NewAdvance
      BY <2>12, NewAdvanceInv
    <2>13. CASE NewRetry
      BY <2>13, NewRetryInv
    <2>14. CASE UNCHANGED vars
      BY <2>14, Stutter
    <2> QED
      BY <2>1, <2>2, <2>3, <2>4, <2>5, <2>6, <2>7, <2>8, <2>9, <2>10, <2>11,
         <2>12, <2>13, <2>14 DEF Next
  <1> QED
    BY <1>1, <1>2, PTL DEF Spec

(* RecoveredExactly, for every value of the constants: a job that           *)
(* recover_legacy imported has spent what its record says and no more, then *)
(* and ever after.                                                          *)
THEOREM RecoveredOnce == Spec => []RecoveredExactly
  <1>1. IInv => RecoveredExactly
    BY DEF IInv, ResumedInv, RecoveredExactly, Good
  <1> QED
    BY <1>1, Inductive, PTL

-----------------------------------------------------------------------------
(* A list of all that the archive shows says of each extrinsic what it is. *)
LEMMA ListedAll ==
    ASSUME NEW es \in Seq(Exts), NEW list, list = Listed(es, FALSE)
    PROVE  /\ DOMAIN list = DOMAIN es /\ Len(list) = Len(es)
           /\ list = <<>> <=> es = <<>>
           /\ \A i \in DOMAIN es :
                 /\ list[i].id = es[i].id /\ list[i].block = es[i].block
                 /\ list[i].signer = es[i].signer
                 /\ list[i].nonce = es[i].nonce /\ list[i].call = es[i].call
           /\ Receipts(list) = Receipts(es)
  <1>1. DOMAIN es = 1 .. Len(es) /\ Len(es) \in Nat
    OBVIOUS
  <1>2. DOMAIN list = DOMAIN es
    BY DEF Listed
  <1>3. Len(list) = Len(es)
    <2> DEFINE T == {list[n] : n \in DOMAIN es}
               L == Len(es)
    <2>1. list \in [1 .. L -> T] /\ L \in Nat /\ DOMAIN list = 1 .. L
      BY <1>1, <1>2 DEF Listed
    <2> HIDE DEF T, L
    <2>2. list \in Seq(T)
      <3>1. Seq(T) = UNION {[1 .. n -> T] : n \in Nat}
        BY SeqDef
      <3> QED
        BY <2>1, <3>1, Zenon
    <2> DEFINE K == Len(list)
    <2>3. K \in Nat /\ DOMAIN list = 1 .. K
      BY <2>2, LenProperties
    <2> HIDE DEF K
    <2>4. K = L
      <3>1. 1 .. K = 1 .. L
        BY <2>1, <2>3
      <3>2. K \in 1 .. L \/ K = 0
        <4>1. K \in 1 .. K \/ K = 0
          BY <2>3
        <4> QED
          BY <3>1, <4>1, Zenon
      <3>3. L \in 1 .. K \/ L = 0
        <4>1. L \in 1 .. L \/ L = 0
          BY <2>1
        <4> QED
          BY <3>1, <4>1, Zenon
      <3> QED
        BY <2>1, <2>3, <3>2, <3>3
    <2> QED
      BY <2>4 DEF K, L
  <1>4. ASSUME NEW i \in DOMAIN es
        PROVE  /\ list[i].id = es[i].id /\ list[i].block = es[i].block
               /\ list[i].signer = es[i].signer
               /\ list[i].nonce = es[i].nonce /\ list[i].call = es[i].call
    <2>1. es[i].call \in Calls
      <3>1. es[i] \in Exts
        OBVIOUS
      <3> QED
        BY <3>1 DEF Exts
    <2> DEFINE listed == [es[i].call EXCEPT !.job = @ \/ FALSE]
               e == es[i]
               t == list[i]
    <2>2. t = [id |-> e.id, block |-> e.block, signer |-> e.signer,
               nonce |-> e.nonce, call |-> listed]
      BY DEF Listed
    <2>3. ASSUME NEW c \in Calls
          PROVE  [c EXCEPT !.job = @ \/ FALSE] = c
      BY DEF Calls
    <2>4. listed = e.call
      BY <2>1, <2>3
    <2> HIDE DEF listed, e, t
    <2>5. /\ t.id = e.id /\ t.block = e.block /\ t.signer = e.signer
          /\ t.nonce = e.nonce /\ t.call = e.call
      BY <2>2, <2>4
    <2> QED
      BY <2>5 DEF e, t
  <1>5. Receipts(list) = Receipts(es)
    BY <1>2, <1>4 DEF Receipts, Receipt
  <1>6. list = <<>> <=> es = <<>>
    BY <1>1, <1>2 DEF Listed
  <1> QED
    BY <1>2, <1>3, <1>4, <1>5, <1>6

(* CleanImportable, for every value of the constants: whatever step the old *)
(* engine was stopped in or failed in, an import that lists a history       *)
(* without trouble is accepted once its signatures have expired, exactly if *)
(* every move took what was swept.                                          *)
(* (validate_manifest, verify_legacy_archive, replay.)                      *)
THEOREM CleanHistoriesImport == Spec => []CleanImportable
  <1>1. ASSUME IInv, Complete PROVE Imports <=> MovedAsSwept(rec, exts)
    <2> DEFINE list == Listed(exts, FALSE)
               cfg == [setting EXCEPT !.budget =
                  IF rec.auto_required = None THEN @ ELSE rec.buyback_budget]
               m == Manifest(1, stopped, cfg, list)
    <2>19. Imports <=> Verify(rec, m, Window(1), NoncesBefore(1), head)
      BY DEF Imports
    <2>20. /\ ~Running /\ ~Resumed /\ Clean /\ head > stopped + Mortality + 1
           /\ head - 1 <= MaxScan /\ Len(exts) <= MaxListed
           /\ Mortality <= MaxMortality
      BY <1>1 DEF Complete
    <2>1. /\ rec \in Records /\ exts \in Seq(Exts) /\ head \in Nat
          /\ setting \in Configs /\ ValidBudget(setting.budget)
      BY <1>1, SettingsType DEF IInv, TypeOK
    <2>2. /\ cfg.consolidate = setting.consolidate
          /\ cfg.return_dust = setting.return_dust
          /\ cfg.budget = IF rec.auto_required = None THEN setting.budget
                          ELSE rec.buyback_budget
      BY <2>1 DEF Configs
    <2> HIDE DEF cfg, list
    <2>3. /\ m.first_block = 1 /\ m.stopped_at = stopped
          /\ m.maximum_mortality = Mortality /\ m.consolidate = setting.consolidate
          /\ m.return_dust = setting.return_dust /\ m.budget = cfg.budget
          /\ m.transactions = list
      BY <2>2 DEF Manifest
    <2> HIDE DEF m
    <2>4. /\ trouble = 0 /\ Receipts(exts) = rec.txs
          /\ \A i \in DOMAIN exts : exts[i].block <= stopped
          /\ \/ rec.state \in {"pending", "detected"}
             \/ Stage(rec) \in {"funded", "swept"}
      BY <2>20 DEF Clean
    <2>5. stopped \in 1 .. head
      BY <1>1, <2>20 DEF IInv, ExpiryInv
    <2>6. \A i \in DOMAIN exts : Placed(exts, i) /\ exts[i].block \in 1 .. head + 1
      BY <1>1 DEF IInv, ChainInv
    <2>7. Window(1) = exts /\ NoncesBefore(1) = [s \in Signers |-> 0]
      <3>1. \A i \in DOMAIN exts : 1 <= exts[i].block /\ exts[i].block <= head
        BY <2>1, <2>4, <2>5, <2>6
      <3> QED
        BY <2>1, <3>1, WholeWindow
    <2>8. /\ DOMAIN list = DOMAIN exts /\ Len(list) = Len(exts)
          /\ list = <<>> <=> exts = <<>>
          /\ \A i \in DOMAIN exts :
                /\ list[i].id = exts[i].id /\ list[i].block = exts[i].block
                /\ list[i].signer = exts[i].signer
                /\ list[i].nonce = exts[i].nonce /\ list[i].call = exts[i].call
          /\ Receipts(list) = Receipts(exts)
      BY <2>1, ListedAll DEF list
    <2>9. MovedAsSwept(rec, exts) => Kept(rec, setting, exts)
      <3>1. \A i \in DOMAIN exts : exts[i].id = i
        BY <2>6 DEF Placed
      <3>2. Receipted = exts
        BY <1>1, <2>4, <3>1, ReceiptedAll DEF IInv
      <3> QED
        BY <1>1, <2>4, <2>20, <3>2 DEF IInv, CleanInv, KeptIf
    <2>10. rec.txs = <<>> <=> exts = <<>>
      <3>1. DOMAIN rec.txs = DOMAIN exts
        BY <2>4 DEF Receipts
      <3>2. rec.txs \in Seq(ReceiptSet)
        BY <2>1 DEF Records
      <3> QED
        BY <2>1, <3>1, <3>2, EmptySeq
    <2>11. rec.auto_required # None =>
             /\ Pristine(rec) /\ exts = <<>>
             /\ rec.state \in {"pending", "detected"}
             /\ rec.auto_required = (rec.buyback_budget # None)
             /\ ValidBudget(rec.buyback_budget)
      BY <1>1, <2>10, <2>20 DEF IInv, MigratedInv
    <2>12. MovedAsSwept(rec, exts) => Importable(rec, m)
      <3> SUFFICES ASSUME MovedAsSwept(rec, exts) PROVE Importable(rec, m)
        OBVIOUS
      <3>1. ValidBudget(m.budget)
        BY <2>1, <2>2, <2>3, <2>11
      <3>2. rec.identity = None /\ ~rec.notified
        BY <2>1, <2>20 DEF Resumed, Records
      <3>3. rec.auto_required # None =>
              /\ rec.auto_required = (m.budget # None)
              /\ rec.buyback_budget = m.budget
        BY <2>2, <2>3, <2>11
      <3>4. rec.state \in {"pending", "detected"} =>
              m.transactions = <<>> /\ Pristine(rec)
        BY <2>3, <2>8, <2>9, <2>10 DEF Kept
      <3>5. Stage(rec) \in {"funded", "swept"} => m.transactions # <<>>
        BY <2>3, <2>8, <2>9, <2>10 DEF Kept
      <3>6. Len(m.transactions) <= MaxListed
        BY <2>3, <2>8, <2>20
      <3> QED
        BY <2>4, <3>1, <3>2, <3>3, <3>4, <3>5, <3>6 DEF Importable
    <2>13. Chronological(m)
      <3>1. 0 < m.first_block /\ m.first_block <= m.stopped_at
        BY <2>3, <2>5
      <3>2. 0 < m.maximum_mortality /\ m.maximum_mortality <= MaxMortality
        BY <2>3, <2>20, RecoveryAssumption
      <3>3. ASSUME NEW i \in DOMAIN list
            PROVE  /\ 1 <= list[i].block /\ list[i].block <= stopped
                   /\ \A k \in 1 .. i - 1 : list[k].id < list[i].id
        <4>1. i \in 1 .. Len(exts) /\ DOMAIN exts = 1 .. Len(exts) /\ Len(exts) \in Nat
          BY <2>1, <2>8
        <4>2. 1 <= list[i].block /\ list[i].block <= stopped
          BY <2>1, <2>4, <2>6, <2>8, <4>1
        <4>3. \A k \in 1 .. Len(exts) : list[k].id = k
          BY <2>6, <2>8, <4>1 DEF Placed
        <4> QED
          BY <4>1, <4>2, <4>3
      <3> QED
        BY <2>3, <3>1, <3>2, <3>3 DEF Chronological
    <2>14. MovedAsSwept(rec, exts) => ValidateManifest(rec, m)
      BY <2>3, <2>4, <2>8, <2>12, <2>13 DEF ValidateManifest
    <2>15. Expired(m, head)
      BY <2>3, <2>20 DEF Expired
    <2>16. Matches(m, exts, [s \in Signers |-> 0])
      <3>1. ASSUME NEW i \in DOMAIN exts
            PROVE  list[i].nonce = NextNonce(exts, i, [s \in Signers |-> 0])
        <4> DEFINE C == Cardinality({k \in 1 .. i - 1 : exts[k].signer = exts[i].signer})
        <4>1. list[i].nonce = C
          BY <2>6, <2>8 DEF Placed
        <4>2. exts[i].nonce \in Nat /\ exts[i].signer \in Signers
          <5>1. exts[i] \in Exts
            BY <2>1
          <5> QED
            BY <5>1 DEF Exts
        <4>3. NextNonce(exts, i, [s \in Signers |-> 0]) = 0 + C
          BY <4>2 DEF NextNonce
        <4> HIDE DEF C
        <4>4. C \in Nat
          BY <2>8, <4>1, <4>2
        <4> QED
          BY <4>1, <4>3, <4>4
      <3> QED
        BY <2>3, <2>8, <3>1 DEF Matches
    <2>17. MovedAsSwept(rec, exts) => Reproduces(rec, m, ReplayAll(rec, m, exts))
      <3> SUFFICES ASSUME MovedAsSwept(rec, exts)
                   PROVE  Reproduces(rec, m, ReplayAll(rec, m, exts))
        OBVIOUS
      <3>1. CASE rec.auto_required = None
        <4>1. m.budget = setting.budget
          BY <2>2, <2>3, <3>1
        <4>2. ReplayAll(rec, m, exts) = ReplayAll(rec, setting, exts)
          BY <2>1, <2>3, <4>1, ReplaySame
        <4>3. Reproduces(rec, setting, ReplayAll(rec, setting, exts))
          BY <2>9 DEF Kept
        <4> QED
          BY <4>1, <4>2, <4>3 DEF Reproduces
      <3>2. CASE rec.auto_required # None
        <4>1. ReplayAll(rec, m, exts) = Start
          BY <2>11, <3>2, ReplayEmpty
        <4>2. Pristine(rec)
          BY <2>11, <3>2
        <4>3. rec.dust_returned = FALSE /\ rec.buyback_done = FALSE
          BY <2>1, <4>2 DEF Pristine, Records
        <4>4. Reproduces(rec, m, Start)
          BY <4>2, <4>3 DEF Reproduces, Pristine, Start
        <4> QED
          BY <4>1, <4>4
      <3> QED
        BY <3>1, <3>2
    <2>18. Replayed(rec, m, exts) = ReplayAll(rec, m, exts)
      BY <2>1, <2>16, ReplayedExts
    <2>21. MovedAsSwept(rec, exts) => Imports
      BY <2>7, <2>14, <2>15, <2>16, <2>17, <2>18, <2>19 DEF Verify
    <2>22. ASSUME Imports PROVE MovedAsSwept(rec, exts)
      <3> DEFINE a == ReplayAll(rec, m, exts)
      <3>1. a.ok /\ a.positions = rec.swept_positions
        BY <2>7, <2>18, <2>19, <2>22 DEF Verify, Reproduces
      <3>2. MovedIn(a, exts) /\ Good(a, exts)
        BY <2>1, <3>1, ReplayMoved, ReplayGood
      <3> HIDE DEF a
      <3> SUFFICES ASSUME NEW i \in DOMAIN exts, NEW n \in DOMAIN a.positions,
                          exts[i].call.kind = "MoveStake",
                          exts[i].call.hot = a.positions[n][1]
                   PROVE  exts[i].call.amount = a.positions[n][2]
        BY <3>1 DEF MovedAsSwept
      <3>3. PICK k \in DOMAIN a.positions : a.positions[k] = Position(exts[i])
        BY <3>2 DEF MovedIn
      <3>4. a.positions[k][1] = a.positions[n][1]
        BY <3>3 DEF Position
      <3>5. k = n
        BY <3>2, <3>4 DEF Good, Distinct
      <3> QED
        BY <3>3, <3>5 DEF Position
    <2> QED
      BY <2>21, <2>22
  <1>2. IInv => CleanImportable
    BY <1>1 DEF CleanImportable
  <1> QED
    BY <1>2, Inductive, PTL
=============================================================================
