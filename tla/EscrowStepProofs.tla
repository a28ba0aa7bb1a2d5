-------------------------- MODULE EscrowStepProofs --------------------------
(***************************************************************************)
(* What the handlers do to the part of an escrow that decides about its    *)
(* tokens: status, target, data id, the pending payout, and the promises   *)
(* and batches in flight.  Every step of the contract is one of the few    *)
(* shapes below, for all constants and under every fault; the invariants   *)
(* about yields and tokens are then proved shape by shape.                 *)
(***************************************************************************)
EXTENDS EscrowSafetyProofs

\* No tokens are moved.
TokensKept == \A k \in Jobs : Tokens(flow'[k]) = Tokens(flow[k])

\* The settled status of an escrow with this target.
Outcome(e) == IF e.target = "Claim" THEN "Claimed" ELSE "Refunded"

\* e differs from what escrow j was in nothing but its status and what no token
\* depends on.
Alike(j, e) ==
    /\ escrows[j] \in EscrowRecord /\ e \in EscrowRecord
    /\ e.terms = escrows[j].terms /\ e.target = escrows[j].target
    /\ e.payout = escrows[j].payout

\* No escrow, promise or batch is touched; time passes only without a promise.
Rests ==
    /\ UNCHANGED <<escrows, index, yields, batches>> /\ TokensKept
    /\ now' = now \/ \A d \in YieldIds : ~Live(d)

\* create_escrow.
Creates(j) ==
    /\ escrows[j] = NoEscrow
    /\ \E t \in ValidTerms : escrows' = [escrows EXCEPT ![j] = NewEscrow(t)]
    /\ flow' = [flow EXCEPT ![j] = NoFlow]
    /\ UNCHANGED <<index, yields, batches, now>>

\* A deposit that is accepted.
Funds(j) ==
    /\ escrows[j].status = "PendingFunding"
    /\ \E e \in EscrowRecord :
          /\ Alike(j, e) /\ e.status = "Open"
          /\ e.dataId = escrows[j].dataId /\ e.pubkey = escrows[j].pubkey
          /\ escrows' = [escrows EXCEPT ![j] = e]
          /\ flow' = [flow EXCEPT ![j].in = @ + e.terms.amount]
    /\ UNCHANGED <<index, yields, batches, now>>

\* Claims and submissions to a competition.
Takes(j) ==
    /\ escrows[j].status = "Open"
    /\ \E e \in EscrowRecord :
          /\ Alike(j, e) /\ e.status \in {"Open", "InProgress"}
          /\ e.dataId = escrows[j].dataId
          /\ escrows' = [escrows EXCEPT ![j] = e]
    /\ TokensKept
    /\ UNCHANGED <<index, yields, batches, now>>

\* A result, or the choice of a winner, opens the yield d.
Opens(j, d) ==
    /\ escrows[j].status \in {"Open", "InProgress"}
    /\ OpenYield(j, d)
    /\ \E e \in EscrowRecord :
          /\ Alike(j, e) /\ e.status = "Verifying"
          /\ e.dataId = d /\ e.since = now /\ e.pubkey = escrows[j].pubkey
          /\ escrows' = [escrows EXCEPT ![j] = e]
    /\ TokensKept
    /\ UNCHANGED <<batches, now>>

\* An escrow is given up: unfunded, or after too many retries.
Cancels(j) ==
    /\ \/ escrows[j].status = "PendingFunding"
       \/ Retryable(escrows[j])
    /\ \E e \in EscrowRecord :
          /\ Alike(j, e) /\ e.status = "Cancelled"
          /\ e.dataId = escrows[j].dataId /\ e.pubkey = escrows[j].pubkey
          /\ escrows' = [escrows EXCEPT ![j] = e]
    /\ TokensKept
    /\ UNCHANGED <<index, yields, batches, now, wallet>>

\* _settle_escrow as the end of a handler that has made the escrow into e.
Settles(j, e) ==
    /\ escrows[j] \in EscrowRecord /\ e \in EscrowRecord
    /\ e.terms = escrows[j].terms /\ e.pubkey = escrows[j].pubkey
    /\ e.target # "None" /\ ~IsSettled(escrows[j]) /\ ~IsSettled(e)
    /\ \E st \in Counters, f \in Flow :
          Tokens(f) = Tokens(flow[j]) /\ SettleEscrow(j, e, st, f)

\* Cancellation, expiry and retry.  A verification is cut off only when it is
\* stuck or has ended already.
Refunds(j) ==
    \E e \in EscrowRecord :
       /\ Settles(j, e)
       /\ escrows[j].status # "PendingFunding"
       /\ escrows[j].status = "Verifying" => Stuck(escrows[j]) \/ escrows[j].target # "None"
       /\ \/ e.target = escrows[j].target /\ e.status = escrows[j].status
          \/ /\ e.target = "FullRefund" /\ escrows[j].status \in {"Open", "InProgress", "Verifying"}
             /\ e.status \in {escrows[j].status, "Cancelled"}
       /\ \/ index' = index /\ e.dataId = escrows[j].dataId
          \/ index' = Unindexed(escrows[j]) /\ e.dataId = 0
       /\ UNCHANGED <<yields, now>>

\* verification_callback.
Judges(j, d) ==
    /\ Live(d) /\ yields[d].job = j
    /\ escrows[j].status = "Verifying"
    /\ Ended(d)
    /\ index' = Unindexed(escrows[j])
    /\ \E e \in EscrowRecord : Settles(j, e) /\ e.dataId = 0 /\ e.status = "Verifying"
    /\ UNCHANGED now

\* A settlement that failed has a target to retry with.
FailedHasTarget ==
    \A j \in Jobs : escrows[j].status = "SettlementFailed" => escrows[j].target # "None"

-----------------------------------------------------------------------------
\* Stakes and storage deposits are no tokens.
LEMMA FlowTokens ==
    ASSUME NEW f \in Flow, NEW n, NEW s
    PROVE  /\ Tokens(StorageBack(f)) = Tokens(f)
           /\ Tokens(BondBack(f, n)) = Tokens(f)
           /\ Tokens(BondGone(f, n)) = Tokens(f)
           /\ Tokens(LosersRepaid(f, s)) = Tokens(f)
  BY DEF StorageBack, BondBack, BondGone, LosersRepaid, Flow, Tokens

LEMMA StatusNames ==
    /\ {"PendingFunding", "Open", "InProgress", "Verifying", "SettlementFailed", "Cancelled"}
          \subseteq Statuses
    /\ {"Claim", "Refund", "FullRefund", "None"} \subseteq Targets
    /\ 0 \in 0 .. MaxYields
  BY EscrowAssumption DEF Statuses, Targets

\* The handlers of the worker's side.
LEMMA WorkShape ==
    ASSUME TypeOK, NEW j \in Jobs,
           \/ \E t \in Terms, attached \in Deposits : CreateEscrow(j, t, attached)
           \/ \E w \in Workers, attached \in Deposits : Claim(j, w, attached)
           \/ \E w \in Accounts : SubmitResult(j, w)
           \/ \E w \in Workers, attached \in Deposits : SubmitCompetitive(j, w, attached)
           \/ \E p \in Pubkeys, r \in Relayers : ClaimFor(j, p, r) \/ SubmitCompetitiveFor(j, p, r)
           \/ \E p \in Pubkeys : SubmitResultFor(j, p) \/ SubmitResultForReplay(j, p)
           \/ \E caller \in Accounts, s \in escrows[j].subs :
                 escrows[j].status = "Open" /\ DesignateWinner(j, caller, s)
    PROVE  Rests \/ Creates(j) \/ Takes(j) \/ \E d \in YieldIds : Opens(j, d)
<1> DEFINE e == escrows[j]
<1>1. /\ escrows \in [Jobs -> EscrowRecord \cup {NoEscrow}] /\ flow \in [Jobs -> Flow]
      /\ config \in Config /\ now \in Nat
      /\ Relayers \subseteq Accounts /\ Workers \subseteq Accounts /\ Deposits \subseteq Nat
  BY EscrowAssumption, WalletAssumption DEF TypeOK
<1>2. e.status # "Absent" => e \in EscrowRecord
  BY EscrowPresent
<1>3. CASE \E t \in Terms, attached \in Deposits : CreateEscrow(j, t, attached)
  <2> PICK t \in Terms, attached \in Deposits : CreateEscrow(j, t, attached)
    BY <1>3
  <2>1. escrows[j] = NoEscrow
    BY <1>1 DEF CreateEscrow, EscrowRecord, Statuses
  <2> QED
    BY <2>1 DEF CreateEscrow, Creates, ValidTerms
<1>4. CASE \E w \in Workers, attached \in Deposits : Claim(j, w, attached)
  <2> PICK w \in Workers, attached \in Deposits : Claim(j, w, attached)
    BY <1>4
  <2> DEFINE e1 == [e EXCEPT !.status = "InProgress", !.worker = w, !.stake = attached]
  <2>1. e \in EscrowRecord /\ e.status = "Open" /\ w \in Accounts /\ attached \in Nat
    BY <1>1, <1>2 DEF Claim
  <2>2. Alike(j, e1) /\ e1.status = "InProgress" /\ e1.dataId = e.dataId
    BY <2>1, StatusNames DEF EscrowRecord, Alike
  <2>3. TokensKept
    BY <1>1 DEF Claim, Flow, Tokens, TokensKept
  <2>4. e1 \in EscrowRecord /\ escrows' = [escrows EXCEPT ![j] = e1]
    BY <2>2 DEF Claim, Alike
  <2> HIDE DEF e1
  <2> QED
    BY <2>1, <2>2, <2>3, <2>4 DEF Claim, Takes
<1>5. CASE \E p \in Pubkeys, r \in Relayers : ClaimFor(j, p, r)
  <2> PICK p \in Pubkeys, r \in Relayers : ClaimFor(j, p, r)
    BY <1>5
  <2> DEFINE stake == config.workerStake
             e1 == [e EXCEPT !.status = "InProgress", !.worker = r, !.pubkey = p,
                             !.stake = stake]
  <2>1. e \in EscrowRecord /\ e.status = "Open" /\ stake \in Nat
    BY <1>1, <1>2 DEF ClaimFor, Config
  <2>2. Alike(j, e1) /\ e1.status = "InProgress" /\ e1.dataId = e.dataId
    BY <1>1, <2>1, StatusNames DEF EscrowRecord, Alike
  <2>3. TokensKept
    BY <1>1 DEF ClaimFor, Flow, Tokens, TokensKept
  <2>4. e1 \in EscrowRecord /\ escrows' = [escrows EXCEPT ![j] = e1]
    BY <2>2 DEF ClaimFor, Alike
  <2> HIDE DEF e1
  <2> QED
    BY <2>1, <2>2, <2>3, <2>4 DEF ClaimFor, Takes
<1>6. ASSUME NEW d \in YieldIds, e.status \in {"Open", "InProgress"}, OpenYield(j, d),
             NEW w \in Accounts \cup {NoOne}, NEW stake \in Nat,
             escrows' = [escrows EXCEPT ![j] =
                [Verifying(e, d) EXCEPT !.worker = w, !.stake = stake]],
             TokensKept, UNCHANGED <<batches, now>>
      PROVE  Opens(j, d)
  <2> DEFINE v == Verifying(e, d)
             e1 == [v EXCEPT !.worker = w, !.stake = stake]
  <2>1. e \in EscrowRecord
    BY <1>2, <1>6
  <2>2. v \in EscrowRecord
    BY <2>1, VerifyingType
  <2>3. /\ v.status = "Verifying" /\ v.terms = e.terms /\ v.dataId = d /\ v.since = now
        /\ v.target = e.target /\ v.payout = e.payout /\ v.pubkey = e.pubkey
    BY <2>1 DEF Verifying, EscrowRecord
  <2> HIDE DEF v
  <2>4. /\ e1 \in EscrowRecord
        /\ e1.status = "Verifying" /\ e1.terms = e.terms /\ e1.dataId = d /\ e1.since = now
        /\ e1.target = e.target /\ e1.payout = e.payout /\ e1.pubkey = e.pubkey
    BY <2>2, <2>3 DEF EscrowRecord
  <2>5. escrows' = [escrows EXCEPT ![j] = e1]
    BY <1>6 DEF v
  <2> HIDE DEF e1
  <2> QED
    BY <1>6, <2>1, <2>4, <2>5 DEF Opens, Alike
<1>7. ASSUME NEW d \in YieldIds, e.status = "InProgress", OpenYield(j, d),
             escrows' = [escrows EXCEPT ![j] = Verifying(e, d)],
             UNCHANGED <<batches, flow, now>>
      PROVE  Opens(j, d)
  <2>1. e \in EscrowRecord /\ Verifying(e, d) \in EscrowRecord
    BY <1>2, <1>7, VerifyingType
  <2>2. Verifying(e, d) = [Verifying(e, d) EXCEPT !.worker = e.worker, !.stake = e.stake]
    BY <2>1 DEF Verifying, EscrowRecord
  <2>3. e.worker \in Accounts \cup {NoOne} /\ e.stake \in Nat
    BY <2>1 DEF EscrowRecord
  <2>4. TokensKept
    BY <1>7 DEF TokensKept
  <2> QED
    BY <1>6, <1>7, <2>2, <2>3, <2>4
<1>8. CASE \E w \in Accounts : SubmitResult(j, w)
  BY <1>7, <1>8 DEF SubmitResult
<1>9. CASE \E p \in Pubkeys : SubmitResultFor(j, p)
  BY <1>7, <1>9 DEF SubmitResultFor
<1>10. CASE \E p \in Pubkeys : SubmitResultForReplay(j, p)
  BY <1>10 DEF SubmitResultForReplay, Rests, TokensKept
<1>11. ASSUME NEW w \in Accounts, NEW p \in Pubkeys \cup {NoOne}, TakesSubmissions(e),
              escrows' = [escrows EXCEPT ![j] = WithSubmission(e, w, p)],
              TokensKept, UNCHANGED <<index, yields, batches, now>>
       PROVE  Takes(j)
  <2> DEFINE s == [worker |-> w, stake |-> config.workerStake, pubkey |-> p]
             e1 == [e EXCEPT !.subs = @ \cup {s}]
  <2>1. e \in EscrowRecord /\ e.status = "Open"
    BY <1>2, <1>11 DEF TakesSubmissions
  <2>2. s \in Submission
    BY <1>1, <1>11 DEF Submission, Config
  <2> HIDE DEF s
  <2>3. e1 \in EscrowRecord /\ Alike(j, e1) /\ e1.status = "Open" /\ e1.dataId = e.dataId
    BY <2>1, <2>2 DEF EscrowRecord, Alike
  <2>4. escrows' = [escrows EXCEPT ![j] = e1]
    BY <1>11 DEF WithSubmission, s
  <2> HIDE DEF e1
  <2> QED
    BY <1>11, <2>1, <2>3, <2>4 DEF Takes
<1>12. CASE \E w \in Workers, attached \in Deposits : SubmitCompetitive(j, w, attached)
  <2> PICK w \in Workers, attached \in Deposits : SubmitCompetitive(j, w, attached)
    BY <1>12
  <2>1. TokensKept
    BY <1>1 DEF SubmitCompetitive, Flow, Tokens, TokensKept
  <2> QED
    BY <1>1, <1>11, <2>1 DEF SubmitCompetitive
<1>13. CASE \E p \in Pubkeys, r \in Relayers : SubmitCompetitiveFor(j, p, r)
  <2> PICK p \in Pubkeys, r \in Relayers : SubmitCompetitiveFor(j, p, r)
    BY <1>13
  <2>1. CASE UNCHANGED <<escrows, flow>>
    BY <2>1 DEF SubmitCompetitiveFor, Rests, TokensKept
  <2>2. CASE /\ escrows' = [escrows EXCEPT ![j] = WithSubmission(e, r, p)]
             /\ flow' = [flow EXCEPT ![j].bond = @ + config.workerStake,
                                     ![j].relayed = @ + config.workerStake]
    <3>1. TokensKept
      BY <1>1, <2>2 DEF Flow, Tokens, TokensKept
    <3> QED
      BY <1>1, <1>11, <2>2, <3>1 DEF SubmitCompetitiveFor
  <2> QED
    BY <2>1, <2>2 DEF SubmitCompetitiveFor
<1>14. CASE \E caller \in Accounts, s \in e.subs : e.status = "Open" /\ DesignateWinner(j, caller, s)
  <2> PICK caller \in Accounts, s \in e.subs, d \in YieldIds :
         /\ DesignateWinner(j, caller, s)
         /\ OpenYield(j, d)
         /\ escrows' = [escrows EXCEPT ![j] =
                          [Verifying(e, d) EXCEPT !.worker = s.worker, !.stake = s.stake]]
    BY <1>14 DEF DesignateWinner
  <2>1. e \in EscrowRecord /\ e.status = "Open"
    BY <1>2 DEF DesignateWinner
  <2>2. s.worker \in Accounts /\ s.stake \in Nat
    BY <2>1 DEF EscrowRecord, Submission
  <2>3. TokensKept
    <3>1. flow' = [flow EXCEPT ![j] = LosersRepaid(flow[j], s)]
      BY DEF DesignateWinner
    <3>2. Tokens(LosersRepaid(flow[j], s)) = Tokens(flow[j])
      BY <1>1, FlowTokens
    <3> QED
      BY <1>1, <3>1, <3>2 DEF TokensKept
  <2> QED
    BY <1>6, <2>1, <2>2, <2>3 DEF DesignateWinner
<1> QED
  BY <1>3, <1>4, <1>5, <1>8, <1>9, <1>10, <1>12, <1>13, <1>14, ZenonT(60)

\* The handlers that cancel, refund or retry.
LEMMA CancelShape ==
    ASSUME TypeOK, FailedHasTarget, NEW j \in Jobs,
           \/ \E caller \in Accounts : RetrySettlement(j, caller)
           \/ RetryExhausted(j) \/ Cancel(j) \/ ForceCancelVerifying(j) \/ RefundExpired(j)
    PROVE  Cancels(j) \/ Refunds(j)
<1> DEFINE e == escrows[j]
           f == flow[j]
<1>1. /\ escrows \in [Jobs -> EscrowRecord \cup {NoEscrow}] /\ flow \in [Jobs -> Flow]
      /\ stats \in Counters /\ f \in Flow
  BY DEF TypeOK, Counters
<1>2. e.status # "Absent" => e \in EscrowRecord
  BY EscrowPresent
\* What every refund and retry has in common.
<1>3. ASSUME NEW e1 \in EscrowRecord, NEW st \in Counters, NEW g \in Flow,
             e.status \in {"Open", "InProgress", "Verifying", "SettlementFailed", "Cancelled"},
             e.status = "Verifying" => Stuck(e) \/ e.target # "None",
             e1.terms = e.terms, e1.pubkey = e.pubkey, e1.target # "None", ~IsSettled(e1),
             \/ e1.target = e.target /\ e1.status = e.status
             \/ /\ e1.target = "FullRefund" /\ e.status \in {"Open", "InProgress", "Verifying"}
                /\ e1.status \in {e.status, "Cancelled"},
             \/ index' = index /\ e1.dataId = e.dataId
             \/ index' = Unindexed(e) /\ e1.dataId = 0,
             Tokens(g) = Tokens(f), SettleEscrow(j, e1, st, g), UNCHANGED <<yields, now>>
      PROVE  Refunds(j)
  <2>1. e \in EscrowRecord /\ ~IsSettled(e) /\ e.status # "PendingFunding"
    BY <1>2, <1>3 DEF IsSettled
  <2>2. Settles(j, e1)
    BY <1>3, <2>1 DEF Settles
  <2> QED
    BY <1>3, <2>1, <2>2 DEF Refunds
<1>4. CASE \E caller \in Accounts : RetrySettlement(j, caller)
  <2> DEFINE e1 == Retried(e)
  <2>1. /\ e.status \in {"SettlementFailed", "Verifying", "Cancelled"} /\ e.target # "None"
        /\ SettleEscrow(j, e1, stats, f) /\ UNCHANGED <<index, yields, now>>
    BY <1>4 DEF RetrySettlement, Retryable
  <2>2. e \in EscrowRecord /\ e1 \in EscrowRecord
    BY <1>2, <2>1, RetriedType
  <2>3. /\ e1.status = e.status /\ e1.target = e.target /\ e1.terms = e.terms
        /\ e1.pubkey = e.pubkey /\ e1.dataId = e.dataId
    BY <2>2 DEF Retried, EscrowRecord
  <2> HIDE DEF e1
  <2> QED
    BY <1>1, <1>3, <2>1, <2>2, <2>3 DEF IsSettled
<1>5. CASE RetryExhausted(j)
  <2> DEFINE r == Retried(e)
             e1 == [r EXCEPT !.status = "Cancelled"]
  <2>1. e \in EscrowRecord /\ Retryable(e)
    BY <1>2, <1>5 DEF RetryExhausted, Retryable
  <2>2. r \in EscrowRecord
    BY <2>1, RetriedType
  <2>3. /\ r.target = e.target /\ r.terms = e.terms /\ r.pubkey = e.pubkey
        /\ r.payout = e.payout /\ r.dataId = e.dataId
    BY <2>1 DEF Retried, EscrowRecord
  <2>4. escrows' = [escrows EXCEPT ![j] = e1] /\ UNCHANGED <<index, yields, batches, now, wallet>>
    BY <1>5 DEF RetryExhausted
  <2>5. TokensKept
    BY <1>1, <1>5, FlowTokens DEF RetryExhausted, TokensKept
  <2> HIDE DEF r
  <2>6. /\ e1 \in EscrowRecord /\ Alike(j, e1) /\ e1.status = "Cancelled"
        /\ e1.dataId = e.dataId /\ e1.pubkey = e.pubkey
    BY <2>1, <2>2, <2>3, StatusNames DEF EscrowRecord, Alike
  <2> HIDE DEF e1
  <2> QED
    BY <2>1, <2>4, <2>5, <2>6 DEF Cancels
<1>6. ASSUME e.status = "PendingFunding", CancelUnfunded(j)
      PROVE  Cancels(j)
  <2> DEFINE e1 == [e EXCEPT !.status = "Cancelled"]
  <2>1. e \in EscrowRecord
    BY <1>2, <1>6
  <2>2. escrows' = [escrows EXCEPT ![j] = e1] /\ UNCHANGED <<index, yields, batches, now, wallet>>
    BY <1>1, <1>6 DEF CancelUnfunded
  <2>3. TokensKept
    BY <1>1, <1>6, FlowTokens DEF CancelUnfunded, TokensKept
  <2>4. /\ e1 \in EscrowRecord /\ Alike(j, e1) /\ e1.status = "Cancelled"
        /\ e1.dataId = e.dataId /\ e1.pubkey = e.pubkey
    BY <2>1, StatusNames DEF EscrowRecord, Alike
  <2> HIDE DEF e1
  <2> QED
    BY <1>6, <2>2, <2>3, <2>4 DEF Cancels
<1>7. CASE Cancel(j)
  <2>1. CASE e.status = "Open"
    <3> DEFINE e1 == [e EXCEPT !.target = "FullRefund"]
    <3>1. /\ e1 \in EscrowRecord /\ e1.status = "Open" /\ e1.target = "FullRefund"
          /\ e1.terms = e.terms /\ e1.pubkey = e.pubkey /\ e1.dataId = e.dataId
      BY <1>2, <2>1, StatusNames DEF EscrowRecord
    <3>2. SettleEscrow(j, e1, stats, f) /\ UNCHANGED <<index, yields, now>>
      BY <1>7, <2>1 DEF Cancel
    <3> HIDE DEF e1
    <3> QED
      BY <1>1, <1>3, <2>1, <3>1, <3>2 DEF IsSettled
  <2> QED
    BY <1>6, <1>7, <2>1 DEF Cancel
<1>8. CASE ForceCancelVerifying(j)
  <2> DEFINE e1 == [e EXCEPT !.status = "Cancelled", !.target = "FullRefund", !.stake = 0,
                             !.dataId = 0, !.consumed = FALSE]
             g1 == IF e.pubkey = NoOne THEN BondBack(f, e.stake) ELSE BondGone(f, e.stake)
             g == StorageBack(g1)
  <2>1. e \in EscrowRecord /\ e.status = "Verifying" /\ Stuck(e) /\ e.stake \in Nat
    BY <1>2, <1>8 DEF ForceCancelVerifying, EscrowRecord
  <2>2. /\ e1 \in EscrowRecord /\ e1.status = "Cancelled" /\ e1.target = "FullRefund"
        /\ e1.dataId = 0 /\ e1.terms = e.terms /\ e1.pubkey = e.pubkey
    BY <2>1, StatusNames, ZenonT(60) DEF EscrowRecord
  <2>3. g1 \in Flow /\ Tokens(g1) = Tokens(f)
    BY <1>1, <2>1, FlowType, FlowTokens
  <2>4. /\ SettleEscrow(j, e1, Moved(stats, "Verifying", "Cancelled"), g)
        /\ index' = Unindexed(e) /\ UNCHANGED <<yields, now>>
    BY <1>8 DEF ForceCancelVerifying
  <2>5. Moved(stats, "Verifying", "Cancelled") \in Counters
    BY <1>1, StatusNames, MovedType
  <2> HIDE DEF e1, g1
  <2>6. g \in Flow /\ Tokens(g) = Tokens(f)
    BY <2>3, FlowType, FlowTokens
  <2> HIDE DEF g
  <2> QED
    BY <1>3, <2>1, <2>2, <2>4, <2>5, <2>6 DEF IsSettled
<1>9. CASE RefundUnsubmitted(j)
  <2> DEFINE forfeit == IF e.status = "InProgress" THEN e.stake ELSE 0
             kept == IF e.status = "InProgress" THEN 0 ELSE e.stake
             e1 == [e EXCEPT !.target = "FullRefund", !.stake = kept]
             g == BondGone(f, forfeit)
  <2>1. e \in EscrowRecord /\ e.status \in {"Open", "InProgress"} /\ forfeit \in Nat
    BY <1>2, <1>9 DEF RefundUnsubmitted, EscrowRecord
  <2>2. /\ e1 \in EscrowRecord /\ e1.status = e.status /\ e1.target = "FullRefund"
        /\ e1.terms = e.terms /\ e1.pubkey = e.pubkey /\ e1.dataId = e.dataId
    <3>1. kept \in Nat
      BY <2>1 DEF EscrowRecord
    <3> HIDE DEF kept
    <3> QED
      BY <2>1, <3>1, StatusNames DEF EscrowRecord
  <2>3. SettleEscrow(j, e1, stats, g) /\ UNCHANGED <<index, yields, now>>
    BY <1>9 DEF RefundUnsubmitted
  <2> HIDE DEF forfeit, e1
  <2>4. g \in Flow /\ Tokens(g) = Tokens(f)
    BY <1>1, <2>1, FlowType, FlowTokens
  <2> HIDE DEF g
  <2> QED
    BY <1>1, <1>3, <2>1, <2>2, <2>3, <2>4 DEF IsSettled
<1>10. CASE RefundStuck(j)
  <2> DEFINE r == StakeReturned(e)
             e1 == [r EXCEPT !.dataId = 0, !.consumed = FALSE, !.target = "FullRefund"]
             g == StakeReturnedFlow(e, f)
  <2>1. e \in EscrowRecord /\ e.status = "Verifying" /\ Stuck(e) /\ e.stake \in Nat
    BY <1>2, <1>10 DEF RefundStuck, EscrowRecord
  <2>2. /\ r \in EscrowRecord /\ r.status = "Verifying" /\ r.terms = e.terms
        /\ r.pubkey = e.pubkey
    <3>1. r \in EscrowRecord
      BY <2>1, StakeReturnedType
    <3>2. r.status = "Verifying" /\ r.terms = e.terms /\ r.pubkey = e.pubkey
      BY <2>1 DEF StakeReturned, EscrowRecord
    <3> QED
      BY <3>1, <3>2
  <2>3. /\ SettleEscrow(j, e1, stats, g)
        /\ index' = Unindexed(e) /\ UNCHANGED <<yields, now>>
    BY <1>10 DEF RefundStuck
  <2>4. g \in Flow /\ Tokens(g) = Tokens(f)
    BY <1>1, <2>1, FlowType, FlowTokens DEF StakeReturnedFlow
  <2> HIDE DEF r, g
  <2>5. /\ e1 \in EscrowRecord /\ e1.status = "Verifying" /\ e1.target = "FullRefund"
        /\ e1.dataId = 0 /\ e1.terms = e.terms /\ e1.pubkey = e.pubkey
    BY <2>2, StatusNames, ZenonT(60) DEF EscrowRecord
  <2> HIDE DEF e1
  <2> QED
    BY <1>1, <1>3, <2>1, <2>3, <2>4, <2>5 DEF IsSettled
<1>11. CASE RefundExpired(j)
  <2>1. CASE e.status = "SettlementFailed" /\ SettleEscrow(j, e, stats, f)
             /\ UNCHANGED <<index, yields, now>>
    <3>1. e.target # "None"
      BY <2>1 DEF FailedHasTarget
    <3> QED
      BY <1>1, <1>2, <1>3, <2>1, <3>1 DEF IsSettled
  <2> QED
    BY <1>6, <1>9, <1>10, <1>11, <2>1 DEF RefundExpired
<1> QED
  BY <1>4, <1>5, <1>7, <1>8, <1>11

\* verification_callback that finds its escrow.
LEMMA JudgeShape ==
    ASSUME TypeOK, NEW d \in YieldIds, CallbackVerdict(d) \/ CallbackNoVerdict(d)
    PROVE  \E j \in Jobs : Judges(j, d)
<1> DEFINE j == yields[d].job
           e == escrows[j]
<1>1. yields[d] \in YieldRecord /\ stats \in Counters /\ flow \in [Jobs -> Flow]
  BY DEF TypeOK, Counters
<1>2. /\ Live(d) /\ e.status = "Verifying" /\ Ended(d)
      /\ index' = Unindexed(e) /\ UNCHANGED now
  BY DEF CallbackVerdict, CallbackNoVerdict, NoVerdict, Live
<1>3. j \in Jobs /\ yields[d].payload \in Payload
  BY <1>1, <1>2, SMTT(30) DEF Live, YieldRecord, Yield, NoPayload, Payload
<1>4. e \in EscrowRecord /\ flow[j] \in Flow /\ ~IsSettled(e)
  BY <1>1, <1>2, <1>3, EscrowPresent DEF IsSettled
<1>5. ASSUME NEW e1 \in EscrowRecord, NEW g \in Flow, Tokens(g) = Tokens(flow[j]),
             e1.status = "Verifying", e1.dataId = 0, e1.target # "None",
             e1.terms = e.terms, e1.pubkey = e.pubkey,
             SettleEscrow(j, e1, stats, g)
      PROVE  Judges(j, d)
  <2>1. Settles(j, e1)
    BY <1>1, <1>4, <1>5 DEF Settles, IsSettled
  <2> QED
    BY <1>2, <1>5, <2>1 DEF Judges
<1>6. CASE CallbackVerdict(d)
  <2> DEFINE e1 == Judged(e, yields[d].payload)
  <2>1. e1 \in EscrowRecord
    BY <1>3, <1>4, JudgedType
  <2>2. e1.status = "Verifying" /\ e1.target # "None"
    BY <1>2, <1>3, <1>4, JudgedFields
  <2>3. e1.dataId = 0 /\ e1.terms = e.terms /\ e1.pubkey = e.pubkey
    BY <1>4 DEF Judged, EscrowRecord
  <2>4. SettleEscrow(j, e1, stats, flow[j])
    BY <1>6 DEF CallbackVerdict
  <2> HIDE DEF e1
  <2> QED
    BY <1>3, <1>4, <1>5, <2>1, <2>2, <2>3, <2>4
<1>7. CASE CallbackNoVerdict(d)
  <2> DEFINE r == StakeReturned(e)
             e1 == [r EXCEPT !.score = 0, !.passed = FALSE, !.consumed = TRUE,
                             !.dataId = 0, !.target = "FullRefund"]
             g == StakeReturnedFlow(e, flow[j])
  <2>1. /\ r \in EscrowRecord /\ r.status = "Verifying" /\ r.terms = e.terms
        /\ r.pubkey = e.pubkey
    <3>1. r \in EscrowRecord
      BY <1>4, StakeReturnedType
    <3>2. r.status = "Verifying" /\ r.terms = e.terms /\ r.pubkey = e.pubkey
      BY <1>2, <1>4 DEF StakeReturned, EscrowRecord
    <3> QED
      BY <3>1, <3>2
  <2>2. SettleEscrow(j, e1, stats, g)
    BY <1>7 DEF CallbackNoVerdict
  <2>3. g \in Flow /\ Tokens(g) = Tokens(flow[j])
    <3>1. e.stake \in Nat
      BY <1>4 DEF EscrowRecord
    <3> QED
      BY <1>4, <3>1, FlowType, FlowTokens DEF StakeReturnedFlow
  <2> HIDE DEF r, g
  <2>4. /\ e1 \in EscrowRecord /\ e1.status = "Verifying" /\ e1.target = "FullRefund"
        /\ e1.dataId = 0 /\ e1.terms = e.terms /\ e1.pubkey = e.pubkey
    <3>1. 0 \in 0 .. MaxYields /\ 0 \in 0 .. 255 /\ "FullRefund" \in Targets
      BY StatusNames
    <3> QED
      BY <2>1, <3>1, ZenonT(90) DEF EscrowRecord
  <2> HIDE DEF e1
  <2> QED
    BY <1>3, <1>5, <2>2, <2>3, <2>4
<1> QED
  BY <1>3, <1>6, <1>7

\* A verifier's call: the promise is still that of its job.
Resumes(d) ==
    /\ yields[d].phase = "waiting"
    /\ \E payload \in Payload :
          yields' = [yields EXCEPT ![d].phase = "resumed", ![d].payload = payload]
    /\ UNCHANGED <<escrows, index, batches, flow, now>>

LEMMA DepositShape ==
    ASSUME TypeOK, NEW j \in Jobs, Deposit(j) \/ FtOnTransfer(j)
    PROVE  Rests \/ Funds(j)
<1> DEFINE e == escrows[j]
<1>1. CASE Deposit(j) \/ FtOnTransferReject(j)
  BY <1>1 DEF Deposit, FtTransferCall, FtOnTransferReject, Rests, TokensKept
<1>2. CASE FtOnTransferAccept(j)
  <2> DEFINE e1 == [e EXCEPT !.status = "Open"]
  <2>1. e.status = "PendingFunding" /\ transfers[j].amount = e.terms.amount
    BY <1>2 DEF FtOnTransferAccept, Accepted
  <2>2. e \in EscrowRecord
    BY <2>1, EscrowPresent
  <2>3. /\ e1 \in EscrowRecord /\ Alike(j, e1) /\ e1.status = "Open"
        /\ e1.dataId = e.dataId /\ e1.pubkey = e.pubkey /\ e1.terms = e.terms
    BY <2>2, StatusNames DEF EscrowRecord, Alike
  <2>4. /\ escrows' = [escrows EXCEPT ![j] = e1]
        /\ flow' = [flow EXCEPT ![j].in = @ + e.terms.amount]
        /\ UNCHANGED <<index, yields, batches, now>>
    BY <1>2, <2>1 DEF FtOnTransferAccept, TypeOK
  <2> HIDE DEF e1
  <2> QED
    BY <2>1, <2>3, <2>4 DEF Funds
<1> QED
  BY <1>1, <1>2 DEF FtOnTransfer

\* Every step of the contract.
CallShape(j) ==
    Creates(j) \/ Takes(j) \/ (\E d \in YieldIds : Opens(j, d)) \/ Cancels(j) \/ Refunds(j)
YieldShape(d) ==
    \/ Resumes(d) \/ CallbackAborts(d) \/ CallbackStale(d)
    \/ \E j \in Jobs : Judges(j, d)
CleanupShape ==
    \E removed \in SUBSET Jobs : CleanupCompleted(removed)

LEMMA NextShape ==
    ASSUME TypeOK, FailedHasTarget, [Next]_vars
    PROVE  \/ Rests
           \/ \E j \in Jobs : CallShape(j) \/ Funds(j)
           \/ CleanupShape
           \/ \E d \in YieldIds : YieldShape(d)
           \/ \E b \in BatchIds : FtExecute(b) \/ SettleCallback(b)
<1>1. ASSUME NEW j \in Jobs, UserCall(j)
      PROVE  Rests \/ CallShape(j)
  <2>1. CASE \/ \E caller \in Accounts : RetrySettlement(j, caller)
             \/ RetryExhausted(j) \/ Cancel(j) \/ ForceCancelVerifying(j) \/ RefundExpired(j)
    BY <2>1, CancelShape, ZenonT(60) DEF CallShape
  <2>2. CASE \/ \E t \in Terms, attached \in Deposits : CreateEscrow(j, t, attached)
             \/ \E w \in Workers, attached \in Deposits : Claim(j, w, attached)
             \/ \E w \in Accounts : SubmitResult(j, w)
             \/ \E w \in Workers, attached \in Deposits : SubmitCompetitive(j, w, attached)
             \/ \E p \in Pubkeys, r \in Relayers : ClaimFor(j, p, r) \/ SubmitCompetitiveFor(j, p, r)
             \/ \E p \in Pubkeys : SubmitResultFor(j, p) \/ SubmitResultForReplay(j, p)
             \/ \E caller \in Accounts, s \in escrows[j].subs :
                   escrows[j].status = "Open" /\ DesignateWinner(j, caller, s)
    BY <2>2, WorkShape, ZenonT(60) DEF CallShape
  <2> QED
    BY <1>1, <2>1, <2>2, ZenonT(60) DEF UserCall
<1>2. ASSUME NEW d \in YieldIds, VerifierCall(d)
      PROVE  Resumes(d)
  BY <1>2, EscrowAssumption
  DEF VerifierCall, ResumeVerificationMulti, ResumeVerification, Resume, Resumes
<1>3. ASSUME NEW d \in YieldIds, YieldCallback(d)
      PROVE  YieldShape(d)
  BY <1>3, JudgeShape DEF YieldCallback, YieldShape
<1>4. CASE UNCHANGED <<escrows, index, yields, batches, flow, now>>
  BY <1>4 DEF Rests, TokensKept
<1>5. CASE Tick
  BY <1>5 DEF Tick, Rests, TokensKept
<1>6. CASE \E j \in Jobs : (MayCall(j) /\ UserCall(j)) \/ Deposit(j) \/ FtOnTransfer(j)
  BY <1>1, <1>6, DepositShape
<1>7. CASE \E d \in YieldIds : VerifierCall(d) \/ YieldCallback(d)
  BY <1>2, <1>3, <1>7 DEF YieldShape
<1> QED
  BY <1>4, <1>5, <1>6, <1>7, ZenonT(60) DEF Next, vars, escrowVars, CleanupShape

\* _settle_escrow in full: either it sends a batch and the escrow waits with its
\* target, or the payout of an internal worker without a fee is credited at once.
Sends(j, e) ==
    /\ escrows' = [escrows EXCEPT ![j] = Prepared(e)]
    /\ \E b \in BatchIds :
          /\ batches[b].phase = "free"
          /\ batches' = [batches EXCEPT ![b] = BatchFor(j, Prepared(e))]
    /\ TokensKept

SettlesAtOnce(j, e) ==
    /\ e.target = "Claim" /\ e.pubkey # NoOne /\ e.terms.fee = 0
    /\ escrows' = [escrows EXCEPT ![j] = Settled(Prepared(e))]
    /\ flow' = [flow EXCEPT ![j] = flow'[j]]
    /\ \E f \in Flow : /\ Tokens(f) = Tokens(flow[j])
                       /\ Tokens(flow'[j]) = Tokens([f EXCEPT !.credit = @ + e.terms.amount])
    /\ batches' = batches

LEMMA FinishTokens ==
    ASSUME TypeOK, NEW j \in Jobs, NEW e \in EscrowRecord, NEW st, NEW f \in Flow,
           Finish(j, e, st, f)
    PROVE  /\ escrows' = [escrows EXCEPT ![j] = Settled(e)]
           /\ flow' = [flow EXCEPT ![j] = flow'[j]]
           /\ Tokens(flow'[j]) = IF e.pubkey = NoOne THEN Tokens(f)
                                 ELSE Tokens([f EXCEPT !.credit = @ + e.payout])
<1>1. /\ flow \in [Jobs -> Flow] /\ e.payout \in Nat /\ e.stake \in Nat /\ e.stakeRefund \in Nat
  BY DEF TypeOK, EscrowRecord
<1>2. CASE e.pubkey = NoOne
  <2>1. flow' = [flow EXCEPT ![j] = BondBack(StorageBack(f), e.stake)]
    BY <1>2 DEF Finish
  <2>2. StorageBack(f) \in Flow /\ Tokens(StorageBack(f)) = Tokens(f)
    BY FlowType, FlowTokens
  <2>3. Tokens(BondBack(StorageBack(f), e.stake)) = Tokens(f)
    BY <2>2, FlowTokens
  <2> QED
    BY <1>1, <1>2, <2>1, <2>3 DEF Finish
<1>3. CASE e.pubkey # NoOne
  <2> DEFINE g == BondBack(StorageBack(f), e.stakeRefund)
  <2>1. StorageBack(f) \in Flow /\ Tokens(StorageBack(f)) = Tokens(f)
    BY FlowType, FlowTokens
  <2>2. g \in Flow /\ Tokens(g) = Tokens(f)
    BY <1>1, <2>1, FlowType, FlowTokens
  <2>3. flow' = [flow EXCEPT ![j] = [g EXCEPT !.credit = @ + e.payout]]
    BY <1>3 DEF Finish
  <2> HIDE DEF g
  <2>4. Tokens([g EXCEPT !.credit = @ + e.payout]) = Tokens([f EXCEPT !.credit = @ + e.payout])
    BY <2>2 DEF Tokens, Flow
  <2> QED
    BY <1>1, <1>3, <2>3, <2>4 DEF Finish
<1> QED
  BY <1>2, <1>3

LEMMA SettlesHow ==
    ASSUME TypeOK, NEW j \in Jobs, NEW e \in EscrowRecord, Settles(j, e)
    PROVE  Sends(j, e) \/ SettlesAtOnce(j, e)
<1> DEFINE p == Prepared(e)
           sent == BatchFor(j, p)
<1>1. PICK st \in Counters, f \in Flow : Tokens(f) = Tokens(flow[j]) /\ SettleEscrow(j, e, st, f)
  BY DEF Settles
<1>2. /\ p \in EscrowRecord /\ p.target = e.target /\ p.pubkey = e.pubkey /\ p.terms = e.terms
      /\ p.payout = IF e.target = "Claim" /\ e.pubkey # NoOne
                    THEN e.terms.amount - e.terms.fee ELSE 0
  BY PreparedType, PreparedFields
<1>3. /\ flow \in [Jobs -> Flow] /\ e.terms.amount \in Nat \ {0} /\ e.terms.fee \in Nat
      /\ e.terms.amount - e.terms.fee \in Nat \ {0}
  BY TermsType DEF TypeOK
<1>4. CASE sent.amount + sent.fee = 0 /\ Finish(j, p, st, f) /\ UNCHANGED batches
  <2>1. e.target = "Claim" /\ e.pubkey # NoOne /\ e.terms.fee = 0
    BY <1>2, <1>3, <1>4 DEF BatchFor
  <2>2. p.payout = e.terms.amount
    BY <1>2, <1>3, <2>1
  <2> HIDE DEF p
  <2>3. /\ escrows' = [escrows EXCEPT ![j] = Settled(p)]
        /\ flow' = [flow EXCEPT ![j] = flow'[j]]
        /\ Tokens(flow'[j]) = Tokens([f EXCEPT !.credit = @ + e.terms.amount])
    BY <1>2, <1>4, <2>1, <2>2, FinishTokens
  <2> QED
    BY <1>1, <1>4, <2>1, <2>3 DEF SettlesAtOnce, p
<1>5. CASE /\ \E b \in BatchIds : /\ batches[b].phase = "free"
                                  /\ batches' = [batches EXCEPT ![b] = sent]
           /\ escrows' = [escrows EXCEPT ![j] = p]
           /\ flow' = [flow EXCEPT ![j] = f]
  <2>1. TokensKept
    BY <1>1, <1>3, <1>5 DEF TokensKept
  <2> QED
    BY <1>5, <2>1 DEF Sends
<1> QED
  BY <1>1, <1>4, <1>5 DEF SettleEscrow

LEMMA SettledRest ==
    ASSUME NEW e \in EscrowRecord
    PROVE  /\ Settled(e) \in EscrowRecord
           /\ Settled(e).dataId = e.dataId /\ Settled(e).pubkey = e.pubkey
           /\ Settled(e).status \notin {"SettlementFailed", "Verifying"}
<1>1. Settled(e).dataId = e.dataId /\ Settled(e).pubkey = e.pubkey
  BY DEF Settled, EscrowRecord
<1> QED
  BY <1>1, SettledType, SettledFields

\* What a settlement leaves of the escrow in either case.
LEMMA SettlesLeaves ==
    ASSUME TypeOK, NEW j \in Jobs, NEW e \in EscrowRecord, Settles(j, e)
    PROVE  \E x \in EscrowRecord :
              /\ escrows' = [escrows EXCEPT ![j] = x]
              /\ x.dataId = e.dataId
              /\ x.status \in {"SettlementFailed", "Verifying"} => x.target # "None"
<1>1. CASE Sends(j, e)
  <2>1. /\ Prepared(e) \in EscrowRecord /\ Prepared(e).dataId = e.dataId
        /\ Prepared(e).target # "None"
    BY PreparedType, PreparedFields DEF Settles
  <2> QED
    BY <1>1, <2>1 DEF Sends
<1>2. CASE SettlesAtOnce(j, e)
  <2> DEFINE p == Prepared(e)
  <2>1. p \in EscrowRecord /\ p.dataId = e.dataId
    BY PreparedType, PreparedFields
  <2> HIDE DEF p
  <2>2. /\ Settled(p) \in EscrowRecord /\ Settled(p).dataId = e.dataId
        /\ Settled(p).status \notin {"SettlementFailed", "Verifying"}
    BY <2>1, SettledRest
  <2>3. escrows' = [escrows EXCEPT ![j] = Settled(p)]
    BY <1>2 DEF SettlesAtOnce, p
  <2> QED
    BY <2>2, <2>3
<1> QED
  BY <1>1, <1>2, SettlesHow

-----------------------------------------------------------------------------
(* The index of yields, under every fault.                                 *)

\* A promise that has not been created is not indexed: no escrow has its data id.
IndexInv ==
    /\ YieldIndexed
    /\ FailedHasTarget
    /\ VerifyingHasWayOut
    /\ \A d \in YieldIds : yields[d].phase = "unused" => index[d] = NoOne

LivePhases == {"waiting", "resumed"}

Waits(k) == escrows[k].status = "Verifying" /\ escrows[k].target = "None"

\* A promise is still there for the escrow that waits for it, or it is lost.
Answers(d) ==
    \/ yields'[d] = yields[d]
    \/ Live(d) /\ yields'[d].phase \in LivePhases /\ yields'[d].job = yields[d].job
    \/ yields'[d].phase = "aborted"

LEMMA WaitsForOwn ==
    ASSUME TypeOK, IndexInv, NEW k \in Jobs, Waits(k)
    PROVE  LET d == escrows[k].dataId IN
           /\ d \in YieldIds /\ index[d] = k
           /\ (Live(d) /\ yields[d].job = k) \/ yields[d].phase = "aborted"
<1>1. Exists(k) /\ escrows[k] \in EscrowRecord /\ escrows[k].dataId # 0
  BY EscrowPresent DEF Waits, Exists, IndexInv, VerifyingHasWayOut
<1> QED
  BY <1>1 DEF Waits, IndexInv, VerifyingHasWayOut, YieldIndexed, EscrowRecord, YieldIds

LEMMA WaitsOn ==
    ASSUME TypeOK, IndexInv, NEW k \in Jobs, Waits(k), Answers(escrows[k].dataId),
           escrows'[k].dataId = escrows[k].dataId
    PROVE  LET d == escrows'[k].dataId IN
           d # 0 /\ ((yields'[d].phase \in LivePhases /\ yields'[d].job = k) \/ yields'[d].phase = "aborted")
<1> DEFINE d == escrows[k].dataId
<1>1. d \in YieldIds /\ ((Live(d) /\ yields[d].job = k) \/ yields[d].phase = "aborted")
  BY WaitsForOwn
<1>2. d # 0
  BY <1>1 DEF YieldIds
<1>3. CASE yields'[d] = yields[d]
  BY <1>1, <1>2, <1>3 DEF Live, LivePhases
<1>4. CASE yields'[d].phase = "aborted"
  BY <1>2, <1>4
<1>5. CASE Live(d) /\ yields'[d].phase \in LivePhases /\ yields'[d].job = yields[d].job
  BY <1>1, <1>2, <1>5 DEF Live, LivePhases
<1> QED
  BY <1>3, <1>4, <1>5 DEF Answers

\* A step that changes one escrow, which keeps its data id or loses it together
\* with the index entry, and creates no promise.
LEMMA IdKept ==
    ASSUME TypeOK, IndexInv, NEW j \in Jobs, escrows[j] \in EscrowRecord, NEW e \in EscrowRecord,
           escrows' = [escrows EXCEPT ![j] = e],
           e.status \in {"SettlementFailed", "Verifying"} => e.target # "None",
           \/ index' = index /\ e.dataId = escrows[j].dataId
           \/ index' = Unindexed(escrows[j]) /\ e.dataId = 0,
           \A d \in YieldIds : /\ yields'[d].job \in {yields[d].job, NoOne}
                               /\ yields'[d].phase = "unused" => yields[d].phase = "unused"
                               /\ \/ Answers(d)
                                  \/ \A k \in Jobs \ {j} : Waits(k) => escrows[k].dataId # d
    PROVE  IndexInv'
<1> DEFINE id(k) == escrows[k].dataId
<1>1. /\ escrows \in [Jobs -> EscrowRecord \cup {NoEscrow}]
      /\ index \in [YieldIds -> Jobs \cup {NoOne}]
      /\ NoOne \notin Jobs /\ id(j) \in 0 .. MaxYields /\ Exists(j)
  BY EscrowAssumption DEF TypeOK, EscrowRecord, Exists, Statuses
<1>2. \A d \in YieldIds : index'[d] = IF index' # index /\ d = id(j) THEN NoOne ELSE index[d]
  BY <1>1 DEF Unindexed, YieldIds
<1>3. \A d \in YieldIds : yields'[d].phase = "unused" => index'[d] = NoOne
  BY <1>2 DEF IndexInv
<1>4. FailedHasTarget'
  BY <1>1 DEF IndexInv, FailedHasTarget
<1>5. ASSUME NEW k \in Jobs, Exists(k)', escrows'[k].dataId # 0
      PROVE  /\ index'[escrows'[k].dataId] = k
             /\ yields'[escrows'[k].dataId].job \in {k, NoOne}
  <2>1. escrows'[k].dataId = id(k) /\ Exists(k) /\ id(k) # 0
    BY <1>1, <1>5 DEF Exists
  <2>2. escrows[k] \in EscrowRecord /\ id(k) \in YieldIds
    BY <2>1, EscrowPresent DEF Exists, EscrowRecord, YieldIds
  <2>3. index[id(k)] = k /\ yields[id(k)].job \in {k, NoOne}
    BY <2>1 DEF IndexInv, YieldIndexed
  <2>4. yields'[id(k)].job \in {k, NoOne}
    BY <2>2, <2>3
  <2>5. k = j => index' = index
    BY <1>1, <1>5
  <2>6. k # j /\ id(j) # 0 => id(k) # id(j)
    BY <1>1, <2>3 DEF IndexInv, YieldIndexed
  <2>7. index'[id(k)] = k
    BY <1>2, <2>2, <2>3, <2>5, <2>6 DEF YieldIds
  <2> QED
    BY <2>1, <2>4, <2>7
<1>6. VerifyingHasWayOut'
  <2> SUFFICES ASSUME NEW k \in Jobs, Waits(k)'
               PROVE  LET d == escrows'[k].dataId IN
                      d # 0 /\ ((yields'[d].phase \in LivePhases /\ yields'[d].job = k) \/ yields'[d].phase = "aborted")
    BY DEF VerifyingHasWayOut, Waits, Live, LivePhases
  <2>1. k # j /\ escrows'[k] = escrows[k] /\ Waits(k)
    BY <1>1 DEF Waits
  <2>2. escrows[k].dataId \in YieldIds
    BY <2>1, WaitsForOwn
  <2>3. Answers(escrows[k].dataId)
    BY <2>1, <2>2
  <2> QED
    BY <2>1, <2>3, WaitsOn
<1> QED
  BY <1>3, <1>4, <1>5, <1>6 DEF IndexInv, YieldIndexed

\* A user's call.
LEMMA CallIndexed ==
    ASSUME TypeOK, IndexInv, NEW j \in Jobs, CallShape(j) \/ Funds(j)
    PROVE  IndexInv'
<1>1. /\ escrows \in [Jobs -> EscrowRecord \cup {NoEscrow}]
      /\ index \in [YieldIds -> Jobs \cup {NoOne}] /\ yields \in [YieldIds -> YieldRecord]
      /\ NoOne \notin Jobs
  BY EscrowAssumption DEF TypeOK
<1>2. CASE Creates(j)
  <2> PICK t \in ValidTerms : escrows' = [escrows EXCEPT ![j] = NewEscrow(t)]
    BY <1>2 DEF Creates
  <2>1. /\ escrows'[j].dataId = 0 /\ escrows'[j].status = "PendingFunding"
        /\ \A k \in Jobs \ {j} : escrows'[k] = escrows[k]
    BY <1>1 DEF NewEscrow
  <2>2. VerifyingHasWayOut'
    BY <1>2, <2>1 DEF Creates, IndexInv, VerifyingHasWayOut, Live
  <2> QED
    BY <1>2, <2>1, <2>2 DEF Creates, IndexInv, YieldIndexed, FailedHasTarget, Exists
<1>3. CASE Funds(j) \/ Takes(j) \/ Cancels(j)
  <2>1. PICK e \in EscrowRecord :
           /\ Alike(j, e) /\ e.dataId = escrows[j].dataId
           /\ e.status \in {"Open", "InProgress", "Cancelled"}
           /\ escrows' = [escrows EXCEPT ![j] = e]
    BY <1>3, ZenonT(60) DEF Funds, Takes, Cancels
  <2>2. UNCHANGED <<index, yields>>
    BY <1>3 DEF Funds, Takes, Cancels
  <2>3. escrows[j] \in EscrowRecord
    BY <2>1 DEF Alike
  <2>4. \A d \in YieldIds : Answers(d)
    BY <2>2 DEF Answers
  <2> QED
    BY <2>1, <2>2, <2>3, <2>4, IdKept
<1>4. CASE Refunds(j)
  <2>1. PICK e \in EscrowRecord :
           /\ Settles(j, e)
           /\ \/ index' = index /\ e.dataId = escrows[j].dataId
              \/ index' = Unindexed(escrows[j]) /\ e.dataId = 0
           /\ yields' = yields
    BY <1>4 DEF Refunds
  <2>2. PICK x \in EscrowRecord :
           /\ escrows' = [escrows EXCEPT ![j] = x]
           /\ x.dataId = e.dataId
           /\ x.status \in {"SettlementFailed", "Verifying"} => x.target # "None"
    BY <2>1, SettlesLeaves
  <2>3. escrows[j] \in EscrowRecord
    BY <2>1 DEF Settles
  <2>4. \A d \in YieldIds : Answers(d)
    BY <2>1 DEF Answers
  <2> QED
    BY <2>1, <2>2, <2>3, <2>4, IdKept
\* The new promise is not yet indexed, so no escrow has its data id.
<1>5. CASE \E d \in YieldIds : Opens(j, d)
  <2>1. PICK d \in YieldIds, e \in EscrowRecord :
           /\ OpenYield(j, d) /\ Alike(j, e)
           /\ e.dataId = d /\ e.status = "Verifying"
           /\ escrows' = [escrows EXCEPT ![j] = e]
    BY <1>5 DEF Opens
  <2>2. /\ index' = [index EXCEPT ![d] = j] /\ index[d] = NoOne
        /\ yields' = [yields EXCEPT ![d] = Yield(j, "waiting")]
    BY <2>1 DEF OpenYield, IndexInv
  <2>3. \A k \in Jobs \ {j} : escrows'[k] = escrows[k]
    BY <1>1, <2>1
  <2>4. ASSUME NEW k \in Jobs \ {j}, Exists(k)', escrows'[k].dataId # 0
        PROVE  /\ index'[escrows'[k].dataId] = k
               /\ yields'[escrows'[k].dataId].job \in {k, NoOne}
    <3> DEFINE id == escrows[k].dataId
    <3>1. Exists(k) /\ id # 0 /\ escrows'[k].dataId = id
      BY <2>3, <2>4 DEF Exists
    <3>2. id \in YieldIds
      BY <3>1, EscrowPresent DEF Exists, EscrowRecord, YieldIds
    <3>3. index[id] = k /\ yields[id].job \in {k, NoOne}
      BY <3>1 DEF IndexInv, YieldIndexed
    <3>4. id # d
      BY <1>1, <2>2, <3>3
    <3> HIDE DEF id
    <3> QED
      BY <1>1, <2>2, <3>1, <3>2, <3>3, <3>4
  <2>5. escrows'[j].dataId = d /\ index'[d] = j /\ yields'[d].job = j
    BY <1>1, <2>1, <2>2 DEF Yield
  <2>6. FailedHasTarget'
    BY <1>1, <2>1, <2>3 DEF IndexInv, FailedHasTarget
  <2>7. \A c \in YieldIds : yields'[c].phase = "unused" => index'[c] = NoOne
    BY <1>1, <2>2 DEF Yield, IndexInv
  <2>8. VerifyingHasWayOut'
    <3> SUFFICES ASSUME NEW k \in Jobs, Waits(k)'
                 PROVE  LET c == escrows'[k].dataId IN
                        c # 0 /\ ((yields'[c].phase \in LivePhases /\ yields'[c].job = k) \/ yields'[c].phase = "aborted")
      BY DEF VerifyingHasWayOut, Waits, Live, LivePhases
    <3>1. CASE k = j
      <4>1. d # 0 /\ yields'[d] = Yield(j, "waiting")
        BY <1>1, <2>2 DEF YieldIds
      <4>2. yields'[d].phase \in LivePhases
        BY <4>1 DEF LivePhases, Yield
      <4> QED
        BY <2>5, <3>1, <4>1, <4>2
    <3>2. CASE k # j
      <4>1. Waits(k) /\ escrows'[k] = escrows[k]
        BY <2>3, <3>2 DEF Waits
      <4>2. index[escrows[k].dataId] = k /\ escrows[k].dataId \in YieldIds
        BY <4>1, WaitsForOwn
      <4>3. escrows[k].dataId # d
        BY <1>1, <2>2, <4>2
      <4>4. Answers(escrows[k].dataId)
        BY <1>1, <2>2, <4>2, <4>3 DEF Answers
      <4> QED
        BY <4>1, <4>4, WaitsOn
    <3> QED
      BY <3>1, <3>2
  <2> QED
    BY <2>4, <2>5, <2>6, <2>7, <2>8 DEF IndexInv, YieldIndexed
<1> QED
  BY <1>2, <1>3, <1>4, <1>5 DEF CallShape

LEMMA IdInRange ==
    ASSUME TypeOK, NEW k \in Jobs, Exists(k), escrows[k].dataId # 0
    PROVE  escrows[k].dataId \in YieldIds
  BY EscrowPresent DEF Exists, EscrowRecord, YieldIds

\* The data id and the status of every escrow stay, and no promise is created.
LEMMA NoIdChange ==
    ASSUME TypeOK, IndexInv, index' = index,
           \A k \in Jobs : Exists(k)' =>
              /\ Exists(k) /\ escrows'[k].dataId = escrows[k].dataId
              /\ escrows'[k].target = escrows[k].target
              /\ escrows'[k].status = escrows[k].status,
           \A d \in YieldIds : /\ yields'[d].job \in {yields[d].job, NoOne}
                               /\ yields'[d].phase = "unused" => yields[d].phase = "unused"
                               /\ Answers(d) \/ \A k \in Jobs : Waits(k) => escrows[k].dataId # d
    PROVE  IndexInv'
<1>1. YieldIndexed'
  BY IdInRange DEF IndexInv, YieldIndexed
<1>2. FailedHasTarget'
  BY DEF IndexInv, FailedHasTarget, Exists
<1>3. VerifyingHasWayOut'
  <2> SUFFICES ASSUME NEW k \in Jobs, Waits(k)'
               PROVE  LET d == escrows'[k].dataId IN
                      d # 0 /\ ((yields'[d].phase \in LivePhases /\ yields'[d].job = k) \/ yields'[d].phase = "aborted")
    BY DEF VerifyingHasWayOut, Waits, Live, LivePhases
  <2>1. Waits(k) /\ escrows'[k].dataId = escrows[k].dataId
    BY DEF Waits, Exists
  <2>2. escrows[k].dataId \in YieldIds
    BY <2>1, WaitsForOwn
  <2>3. Answers(escrows[k].dataId)
    BY <2>1, <2>2
  <2> QED
    BY <2>1, <2>3, WaitsOn
<1> QED
  BY <1>1, <1>2, <1>3 DEF IndexInv

LEMMA YieldsIndexed ==
    ASSUME TypeOK, IndexInv, NEW d \in YieldIds, YieldShape(d)
    PROVE  IndexInv'
<1>1. yields \in [YieldIds -> YieldRecord] /\ escrows \in [Jobs -> EscrowRecord \cup {NoEscrow}]
  BY DEF TypeOK
<1>2. ASSUME Ended(d) \/ Aborted(d)
      PROVE  \A c \in YieldIds : /\ yields'[c].job \in {yields[c].job, NoOne}
                                 /\ yields'[c].phase = "unused" => yields[c].phase = "unused"
                                 /\ c # d \/ Aborted(d) => Answers(c)
  BY <1>1, <1>2 DEF Ended, Aborted, Yield, Answers
<1>3. CASE Resumes(d)
  <2>1. PICK payload \in Payload :
           yields' = [yields EXCEPT ![d] = [@ EXCEPT !.phase = "resumed", !.payload = payload]]
    BY <1>3 DEF Resumes
  <2>2. yields'[d] = [yields[d] EXCEPT !.phase = "resumed", !.payload = payload]
    BY <1>1, <2>1
  <2>3. yields'[d].job = yields[d].job /\ yields'[d].phase = "resumed"
    <3>1. yields[d] \in YieldRecord
      BY <1>1
    <3>2. yields[d] \in [job : Jobs \cup {NoOne}, 
                      phase : {"waiting", "resumed", "unused", "done", "aborted"},
                      payload : Payload \cup {NoPayload}]
      <4>1. CASE yields[d] \in [job : Jobs, phase : {"waiting", "resumed"}, payload : Payload]
        BY <4>1
      <4>2. CASE yields[d] \in {Yield(NoOne, phase) : phase \in {"unused", "done", "aborted"}}
        BY <4>2 DEF Yield
      <4> QED
        BY <3>1, <4>1, <4>2 DEF YieldRecord
    <3> QED
      BY <2>2, <3>2
  <2>4. \A c \in YieldIds \ {d} : yields'[c] = yields[c]
    BY <1>1, <2>1
  <2>5. UNCHANGED <<escrows, index>>
    BY <1>3 DEF Resumes
  <2>6. \A c \in YieldIds : /\ yields'[c].job \in {yields[c].job, NoOne}
                            /\ yields'[c].phase = "unused" => yields[c].phase = "unused"
                            /\ Answers(c)
    <3>1. Live(d) /\ yields'[d].phase \in LivePhases
      BY <1>3, <2>3 DEF Resumes, Live, LivePhases
    <3> QED
      BY <2>3, <2>4, <3>1 DEF Answers
  <2> QED
    BY <2>5, <2>6, NoIdChange DEF Exists
<1>4. CASE CallbackAborts(d)
  <2>1. Aborted(d) /\ UNCHANGED <<escrows, index>>
    BY <1>4 DEF CallbackAborts
  <2> QED
    BY <1>2, <2>1, NoIdChange DEF Exists
\* An escrow that waits for a live promise is the one that its callback finds.
<1>6. ASSUME Live(d), NEW k \in Jobs, Waits(k), escrows[k].dataId = d
      PROVE  yields[d].job = k
  BY <1>6, WaitsForOwn DEF Live
<1>7. CASE CallbackStale(d)
  <2>1. Live(d) /\ Ended(d) /\ UNCHANGED <<escrows, index>>
    BY <1>7 DEF CallbackStale
  <2>2. \A k \in Jobs : Waits(k) => escrows[k].dataId # d
    BY <1>6, <1>7, <2>1 DEF CallbackStale, Waits
  <2> QED
    BY <1>2, <2>1, <2>2, NoIdChange DEF Exists
<1>5. CASE \E j \in Jobs : Judges(j, d)
  <2>1. PICK j \in Jobs, e \in EscrowRecord :
           /\ Settles(j, e) /\ e.dataId = 0
           /\ Live(d) /\ yields[d].job = j
           /\ Ended(d) /\ index' = Unindexed(escrows[j])
    BY <1>5 DEF Judges
  <2>2. PICK x \in EscrowRecord :
           /\ escrows' = [escrows EXCEPT ![j] = x]
           /\ x.dataId = e.dataId
           /\ x.status \in {"SettlementFailed", "Verifying"} => x.target # "None"
    BY <2>1, SettlesLeaves
  <2>3. escrows[j] \in EscrowRecord
    BY <2>1 DEF Settles
  <2>4. \A k \in Jobs \ {j} : Waits(k) => escrows[k].dataId # d
    BY <1>6, <2>1
  <2> QED
    BY <1>2, <2>1, <2>2, <2>3, <2>4, IdKept
<1> QED
  BY <1>3, <1>4, <1>5, <1>7 DEF YieldShape

LEMMA BatchesIndexed ==
    ASSUME TypeOK, IndexInv, NEW b \in BatchIds, FtExecute(b) \/ SettleCallback(b)
    PROVE  IndexInv'
<1> DEFINE j == batches[b].job
           e == escrows[j]
<1>1. /\ batches[b] \in Batch /\ stats \in Counters /\ flow \in [Jobs -> Flow]
      /\ escrows \in [Jobs -> EscrowRecord \cup {NoEscrow}]
  BY DEF TypeOK, Counters
<1>2. CASE FtExecute(b) \/ SettleCallbackAborts(b)
  BY <1>2, NoIdChange DEF FtExecute, SettleCallbackAborts, Exists, Answers
<1>3. ASSUME e.status # "Absent", batches[b].phase # "free"
      PROVE  j \in Jobs /\ e \in EscrowRecord
  BY <1>1, <1>3, EscrowPresent DEF Batch, NoBatch
<1>4. CASE SettleCallbackOk(b)
  <2>1. /\ j \in Jobs /\ e \in EscrowRecord /\ flow[j] \in Flow
        /\ Finish(j, e, stats, flow[j]) /\ UNCHANGED <<index, yields>>
    BY <1>1, <1>3, <1>4 DEF SettleCallbackOk
  <2>2. escrows' = [escrows EXCEPT ![j] = Settled(e)]
    BY <2>1, FinishTokens
  <2>3. /\ Settled(e) \in EscrowRecord /\ Settled(e).dataId = e.dataId
        /\ Settled(e).status \notin {"SettlementFailed", "Verifying"}
    BY <2>1, SettledRest
  <2> QED
    BY <2>1, <2>2, <2>3, IdKept DEF Answers
<1>5. CASE SettleCallbackFailed(b)
  <2> DEFINE e1 == [e EXCEPT !.status = "SettlementFailed"]
  <2>1. /\ j \in Jobs /\ e \in EscrowRecord /\ e.target # "None"
        /\ escrows' = [escrows EXCEPT ![j] = e1] /\ UNCHANGED <<index, yields>>
    BY <1>1, <1>3, <1>5 DEF SettleCallbackFailed
  <2>2. e1 \in EscrowRecord /\ e1.dataId = e.dataId /\ e1.target # "None"
    BY <2>1, StatusNames DEF EscrowRecord
  <2> HIDE DEF e1
  <2> QED
    BY <2>1, <2>2, IdKept DEF Answers
<1> QED
  BY <1>2, <1>4, <1>5 DEF SettleCallback

LEMMA IndexStep == TypeOK /\ IndexInv /\ [Next]_vars => IndexInv'
<1> SUFFICES ASSUME TypeOK, IndexInv, [Next]_vars PROVE IndexInv'
  OBVIOUS
<1>1. CASE Rests
  BY <1>1, NoIdChange DEF Rests, Exists, Answers
<1>2. CASE CleanupShape
  <2>1. PICK removed \in SUBSET Jobs : CleanupCompleted(removed)
    BY <1>2 DEF CleanupShape
  <2>2. \A k \in Jobs : escrows'[k] \in {escrows[k], NoEscrow}
    BY <2>1 DEF CleanupCompleted
  <2>3. UNCHANGED <<index, yields>>
    BY <2>1 DEF CleanupCompleted
  <2> QED
    BY <2>2, <2>3, NoIdChange DEF Exists, NoEscrow, Answers
<1> QED
  BY <1>1, <1>2, NextShape, CallIndexed, YieldsIndexed, BatchesIndexed DEF IndexInv

LEMMA IndexInit == Init => IndexInv
  BY DEF Init, IndexInv, YieldIndexed, FailedHasTarget, VerifyingHasWayOut, Exists, NoEscrow

\* The invariant of the index, under every fault.
THEOREM IndexSound == Spec => []IndexInv
<1> QED
  BY IndexInit, IndexStep, TypeCorrect, PTL DEF Spec

\* data_id_index leads from the data id of an escrow's yield to the escrow, and
\* the promise of that id is the escrow's own: however verifications are cut
\* off, settled, retried or lost, no verdict can reach another escrow.
THEOREM YieldIndexedHolds == Spec => []YieldIndexed
<1>1. IndexInv => YieldIndexed
  BY DEF IndexInv
<1> QED
  BY <1>1, IndexSound, PTL

\* An escrow in Verifying without a target waits for a live promise of its own,
\* or the callback of its promise has aborted: whatever else goes wrong, a
\* verdict or the timeout ends the verification.
THEOREM VerifyingHasWayOutHolds == Spec => []VerifyingHasWayOut
<1>1. IndexInv => VerifyingHasWayOut
  BY DEF IndexInv
<1> QED
  BY <1>1, IndexSound, PTL
=============================================================================
