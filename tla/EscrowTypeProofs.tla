-------------------------- MODULE EscrowTypeProofs --------------------------
(***************************************************************************)
(* Type correctness of the escrow contract: Spec => []TypeOK, for all      *)
(* values of the constants.  TypeOK is inductive.  It has to say that a    *)
(* promise or a batch in flight belongs to a job, because the callbacks    *)
(* look up the escrow of that job.                                         *)
(*                                                                         *)
(* Each lemma gives the type of one operator or keeps TypeOK over one      *)
(* group of actions; records with computed fields are built with the       *)
(* values hidden, so that the provers see one update at a time.            *)
(***************************************************************************)
EXTENDS EscrowProperties, FiniteSetTheorems, TLAPS

\* The type of stats.
Counters == [Statuses \cup {"total"} -> Nat]

-----------------------------------------------------------------------------
\* An escrow that the map has is a record.
LEMMA EscrowPresent ==
    ASSUME TypeOK, NEW j \in Jobs, escrows[j].status # "Absent"
    PROVE  escrows[j] \in EscrowRecord
  BY DEF TypeOK, NoEscrow

\* create_escrow only took valid terms: there is something left after the fee.
LEMMA TermsType ==
    ASSUME NEW e \in EscrowRecord
    PROVE  /\ e.terms \in Term
           /\ e.terms.amount \in Nat \ {0} /\ e.terms.fee \in Nat
           /\ e.terms.amount - e.terms.fee \in Nat \ {0}
  BY EscrowAssumption DEF EscrowRecord, ValidTerms, IsValid, Term

\* transition_stats keeps counters.
LEMMA MovedType ==
    ASSUME NEW st \in Counters, NEW from \in Statuses, NEW to \in Statuses
    PROVE  Moved(st, from, to) \in Counters
<1> DEFINE left == [st EXCEPT ![from] = IF @ > 0 THEN @ - 1 ELSE 0]
<1>1. left \in Counters
  BY DEF Counters
<1> HIDE DEF left
<1>2. [left EXCEPT ![to] = @ + 1] \in Counters
  BY <1>1 DEF Counters
<1> QED
  BY <1>2 DEF Moved, left

\* The histories of refunds and returned stakes.
LEMMA FlowType ==
    ASSUME NEW f \in Flow, NEW n \in Nat
    PROVE  /\ StorageBack(f) \in Flow
           /\ BondBack(f, n) \in Flow
           /\ BondGone(f, n) \in Flow
           /\ [f EXCEPT !.credit = @ + n] \in Flow
<1>1. StorageBack(f) \in Flow
  BY DEF StorageBack, Flow
<1>2. BondBack(f, n) \in Flow
  BY DEF BondBack, Flow
<1>3. BondGone(f, n) \in Flow
  BY DEF BondGone, Flow
<1>4. [f EXCEPT !.credit = @ + n] \in Flow
  BY DEF Flow
<1> QED
  BY <1>1, <1>2, <1>3, <1>4

\* The stakes that designate_winner repays.
LEMMA LosersType ==
    ASSUME NEW f \in Flow, NEW s \in Submission
    PROVE  LosersRepaid(f, s) \in Flow
<1> DEFINE back == f.bondBack + f.own - (IF s.pubkey = NoOne THEN s.stake ELSE 0)
           gone == f.bondGone + f.relayed - (IF s.pubkey = NoOne THEN 0 ELSE s.stake)
<1>1. back \in Int /\ gone \in Int
  BY DEF Flow, Submission
<1> HIDE DEF back, gone
<1>2. [f EXCEPT !.bondBack = back, !.bondGone = gone, !.own = 0, !.relayed = 0] \in Flow
  BY <1>1 DEF Flow
<1> QED
  BY <1>2 DEF LosersRepaid, back, gone

\* What the handlers do to a worker's wallet.
LEMMA WorkerType ==
    ASSUME NEW w \in Worker, NEW m \in Nat, NEW n \in Nat
    PROVE  /\ Bumped(w) \in Worker
           /\ Credited(w, m, n) \in Worker
           /\ [w EXCEPT !.registered = TRUE] \in Worker
           /\ w.near - n \in Nat => [w EXCEPT !.near = @ - n] \in Worker
           /\ w.ft - n \in Nat => [w EXCEPT !.ft = @ - n] \in Worker
<1>1. Bumped(w) \in Worker
  BY WalletAssumption DEF Bumped, Worker
<1>2. Credited(w, m, n) \in Worker
  <2>1. w.ft + m \in Nat /\ w.near + n \in Nat
    BY DEF Worker
  <2>2. [w EXCEPT !.ft = w.ft + m, !.near = w.near + n] \in Worker
    BY <2>1 DEF Worker
  <2> QED
    BY <2>2 DEF Credited
<1>3. [w EXCEPT !.registered = TRUE] \in Worker
  BY DEF Worker
<1>4. w.near - n \in Nat => [w EXCEPT !.near = @ - n] \in Worker
  BY DEF Worker
<1>5. w.ft - n \in Nat => [w EXCEPT !.ft = @ - n] \in Worker
  BY DEF Worker
<1> QED
  BY <1>1, <1>2, <1>3, <1>4, <1>5

\* _settle_escrow prepares the credits of an internal worker.
LEMMA PreparedType ==
    ASSUME NEW e \in EscrowRecord
    PROVE  Prepared(e) \in EscrowRecord
<1> DEFINE payout == IF e.target = "Claim" /\ e.pubkey # NoOne
                     THEN e.terms.amount - e.terms.fee ELSE 0
           refund == IF e.pubkey # NoOne THEN e.stake ELSE 0
<1>1. payout \in Nat /\ refund \in Nat
  BY TermsType DEF EscrowRecord
<1> HIDE DEF payout, refund
<1>2. [e EXCEPT !.payout = payout, !.stakeRefund = refund] \in EscrowRecord
  BY <1>1 DEF EscrowRecord
<1> QED
  BY <1>2 DEF Prepared, payout, refund

\* _settle_callback_internal makes an escrow Claimed or Refunded.
LEMMA SettledType ==
    ASSUME NEW e \in EscrowRecord
    PROVE  Settled(e) \in EscrowRecord /\ Settled(e).status \in {"Claimed", "Refunded"}
<1> DEFINE s == IF e.target = "Claim" THEN "Claimed" ELSE "Refunded"
<1>1. s \in Statuses /\ s \in {"Claimed", "Refunded"}
  BY DEF Statuses
<1>2. "None" \in Targets
  BY DEF Targets
<1> HIDE DEF s
<1>3. [e EXCEPT !.status = s, !.target = "None", !.stake = 0, !.payout = 0, !.stakeRefund = 0]
         \in EscrowRecord
  BY <1>1, <1>2 DEF EscrowRecord
<1>4. [e EXCEPT !.status = s, !.target = "None", !.stake = 0, !.payout = 0, !.stakeRefund = 0].status
         = s
  BY DEF EscrowRecord
<1> QED
  BY <1>1, <1>3, <1>4 DEF Settled, s

\* verification_callback takes a verdict, with a score cut to 8 bits.
LEMMA JudgedType ==
    ASSUME NEW e \in EscrowRecord, NEW p \in Payload
    PROVE  Judged(e, p) \in EscrowRecord
<1> DEFINE score == p.score % 256
           passed == p.passed /\ score >= e.terms.threshold
           t == IF passed THEN "Claim" ELSE "Refund"
<1>1. score \in 0 .. 255
  BY DEF Payload
<1>2. passed \in BOOLEAN /\ t \in Targets
  BY DEF Targets
<1>3. 0 \in 0 .. MaxYields
  BY EscrowAssumption
<1> HIDE DEF score, passed, t
<1>4. [e EXCEPT !.score = score, !.passed = passed, !.consumed = TRUE, !.dataId = 0, !.target = t]
         \in EscrowRecord
  BY <1>1, <1>2, <1>3 DEF EscrowRecord
<1> QED
  BY <1>4 DEF Judged, score, passed, t

\* verification_callback and refund_expired return the stake.
LEMMA StakeReturnedType ==
    ASSUME NEW e \in EscrowRecord
    PROVE  StakeReturned(e) \in EscrowRecord
  BY ZenonT(60) DEF StakeReturned, EscrowRecord

\* A submission makes an escrow Verifying.
LEMMA VerifyingType ==
    ASSUME TypeOK, NEW e \in EscrowRecord, NEW d \in YieldIds
    PROVE  Verifying(e, d) \in EscrowRecord
<1>1. "Verifying" \in Statuses /\ d \in 0 .. MaxYields /\ now \in Nat
  BY EscrowAssumption DEF Statuses, TypeOK, YieldIds
<1> QED
  BY <1>1 DEF Verifying, EscrowRecord

\* An escrow that starts a full refund, with what is left of the stake.
LEMMA RefundingType ==
    ASSUME NEW e \in EscrowRecord, NEW kept \in Nat
    PROVE  LET r == [e EXCEPT !.target = "FullRefund", !.stake = kept]
           IN r \in EscrowRecord /\ r.status = e.status /\ r.target = "FullRefund"
<1>1. "FullRefund" \in Targets
  BY DEF Targets
<1> QED
  BY <1>1 DEF EscrowRecord

\* create_escrow makes an escrow of valid terms.
LEMMA NewEscrowType ==
    ASSUME TypeOK, NEW t \in ValidTerms
    PROVE  NewEscrow(t) \in EscrowRecord
<1>1. /\ "PendingFunding" \in Statuses /\ "None" \in Targets /\ now \in Nat
      /\ 0 \in 0 .. MaxYields /\ 0 \in 0 .. RetryWrap - 1 /\ 0 \in 0 .. 255
  BY EscrowAssumption DEF Statuses, Targets, TypeOK
<1> QED
  BY <1>1 DEF NewEscrow, EscrowRecord

\* retry_settlement counts with wrap-around.
LEMMA RetriedType ==
    ASSUME NEW e \in EscrowRecord
    PROVE  Retried(e) \in EscrowRecord
<1>1. (e.retry + 1) % RetryWrap \in 0 .. RetryWrap - 1
  BY EscrowAssumption DEF EscrowRecord
<1> QED
  BY <1>1 DEF Retried, EscrowRecord

\* A submission creates and indexes a yielded promise.
LEMMA OpenYieldType ==
    ASSUME TypeOK, NEW j \in Jobs, NEW d \in YieldIds, OpenYield(j, d)
    PROVE  /\ yields' \in [YieldIds -> YieldRecord]
           /\ index' \in [YieldIds -> Jobs \cup {NoOne}]
  BY DEF OpenYield, Yield, NoPayload, Payload, YieldRecord, TypeOK

\* The handlers that end a verification clear its index entry.
LEMMA UnindexedType ==
    ASSUME TypeOK, NEW e \in EscrowRecord
    PROVE  Unindexed(e) \in [YieldIds -> Jobs \cup {NoOne}]
  BY DEF Unindexed, TypeOK

\* The callback of a yielded promise uses it up.
LEMMA EndedType ==
    ASSUME TypeOK, NEW d \in YieldIds, Ended(d) \/ Aborted(d)
    PROVE  yields' \in [YieldIds -> YieldRecord]
  BY DEF Ended, Aborted, Yield, NoPayload, Payload, YieldRecord, TypeOK

\* The transfers of a settlement.
LEMMA BatchType ==
    ASSUME NEW j \in Jobs, NEW e \in EscrowRecord
    PROVE  BatchFor(j, e) \in Batch
<1>1. /\ e.terms.amount \in Nat /\ e.terms.fee \in Nat
      /\ e.terms.amount - e.terms.fee \in Nat
  BY TermsType
<1> QED
  BY <1>1 DEF BatchFor, Batch

\* _settle_escrow keeps the types of what it changes.
LEMMA FinishType ==
    ASSUME TypeOK, NEW j \in Jobs, NEW e \in EscrowRecord, NEW st \in Counters, NEW f \in Flow,
           Finish(j, e, st, f)
    PROVE  /\ escrows' \in [Jobs -> EscrowRecord \cup {NoEscrow}]
           /\ stats' \in Counters
           /\ flow' \in [Jobs -> Flow]
           /\ wallet' \in [Pubkeys -> Worker]
<1>0. /\ e.stake \in Nat /\ e.payout \in Nat /\ e.stakeRefund \in Nat
      /\ e.status \in Statuses /\ e.pubkey \in Pubkeys \cup {NoOne}
  BY DEF EscrowRecord
<1>1. escrows' \in [Jobs -> EscrowRecord \cup {NoEscrow}]
  BY SettledType DEF Finish, TypeOK
<1>2. stats' \in Counters
  <2>1. Settled(e).status \in Statuses
    BY SettledType DEF Statuses
  <2> QED
    BY <1>0, <2>1, MovedType DEF Finish
<1>3. CASE e.pubkey = NoOne
  <2>1. BondBack(StorageBack(f), e.stake) \in Flow
    BY <1>0, FlowType
  <2>2. flow' \in [Jobs -> Flow]
    BY <1>3, <2>1 DEF Finish, TypeOK
  <2>3. wallet' \in [Pubkeys -> Worker]
    BY <1>3 DEF Finish, TypeOK, WalletTypeOK
  <2> QED
    BY <1>1, <1>2, <2>2, <2>3
<1>4. CASE e.pubkey # NoOne
  <2> DEFINE g == BondBack(StorageBack(f), e.stakeRefund)
  <2>1. g \in Flow
    BY <1>0, FlowType
  <2> HIDE DEF g
  <2>2. [g EXCEPT !.credit = @ + e.payout] \in Flow
    BY <1>0, <2>1, FlowType
  <2>3. flow' \in [Jobs -> Flow]
    BY <1>4, <2>2 DEF Finish, TypeOK, g
  <2>4. e.pubkey \in Pubkeys /\ wallet \in [Pubkeys -> Worker]
    BY <1>0, <1>4 DEF TypeOK, WalletTypeOK
  <2>5. Credited(wallet[e.pubkey], e.payout, e.stakeRefund) \in Worker
    BY <1>0, <2>4, WorkerType
  <2>6. wallet' \in [Pubkeys -> Worker]
    BY <1>4, <2>4, <2>5 DEF Finish
  <2> QED
    BY <1>1, <1>2, <2>3, <2>6
<1> QED
  BY <1>3, <1>4

\* _settle_escrow itself, with the batch that it sends.
LEMMA SettleEscrowType ==
    ASSUME TypeOK, NEW j \in Jobs, NEW e \in EscrowRecord, NEW st \in Counters, NEW f \in Flow,
           SettleEscrow(j, e, st, f)
    PROVE  /\ escrows' \in [Jobs -> EscrowRecord \cup {NoEscrow}]
           /\ stats' \in Counters
           /\ flow' \in [Jobs -> Flow]
           /\ wallet' \in [Pubkeys -> Worker]
           /\ batches' \in [BatchIds -> Batch]
<1> DEFINE p == Prepared(e)
           sent == BatchFor(j, p)
<1>1. p \in EscrowRecord
  BY PreparedType
<1>2. sent \in Batch
  BY <1>1, BatchType
<1>3. /\ escrows \in [Jobs -> EscrowRecord \cup {NoEscrow}] /\ flow \in [Jobs -> Flow]
      /\ wallet \in [Pubkeys -> Worker] /\ batches \in [BatchIds -> Batch]
  BY DEF TypeOK, WalletTypeOK
<1>4. CASE Finish(j, p, st, f) /\ UNCHANGED batches
  BY <1>1, <1>3, <1>4, FinishType
<1>5. CASE /\ \E b \in BatchIds : batches' = [batches EXCEPT ![b] = sent]
           /\ escrows' = [escrows EXCEPT ![j] = p]
           /\ stats' = st
           /\ flow' = [flow EXCEPT ![j] = f]
           /\ UNCHANGED wallet
  <2> HIDE DEF p, sent
  <2> QED
    BY <1>1, <1>2, <1>3, <1>5
<1> QED
  BY <1>4, <1>5 DEF SettleEscrow

\* A handler that settles keeps the types when the escrow, the counters and the
\* history that it hands to _settle_escrow have theirs.
LEMMA SettlingType ==
    ASSUME TypeOK, NEW j \in Jobs, NEW e \in EscrowRecord, NEW st \in Counters, NEW f \in Flow,
           SettleEscrow(j, e, st, f),
           index' \in [YieldIds -> Jobs \cup {NoOne}], yields' \in [YieldIds -> YieldRecord],
           UNCHANGED <<config, transfers, now, pool, verifiers>>
    PROVE  TypeOK'
<1>1. /\ escrows' \in [Jobs -> EscrowRecord \cup {NoEscrow}]
      /\ stats' \in Counters
      /\ flow' \in [Jobs -> Flow]
      /\ wallet' \in [Pubkeys -> Worker]
      /\ batches' \in [BatchIds -> Batch]
  BY SettleEscrowType
<1> QED
  BY <1>1 DEF TypeOK, WalletTypeOK, VerifierTypeOK, Counters

-----------------------------------------------------------------------------
\* Every call of a user keeps the types.
LEMMA UserCallType ==
    ASSUME TypeOK, NEW j \in Jobs, UserCall(j)
    PROVE  TypeOK'
<1> USE DEF Counters
<1>1. /\ escrows \in [Jobs -> EscrowRecord \cup {NoEscrow}] /\ flow \in [Jobs -> Flow]
      /\ wallet \in [Pubkeys -> Worker] /\ stats \in Counters /\ config \in Config
      /\ flow[j] \in Flow /\ now \in Nat /\ yields \in [YieldIds -> YieldRecord]
      /\ index \in [YieldIds -> Jobs \cup {NoOne}]
      /\ Relayers \subseteq Accounts /\ Workers \subseteq Accounts /\ Deposits \subseteq Nat
  BY EscrowAssumption, WalletAssumption DEF TypeOK, WalletTypeOK
<1>2. /\ Statuses \subseteq Statuses \cup {"total"}
      /\ {"PendingFunding", "Open", "InProgress", "Verifying", "SettlementFailed", "Cancelled"}
            \subseteq Statuses
      /\ {"Claim", "Refund", "FullRefund", "None"} \subseteq Targets
      /\ "total" \notin Statuses
  BY DEF Statuses, Targets
<1>3. CASE \E t \in Terms, attached \in Deposits : CreateEscrow(j, t, attached)
  <2> PICK t \in Terms, attached \in Deposits : CreateEscrow(j, t, attached)
    BY <1>3
  <2>1. NewEscrow(t) \in EscrowRecord
    BY NewEscrowType DEF CreateEscrow, ValidTerms
  <2>2. stats' \in Counters
    BY <1>1, <1>2 DEF CreateEscrow
  <2>3. NoFlow \in Flow
    BY DEF NoFlow, Flow
  <2> QED
    BY <1>1, <2>1, <2>2, <2>3 DEF CreateEscrow, TypeOK, WalletTypeOK, VerifierTypeOK
<1>4. CASE \E w \in Workers, attached \in Deposits : Claim(j, w, attached)
  <2> PICK w \in Workers, attached \in Deposits : Claim(j, w, attached)
    BY <1>4
  <2> DEFINE e == [escrows[j] EXCEPT !.status = "InProgress", !.worker = w, !.stake = attached]
  <2>0. escrows[j] \in EscrowRecord /\ w \in Accounts /\ attached \in Nat
    BY <1>1, EscrowPresent DEF Claim
  <2>1. e \in EscrowRecord
    BY <1>2, <2>0 DEF EscrowRecord
  <2>2. stats' \in Counters
    BY <1>1, <1>2, MovedType DEF Claim
  <2>3. [flow[j] EXCEPT !.bond = @ + attached] \in Flow
    BY <1>1 DEF Flow
  <2>4. escrows' \in [Jobs -> EscrowRecord \cup {NoEscrow}] /\ flow' \in [Jobs -> Flow]
    BY <1>1, <2>1, <2>3 DEF Claim
  <2> QED
    BY <2>2, <2>4 DEF Claim, TypeOK, WalletTypeOK, VerifierTypeOK
<1>5. CASE \E w \in Accounts : SubmitResult(j, w)
  <2> PICK w \in Accounts, d \in YieldIds :
         /\ SubmitResult(j, w)
         /\ OpenYield(j, d)
         /\ escrows' = [escrows EXCEPT ![j] = Verifying(escrows[j], d)]
    BY <1>5 DEF SubmitResult
  <2>1. Verifying(escrows[j], d) \in EscrowRecord
    BY EscrowPresent, VerifyingType DEF SubmitResult
  <2> QED
    BY <1>1, <2>1, OpenYieldType DEF SubmitResult, TypeOK, WalletTypeOK, VerifierTypeOK
<1>6. CASE \E w \in Workers, attached \in Deposits : SubmitCompetitive(j, w, attached)
  <2> PICK w \in Workers, attached \in Deposits : SubmitCompetitive(j, w, attached)
    BY <1>6
  <2>1. escrows[j] \in EscrowRecord /\ config.workerStake \in Nat
    BY <1>1, EscrowPresent DEF SubmitCompetitive, TakesSubmissions, Config
  <2>2. WithSubmission(escrows[j], w, NoOne) \in EscrowRecord
    <3>1. [worker |-> w, stake |-> config.workerStake, pubkey |-> NoOne] \in Submission
      BY <1>1, <2>1 DEF Submission
    <3> QED
      BY <2>1, <3>1 DEF WithSubmission, EscrowRecord
  <2>3. [flow[j] EXCEPT !.bond = @ + attached, !.own = @ + config.workerStake] \in Flow
    <3>1. flow[j].bond + attached \in Nat /\ flow[j].own + config.workerStake \in Nat
      BY <1>1, <2>1 DEF Flow
    <3>2. [flow[j] EXCEPT !.bond = flow[j].bond + attached,
                          !.own = flow[j].own + config.workerStake] \in Flow
      BY <1>1, <3>1 DEF Flow
    <3> QED
      BY <3>2
  <2>4. flow' = [flow EXCEPT ![j] = [flow[j] EXCEPT !.bond = @ + attached,
                                                    !.own = @ + config.workerStake]]
    BY <1>1 DEF SubmitCompetitive
  <2> QED
    BY <1>1, <2>2, <2>3, <2>4 DEF SubmitCompetitive, TypeOK, WalletTypeOK, VerifierTypeOK
<1>7. CASE \E p \in Pubkeys, r \in Relayers : ClaimFor(j, p, r)
  <2> PICK p \in Pubkeys, r \in Relayers : ClaimFor(j, p, r)
    BY <1>7
  <2> DEFINE stake == config.workerStake
  <2>1. escrows[j] \in EscrowRecord /\ stake \in Nat
    BY <1>1, EscrowPresent DEF ClaimFor, Config
  <2>2. [escrows[j] EXCEPT !.status = "InProgress", !.worker = r, !.pubkey = p,
                           !.stake = stake] \in EscrowRecord
    BY <1>1, <1>2, <2>1 DEF EscrowRecord
  <2>3. stats' \in Counters
    BY <1>1, <1>2, MovedType DEF ClaimFor
  <2>4. [flow[j] EXCEPT !.bond = @ + stake] \in Flow
    BY <1>1, <2>1 DEF Flow
  <2>5. [wallet[p] EXCEPT !.near = @ - stake] \in Worker
    BY <1>1, <2>1 DEF ClaimFor, Worker
  <2>6. Bumped([wallet[p] EXCEPT !.near = @ - stake]) \in Worker
    BY <2>5, WorkerType
  <2>7. escrows' \in [Jobs -> EscrowRecord \cup {NoEscrow}]
    BY <1>1, <2>2 DEF ClaimFor
  <2>8. flow' \in [Jobs -> Flow]
    <3>1. flow' = [flow EXCEPT ![j] = [flow[j] EXCEPT !.bond = @ + stake]]
      BY <1>1 DEF ClaimFor
    <3> HIDE DEF stake
    <3> QED
      BY <1>1, <2>4, <3>1
  <2>9. wallet' \in [Pubkeys -> Worker]
    BY <1>1, <2>6 DEF ClaimFor
  <2> QED
    BY <2>3, <2>7, <2>8, <2>9 DEF ClaimFor, TypeOK, WalletTypeOK, VerifierTypeOK
<1>8. ASSUME NEW p \in Pubkeys
      PROVE  Relayed(p) \in Worker
  <2>1. [wallet[p] EXCEPT !.registered = TRUE] \in Worker
    BY <1>1, WorkerType
  <2> QED
    BY <2>1, WorkerType DEF Relayed
<1>9. CASE \E p \in Pubkeys : SubmitResultFor(j, p)
  <2> PICK p \in Pubkeys, d \in YieldIds :
         /\ SubmitResultFor(j, p)
         /\ OpenYield(j, d)
         /\ escrows' = [escrows EXCEPT ![j] = Verifying(escrows[j], d)]
    BY <1>9 DEF SubmitResultFor
  <2>1. Verifying(escrows[j], d) \in EscrowRecord
    BY EscrowPresent, VerifyingType DEF SubmitResultFor
  <2>2. stats' \in Counters
    BY <1>1, <1>2, MovedType DEF SubmitResultFor
  <2>3. wallet' \in [Pubkeys -> Worker]
    BY <1>1, <1>8 DEF SubmitResultFor
  <2> QED
    BY <1>1, <2>1, <2>2, <2>3, OpenYieldType
    DEF SubmitResultFor, TypeOK, WalletTypeOK, VerifierTypeOK
<1>10. CASE \E p \in Pubkeys : SubmitResultForReplay(j, p)
  <2> PICK p \in Pubkeys : SubmitResultForReplay(j, p)
    BY <1>10
  <2>1. wallet' \in [Pubkeys -> Worker]
    BY <1>1, <1>8 DEF SubmitResultForReplay
  <2> QED
    BY <2>1 DEF SubmitResultForReplay, TypeOK, WalletTypeOK, VerifierTypeOK
<1>11. CASE \E p \in Pubkeys, r \in Relayers : SubmitCompetitiveFor(j, p, r)
  <2> PICK p \in Pubkeys, r \in Relayers : SubmitCompetitiveFor(j, p, r)
    BY <1>11
  <2> DEFINE stake == config.workerStake
  <2>1. escrows[j] \in EscrowRecord /\ stake \in Nat
    BY <1>1, EscrowPresent DEF SubmitCompetitiveFor, TakesSubmissions, Config
  <2>2. CASE wallet' = [wallet EXCEPT ![p] = Relayed(p)] /\ UNCHANGED <<escrows, flow>>
    BY <1>1, <1>8, <2>2 DEF SubmitCompetitiveFor, TypeOK, WalletTypeOK, VerifierTypeOK
  <2>3. CASE /\ wallet' = [wallet EXCEPT ![p] = [Relayed(p) EXCEPT !.near = @ - stake]]
             /\ escrows' = [escrows EXCEPT ![j] = WithSubmission(escrows[j], r, p)]
             /\ flow' = [flow EXCEPT ![j].bond = @ + stake, ![j].relayed = @ + stake]
    <3>1. WithSubmission(escrows[j], r, p) \in EscrowRecord
      <4>1. [worker |-> r, stake |-> stake, pubkey |-> p] \in Submission
        BY <1>1, <2>1 DEF Submission
      <4> QED
        BY <2>1, <4>1 DEF WithSubmission, EscrowRecord
    <3>2. [flow[j] EXCEPT !.bond = @ + stake, !.relayed = @ + stake] \in Flow
      <4>1. flow[j].bond + stake \in Nat /\ flow[j].relayed + stake \in Nat
        BY <1>1, <2>1 DEF Flow
      <4> QED
        BY <1>1, <4>1 DEF Flow
    <3>3. flow' = [flow EXCEPT ![j] = [flow[j] EXCEPT !.bond = @ + stake,
                                                      !.relayed = @ + stake]]
      BY <1>1, <2>3
    <3>4. Relayed(p).near = wallet[p].near
      BY <1>1 DEF Relayed, Bumped, Worker
    <3>5. [Relayed(p) EXCEPT !.near = @ - stake] \in Worker
      <4>1. Relayed(p).near - stake \in Nat
        BY <1>1, <2>1, <3>4 DEF SubmitCompetitiveFor, Worker
      <4> QED
        BY <1>8, <2>1, <4>1, WorkerType
    <3> QED
      BY <1>1, <2>3, <3>1, <3>2, <3>3, <3>5
      DEF SubmitCompetitiveFor, TypeOK, WalletTypeOK, VerifierTypeOK
  <2> QED
    BY <2>2, <2>3 DEF SubmitCompetitiveFor
<1>12. CASE \E caller \in Accounts, s \in escrows[j].subs :
               escrows[j].status = "Open" /\ DesignateWinner(j, caller, s)
  <2> PICK caller \in Accounts, s \in escrows[j].subs :
         escrows[j].status = "Open" /\ DesignateWinner(j, caller, s)
    BY <1>12
  <2>1. escrows[j] \in EscrowRecord
    BY EscrowPresent
  <2>2. s \in Submission
    BY <2>1 DEF EscrowRecord
  <2> PICK d \in YieldIds :
         /\ OpenYield(j, d)
         /\ escrows' = [escrows EXCEPT ![j] =
                          [Verifying(escrows[j], d) EXCEPT !.worker = s.worker, !.stake = s.stake]]
    BY DEF DesignateWinner
  <2>3. Verifying(escrows[j], d) \in EscrowRecord
    BY <2>1, VerifyingType
  <2> DEFINE v == Verifying(escrows[j], d)
  <2>4. [v EXCEPT !.worker = s.worker, !.stake = s.stake] \in EscrowRecord
    <3>1. s.worker \in Accounts /\ s.stake \in Nat
      BY <2>2 DEF Submission
    <3>2. v \in EscrowRecord
      BY <2>3
    <3> HIDE DEF v
    <3> QED
      BY <3>1, <3>2 DEF EscrowRecord
  <2>5. stats' \in Counters
    BY <1>1, <1>2, MovedType DEF DesignateWinner
  <2>6. flow' \in [Jobs -> Flow]
    <3>1. LosersRepaid(flow[j], s) \in Flow
      BY <1>1, <2>2, LosersType
    <3> QED
      BY <1>1, <3>1 DEF DesignateWinner
  <2>7. escrows' \in [Jobs -> EscrowRecord \cup {NoEscrow}]
    BY <1>1, <2>4
  <2> QED
    BY <2>5, <2>6, <2>7, OpenYieldType DEF DesignateWinner, TypeOK, WalletTypeOK, VerifierTypeOK
<1>13. CASE \E caller \in Accounts : RetrySettlement(j, caller)
  <2>1. escrows[j] \in EscrowRecord
    BY <1>13, EscrowPresent DEF RetrySettlement, Retryable
  <2>2. Retried(escrows[j]) \in EscrowRecord
    BY <2>1, RetriedType
  <2>3. /\ SettleEscrow(j, Retried(escrows[j]), stats, flow[j])
        /\ UNCHANGED <<index, config, yields, transfers, now, pool, verifiers>>
    BY <1>13 DEF RetrySettlement
  <2> QED
    BY <1>1, <2>2, <2>3, SettlingType
<1>14. CASE RetryExhausted(j)
  <2>1. Retried(escrows[j]) \in EscrowRecord
    BY <1>14, EscrowPresent, RetriedType DEF RetryExhausted, Retryable
  <2>2. [Retried(escrows[j]) EXCEPT !.status = "Cancelled"] \in EscrowRecord
    BY <1>2, <2>1 DEF EscrowRecord
  <2>3. stats' \in Counters
    BY <1>1, <1>2, <1>14, MovedType DEF RetryExhausted
  <2>4. flow' \in [Jobs -> Flow]
    BY <1>1, <1>14, FlowType DEF RetryExhausted
  <2>5. escrows' \in [Jobs -> EscrowRecord \cup {NoEscrow}]
    BY <1>1, <1>14, <2>2 DEF RetryExhausted
  <2> QED
    BY <1>14, <2>3, <2>4, <2>5 DEF RetryExhausted, TypeOK, WalletTypeOK, VerifierTypeOK
<1>15. ASSUME escrows[j].status = "PendingFunding", CancelUnfunded(j)
       PROVE  TypeOK'
  <2>1. [escrows[j] EXCEPT !.status = "Cancelled"] \in EscrowRecord
    BY <1>2, <1>15, EscrowPresent DEF EscrowRecord
  <2>2. stats' \in Counters
    BY <1>1, <1>2, <1>15, MovedType DEF CancelUnfunded
  <2>3. flow' \in [Jobs -> Flow]
    BY <1>1, <1>15, FlowType DEF CancelUnfunded
  <2>4. escrows' \in [Jobs -> EscrowRecord \cup {NoEscrow}]
    BY <1>1, <1>15, <2>1 DEF CancelUnfunded
  <2> QED
    BY <1>15, <2>2, <2>3, <2>4 DEF CancelUnfunded, TypeOK, WalletTypeOK, VerifierTypeOK
<1>16. CASE Cancel(j)
  <2>1. CASE escrows[j].status = "Open"
    <3>1. [escrows[j] EXCEPT !.target = "FullRefund"] \in EscrowRecord
      BY <1>2, <2>1, EscrowPresent DEF EscrowRecord
    <3>2. /\ SettleEscrow(j, [escrows[j] EXCEPT !.target = "FullRefund"], stats, flow[j])
          /\ UNCHANGED <<index, config, yields, transfers, now, pool, verifiers>>
      BY <1>16, <2>1 DEF Cancel
    <3> QED
      BY <1>1, <3>1, <3>2, SettlingType
  <2> QED
    BY <1>15, <1>16, <2>1 DEF Cancel
<1>17. CASE ForceCancelVerifying(j)
  <2> DEFINE e == escrows[j]
             e1 == [e EXCEPT !.status = "Cancelled", !.target = "FullRefund", !.stake = 0,
                             !.dataId = 0, !.consumed = FALSE]
             f1 == IF e.pubkey = NoOne THEN BondBack(flow[j], e.stake) ELSE BondGone(flow[j], e.stake)
             f2 == StorageBack(f1)
  <2>1. e \in EscrowRecord
    BY <1>17, EscrowPresent DEF ForceCancelVerifying
  <2>2. e1 \in EscrowRecord
    <3>1. 0 \in 0 .. MaxYields
      BY EscrowAssumption
    <3> QED
      BY <1>2, <2>1, <3>1 DEF EscrowRecord
  <2>3. f1 \in Flow
    BY <1>1, <2>1, FlowType DEF EscrowRecord
  <2> HIDE DEF f1
  <2>4. f2 \in Flow
    BY <2>3, FlowType
  <2>5. Moved(stats, "Verifying", "Cancelled") \in Counters
    BY <1>1, <1>2, MovedType
  <2>6. index' \in [YieldIds -> Jobs \cup {NoOne}]
    BY <1>17, <2>1, UnindexedType DEF ForceCancelVerifying
  <2>7. SettleEscrow(j, e1, Moved(stats, "Verifying", "Cancelled"), f2)
    BY <1>17 DEF ForceCancelVerifying, f1
  <2>8. UNCHANGED <<config, yields, transfers, now, pool, verifiers>>
    BY <1>17 DEF ForceCancelVerifying
  <2> HIDE DEF e1, f2
  <2> QED
    BY <1>1, <2>2, <2>4, <2>5, <2>6, <2>7, <2>8, SettlingType
<1>18. CASE RefundUnsubmitted(j)
  <2> DEFINE e == escrows[j]
             forfeit == IF e.status = "InProgress" THEN e.stake ELSE 0
             kept == IF e.status = "InProgress" THEN 0 ELSE e.stake
             e1 == [e EXCEPT !.target = "FullRefund", !.stake = kept]
  <2>1. e \in EscrowRecord
    BY <1>18, EscrowPresent DEF RefundUnsubmitted
  <2>2. e1 \in EscrowRecord
    <3>1. kept \in Nat
      BY <2>1 DEF EscrowRecord
    <3> HIDE DEF kept, e
    <3> QED
      BY <2>1, <3>1, RefundingType
  <2>3. forfeit \in Nat
    BY <2>1 DEF EscrowRecord
  <2>4. SettleEscrow(j, e1, stats, BondGone(flow[j], forfeit))
    BY <1>18 DEF RefundUnsubmitted
  <2>5. UNCHANGED <<index, config, yields, transfers, now, pool, verifiers>>
    BY <1>18 DEF RefundUnsubmitted
  <2> HIDE DEF e1, forfeit
  <2>6. BondGone(flow[j], forfeit) \in Flow
    BY <1>1, <2>3, FlowType
  <2> QED
    BY <1>1, <2>2, <2>4, <2>5, <2>6, SettlingType
<1>19. CASE RefundStuck(j)
  <2> DEFINE e == escrows[j]
             e1 == [StakeReturned(e) EXCEPT !.dataId = 0, !.consumed = FALSE,
                                            !.target = "FullRefund"]
             f1 == StakeReturnedFlow(e, flow[j])
  <2>1. e \in EscrowRecord
    BY <1>19, EscrowPresent DEF RefundStuck
  <2>2. e1 \in EscrowRecord
    <3>1. 0 \in 0 .. MaxYields
      BY EscrowAssumption
    <3>2. StakeReturned(e) \in EscrowRecord
      BY <2>1, StakeReturnedType
    <3> QED
      BY <1>2, <3>1, <3>2 DEF EscrowRecord
  <2>3. f1 \in Flow
    BY <1>1, <2>1, FlowType DEF StakeReturnedFlow, EscrowRecord
  <2>4. index' \in [YieldIds -> Jobs \cup {NoOne}]
    BY <1>19, <2>1, UnindexedType DEF RefundStuck
  <2>5. SettleEscrow(j, e1, stats, f1)
    BY <1>19 DEF RefundStuck
  <2>6. UNCHANGED <<config, yields, transfers, now, pool, verifiers>>
    BY <1>19 DEF RefundStuck
  <2> HIDE DEF e1, f1
  <2> QED
    BY <1>1, <2>2, <2>3, <2>4, <2>5, <2>6, SettlingType
<1>20. CASE RefundExpired(j)
  <2>1. CASE /\ escrows[j].status = "SettlementFailed"
             /\ SettleEscrow(j, escrows[j], stats, flow[j])
             /\ UNCHANGED <<index, config, yields, transfers, now, pool, verifiers>>
    BY <1>1, <2>1, EscrowPresent, SettlingType
  <2> QED
    BY <1>15, <1>18, <1>19, <1>20, <2>1 DEF RefundExpired
<1> QED
  BY <1>3, <1>4, <1>5, <1>6, <1>7, <1>9, <1>10, <1>11, <1>12, <1>13, <1>14, <1>16, <1>17, <1>20
  DEF UserCall

-----------------------------------------------------------------------------
\* So do the deposits, accepted or not.
LEMMA DepositType ==
    ASSUME TypeOK, NEW j \in Jobs, Deposit(j) \/ FtOnTransfer(j)
    PROVE  TypeOK'
<1> USE DEF Counters
<1> DEFINE Transfer == [from : Accounts \cup {NoOne}, amount : Nat, count : Nat]
<1>1. /\ escrows \in [Jobs -> EscrowRecord \cup {NoEscrow}] /\ flow \in [Jobs -> Flow]
      /\ stats \in Counters /\ transfers \in [Jobs -> Transfer] /\ pool \in Nat
      /\ flow[j] \in Flow /\ transfers[j] \in Transfer
  BY DEF TypeOK, WalletTypeOK
<1>2. "PendingFunding" \in Statuses /\ "Open" \in Statuses
  BY DEF Statuses
<1>3. NoTransfer(transfers[j].count) \in Transfer
  BY <1>1 DEF NoTransfer
<1>4. CASE Deposit(j)
  <2> PICK from \in Depositors, t \in Terms : FtTransferCall(j, from, t.amount)
    BY <1>4 DEF Deposit
  <2>1. from \in Accounts /\ t.amount \in Nat
    BY EscrowAssumption DEF Term
  <2> QED
    BY <1>1, <2>1 DEF FtTransferCall, TypeOK, WalletTypeOK, VerifierTypeOK
<1>5. CASE FtOnTransferAccept(j)
  <2>1. [escrows[j] EXCEPT !.status = "Open"] \in EscrowRecord
    BY <1>2, <1>5, EscrowPresent DEF FtOnTransferAccept, Accepted, EscrowRecord
  <2>2. escrows' \in [Jobs -> EscrowRecord \cup {NoEscrow}]
    BY <1>1, <1>5, <2>1 DEF FtOnTransferAccept
  <2>3. stats' \in Counters
    BY <1>1, <1>2, <1>5, MovedType DEF FtOnTransferAccept
  <2>4. [flow[j] EXCEPT !.in = @ + transfers[j].amount] \in Flow
    BY <1>1, SMTT(30) DEF Flow
  <2>5. flow' \in [Jobs -> Flow]
    BY <1>1, <1>5, <2>4 DEF FtOnTransferAccept
  <2>6. transfers' \in [Jobs -> Transfer]
    BY <1>1, <1>3, <1>5 DEF FtOnTransferAccept
  <2> QED
    BY <1>5, <2>2, <2>3, <2>5, <2>6
    DEF FtOnTransferAccept, TypeOK, WalletTypeOK, VerifierTypeOK
<1>6. CASE FtOnTransferReject(j)
  <2>1. transfers' \in [Jobs -> Transfer] /\ pool' \in Nat
    BY <1>1, <1>3, <1>6 DEF FtOnTransferReject
  <2> QED
    BY <1>6, <2>1 DEF FtOnTransferReject, TypeOK, WalletTypeOK, VerifierTypeOK
<1> QED
  BY <1>4, <1>5, <1>6 DEF FtOnTransfer

\* So do the verifiers' calls and the callback of a yielded promise.
LEMMA VerificationType ==
    ASSUME TypeOK, NEW d \in YieldIds, VerifierCall(d) \/ YieldCallback(d)
    PROVE  TypeOK'
<1> USE DEF Counters
<1> DEFINE j == yields[d].job
           e == escrows[j]
<1>1. /\ yields \in [YieldIds -> YieldRecord] /\ yields[d] \in YieldRecord
      /\ stats \in Counters /\ flow \in [Jobs -> Flow]
      /\ escrows \in [Jobs -> EscrowRecord \cup {NoEscrow}]
  BY DEF TypeOK
<1>2. {"None", "Claim", "Refund", "FullRefund"} \subseteq Targets /\ 0 \in 0 .. 255
      /\ 0 \in 0 .. MaxYields
  BY EscrowAssumption DEF Targets
<1>3. ASSUME NEW payload \in Payloads, Resume(d, payload)
      PROVE  TypeOK'
  <2>1. payload \in Payload
    BY EscrowAssumption
  <2>2. yields' \in [YieldIds -> YieldRecord]
    <3>0. yields[d] \in [job : Jobs, phase : {"waiting", "resumed"}, payload : Payload]
      BY <1>1, <1>3 DEF Resume, YieldRecord, Yield
    <3>1. [yields[d] EXCEPT !.phase = "resumed", !.payload = payload] \in YieldRecord
      BY <2>1, <3>0 DEF YieldRecord
    <3>2. yields' = [yields EXCEPT ![d] = [yields[d] EXCEPT !.phase = "resumed",
                                                            !.payload = payload]]
      BY <1>1, <1>3 DEF Resume
    <3> QED
      BY <1>1, <3>1, <3>2
  <2> QED
    BY <1>3, <2>2 DEF Resume, TypeOK, WalletTypeOK, VerifierTypeOK
<1>4. CASE VerifierCall(d)
  BY <1>3, <1>4 DEF VerifierCall, ResumeVerificationMulti, ResumeVerification
<1>5. CASE CallbackAborts(d) \/ CallbackStale(d)
  <2>1. yields' \in [YieldIds -> YieldRecord]
    BY <1>5, EndedType DEF CallbackAborts, CallbackStale
  <2> QED
    BY <1>5, <2>1 DEF CallbackAborts, CallbackStale, TypeOK, WalletTypeOK, VerifierTypeOK
<1>6. CASE CallbackVerdict(d)
  <2>0. j \in Jobs
    BY <1>1, <1>6 DEF CallbackVerdict, YieldRecord, Yield
  <2>1. e \in EscrowRecord
    BY <1>6, <2>0, EscrowPresent DEF CallbackVerdict
  <2>2. Judged(e, yields[d].payload) \in EscrowRecord
    <3>1. yields[d].payload \in Payload
      BY <1>1, <1>6 DEF CallbackVerdict, YieldRecord, Yield
    <3> QED
      BY <2>1, <3>1, JudgedType
  <2>3. index' \in [YieldIds -> Jobs \cup {NoOne}]
    BY <1>6, <2>1, UnindexedType DEF CallbackVerdict
  <2>4. yields' \in [YieldIds -> YieldRecord]
    BY <1>6, EndedType DEF CallbackVerdict
  <2>5. /\ SettleEscrow(j, Judged(e, yields[d].payload), stats, flow[j])
        /\ UNCHANGED <<config, transfers, now, pool, verifiers>>
    BY <1>6 DEF CallbackVerdict
  <2>6. flow[j] \in Flow
    BY <1>1, <2>0
  <2> QED
    BY <1>1, <2>0, <2>2, <2>3, <2>4, <2>5, <2>6, SettlingType
<1>7. CASE CallbackNoVerdict(d)
  <2> DEFINE e1 == [StakeReturned(e) EXCEPT !.score = 0, !.passed = FALSE, !.consumed = TRUE,
                                            !.dataId = 0, !.target = "FullRefund"]
             f1 == StakeReturnedFlow(e, flow[j])
  <2>0. j \in Jobs
    BY <1>1, <1>7 DEF CallbackNoVerdict, NoVerdict, YieldRecord, Yield
  <2>1. e \in EscrowRecord
    BY <1>7, <2>0, EscrowPresent DEF CallbackNoVerdict
  <2>2. e1 \in EscrowRecord
    <3>1. StakeReturned(e) \in EscrowRecord
      BY <2>1, StakeReturnedType
    <3> QED
      BY <1>2, <3>1, ZenonT(60) DEF EscrowRecord
  <2>3. f1 \in Flow
    <3>1. flow[j] \in Flow /\ e.stake \in Nat
      BY <1>1, <2>0, <2>1 DEF EscrowRecord
    <3> QED
      BY <3>1, FlowType DEF StakeReturnedFlow
  <2>4. index' \in [YieldIds -> Jobs \cup {NoOne}]
    BY <1>7, <2>1, UnindexedType DEF CallbackNoVerdict
  <2>5. yields' \in [YieldIds -> YieldRecord]
    BY <1>7, EndedType DEF CallbackNoVerdict
  <2>6. /\ SettleEscrow(j, e1, stats, f1)
        /\ UNCHANGED <<config, transfers, now, pool, verifiers>>
    BY <1>7 DEF CallbackNoVerdict
  <2> HIDE DEF e1, f1
  <2> QED
    BY <1>1, <2>0, <2>2, <2>3, <2>4, <2>5, <2>6, SettlingType
<1> QED
  BY <1>4, <1>5, <1>6, <1>7 DEF YieldCallback

\* So do the transfers of a batch and settle_callback.
LEMMA SettlementType ==
    ASSUME TypeOK, NEW b \in BatchIds, FtExecute(b) \/ SettleCallback(b)
    PROVE  TypeOK'
<1> USE DEF Counters
<1> DEFINE s == batches[b]
           j == s.job
           e == escrows[j]
           Sent == [job : Jobs, to : {"agent", "worker"}, amount : Nat, fee : Nat,
                    phase : {"sent", "ok", "failed"}]
<1>1. /\ batches \in [BatchIds -> Batch] /\ stats \in Counters /\ pool \in Nat
      /\ flow \in [Jobs -> Flow] /\ escrows \in [Jobs -> EscrowRecord \cup {NoEscrow}]
      /\ NoBatch \in Batch
  BY DEF TypeOK, WalletTypeOK, Batch
<1>2. s.phase # "free" => s \in Sent /\ j \in Jobs /\ flow[j] \in Flow
  BY <1>1, SMTT(40) DEF Batch, NoBatch
<1>3. CASE FtExecute(b)
  <2> PICK mainOk \in BOOLEAN, feeOk \in BOOLEAN :
        LET main == IF mainOk THEN s.amount ELSE 0
            fee == IF feeOk THEN s.fee ELSE 0
        IN /\ pool >= main + fee
           /\ pool' = pool - main - fee
           /\ flow' = [flow EXCEPT ![j].agent = IF s.to = "agent" THEN @ + main ELSE @,
                                   ![j].worker = IF s.to = "worker" THEN @ + main ELSE @,
                                   ![j].owner = @ + fee]
           /\ batches' = [batches EXCEPT ![b].phase = IF mainOk /\ feeOk THEN "ok" ELSE "failed"]
    BY <1>3, ZenonT(60) DEF FtExecute
  <2> DEFINE main == IF mainOk THEN s.amount ELSE 0
             fee == IF feeOk THEN s.fee ELSE 0
             toAgent == IF s.to = "agent" THEN flow[j].agent + main ELSE flow[j].agent
             toWorker == IF s.to = "worker" THEN flow[j].worker + main ELSE flow[j].worker
             toOwner == flow[j].owner + fee
             done == IF mainOk /\ feeOk THEN "ok" ELSE "failed"
  <2>1. s \in Sent /\ j \in Jobs /\ flow[j] \in Flow
    BY <1>2, <1>3, ZenonT(60) DEF FtExecute
  <2>2. main \in Nat /\ fee \in Nat
    BY <2>1
  <2>3. pool' \in Nat
    BY <1>1, <2>2, SMTT(30)
  <2>4. toAgent \in Nat /\ toWorker \in Nat /\ toOwner \in Nat
    BY <2>1, <2>2 DEF Flow
  <2>5. flow' = [flow EXCEPT ![j] = [flow[j] EXCEPT !.agent = toAgent, !.worker = toWorker,
                                                    !.owner = toOwner]]
    BY <1>1, <2>1
  <2>6. batches' = [batches EXCEPT ![b] = [s EXCEPT !.phase = done]]
    BY <1>1
  <2>7. done \in {"ok", "failed"}
    OBVIOUS
  <2> HIDE DEF toAgent, toWorker, toOwner, done
  <2>8. [flow[j] EXCEPT !.agent = toAgent, !.worker = toWorker, !.owner = toOwner] \in Flow
    BY <2>1, <2>4 DEF Flow
  <2>9. [s EXCEPT !.phase = done] \in Batch
    BY <2>1, <2>7 DEF Batch
  <2>10. flow' \in [Jobs -> Flow]
    BY <1>1, <2>5, <2>8
  <2>11. batches' \in [BatchIds -> Batch]
    BY <1>1, <2>6, <2>9
  <2> QED
    BY <1>3, <2>3, <2>10, <2>11 DEF FtExecute, TypeOK, WalletTypeOK, VerifierTypeOK
<1>4. CASE SettleCallbackOk(b)
  <2>1. j \in Jobs /\ flow[j] \in Flow /\ e \in EscrowRecord
    BY <1>2, <1>4, EscrowPresent DEF SettleCallbackOk
  <2>2. Finish(j, e, stats, flow[j])
    BY <1>4 DEF SettleCallbackOk
  <2>3. /\ escrows' \in [Jobs -> EscrowRecord \cup {NoEscrow}] /\ stats' \in Counters
        /\ flow' \in [Jobs -> Flow] /\ wallet' \in [Pubkeys -> Worker]
    BY <1>1, <2>1, <2>2, FinishType
  <2> QED
    BY <1>1, <1>4, <2>3 DEF SettleCallbackOk, TypeOK, WalletTypeOK, VerifierTypeOK
<1>5. CASE SettleCallbackFailed(b)
  <2>1. j \in Jobs /\ e \in EscrowRecord
    BY <1>2, <1>5, EscrowPresent DEF SettleCallbackFailed
  <2>2. "SettlementFailed" \in Statuses /\ e.status \in Statuses
    BY <2>1 DEF Statuses, EscrowRecord
  <2>3. [e EXCEPT !.status = "SettlementFailed"] \in EscrowRecord
    BY <2>1, <2>2 DEF EscrowRecord
  <2>4. escrows' \in [Jobs -> EscrowRecord \cup {NoEscrow}]
    BY <1>1, <1>5, <2>3 DEF SettleCallbackFailed
  <2>5. stats' \in Counters
    BY <1>1, <1>5, <2>2, MovedType DEF SettleCallbackFailed
  <2> QED
    BY <1>1, <1>5, <2>4, <2>5 DEF SettleCallbackFailed, TypeOK, WalletTypeOK, VerifierTypeOK
<1>6. CASE SettleCallbackAborts(b)
  BY <1>1, <1>6 DEF SettleCallbackAborts, TypeOK, WalletTypeOK, VerifierTypeOK
<1> QED
  BY <1>3, <1>4, <1>5, <1>6 DEF SettleCallback

\* What changes neither the escrows nor what is in flight.
LEMMA ConfigType ==
    ASSUME TypeOK, ConfigChange
    PROVE  config' \in Config
<1>1. config \in Config /\ Deposits \subseteq Nat
  BY WalletAssumption DEF TypeOK
<1> QED
  BY <1>1 DEF ConfigChange, SetPaused, SetTokenAllowed, ProposeOwner, AcceptOwner,
              SetStorageDeposit, SetWorkerStake, Config

\* The owner's changes to the verifiers.
LEMMA AdminType ==
    ASSUME VerifierTypeOK, VerifierAdmin
    PROVE  VerifierTypeOK'
<1> DEFINE Set == [listed : SUBSET Verifiers, active : SUBSET Verifiers, threshold : Nat]
<1>1. verifiers \in Set
  BY DEF VerifierTypeOK
<1>2. ASSUME NEW v \in Verifiers, AddVerifier(v)
      PROVE  verifiers' \in Set
  <2>1. verifiers.listed \cup {v} \in SUBSET Verifiers
    BY <1>1
  <2>2. verifiers.active \cup {v} \in SUBSET Verifiers
    BY <1>1
  <2> QED
    BY <1>1, <1>2, <2>1, <2>2 DEF AddVerifier
<1>3. ASSUME NEW v \in Verifiers, DeactivateVerifier(v)
      PROVE  verifiers' \in Set
  <2>1. verifiers.active \ {v} \in SUBSET Verifiers
    BY <1>1
  <2> QED
    BY <1>1, <1>3, <2>1 DEF DeactivateVerifier
<1>4. ASSUME NEW n \in 1 .. Cardinality(Verifiers), SetConsensusThreshold(n)
      PROVE  verifiers' \in Set
  <2>1. n \in Nat
    BY VerifierAssumption, FS_CardinalityType
  <2> QED
    BY <1>1, <1>4, <2>1 DEF SetConsensusThreshold
<1> QED
  BY <1>2, <1>3, <1>4 DEF VerifierAdmin, VerifierTypeOK

\* What is done to the internal wallet, outside escrows.
LEMMA WalletActionType ==
    ASSUME WalletTypeOK, NEW p \in Pubkeys, RegisterWorker(p) \/ WalletUse(p) \/ WalletAdmin(p)
    PROVE  WalletTypeOK'
<1>1. wallet \in [Pubkeys -> Worker] /\ pool \in Nat /\ wallet[p] \in Worker
  BY DEF WalletTypeOK
<1>2. CASE RegisterWorker(p) \/ PauseWorker(p) \/ UnpauseWorker(p) \/ LinkNearAccount(p)
  <2>1. [wallet[p] EXCEPT !.registered = TRUE] \in Worker /\ Bumped(wallet[p]) \in Worker
    BY <1>1, WorkerType
  <2>2. \A b \in BOOLEAN : [wallet[p] EXCEPT !.paused = b] \in Worker
    BY <1>1 DEF Worker
  <2> QED
    BY <1>1, <1>2, <2>1, <2>2
    DEF RegisterWorker, PauseWorker, UnpauseWorker, LinkNearAccount, WalletTypeOK
<1>3. ASSUME NEW amount \in Deposits, DepositToWorker(p, amount)
      PROVE  WalletTypeOK'
  <2>1. Credited(wallet[p], 0, amount) \in Worker
    BY <1>1, WalletAssumption, WorkerType
  <2> QED
    BY <1>1, <1>3, <2>1 DEF DepositToWorker, WalletTypeOK
<1>4. ASSUME NEW amount \in 1 .. wallet[p].near, WithdrawNear(p, amount)
      PROVE  WalletTypeOK'
  <2>1. wallet[p].near - amount \in Nat /\ amount \in Nat
    BY <1>1 DEF Worker
  <2>2. Bumped([wallet[p] EXCEPT !.near = @ - amount]) \in Worker
    BY <1>1, <2>1, WorkerType
  <2> QED
    BY <1>1, <1>4, <2>2 DEF WithdrawNear, WalletTypeOK
<1>5. ASSUME NEW amount \in 1 .. wallet[p].ft, NEW delivered \in BOOLEAN,
             WithdrawToken(p, amount, delivered)
      PROVE  WalletTypeOK'
  <2>1. wallet[p].ft - amount \in Nat /\ amount \in Nat
    BY <1>1 DEF Worker
  <2>2. Bumped([wallet[p] EXCEPT !.ft = @ - amount]) \in Worker
    BY <1>1, <2>1, WorkerType
  <2>3. pool' \in Nat
    BY <1>1, <1>5, <2>1 DEF WithdrawToken
  <2> QED
    BY <1>1, <1>5, <2>2, <2>3 DEF WithdrawToken, WalletTypeOK
<1> QED
  BY <1>2, <1>3, <1>4, <1>5 DEF WalletUse, WalletAdmin

-----------------------------------------------------------------------------
\* Every variable keeps its type: the escrows, the index of the yields, the
\* counters, and the receipts in flight, each of which belongs to a job.
THEOREM TypeCorrect == Spec => []TypeOK
<1>1. Init => TypeOK
  <2> SUFFICES ASSUME Init PROVE TypeOK
    OBVIOUS
  <2>1. /\ Unregistered \in Worker
        /\ NoFlow \in Flow
        /\ NoBatch \in Batch
        /\ Yield(NoOne, "unused") \in YieldRecord
        /\ NoTransfer(0) \in [from : Accounts \cup {NoOne}, amount : Nat, count : Nat]
    BY WalletAssumption DEF Unregistered, Worker, NoFlow, Flow, Batch, YieldRecord, NoTransfer
  <2>2. config \in Config
    BY EscrowAssumption DEF Init, Config
  <2>3. VerifierTypeOK
    <3>1. Cardinality(InitialVerifiers) \in Nat
      BY VerifierAssumption, FS_Subset, FS_CardinalityType
    <3>2. InitialThreshold \in Nat
      BY <3>1, VerifierAssumption
    <3> QED
      BY <3>2, VerifierAssumption DEF Init, VerifierInit, VerifierTypeOK
  <2> QED
    BY <2>1, <2>2, <2>3 DEF Init, TypeOK, WalletInit, WalletTypeOK
<1>2. TypeOK /\ [Next]_vars => TypeOK'
  <2> SUFFICES ASSUME TypeOK, [Next]_vars PROVE TypeOK'
    OBVIOUS
  <2> USE DEF TypeOK, WalletTypeOK, VerifierTypeOK
  <2>1. CASE \E j \in Jobs : (MayCall(j) /\ UserCall(j)) \/ Deposit(j) \/ FtOnTransfer(j)
    BY <2>1, UserCallType, DepositType
  <2>2. CASE \E removed \in SUBSET Jobs : CleanupCompleted(removed)
    BY <2>2 DEF CleanupCompleted
  <2>3. CASE \E d \in YieldIds : VerifierCall(d) \/ YieldCallback(d)
    BY <2>3, VerificationType
  <2>4. CASE \E b \in BatchIds : FtExecute(b) \/ SettleCallback(b)
    BY <2>4, SettlementType
  <2>5. CASE Tick
    BY <2>5 DEF Tick
  <2>6. CASE /\ ConfigChange
             /\ UNCHANGED <<escrows, index, stats, yields, batches, transfers, flow, now,
                            wallet, pool, verifiers>>
    BY <2>6, ConfigType
  <2>7. CASE VerifierAdmin /\ UNCHANGED <<escrowVars, wallet, pool>>
    BY <2>7, AdminType DEF escrowVars
  <2>8. CASE /\ \E p \in Pubkeys : RegisterWorker(p) \/ WalletUse(p) \/ WalletAdmin(p)
             /\ UNCHANGED <<escrowVars, verifiers>>
    BY <2>8, WalletActionType DEF escrowVars
  <2>9. CASE UNCHANGED vars
    BY <2>9 DEF vars
  <2> QED
    BY <2>1, <2>2, <2>3, <2>4, <2>5, <2>6, <2>7, <2>8, <2>9 DEF Next
<1> QED
  BY <1>1, <1>2, PTL DEF Spec
=============================================================================
