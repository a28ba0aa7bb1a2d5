------------------------- MODULE EscrowSafetyProofs -------------------------
(***************************************************************************)
(* The safety invariants that hold whatever goes wrong are one invariant   *)
(* of each escrow e and of what was credited to its internal worker, c.    *)
(* They need each other: an escrow is credited once because a settled one  *)
(* has no target left, and rightly because a payout is only prepared for a *)
(* claim, which only a verdict that passed makes.                          *)
(* The stakes are a second invariant, at the end of the module.            *)
(***************************************************************************)
EXTENDS EscrowTypeProofs

OwesNothing(e) == IsSettled(e) =>
    e.target = "None" /\ e.stake = 0 /\ e.payout = 0 /\ e.stakeRefund = 0
ClaimPassed(e) ==
    (e.target = "Claim" \/ e.status = "Claimed") => e.passed /\ e.score >= e.terms.threshold
PayoutOfClaim(e) == e.payout > 0 =>
    e.target = "Claim" /\ e.pubkey # NoOne /\ e.payout = e.terms.amount - e.terms.fee
CreditOfClaim(e, c) == c > 0 => e.status = "Claimed" /\ c = e.terms.amount - e.terms.fee

Sound(e, c) ==
    OwesNothing(e) /\ ClaimPassed(e) /\ PayoutOfClaim(e) /\ CreditOfClaim(e, c)

AllSound == \A j \in Jobs : Exists(j) => Sound(escrows[j], flow[j].credit)

\* What an escrow must satisfy when a handler starts to settle it.
Settleable(e) == ~IsSettled(e) /\ ClaimPassed(e)

\* A step that changes the escrow j, which is not settled, and no other one.
Changes(j) ==
    /\ ~IsSettled(escrows[j])
    /\ Sound(escrows'[j], flow'[j].credit)
    /\ \A k \in Jobs \ {j} : escrows'[k] = escrows[k] /\ flow'[k].credit = flow[k].credit

\* A step that changes no escrow, except for removing some.
Leaves ==
    \A k \in Jobs : escrows'[k] \in {escrows[k], NoEscrow} /\ flow'[k].credit = flow[k].credit

\* The parts of the invariant, for an escrow that exists.
LEMMA SoundParts ==
    ASSUME TypeOK, AllSound, NEW j \in Jobs, Exists(j)
    PROVE  /\ escrows[j] \in EscrowRecord
           /\ flow[j] \in Flow
           /\ OwesNothing(escrows[j]) /\ ClaimPassed(escrows[j]) /\ PayoutOfClaim(escrows[j])
           /\ CreditOfClaim(escrows[j], flow[j].credit)
           /\ escrows[j].status # "Claimed" => flow[j].credit = 0
<1>1. escrows[j] \in EscrowRecord /\ flow[j] \in Flow
  BY EscrowPresent DEF Exists, TypeOK
<1>2. Sound(escrows[j], flow[j].credit)
  BY DEF AllSound
<1>3. flow[j].credit \in Nat
  BY <1>1 DEF Flow
<1> QED
  BY <1>1, <1>2, <1>3 DEF Sound, CreditOfClaim

\* What preparing the credits leaves alone, and the payout it makes.
LEMMA PreparedFields ==
    ASSUME NEW e \in EscrowRecord
    PROVE  /\ Prepared(e).status = e.status /\ Prepared(e).target = e.target
           /\ Prepared(e).pubkey = e.pubkey /\ Prepared(e).terms = e.terms
           /\ Prepared(e).passed = e.passed /\ Prepared(e).score = e.score
           /\ Prepared(e).dataId = e.dataId
           /\ Prepared(e).payout = IF e.target = "Claim" /\ e.pubkey # NoOne
                                   THEN e.terms.amount - e.terms.fee ELSE 0
  BY DEF Prepared, EscrowRecord

\* What an escrow is after its settlement.
LEMMA SettledFields ==
    ASSUME NEW e \in EscrowRecord
    PROVE  /\ Settled(e).status = IF e.target = "Claim" THEN "Claimed" ELSE "Refunded"
           /\ Settled(e).target = "None" /\ Settled(e).terms = e.terms
           /\ Settled(e).passed = e.passed /\ Settled(e).score = e.score
           /\ Settled(e).stake = 0 /\ Settled(e).payout = 0 /\ Settled(e).stakeRefund = 0
  BY DEF Settled, EscrowRecord

\* Returning stakes and storage deposits credits no tokens.
LEMMA FlowCredit ==
    ASSUME NEW f \in Flow, NEW n, NEW s
    PROVE  /\ StorageBack(f).credit = f.credit
           /\ BondBack(f, n).credit = f.credit
           /\ BondGone(f, n).credit = f.credit
           /\ LosersRepaid(f, s).credit = f.credit
  BY DEF StorageBack, BondBack, BondGone, LosersRepaid, Flow

\* A settlement that goes through leaves a sound escrow.
LEMMA FinishSound ==
    ASSUME TypeOK, NEW j \in Jobs, NEW e \in EscrowRecord, NEW st \in Counters, NEW f \in Flow,
           f.credit = 0, ClaimPassed(e), PayoutOfClaim(e), Finish(j, e, st, f)
    PROVE  /\ Sound(escrows'[j], flow'[j].credit)
           /\ \A k \in Jobs \ {j} : escrows'[k] = escrows[k] /\ flow'[k].credit = flow[k].credit
<1>1. /\ escrows \in [Jobs -> EscrowRecord \cup {NoEscrow}] /\ flow \in [Jobs -> Flow]
      /\ e.payout \in Nat /\ e.stake \in Nat /\ e.stakeRefund \in Nat
  BY DEF TypeOK, EscrowRecord
<1>2. escrows'[j] = Settled(e)
  BY <1>1 DEF Finish
<1>3. flow'[j].credit = IF e.pubkey = NoOne THEN 0 ELSE e.payout
  <2>1. CASE e.pubkey = NoOne
    <3>1. flow'[j] = BondBack(StorageBack(f), e.stake)
      BY <1>1, <2>1 DEF Finish
    <3>2. StorageBack(f) \in Flow /\ StorageBack(f).credit = 0
      BY FlowType, FlowCredit
    <3> QED
      BY <2>1, <3>1, <3>2, FlowCredit
  <2>2. CASE e.pubkey # NoOne
    <3> DEFINE g == BondBack(StorageBack(f), e.stakeRefund)
    <3>1. StorageBack(f) \in Flow /\ StorageBack(f).credit = 0
      BY FlowType, FlowCredit
    <3>2. g \in Flow /\ g.credit = 0
      BY <1>1, <3>1, FlowType, FlowCredit
    <3>3. flow'[j] = [g EXCEPT !.credit = @ + e.payout]
      BY <1>1, <2>2 DEF Finish
    <3> HIDE DEF g
    <3>4. flow'[j].credit = 0 + e.payout
      BY <3>2, <3>3 DEF Flow
    <3> QED
      BY <1>1, <2>2, <3>4
  <2> QED
    BY <2>1, <2>2
<1>4. Sound(Settled(e), flow'[j].credit)
  BY <1>1, <1>3, SettledFields
  DEF Sound, OwesNothing, ClaimPassed, PayoutOfClaim, CreditOfClaim, IsSettled
<1>5. \A k \in Jobs \ {j} : escrows'[k] = escrows[k] /\ flow'[k] = flow[k]
  BY <1>1 DEF Finish
<1> QED
  BY <1>2, <1>4, <1>5

\* So does a settlement that is only sent: the escrow waits with its target.
LEMMA SettleEscrowSound ==
    ASSUME TypeOK, NEW j \in Jobs, NEW e \in EscrowRecord, NEW st \in Counters, NEW f \in Flow,
           ~IsSettled(escrows[j]), f.credit = 0, Settleable(e), SettleEscrow(j, e, st, f)
    PROVE  Changes(j)
<1> DEFINE p == Prepared(e)
<1>1. p \in EscrowRecord
  BY PreparedType
<1>2. /\ ClaimPassed(p) /\ PayoutOfClaim(p)
      /\ ~IsSettled(p)
  BY PreparedFields DEF Settleable, ClaimPassed, PayoutOfClaim, IsSettled
<1>3. escrows \in [Jobs -> EscrowRecord \cup {NoEscrow}] /\ flow \in [Jobs -> Flow]
  BY DEF TypeOK
<1> HIDE DEF p
<1>4. CASE Finish(j, p, st, f)
  BY <1>1, <1>2, <1>4, FinishSound DEF Changes
<1>5. CASE escrows' = [escrows EXCEPT ![j] = p] /\ flow' = [flow EXCEPT ![j] = f]
  <2>1. Sound(p, f.credit)
    BY <1>2 DEF Sound, OwesNothing, CreditOfClaim
  <2> QED
    BY <1>3, <1>5, <2>1 DEF Changes
<1> QED
  BY <1>4, <1>5 DEF SettleEscrow, p

\* A step that gives j an escrow that is not settled and that keeps the verdict,
\* the target and the payout of the one it had.
LEMMA KeptSound ==
    ASSUME TypeOK, AllSound, NEW j \in Jobs, Exists(j), NEW e \in EscrowRecord,
           ~IsSettled(escrows[j]),
           e.terms = escrows[j].terms, e.target = escrows[j].target,
           e.passed = escrows[j].passed, e.score = escrows[j].score,
           e.payout = escrows[j].payout,
           e.pubkey = escrows[j].pubkey \/ e.pubkey # NoOne,
           ~IsSettled(e),
           escrows' = [escrows EXCEPT ![j] = e],
           \A k \in Jobs : flow'[k].credit = flow[k].credit
    PROVE  Changes(j)
<1>1. /\ ClaimPassed(escrows[j]) /\ PayoutOfClaim(escrows[j]) /\ flow[j].credit = 0
  BY SoundParts DEF IsSettled
<1>2. ClaimPassed(e) /\ PayoutOfClaim(e) /\ OwesNothing(e)
  BY <1>1 DEF ClaimPassed, PayoutOfClaim, OwesNothing, IsSettled
<1>3. CreditOfClaim(e, flow'[j].credit)
  BY <1>1 DEF CreditOfClaim
<1>4. escrows'[j] = e /\ \A k \in Jobs \ {j} : escrows'[k] = escrows[k]
  BY DEF TypeOK
<1> QED
  BY <1>2, <1>3, <1>4 DEF Changes, Sound

\* Every call of a user, which may overlap with settlements in flight.
LEMMA UserCallSound ==
    ASSUME TypeOK, AllSound, NEW j \in Jobs, UserCall(j)
    PROVE  Changes(j) \/ Leaves
<1> DEFINE e == escrows[j]
           f == flow[j]
<1>1. /\ escrows \in [Jobs -> EscrowRecord \cup {NoEscrow}] /\ flow \in [Jobs -> Flow]
      /\ wallet \in [Pubkeys -> Worker] /\ stats \in Counters /\ config \in Config
      /\ f \in Flow /\ Relayers \subseteq Accounts /\ Workers \subseteq Accounts
      /\ Deposits \subseteq Nat
  BY EscrowAssumption, WalletAssumption DEF TypeOK, WalletTypeOK, Counters
<1>2. /\ {"PendingFunding", "Open", "InProgress", "Verifying", "SettlementFailed", "Cancelled"}
            \subseteq Statuses
      /\ {"Claim", "Refund", "FullRefund", "None"} \subseteq Targets
  BY DEF Statuses, Targets
<1>3. ASSUME e.status # "Absent"
      PROVE  /\ Exists(j) /\ e \in EscrowRecord
             /\ ClaimPassed(e) /\ PayoutOfClaim(e)
             /\ ~IsSettled(e) => f.credit = 0
  BY <1>3, SoundParts DEF Exists, IsSettled
<1>4. CASE \E t \in Terms, attached \in Deposits : CreateEscrow(j, t, attached)
  <2> PICK t \in Terms, attached \in Deposits : CreateEscrow(j, t, attached)
    BY <1>4
  <2>1. Sound(NewEscrow(t), 0)
    BY DEF NewEscrow, Sound, OwesNothing, ClaimPassed, PayoutOfClaim,
           CreditOfClaim, IsSettled
  <2>2. escrows'[j] = NewEscrow(t) /\ flow'[j].credit = 0
    BY <1>1 DEF CreateEscrow, NoFlow
  <2>3. \A k \in Jobs \ {j} : escrows'[k] = escrows[k] /\ flow'[k] = flow[k]
    BY <1>1 DEF CreateEscrow
  <2> QED
    BY <2>1, <2>2, <2>3 DEF CreateEscrow, Changes, IsSettled
<1>5. CASE \E w \in Workers, attached \in Deposits : Claim(j, w, attached)
  <2> PICK w \in Workers, attached \in Deposits : Claim(j, w, attached)
    BY <1>5
  <2> DEFINE e1 == [e EXCEPT !.status = "InProgress", !.worker = w, !.stake = attached]
  <2>1. e \in EscrowRecord /\ Exists(j) /\ e.status = "Open" /\ w \in Accounts /\ attached \in Nat
    BY <1>1, <1>3 DEF Claim
  <2>2. /\ e1 \in EscrowRecord /\ e1.status = "InProgress" /\ e1.terms = e.terms
        /\ e1.target = e.target /\ e1.passed = e.passed /\ e1.score = e.score
        /\ e1.payout = e.payout /\ e1.pubkey = e.pubkey
    BY <1>2, <2>1 DEF EscrowRecord
  <2>3. escrows' = [escrows EXCEPT ![j] = e1]
    BY DEF Claim
  <2>4. \A k \in Jobs : flow'[k].credit = flow[k].credit
    BY <1>1 DEF Claim, Flow
  <2> HIDE DEF e1
  <2> QED
    BY <2>1, <2>2, <2>3, <2>4, KeptSound DEF IsSettled
<1>6. CASE \E p \in Pubkeys, r \in Relayers : ClaimFor(j, p, r)
  <2> PICK p \in Pubkeys, r \in Relayers : ClaimFor(j, p, r)
    BY <1>6
  <2> DEFINE stake == config.workerStake
             e1 == [e EXCEPT !.status = "InProgress", !.worker = r, !.pubkey = p,
                             !.stake = stake]
  <2>1. e \in EscrowRecord /\ Exists(j) /\ e.status = "Open" /\ stake \in Nat
    BY <1>1, <1>3 DEF ClaimFor, Config
  <2>2. /\ e1 \in EscrowRecord /\ e1.status = "InProgress" /\ e1.terms = e.terms
        /\ e1.target = e.target /\ e1.passed = e.passed /\ e1.score = e.score
        /\ e1.payout = e.payout /\ e1.pubkey = p
    BY <1>1, <1>2, <2>1 DEF EscrowRecord
  <2>3. escrows' = [escrows EXCEPT ![j] = e1]
    BY DEF ClaimFor
  <2>4. \A k \in Jobs : flow'[k].credit = flow[k].credit
    BY <1>1 DEF ClaimFor, Flow
  <2>5. p # NoOne
    BY WalletAssumption
  <2> HIDE DEF e1
  <2> QED
    BY <2>1, <2>2, <2>3, <2>4, <2>5, KeptSound DEF IsSettled
\* A result starts a verification: the escrow has a data id.
<1>7. ASSUME NEW d \in YieldIds, e.status \in {"Open", "InProgress"},
             escrows' = [escrows EXCEPT ![j] = Verifying(e, d)],
             \A k \in Jobs : flow'[k].credit = flow[k].credit
      PROVE  Changes(j)
  <2> DEFINE e1 == Verifying(e, d)
  <2>1. e \in EscrowRecord /\ Exists(j)
    BY <1>3, <1>7
  <2>2. e1 \in EscrowRecord
    BY <2>1, VerifyingType
  <2>3. /\ e1.status = "Verifying" /\ e1.terms = e.terms /\ e1.dataId = d
        /\ e1.target = e.target /\ e1.passed = e.passed /\ e1.score = e.score
        /\ e1.payout = e.payout /\ e1.pubkey = e.pubkey
    BY <2>1 DEF Verifying, EscrowRecord
  <2>4. d # 0
    BY EscrowAssumption DEF YieldIds
  <2> HIDE DEF e1
  <2> QED
    BY <1>7, <2>1, <2>2, <2>3, <2>4, KeptSound DEF IsSettled, e1
<1>8. CASE \E w \in Accounts : SubmitResult(j, w)
  BY <1>7, <1>8 DEF SubmitResult
<1>9. CASE \E p \in Pubkeys : SubmitResultFor(j, p)
  BY <1>7, <1>9 DEF SubmitResultFor
<1>10. CASE \E p \in Pubkeys : SubmitResultForReplay(j, p)
  BY <1>10 DEF SubmitResultForReplay, Leaves
<1>11. ASSUME NEW w \in Accounts, NEW p \in Pubkeys \cup {NoOne}, TakesSubmissions(e),
              escrows' = [escrows EXCEPT ![j] = WithSubmission(e, w, p)],
              \A k \in Jobs : flow'[k].credit = flow[k].credit
       PROVE  Changes(j)
  <2> DEFINE s == [worker |-> w, stake |-> config.workerStake, pubkey |-> p]
             e1 == [e EXCEPT !.subs = @ \cup {s}]
  <2>1. e \in EscrowRecord /\ Exists(j) /\ e.status = "Open"
    BY <1>3, <1>11 DEF TakesSubmissions
  <2>2. s \in Submission
    BY <1>1, <1>11 DEF Submission, Config
  <2> HIDE DEF s
  <2>3. /\ e1 \in EscrowRecord /\ e1.status = "Open" /\ e1.terms = e.terms
        /\ e1.target = e.target /\ e1.passed = e.passed /\ e1.score = e.score
        /\ e1.payout = e.payout /\ e1.pubkey = e.pubkey
    BY <2>1, <2>2 DEF EscrowRecord
  <2>4. escrows' = [escrows EXCEPT ![j] = e1]
    BY <1>11 DEF WithSubmission, s
  <2> HIDE DEF e1
  <2> QED
    BY <1>11, <2>1, <2>3, <2>4, KeptSound DEF IsSettled
<1>12. CASE \E w \in Workers, attached \in Deposits : SubmitCompetitive(j, w, attached)
  <2> PICK w \in Workers, attached \in Deposits : SubmitCompetitive(j, w, attached)
    BY <1>12
  <2>1. \A k \in Jobs : flow'[k].credit = flow[k].credit
    BY <1>1 DEF SubmitCompetitive, Flow
  <2> QED
    BY <1>1, <1>11, <2>1 DEF SubmitCompetitive
<1>13. CASE \E p \in Pubkeys, r \in Relayers : SubmitCompetitiveFor(j, p, r)
  <2> PICK p \in Pubkeys, r \in Relayers : SubmitCompetitiveFor(j, p, r)
    BY <1>13
  <2>1. CASE UNCHANGED <<escrows, flow>>
    BY <2>1 DEF Leaves
  <2>2. CASE /\ escrows' = [escrows EXCEPT ![j] = WithSubmission(e, r, p)]
             /\ flow' = [flow EXCEPT ![j].bond = @ + config.workerStake,
                                     ![j].relayed = @ + config.workerStake]
    <3>1. \A k \in Jobs : flow'[k].credit = flow[k].credit
      BY <1>1, <2>2 DEF Flow
    <3> QED
      BY <1>1, <1>11, <2>2, <3>1 DEF SubmitCompetitiveFor
  <2> QED
    BY <2>1, <2>2 DEF SubmitCompetitiveFor
<1>14. CASE \E caller \in Accounts, s \in e.subs : DesignateWinner(j, caller, s)
  <2> PICK caller \in Accounts, s \in e.subs, d \in YieldIds :
         /\ DesignateWinner(j, caller, s)
         /\ escrows' = [escrows EXCEPT ![j] =
                          [Verifying(e, d) EXCEPT !.worker = s.worker, !.stake = s.stake]]
    BY <1>14 DEF DesignateWinner
  <2> DEFINE v == Verifying(e, d)
             e1 == [v EXCEPT !.worker = s.worker, !.stake = s.stake]
  <2>1. e \in EscrowRecord /\ Exists(j) /\ e.status = "Open"
    BY <1>3 DEF DesignateWinner
  <2>2. s.worker \in Accounts /\ s.stake \in Nat
    BY <2>1 DEF EscrowRecord, Submission
  <2>3. v \in EscrowRecord
    BY <2>1, VerifyingType
  <2>4. /\ v.status = "Verifying" /\ v.terms = e.terms /\ v.dataId = d
        /\ v.target = e.target /\ v.passed = e.passed /\ v.score = e.score
        /\ v.payout = e.payout /\ v.pubkey = e.pubkey
    BY <2>1 DEF Verifying, EscrowRecord
  <2>5. d # 0
    BY EscrowAssumption DEF YieldIds
  <2>6. \A k \in Jobs : flow'[k].credit = flow[k].credit
    BY <1>1, FlowCredit DEF DesignateWinner
  <2>7. escrows' = [escrows EXCEPT ![j] = e1]
    OBVIOUS
  <2> HIDE DEF v
  <2>8. /\ e1 \in EscrowRecord /\ e1.status = "Verifying" /\ e1.terms = e.terms
        /\ e1.dataId = d
        /\ e1.target = e.target /\ e1.passed = e.passed /\ e1.score = e.score
        /\ e1.payout = e.payout /\ e1.pubkey = e.pubkey
    BY <2>2, <2>3, <2>4 DEF EscrowRecord
  <2> HIDE DEF e1
  <2> QED
    BY <2>1, <2>5, <2>6, <2>7, <2>8, KeptSound DEF IsSettled
<1>15. CASE \E caller \in Accounts : RetrySettlement(j, caller)
  <2> DEFINE e1 == Retried(e)
  <2>1. /\ e \in EscrowRecord /\ ClaimPassed(e) /\ e.target # "None"
        /\ ~IsSettled(e) /\ f.credit = 0 /\ SettleEscrow(j, e1, stats, f)
    BY <1>3, <1>15 DEF RetrySettlement, Retryable, IsSettled
  <2>2. e1 \in EscrowRecord
    BY <2>1, RetriedType
  <2>3. /\ e1.status = e.status /\ e1.target = e.target /\ e1.terms = e.terms
        /\ e1.passed = e.passed /\ e1.score = e.score
    BY <2>1 DEF Retried, EscrowRecord
  <2> HIDE DEF e1
  <2>4. Settleable(e1)
    BY <2>1, <2>3 DEF Settleable, ClaimPassed, IsSettled
  <2> QED
    BY <1>1, <2>1, <2>2, <2>4, SettleEscrowSound
<1>16. CASE RetryExhausted(j)
  <2> DEFINE r == Retried(e)
             e1 == [r EXCEPT !.status = "Cancelled"]
  <2>1. e \in EscrowRecord /\ Exists(j) /\ ~IsSettled(e)
    BY <1>3, <1>16 DEF RetryExhausted, Retryable, IsSettled
  <2>2. r \in EscrowRecord
    BY <2>1, RetriedType
  <2>3. /\ r.target = e.target /\ r.terms = e.terms /\ r.pubkey = e.pubkey
        /\ r.passed = e.passed /\ r.score = e.score /\ r.payout = e.payout
    BY <2>1 DEF Retried, EscrowRecord
  <2>4. escrows' = [escrows EXCEPT ![j] = e1]
    BY <1>16 DEF RetryExhausted
  <2>5. \A k \in Jobs : flow'[k].credit = flow[k].credit
    BY <1>1, <1>16, FlowCredit DEF RetryExhausted
  <2> HIDE DEF r
  <2>6. /\ e1 \in EscrowRecord /\ e1.status = "Cancelled" /\ e1.terms = e.terms
        /\ e1.target = e.target /\ e1.passed = e.passed /\ e1.score = e.score
        /\ e1.payout = e.payout /\ e1.pubkey = e.pubkey
    BY <1>2, <2>2, <2>3 DEF EscrowRecord
  <2> HIDE DEF e1
  <2> QED
    BY <2>1, <2>4, <2>5, <2>6, KeptSound DEF IsSettled
<1>17. ASSUME e.status = "PendingFunding", CancelUnfunded(j)
       PROVE  Changes(j)
  <2> DEFINE e1 == [e EXCEPT !.status = "Cancelled"]
  <2>1. e \in EscrowRecord /\ Exists(j) /\ ~IsSettled(e)
    BY <1>3, <1>17 DEF IsSettled
  <2>2. escrows' = [escrows EXCEPT ![j] = e1]
    BY <1>1, <1>17 DEF CancelUnfunded
  <2>3. \A k \in Jobs : flow'[k].credit = flow[k].credit
    BY <1>1, <1>17, FlowCredit DEF CancelUnfunded
  <2>4. /\ e1 \in EscrowRecord /\ e1.status = "Cancelled" /\ e1.terms = e.terms
        /\ e1.target = e.target /\ e1.passed = e.passed /\ e1.score = e.score
        /\ e1.payout = e.payout /\ e1.pubkey = e.pubkey
    BY <1>2, <2>1 DEF EscrowRecord
  <2> HIDE DEF e1
  <2> QED
    BY <2>1, <2>2, <2>3, <2>4, KeptSound DEF IsSettled
\* A full refund needs no verdict.
<1>18. ASSUME NEW e1 \in EscrowRecord, NEW st \in Counters, NEW g \in Flow,
              e.status # "Absent", ~IsSettled(e), ~IsSettled(e1), e1.status # "Claimed",
              e1.target = "FullRefund", g.credit = f.credit, SettleEscrow(j, e1, st, g)
       PROVE  Changes(j)
  <2>1. Settleable(e1)
    BY <1>18 DEF Settleable, ClaimPassed
  <2> QED
    BY <1>3, <1>18, <2>1, SettleEscrowSound
<1>19. CASE Cancel(j)
  <2>1. CASE e.status = "Open"
    <3> DEFINE e1 == [e EXCEPT !.target = "FullRefund"]
    <3>1. e1 \in EscrowRecord /\ e1.status = "Open" /\ e1.target = "FullRefund"
      BY <1>2, <1>3, <2>1 DEF EscrowRecord
    <3>2. SettleEscrow(j, e1, stats, f)
      BY <1>19, <2>1 DEF Cancel
    <3> HIDE DEF e1
    <3> QED
      BY <1>1, <1>18, <2>1, <3>1, <3>2 DEF IsSettled
  <2> QED
    BY <1>17, <1>19, <2>1 DEF Cancel
<1>20. CASE ForceCancelVerifying(j)
  <2> DEFINE e1 == [e EXCEPT !.status = "Cancelled", !.target = "FullRefund", !.stake = 0,
                             !.dataId = 0, !.consumed = FALSE]
             g1 == IF e.pubkey = NoOne THEN BondBack(f, e.stake) ELSE BondGone(f, e.stake)
             g == StorageBack(g1)
  <2>1. e \in EscrowRecord /\ e.status = "Verifying" /\ e.stake \in Nat
    BY <1>3, <1>20 DEF ForceCancelVerifying, EscrowRecord
  <2>2. e1 \in EscrowRecord /\ e1.status = "Cancelled" /\ e1.target = "FullRefund"
    <3>1. 0 \in 0 .. MaxYields
      BY EscrowAssumption
    <3> QED
      BY <1>2, <2>1, <3>1, ZenonT(60) DEF EscrowRecord
  <2>3. g1 \in Flow /\ g1.credit = f.credit
    BY <1>1, <2>1, FlowType, FlowCredit
  <2>4. SettleEscrow(j, e1, Moved(stats, "Verifying", "Cancelled"), g)
    BY <1>20 DEF ForceCancelVerifying
  <2>5. Moved(stats, "Verifying", "Cancelled") \in Counters
    BY <1>1, <1>2, MovedType
  <2> HIDE DEF e1, g1
  <2>6. g \in Flow /\ g.credit = f.credit
    BY <2>3, FlowType, FlowCredit
  <2> HIDE DEF g
  <2> QED
    BY <1>18, <2>1, <2>2, <2>4, <2>5, <2>6 DEF IsSettled
<1>21. CASE RefundUnsubmitted(j)
  <2> DEFINE forfeit == IF e.status = "InProgress" THEN e.stake ELSE 0
             kept == IF e.status = "InProgress" THEN 0 ELSE e.stake
             e1 == [e EXCEPT !.target = "FullRefund", !.stake = kept]
             g == BondGone(f, forfeit)
  <2>1. e \in EscrowRecord /\ e.status \in {"Open", "InProgress"} /\ forfeit \in Nat
    BY <1>3, <1>21 DEF RefundUnsubmitted, EscrowRecord
  <2>2. e1 \in EscrowRecord /\ e1.status = e.status /\ e1.target = "FullRefund"
    <3>1. kept \in Nat
      BY <2>1 DEF EscrowRecord
    <3> HIDE DEF kept, e
    <3> QED
      BY <2>1, <3>1, RefundingType
  <2>3. SettleEscrow(j, e1, stats, g)
    BY <1>21 DEF RefundUnsubmitted
  <2> HIDE DEF forfeit, e1
  <2>4. g \in Flow /\ g.credit = f.credit
    BY <1>1, <2>1, FlowType, FlowCredit
  <2> HIDE DEF g
  <2> QED
    BY <1>1, <1>18, <2>1, <2>2, <2>3, <2>4 DEF IsSettled
<1>22. CASE RefundStuck(j)
  <2> DEFINE r == StakeReturned(e)
             e1 == [r EXCEPT !.dataId = 0, !.consumed = FALSE, !.target = "FullRefund"]
             g == StakeReturnedFlow(e, f)
  <2>1. e \in EscrowRecord /\ e.status = "Verifying" /\ e.stake \in Nat
    BY <1>3, <1>22 DEF RefundStuck, EscrowRecord
  <2>2. r \in EscrowRecord /\ r.status = "Verifying"
    <3>1. r \in EscrowRecord
      BY <2>1, StakeReturnedType
    <3>2. r.status = "Verifying"
      BY <2>1 DEF StakeReturned, EscrowRecord
    <3> QED
      BY <3>1, <3>2
  <2>3. SettleEscrow(j, e1, stats, g)
    BY <1>22 DEF RefundStuck
  <2>4. g \in Flow /\ g.credit = f.credit
    BY <1>1, <2>1, FlowType, FlowCredit DEF StakeReturnedFlow
  <2> HIDE DEF r, g
  <2>5. e1 \in EscrowRecord /\ e1.status = "Verifying" /\ e1.target = "FullRefund"
    <3>1. 0 \in 0 .. MaxYields
      BY EscrowAssumption
    <3> QED
      BY <1>2, <2>2, <3>1, ZenonT(60) DEF EscrowRecord
  <2> HIDE DEF e1
  <2> QED
    BY <1>1, <1>18, <2>1, <2>3, <2>4, <2>5 DEF IsSettled
<1>23. CASE RefundExpired(j)
  <2>1. CASE e.status = "SettlementFailed" /\ SettleEscrow(j, e, stats, f)
    <3>1. /\ e \in EscrowRecord /\ ClaimPassed(e) /\ ~IsSettled(e)
          /\ f.credit = 0
      BY <1>3, <2>1 DEF IsSettled
    <3> QED
      BY <1>1, <2>1, <3>1, SettleEscrowSound DEF Settleable
  <2> QED
    BY <1>17, <1>21, <1>22, <1>23, <2>1 DEF RefundExpired
<1> QED
  BY <1>4, <1>5, <1>6, <1>8, <1>9, <1>10, <1>12, <1>13, <1>14, <1>15, <1>16, <1>19, <1>20, <1>23
  DEF UserCall

\* A verdict makes a target, which is to pay only if it passed.
LEMMA JudgedFields ==
    ASSUME NEW e \in EscrowRecord, NEW payload \in Payload
    PROVE  LET e1 == Judged(e, payload) IN
           /\ e1.status = e.status /\ e1.target \in {"Claim", "Refund"}
           /\ e1.target = "Claim" => e1.passed /\ e1.score >= e1.terms.threshold
<1> DEFINE score == payload.score % 256
           passed == payload.passed /\ score >= e.terms.threshold
           t == IF passed THEN "Claim" ELSE "Refund"
           e1 == [e EXCEPT !.score = score, !.passed = passed, !.consumed = TRUE, !.dataId = 0,
                           !.target = t]
<1>1. t \in {"Claim", "Refund"} /\ (t = "Claim" => passed)
  OBVIOUS
<1>2. passed => score >= e.terms.threshold
  OBVIOUS
<1>3. Judged(e, payload) = e1
  BY DEF Judged
<1> HIDE DEF score, passed, t
<1>4. /\ e1.status = e.status /\ e1.target = t /\ e1.passed = passed /\ e1.score = score
      /\ e1.terms = e.terms
  BY DEF EscrowRecord
<1> QED
  BY <1>1, <1>2, <1>3, <1>4

\* A deposit that is accepted opens the escrow; another one changes none.
LEMMA DepositSound ==
    ASSUME TypeOK, AllSound, NEW j \in Jobs, Deposit(j) \/ FtOnTransfer(j)
    PROVE  Changes(j) \/ Leaves
<1> DEFINE e == escrows[j]
<1>1. CASE Deposit(j) \/ FtOnTransferReject(j)
  BY <1>1 DEF Deposit, FtTransferCall, FtOnTransferReject, Leaves
<1>2. CASE FtOnTransferAccept(j)
  <2> DEFINE e1 == [e EXCEPT !.status = "Open"]
  <2>1. e.status = "PendingFunding"
    BY <1>2 DEF FtOnTransferAccept, Accepted
  <2>2. e \in EscrowRecord /\ Exists(j)
    BY <2>1, EscrowPresent DEF Exists
  <2>3. escrows' = [escrows EXCEPT ![j] = e1]
    BY <1>2 DEF FtOnTransferAccept, TypeOK
  <2>4. \A k \in Jobs : flow'[k].credit = flow[k].credit
    BY <1>2 DEF FtOnTransferAccept, TypeOK, Flow
  <2>5. /\ e1 \in EscrowRecord /\ e1.status = "Open" /\ e1.terms = e.terms
        /\ e1.target = e.target /\ e1.passed = e.passed /\ e1.score = e.score
        /\ e1.payout = e.payout /\ e1.pubkey = e.pubkey
    <3>1. "Open" \in Statuses
      BY DEF Statuses
    <3> QED
      BY <2>2, <3>1 DEF EscrowRecord
  <2> HIDE DEF e1
  <2> QED
    BY <2>1, <2>2, <2>3, <2>4, <2>5, KeptSound DEF IsSettled
<1> QED
  BY <1>1, <1>2 DEF FtOnTransfer

\* The callback of a yielded promise judges an escrow that is Verifying, if any.
LEMMA VerificationSound ==
    ASSUME TypeOK, AllSound, NEW d \in YieldIds, VerifierCall(d) \/ YieldCallback(d)
    PROVE  (\E j \in Jobs : Changes(j)) \/ Leaves
<1> DEFINE j == yields[d].job
           e == escrows[j]
<1>1. yields[d] \in YieldRecord /\ stats \in Counters
  BY DEF TypeOK, Counters
<1>2. ASSUME j \in Jobs, e.status = "Verifying"
      PROVE  /\ e \in EscrowRecord /\ flow[j] \in Flow /\ flow[j].credit = 0
             /\ ~IsSettled(e)
  BY <1>2, SoundParts DEF Exists, IsSettled
<1>3. CASE VerifierCall(d) \/ CallbackAborts(d) \/ CallbackStale(d)
  BY <1>3 DEF VerifierCall, ResumeVerificationMulti, ResumeVerification, Resume, CallbackAborts,
              CallbackStale, Leaves
\* Only here does an escrow get the target to pay the worker.
<1>4. CASE CallbackVerdict(d)
  <2> DEFINE payload == yields[d].payload
             e1 == Judged(e, payload)
  <2>0. j \in Jobs /\ payload \in Payload /\ e.status = "Verifying"
    BY <1>1, <1>4 DEF CallbackVerdict, YieldRecord, Yield
  <2>1. /\ e \in EscrowRecord /\ flow[j] \in Flow /\ flow[j].credit = 0
        /\ ~IsSettled(e) /\ e1 \in EscrowRecord
    BY <1>2, <2>0, JudgedType
  <2>2. /\ e1.status = "Verifying" /\ e1.target \in {"Claim", "Refund"}
        /\ e1.target = "Claim" => e1.passed /\ e1.score >= e1.terms.threshold
    BY <2>0, <2>1, JudgedFields
  <2>4. SettleEscrow(j, e1, stats, flow[j])
    BY <1>4 DEF CallbackVerdict
  <2> HIDE DEF e1
  <2>5. Settleable(e1)
    BY <2>2 DEF Settleable, ClaimPassed, IsSettled
  <2> HIDE DEF j
  <2> QED
    BY <1>1, <2>0, <2>1, <2>4, <2>5, SettleEscrowSound
<1>5. CASE CallbackNoVerdict(d)
  <2> DEFINE r == StakeReturned(e)
             e1 == [r EXCEPT !.score = 0, !.passed = FALSE, !.consumed = TRUE,
                             !.dataId = 0, !.target = "FullRefund"]
             g == StakeReturnedFlow(e, flow[j])
  <2>0. j \in Jobs /\ e.status = "Verifying"
    BY <1>1, <1>5, SMTT(30) DEF CallbackNoVerdict, NoVerdict, YieldRecord, Yield
  <2>1. /\ e \in EscrowRecord /\ flow[j] \in Flow /\ flow[j].credit = 0
        /\ ~IsSettled(e) /\ e.stake \in Nat
    BY <1>2, <2>0 DEF EscrowRecord
  <2>2. r \in EscrowRecord
    BY <2>1, StakeReturnedType
  <2>3. r.status = "Verifying"
    BY <2>0, <2>1 DEF StakeReturned, EscrowRecord
  <2>4. g \in Flow /\ g.credit = 0
    BY <2>1, FlowType, FlowCredit DEF StakeReturnedFlow
  <2>5. SettleEscrow(j, e1, stats, g)
    BY <1>5 DEF CallbackNoVerdict
  <2> HIDE DEF r, g
  <2>6. e1 \in EscrowRecord /\ e1.status = "Verifying" /\ e1.target = "FullRefund"
    <3>1. 0 \in 0 .. MaxYields /\ 0 \in 0 .. 255 /\ "FullRefund" \in Targets
      BY EscrowAssumption DEF Targets
    <3> QED
      BY <2>2, <2>3, <3>1, ZenonT(90) DEF EscrowRecord
  <2> HIDE DEF e1
  <2>7. Settleable(e1)
    BY <2>6 DEF Settleable, ClaimPassed, IsSettled
  <2> HIDE DEF j
  <2> QED
    BY <1>1, <2>0, <2>1, <2>4, <2>5, <2>6, <2>7, SettleEscrowSound
<1> QED
  BY <1>3, <1>4, <1>5 DEF YieldCallback

\* A settlement that comes back finds the escrow settled, and then aborts, or
\* finds a target, and then the escrow is not settled yet.
LEMMA SettlementSound ==
    ASSUME TypeOK, AllSound, NEW b \in BatchIds, FtExecute(b) \/ SettleCallback(b)
    PROVE  (\E j \in Jobs : Changes(j)) \/ Leaves
<1> DEFINE j == batches[b].job
           e == escrows[j]
<1>1. /\ batches[b] \in Batch /\ stats \in Counters /\ flow \in [Jobs -> Flow]
      /\ escrows \in [Jobs -> EscrowRecord \cup {NoEscrow}]
  BY DEF TypeOK, Counters
<1>2. ASSUME batches[b].phase # "free", e.status # "Absent", e.target # "None"
      PROVE  /\ j \in Jobs /\ Exists(j) /\ e \in EscrowRecord
             /\ flow[j] \in Flow /\ flow[j].credit = 0
             /\ ~IsSettled(e) /\ ClaimPassed(e) /\ PayoutOfClaim(e)
  <2>1. j \in Jobs
    BY <1>1, <1>2 DEF Batch, NoBatch
  <2>2. Exists(j)
    BY <1>2 DEF Exists
  <2>3. ~IsSettled(e)
    BY <1>2, <2>1, <2>2, SoundParts DEF OwesNothing
  <2> QED
    BY <2>1, <2>2, <2>3, SoundParts DEF IsSettled
<1>3. CASE FtExecute(b)
  <2> PICK mainOk \in BOOLEAN, feeOk \in BOOLEAN :
        LET main == IF mainOk THEN batches[b].amount ELSE 0
            fee == IF feeOk THEN batches[b].fee ELSE 0
        IN flow' = [flow EXCEPT ![j].agent = IF batches[b].to = "agent" THEN @ + main ELSE @,
                                ![j].worker = IF batches[b].to = "worker" THEN @ + main ELSE @,
                                ![j].owner = @ + fee]
    BY <1>3, ZenonT(60) DEF FtExecute
  <2>1. \A k \in Jobs : flow'[k].credit = flow[k].credit
    BY <1>1 DEF Flow
  <2> QED
    BY <1>3, <2>1, ZenonT(60) DEF FtExecute, Leaves
<1>4. CASE SettleCallbackOk(b)
  <2>1. /\ j \in Jobs /\ e \in EscrowRecord /\ flow[j] \in Flow /\ flow[j].credit = 0
        /\ ~IsSettled(e) /\ ClaimPassed(e) /\ PayoutOfClaim(e)
    BY <1>2, <1>4 DEF SettleCallbackOk
  <2>2. Finish(j, e, stats, flow[j])
    BY <1>4 DEF SettleCallbackOk
  <2> HIDE DEF j
  <2> QED
    BY <1>1, <2>1, <2>2, FinishSound DEF Changes
<1>5. CASE SettleCallbackFailed(b)
  <2> DEFINE e1 == [e EXCEPT !.status = "SettlementFailed"]
  <2>1. j \in Jobs /\ Exists(j) /\ e \in EscrowRecord /\ ~IsSettled(e)
    BY <1>2, <1>5 DEF SettleCallbackFailed
  <2>2. escrows' = [escrows EXCEPT ![j] = e1]
    BY <1>1, <1>5, <2>1 DEF SettleCallbackFailed
  <2>3. \A k \in Jobs : flow'[k].credit = flow[k].credit
    BY <1>5, SMTT(30) DEF SettleCallbackFailed
  <2>4. /\ e1 \in EscrowRecord /\ e1.status = "SettlementFailed" /\ e1.terms = e.terms
        /\ e1.target = e.target /\ e1.passed = e.passed /\ e1.score = e.score
        /\ e1.payout = e.payout /\ e1.pubkey = e.pubkey
    <3>1. "SettlementFailed" \in Statuses
      BY DEF Statuses
    <3> QED
      BY <2>1, <3>1 DEF EscrowRecord
  <2> HIDE DEF e1, j
  <2> QED
    BY <2>1, <2>2, <2>3, <2>4, KeptSound DEF IsSettled
<1>6. CASE SettleCallbackAborts(b)
  BY <1>6 DEF SettleCallbackAborts, Leaves
<1> QED
  BY <1>3, <1>4, <1>5, <1>6 DEF SettleCallback

\* Every step changes one escrow that is not settled, soundly, or none.
LEMMA NextChanges ==
    ASSUME TypeOK, AllSound, [Next]_vars
    PROVE  (\E j \in Jobs : Changes(j)) \/ Leaves
<1>1. CASE \E j \in Jobs : (MayCall(j) /\ UserCall(j)) \/ Deposit(j) \/ FtOnTransfer(j)
  BY <1>1, UserCallSound, DepositSound
<1>2. CASE \E removed \in SUBSET Jobs : CleanupCompleted(removed)
  BY <1>2 DEF CleanupCompleted, Leaves
<1>3. CASE \E d \in YieldIds : VerifierCall(d) \/ YieldCallback(d)
  BY <1>3, VerificationSound
<1>4. CASE \E b \in BatchIds : FtExecute(b) \/ SettleCallback(b)
  BY <1>4, SettlementSound
<1>5. CASE UNCHANGED <<escrows, flow>>
  BY <1>5 DEF Leaves
<1> QED
  BY <1>1, <1>2, <1>3, <1>4, <1>5 DEF Next, vars, escrowVars, Tick

\* Such a step keeps every escrow sound.
LEMMA ChangesSound ==
    ASSUME TypeOK, AllSound, (\E j \in Jobs : Changes(j)) \/ Leaves
    PROVE  AllSound'
<1> SUFFICES ASSUME NEW k \in Jobs, Exists(k)'
             PROVE  Sound(escrows'[k], flow'[k].credit)
  BY DEF AllSound
<1>1. CASE \E j \in Jobs : Changes(j)
  BY <1>1 DEF Changes, AllSound, Exists
<1>2. CASE Leaves
  BY <1>2 DEF Leaves, AllSound, Exists, NoEscrow
<1> QED
  BY <1>1, <1>2

\* Every escrow is sound, whatever goes wrong: with any of the faults, any
\* overlap of calls and any number of retries.
THEOREM EscrowsSound == Spec => []AllSound
<1>1. Init => AllSound
  BY DEF Init, AllSound, Exists, NoEscrow
<1>2. TypeOK /\ AllSound /\ [Next]_vars => AllSound'
  BY NextChanges, ChangesSound
<1> QED
  BY <1>1, <1>2, TypeCorrect, PTL DEF Spec

\* A settled escrow has no target, stake or credit left from which it could be
\* paid again.
THEOREM SettledOwesNothingHolds == Spec => []SettledOwesNothing
<1>1. AllSound => SettledOwesNothing
  BY DEF AllSound, Sound, OwesNothing, SettledOwesNothing, Exists, IsSettled
<1> QED
  BY <1>1, EscrowsSound, PTL

\* Nothing but a verdict that passed pays the worker.
THEOREM ClaimNeedsPassHolds == Spec => []ClaimNeedsPass
<1>1. AllSound => ClaimNeedsPass
  BY DEF AllSound, Sound, ClaimPassed, PayoutOfClaim, ClaimNeedsPass
<1> QED
  BY <1>1, EscrowsSound, PTL

\* An internal worker is credited once, with its payout.
THEOREM CreditedOnceHolds == Spec => []CreditedOnce
<1>1. AllSound => CreditedOnce
  BY DEF AllSound, Sound, CreditOfClaim, CreditedOnce
<1> QED
  BY <1>1, EscrowsSound, PTL

\* No step changes an escrow that is Claimed or Refunded, except by removing it.
THEOREM SettledIsFinalHolds == Spec => SettledIsFinal
<1> DEFINE Final == \A j \in Jobs : IsSettled(escrows[j]) => escrows'[j] \in {escrows[j], NoEscrow}
<1>1. TypeOK /\ AllSound /\ [Next]_vars => [Final]_vars
  <2> SUFFICES ASSUME TypeOK, AllSound, [Next]_vars, NEW k \in Jobs, IsSettled(escrows[k])
               PROVE  escrows'[k] \in {escrows[k], NoEscrow}
    OBVIOUS
  <2>1. (\E j \in Jobs : Changes(j)) \/ Leaves
    BY NextChanges
  <2> QED
    BY <2>1 DEF Changes, Leaves
<1> QED
  BY <1>1, TypeCorrect, EscrowsSound, PTL DEF Spec, SettledIsFinal

-----------------------------------------------------------------------------
(* The stakes.  What an escrow holds of them is not tied to its target or    *)
(* verdict: the invariant is one of its own, and every handler that moves a  *)
(* stake keeps the sum.                                                      *)

\* Out, and held: the stakes of an open competition are on record in flow.
StakesOut(f) == f.bondBack + f.bondGone
HeldFor(e, f) == e.stake + IF e.status = "Open" THEN f.own + f.relayed ELSE 0

\* The stakes that left and those that are held were posted.  An escrow that
\* nobody has claimed holds no worker's stake, one that is not funded none of
\* a submission.
Bonded(e, f) ==
    /\ StakesOut(f) + HeldFor(e, f) <= f.bond
    /\ e.status \in {"PendingFunding", "Open"} => e.stake = 0
    /\ e.status = "PendingFunding" => f.own = 0 /\ f.relayed = 0

Staked(e, f) == Bonded(e, f) /\ e.stakeRefund <= e.stake

AllStaked == \A j \in Jobs : Exists(j) => Staked(escrows[j], flow[j])

Stakes(f) == <<f.bond, f.own, f.relayed, f.bondBack, f.bondGone>>

\* A step that moves stakes of escrow j only; and one that moves none.
MovesStakes(j) ==
    /\ Staked(escrows'[j], flow'[j])
    /\ \A k \in Jobs \ {j} : escrows'[k] = escrows[k] /\ Stakes(flow'[k]) = Stakes(flow[k])
KeepsStakes ==
    \A k \in Jobs : /\ escrows'[k] \in {escrows[k], NoEscrow}
                    /\ Stakes(flow'[k]) = Stakes(flow[k])

LEMMA StakedParts ==
    ASSUME TypeOK, AllStaked, NEW j \in Jobs, escrows[j].status # "Absent"
    PROVE  /\ escrows[j] \in EscrowRecord /\ flow[j] \in Flow
           /\ Bonded(escrows[j], flow[j]) /\ escrows[j].stakeRefund <= escrows[j].stake
  BY EscrowPresent DEF TypeOK, AllStaked, Staked, Exists

LEMMA StakeTypes ==
    ASSUME NEW e \in EscrowRecord, NEW f \in Flow
    PROVE  /\ e.stake \in Nat /\ e.stakeRefund \in Nat /\ HeldFor(e, f) \in Nat
           /\ f.bond \in Nat /\ f.own \in Nat /\ f.relayed \in Nat
           /\ f.bondBack \in Int /\ f.bondGone \in Int /\ StakesOut(f) \in Int
           /\ e.stake <= HeldFor(e, f)
  BY DEF EscrowRecord, Flow, HeldFor, StakesOut

\* Where stakes go.
LEMMA StakeFlows ==
    ASSUME NEW f \in Flow, NEW n \in Nat
    PROVE  /\ Stakes(StorageBack(f)) = Stakes(f)
           /\ Stakes([f EXCEPT !.credit = @ + n]) = Stakes(f)
           /\ Stakes(BondBack(f, n)) = <<f.bond, f.own, f.relayed, f.bondBack + n, f.bondGone>>
           /\ Stakes(BondGone(f, n)) = <<f.bond, f.own, f.relayed, f.bondBack, f.bondGone + n>>
  BY DEF Stakes, StorageBack, BondBack, BondGone, Flow

\* Only the stakes of the history count.
LEMMA SameStakes ==
    ASSUME NEW f, NEW g, Stakes(f) = Stakes(g), NEW e
    PROVE  Staked(e, f) = Staked(e, g) /\ Bonded(e, f) = Bonded(e, g)
<1>1. /\ f.bond = g.bond /\ f.own = g.own /\ f.relayed = g.relayed
      /\ f.bondBack = g.bondBack /\ f.bondGone = g.bondGone
  BY DEF Stakes
<1> QED
  BY <1>1 DEF Staked, Bonded, StakesOut, HeldFor

\* An escrow with the history g after its stakes were dealt with.
LEMMA NoStakeLeft ==
    ASSUME NEW e \in EscrowRecord, NEW f, NEW g \in Flow, Stakes(f) = Stakes(g),
           e.stake = 0, e.stakeRefund = 0, e.status \notin {"PendingFunding", "Open"},
           StakesOut(g) <= g.bond
    PROVE  Staked(e, f)
<1>1. Bonded(e, g)
  BY StakeTypes DEF Bonded, HeldFor
<1> QED
  BY <1>1, SameStakes DEF Staked

\* The settlement that goes through returns the stake that is on record.
LEMMA FinishStakes ==
    ASSUME TypeOK, NEW j \in Jobs, NEW e \in EscrowRecord, NEW st \in Counters, NEW f \in Flow,
           Staked(e, f), Finish(j, e, st, f)
    PROVE  MovesStakes(j)
<1>1. escrows \in [Jobs -> EscrowRecord \cup {NoEscrow}] /\ flow \in [Jobs -> Flow]
  BY DEF TypeOK
<1>2. escrows'[j] = Settled(e)
  BY <1>1 DEF Finish
<1>3. /\ Settled(e) \in EscrowRecord /\ Settled(e).status \notin {"PendingFunding", "Open"}
      /\ Settled(e).stake = 0 /\ Settled(e).stakeRefund = 0
  BY SettledType, SettledFields
<1> DEFINE paid == IF e.pubkey = NoOne THEN e.stake ELSE e.stakeRefund
           g == BondBack(StorageBack(f), paid)
<1>4. paid \in Nat /\ paid <= e.stake
  BY StakeTypes DEF Staked
<1>5. StorageBack(f) \in Flow /\ e.payout \in Nat
  BY FlowType DEF EscrowRecord
<1>6. g \in Flow /\ Stakes(g) = <<f.bond, f.own, f.relayed, f.bondBack + paid, f.bondGone>>
  <2> HIDE DEF paid
  <2>1. g \in Flow
    BY <1>4, <1>5, FlowType
  <2>2. LET s == StorageBack(f) IN
        Stakes(g) = <<s.bond, s.own, s.relayed, s.bondBack + paid, s.bondGone>>
    BY <1>4, <1>5, StakeFlows
  <2>3. Stakes(StorageBack(f)) = Stakes(f)
    BY StakeFlows
  <2> QED
    BY <2>1, <2>2, <2>3 DEF Stakes
<1>7. Stakes(flow'[j]) = Stakes(g)
  <2>1. CASE e.pubkey = NoOne
    BY <1>1, <2>1 DEF Finish
  <2>2. CASE e.pubkey # NoOne
    <3>1. flow'[j] = [g EXCEPT !.credit = @ + e.payout]
      BY <1>1, <2>2 DEF Finish
    <3> HIDE DEF g
    <3> QED
      BY <1>5, <1>6, <3>1, StakeFlows
  <2> QED
    BY <2>1, <2>2
<1> HIDE DEF g, paid
<1>8. StakesOut(g) <= g.bond
  BY <1>4, <1>6, StakeTypes DEF Staked, Bonded, StakesOut, Stakes
<1>9. \A k \in Jobs \ {j} : escrows'[k] = escrows[k] /\ flow'[k] = flow[k]
  BY <1>1 DEF Finish
<1> QED
  BY <1>2, <1>3, <1>6, <1>7, <1>8, <1>9, NoStakeLeft DEF MovesStakes

\* _settle_escrow puts the refund of an internal worker at the stake on record,
\* whatever a handler stored there.
LEMMA SettleEscrowStakes ==
    ASSUME TypeOK, NEW j \in Jobs, NEW e \in EscrowRecord, NEW st \in Counters, NEW f \in Flow,
           Bonded(e, f), SettleEscrow(j, e, st, f)
    PROVE  MovesStakes(j)
<1> DEFINE p == Prepared(e)
<1>1. p \in EscrowRecord
  BY PreparedType
<1>2. p.status = e.status /\ p.stake = e.stake
  BY DEF Prepared, EscrowRecord
<1>3. p.stakeRefund = IF e.pubkey # NoOne THEN e.stake ELSE 0
  BY DEF Prepared, EscrowRecord
<1> HIDE DEF p
<1>4. Staked(p, f)
  BY <1>2, <1>3, StakeTypes DEF Staked, Bonded, HeldFor
<1>5. CASE Finish(j, p, st, f)
  BY <1>1, <1>4, <1>5, FinishStakes
<1>6. CASE escrows' = [escrows EXCEPT ![j] = p] /\ flow' = [flow EXCEPT ![j] = f]
  BY <1>4, <1>6 DEF MovesStakes, TypeOK
<1> QED
  BY <1>5, <1>6 DEF SettleEscrow, p

\* A step that gives j another escrow record and history.
LEMMA GivesStakes ==
    ASSUME TypeOK, NEW j \in Jobs, NEW e, NEW f, Staked(e, f),
           escrows' = [escrows EXCEPT ![j] = e], flow' = [flow EXCEPT ![j] = f]
    PROVE  MovesStakes(j)
  BY DEF MovesStakes, TypeOK

\* A step after which escrow j has another status, not one of the early ones.
LEMMA StatusStakes ==
    ASSUME TypeOK, AllStaked, NEW j \in Jobs, escrows[j].status # "Absent", NEW e, NEW f,
           e.stake = escrows[j].stake, e.stakeRefund = escrows[j].stakeRefund,
           e.status \notin {"PendingFunding", "Open"}, Stakes(f) = Stakes(flow[j]),
           escrows' = [escrows EXCEPT ![j] = e], flow' = [flow EXCEPT ![j] = f]
    PROVE  MovesStakes(j)
<1>1. Staked(e, flow[j])
  BY StakedParts, StakeTypes DEF Staked, Bonded, HeldFor
<1>2. Staked(e, f)
  BY <1>1, SameStakes
<1> QED
  BY <1>2, GivesStakes

\* A full refund after the stake on record went back or was forfeited.
LEMMA ReleasedStakes ==
    ASSUME TypeOK, AllStaked, NEW j \in Jobs, escrows[j].status # "Absent",
           NEW e \in EscrowRecord, NEW st \in Counters, NEW f \in Flow, NEW out \in Nat,
           e.status \notin {"PendingFunding", "Open"}, e.stake = 0, out <= escrows[j].stake,
           \/ Stakes(f) = Stakes(BondBack(flow[j], out))
           \/ Stakes(f) = Stakes(BondGone(flow[j], out)),
           SettleEscrow(j, e, st, f)
    PROVE  MovesStakes(j)
<1> DEFINE h == flow[j]
<1>1. /\ h \in Flow /\ escrows[j] \in EscrowRecord
      /\ StakesOut(h) + HeldFor(escrows[j], h) <= h.bond
  BY StakedParts DEF Bonded
<1>2. f.bond = h.bond /\ StakesOut(f) = StakesOut(h) + out
  <2>1. CASE Stakes(f) = Stakes(BondBack(h, out))
    <3>1. Stakes(f) = <<h.bond, h.own, h.relayed, h.bondBack + out, h.bondGone>>
      BY <1>1, <2>1, StakeFlows
    <3> QED
      BY <1>1, <3>1, StakeTypes DEF Stakes, StakesOut
  <2>2. CASE Stakes(f) = Stakes(BondGone(h, out))
    <3>1. Stakes(f) = <<h.bond, h.own, h.relayed, h.bondBack, h.bondGone + out>>
      BY <1>1, <2>2, StakeFlows
    <3> QED
      BY <1>1, <3>1, StakeTypes DEF Stakes, StakesOut
  <2> QED
    BY <2>1, <2>2
<1>3. StakesOut(f) <= f.bond
  BY <1>1, <1>2, StakeTypes
<1>4. Bonded(e, f)
  BY <1>3, StakeTypes DEF Bonded, HeldFor
<1> QED
  BY <1>4, SettleEscrowStakes

\* A handler that settles an escrow as it is, but for its target and verdict.
LEMMA SettlesAsIs ==
    ASSUME TypeOK, AllStaked, NEW j \in Jobs, escrows[j].status # "Absent",
           NEW e \in EscrowRecord, NEW st \in Counters,
           e.status = escrows[j].status, e.stake = escrows[j].stake,
           SettleEscrow(j, e, st, flow[j])
    PROVE  MovesStakes(j)
<1>1. Bonded(escrows[j], flow[j]) /\ flow[j] \in Flow
  BY StakedParts
<1>2. Bonded(e, flow[j])
  BY <1>1 DEF Bonded, HeldFor
<1> QED
  BY <1>1, <1>2, SettleEscrowStakes

\* The stake of an account goes back with the refund; that of an internal
\* worker is only taken off the record.
LEMMA ReturnedStakes ==
    ASSUME TypeOK, AllStaked, NEW j \in Jobs, escrows[j].status = "Verifying",
           NEW e \in EscrowRecord, NEW st \in Counters, e.status = "Verifying", e.stake = 0,
           SettleEscrow(j, e, st, StakeReturnedFlow(escrows[j], flow[j]))
    PROVE  MovesStakes(j)
<1> DEFINE f == flow[j]
           n == escrows[j].stake
<1>1. f \in Flow /\ n \in Nat
  BY StakedParts, StakeTypes
<1>2. CASE escrows[j].pubkey = NoOne
  <2>1. StakeReturnedFlow(escrows[j], f) = BondBack(f, n) /\ BondBack(f, n) \in Flow
    BY <1>1, <1>2, FlowType DEF StakeReturnedFlow
  <2> QED
    BY <1>1, <2>1, ReleasedStakes
<1>3. CASE escrows[j].pubkey # NoOne
  <2>1. StakeReturnedFlow(escrows[j], f) = f
    BY <1>3 DEF StakeReturnedFlow
  <2>2. Stakes(f) = Stakes(BondBack(f, 0))
    BY <1>1, StakeFlows DEF Stakes, Flow
  <2> QED
    BY <1>1, <2>1, <2>2, ReleasedStakes
<1> QED
  BY <1>2, <1>3

\* A submission posts n, of which m is recorded.
Posted(f, g, n, m) ==
    /\ StakesOut(g) = StakesOut(f) /\ g.bond = f.bond + n
    /\ g.own + g.relayed = f.own + f.relayed + m

LEMMA PostedStakes ==
    ASSUME TypeOK, NEW j \in Jobs, NEW n \in Nat, NEW m \in Nat
    PROVE  /\ \E g \in Flow :
                 /\ [flow EXCEPT ![j].bond = @ + n, ![j].own = @ + m] = [flow EXCEPT ![j] = g]
                 /\ Posted(flow[j], g, n, m)
           /\ \E g \in Flow :
                 /\ [flow EXCEPT ![j].bond = @ + n, ![j].relayed = @ + m] = [flow EXCEPT ![j] = g]
                 /\ Posted(flow[j], g, n, m)
<1> DEFINE f == flow[j]
           f1 == [f EXCEPT !.bond = @ + n]
           h == [flow EXCEPT ![j] = f1]
           own == [f1 EXCEPT !.own = f1.own + m]
           relayed == [f1 EXCEPT !.relayed = f1.relayed + m]
<1>1. flow \in [Jobs -> Flow] /\ f \in Flow
  BY DEF TypeOK
<1>2. f1 \in Flow /\ f1.bond = f.bond + n /\ f1.own = f.own /\ f1.relayed = f.relayed
      /\ StakesOut(f1) = StakesOut(f)
  BY <1>1 DEF Flow, StakesOut
<1>3. h[j] = f1
  BY <1>1
<1> HIDE DEF f1
<1>4. own \in Flow /\ own.bond = f1.bond /\ own.own = f1.own + m /\ own.relayed = f1.relayed
      /\ StakesOut(own) = StakesOut(f1)
  BY <1>2 DEF Flow, StakesOut
<1>5. relayed \in Flow /\ relayed.bond = f1.bond /\ relayed.own = f1.own
      /\ relayed.relayed = f1.relayed + m /\ StakesOut(relayed) = StakesOut(f1)
  BY <1>2 DEF Flow, StakesOut
<1>6. f.own \in Nat /\ f.relayed \in Nat
  BY <1>1 DEF Flow
<1> HIDE DEF own, relayed
<1>7. Posted(f, own, n, m) /\ Posted(f, relayed, n, m)
  BY <1>2, <1>4, <1>5, <1>6 DEF Posted
<1>8. [h EXCEPT ![j] = own] = [flow EXCEPT ![j] = own]
      /\ [h EXCEPT ![j] = relayed] = [flow EXCEPT ![j] = relayed]
  BY <1>1
<1>9. /\ [flow EXCEPT ![j].bond = @ + n, ![j].own = @ + m] = [h EXCEPT ![j] = own]
      /\ [flow EXCEPT ![j].bond = @ + n, ![j].relayed = @ + m] = [h EXCEPT ![j] = relayed]
  <2> HIDE DEF h
  <2>1. [h EXCEPT ![j].own = @ + m] = [h EXCEPT ![j] = own]
    BY <1>3 DEF own
  <2>2. [h EXCEPT ![j].relayed = @ + m] = [h EXCEPT ![j] = relayed]
    BY <1>3 DEF relayed
  <2> QED
    BY <2>1, <2>2 DEF h, f1
<1> QED
  BY <1>4, <1>5, <1>7, <1>8, <1>9

\* What returning a stake leaves of the record.
LEMMA StakeReturnedFields ==
    ASSUME NEW e \in EscrowRecord
    PROVE  StakeReturned(e).status = e.status /\ StakeReturned(e).stake = 0
<1> DEFINE refund == IF e.pubkey # NoOne THEN e.stake ELSE e.stakeRefund
<1>1. StakeReturned(e) = [e EXCEPT !.stake = 0, !.stakeRefund = refund]
  BY DEF StakeReturned, EscrowRecord
<1> HIDE DEF refund
<1> QED
  BY <1>1 DEF EscrowRecord

\* Every call of a user.
LEMMA UserCallStakes ==
    ASSUME TypeOK, AllStaked, NEW j \in Jobs, UserCall(j)
    PROVE  MovesStakes(j) \/ KeepsStakes
<1> DEFINE e == escrows[j]
           f == flow[j]
<1>1. /\ escrows \in [Jobs -> EscrowRecord \cup {NoEscrow}] /\ flow \in [Jobs -> Flow]
      /\ stats \in Counters /\ config.workerStake \in Nat
      /\ f \in Flow /\ Relayers \subseteq Accounts /\ Workers \subseteq Accounts
      /\ Deposits \subseteq Nat
  BY EscrowAssumption, WalletAssumption DEF TypeOK, WalletTypeOK, Counters, Config
<1>2. /\ {"PendingFunding", "Open", "InProgress", "Verifying", "SettlementFailed", "Cancelled"}
            \subseteq Statuses
      /\ {"Claim", "Refund", "FullRefund", "None"} \subseteq Targets
  BY DEF Statuses, Targets
<1>3. ASSUME e.status # "Absent"
      PROVE  /\ e \in EscrowRecord /\ Bonded(e, f) /\ e.stakeRefund <= e.stake
             /\ e.stake \in Nat /\ e.stakeRefund \in Nat
  BY <1>3, StakedParts, StakeTypes
<1>4. CASE \E t \in Terms, attached \in Deposits : CreateEscrow(j, t, attached)
  <2> PICK t \in Terms, attached \in Deposits : CreateEscrow(j, t, attached)
    BY <1>4
  <2>1. Staked(NewEscrow(t), NoFlow)
    BY DEF Staked, Bonded, NewEscrow, NoFlow, StakesOut, HeldFor
  <2>2. escrows' = [escrows EXCEPT ![j] = NewEscrow(t)] /\ flow' = [flow EXCEPT ![j] = NoFlow]
    BY DEF CreateEscrow
  <2> QED
    BY <2>1, <2>2, GivesStakes
\* A claim posts the stake that the escrow then holds.
<1>5. ASSUME NEW n \in Nat, NEW e1, e.status = "Open",
             e1.status = "InProgress", e1.stake = n, e1.stakeRefund = e.stakeRefund,
             escrows' = [escrows EXCEPT ![j] = e1],
             flow' = [flow EXCEPT ![j].bond = @ + n]
      PROVE  MovesStakes(j)
  <2> DEFINE g == [f EXCEPT !.bond = @ + n]
  <2>1. /\ e \in EscrowRecord /\ StakesOut(f) + HeldFor(e, f) <= f.bond
        /\ e.stakeRefund = 0 /\ HeldFor(e, f) \in Nat /\ StakesOut(f) \in Int
    BY <1>1, <1>3, <1>5, StakeTypes DEF Bonded
  <2>2. g.bond = f.bond + n /\ StakesOut(g) = StakesOut(f)
    BY <1>1 DEF Flow, StakesOut
  <2>3. flow' = [flow EXCEPT ![j] = g]
    BY <1>1, <1>5
  <2> HIDE DEF g
  <2>4. Staked(e1, g)
    BY <1>1, <1>5, <2>1, <2>2, StakeTypes DEF Staked, Bonded, HeldFor
  <2> QED
    BY <1>5, <2>3, <2>4, GivesStakes
<1>6. CASE \/ \E w \in Workers, attached \in Deposits : Claim(j, w, attached)
           \/ \E p \in Pubkeys, r \in Relayers : ClaimFor(j, p, r)
  <2>1. ASSUME NEW w \in Workers, NEW attached \in Deposits, Claim(j, w, attached)
        PROVE  MovesStakes(j)
    <3> DEFINE e1 == [e EXCEPT !.status = "InProgress", !.worker = w, !.stake = attached]
    <3>1. e.status = "Open" /\ e \in EscrowRecord /\ attached \in Nat
      BY <1>1, <1>3, <2>1 DEF Claim
    <3>2. e1.status = "InProgress" /\ e1.stake = attached /\ e1.stakeRefund = e.stakeRefund
      BY <3>1 DEF EscrowRecord
    <3>3. escrows' = [escrows EXCEPT ![j] = e1] /\ flow' = [flow EXCEPT ![j].bond = @ + attached]
      BY <2>1 DEF Claim
    <3> HIDE DEF e1
    <3> QED
      BY <1>5, <3>1, <3>2, <3>3
  <2>2. ASSUME NEW p \in Pubkeys, NEW r \in Relayers, ClaimFor(j, p, r)
        PROVE  MovesStakes(j)
    <3> DEFINE n == config.workerStake
               e1 == [e EXCEPT !.status = "InProgress", !.worker = r, !.pubkey = p,
                               !.stake = n]
    <3>1. e.status = "Open" /\ e \in EscrowRecord
      BY <1>3, <2>2 DEF ClaimFor
    <3>2. e1.status = "InProgress" /\ e1.stake = n /\ e1.stakeRefund = e.stakeRefund
      BY <3>1 DEF EscrowRecord
    <3>3. escrows' = [escrows EXCEPT ![j] = e1] /\ flow' = [flow EXCEPT ![j].bond = @ + n]
      BY <2>2 DEF ClaimFor
    <3> HIDE DEF e1
    <3> QED
      BY <1>1, <1>5, <3>1, <3>2, <3>3
  <2> QED
    BY <1>6, <2>1, <2>2
<1>7. CASE \/ \E w \in Accounts : SubmitResult(j, w)
           \/ \E p \in Pubkeys : SubmitResultFor(j, p)
  <2>1. PICK d \in YieldIds : /\ e.status = "InProgress"
                              /\ escrows' = [escrows EXCEPT ![j] = Verifying(e, d)]
                              /\ flow' = flow
    BY <1>7 DEF SubmitResult, SubmitResultFor
  <2>2. e \in EscrowRecord
    BY <1>3, <2>1
  <2>3. /\ Verifying(e, d).stake = e.stake /\ Verifying(e, d).stakeRefund = e.stakeRefund
        /\ Verifying(e, d).status = "Verifying"
    BY <2>2 DEF Verifying, EscrowRecord
  <2>4. flow' = [flow EXCEPT ![j] = f]
    BY <1>1, <2>1
  <2> QED
    BY <2>1, <2>3, <2>4, StatusStakes
\* A submission to a competition posts at least what is recorded for it.
<1>8. ASSUME NEW w, NEW p, NEW g \in Flow, NEW n \in Nat, e.status = "Open",
             config.workerStake <= n, Posted(f, g, n, config.workerStake),
             escrows' = [escrows EXCEPT ![j] = WithSubmission(e, w, p)],
             flow' = [flow EXCEPT ![j] = g]
      PROVE  MovesStakes(j)
  <2> DEFINE e1 == WithSubmission(e, w, p)
  <2>1. e \in EscrowRecord /\ Bonded(e, f) /\ e.stakeRefund <= e.stake
    BY <1>3, <1>8
  <2>2. e1.status = "Open" /\ e1.stake = e.stake /\ e1.stakeRefund = e.stakeRefund
    BY <1>8, <2>1 DEF WithSubmission, EscrowRecord
  <2> HIDE DEF e1
  <2>3. Staked(e1, g)
    BY <1>1, <1>8, <2>1, <2>2, StakeTypes DEF Staked, Bonded, HeldFor, Posted
  <2> QED
    BY <1>8, <2>3, GivesStakes DEF e1
<1>9. CASE \E w \in Workers, attached \in Deposits : SubmitCompetitive(j, w, attached)
  <2> PICK w \in Workers, attached \in Deposits : SubmitCompetitive(j, w, attached)
    BY <1>9
  <2> DEFINE n == config.workerStake
  <2>1. /\ attached \in Nat /\ n <= attached /\ e.status = "Open"
        /\ escrows' = [escrows EXCEPT ![j] = WithSubmission(e, w, NoOne)]
        /\ flow' = [flow EXCEPT ![j].bond = @ + attached, ![j].own = @ + n]
    BY <1>1 DEF SubmitCompetitive, TakesSubmissions
  <2>2. n \in Nat
    BY <1>1
  <2> HIDE DEF n
  <2>3. PICK g \in Flow : flow' = [flow EXCEPT ![j] = g] /\ Posted(f, g, attached, n)
    BY <2>1, <2>2, PostedStakes
  <2> QED
    BY <1>8, <2>1, <2>3 DEF n
<1>10. CASE \E p \in Pubkeys, r \in Relayers : SubmitCompetitiveFor(j, p, r)
  <2> PICK p \in Pubkeys, r \in Relayers : SubmitCompetitiveFor(j, p, r)
    BY <1>10
  <2> DEFINE n == config.workerStake
  <2>1. CASE UNCHANGED <<escrows, flow>>
    BY <2>1 DEF KeepsStakes
  <2>2. CASE /\ e.status = "Open"
             /\ escrows' = [escrows EXCEPT ![j] = WithSubmission(e, r, p)]
             /\ flow' = [flow EXCEPT ![j].bond = @ + n, ![j].relayed = @ + n]
    <3>1. n \in Nat /\ n <= n
      BY <1>1
    <3> HIDE DEF n
    <3>2. PICK g \in Flow : flow' = [flow EXCEPT ![j] = g] /\ Posted(f, g, n, n)
      BY <2>2, <3>1, PostedStakes
    <3> QED
      BY <1>8, <2>2, <3>1, <3>2 DEF n
  <2> QED
    BY <2>1, <2>2 DEF SubmitCompetitiveFor, TakesSubmissions
\* The stakes of the losers leave, that of the winner stays.
<1>11. CASE \E caller \in Accounts, s \in e.subs : e.status = "Open" /\ DesignateWinner(j, caller, s)
  <2> PICK caller \in Accounts, s \in e.subs : e.status = "Open" /\ DesignateWinner(j, caller, s)
    BY <1>11
  <2> PICK d \in YieldIds :
         escrows' = [escrows EXCEPT ![j] =
                       [Verifying(e, d) EXCEPT !.worker = s.worker, !.stake = s.stake]]
    BY DEF DesignateWinner
  <2> DEFINE v == Verifying(e, d)
             e1 == [v EXCEPT !.worker = s.worker, !.stake = s.stake]
             g == LosersRepaid(f, s)
  <2>1. e \in EscrowRecord /\ Bonded(e, f) /\ e.stake = 0 /\ e.stakeRefund = 0
    BY <1>3 DEF Bonded
  <2>2. s \in Submission /\ s.stake \in Nat
    BY <2>1 DEF EscrowRecord, Submission
  <2>3. v \in EscrowRecord /\ v.status = "Verifying" /\ v.stakeRefund = 0
    BY <2>1, VerifyingType DEF Verifying, EscrowRecord
  <2>4. g \in Flow /\ g.bond = f.bond /\ g.own = 0 /\ g.relayed = 0
    BY <1>1, <2>2, LosersType DEF LosersRepaid, Flow
  <2>5. StakesOut(g) = StakesOut(f) + f.own + f.relayed - s.stake
    <3>1. /\ g.bondBack = f.bondBack + f.own - (IF s.pubkey = NoOne THEN s.stake ELSE 0)
          /\ g.bondGone = f.bondGone + f.relayed - (IF s.pubkey = NoOne THEN 0 ELSE s.stake)
      BY <1>1 DEF LosersRepaid, Flow
    <3> QED
      BY <1>1, <2>2, <3>1, StakeTypes, <2>1 DEF StakesOut
  <2>6. flow' = [flow EXCEPT ![j] = g]
    BY DEF DesignateWinner
  <2> HIDE DEF v, g
  <2>7. e1.status = "Verifying" /\ e1.stake = s.stake /\ e1.stakeRefund = 0
    BY <2>3 DEF EscrowRecord
  <2>8. escrows' = [escrows EXCEPT ![j] = e1]
    BY DEF v
  <2> HIDE DEF e1
  <2>9. Staked(e1, g)
    BY <1>1, <2>1, <2>2, <2>4, <2>5, <2>7, StakeTypes DEF Staked, Bonded, HeldFor
  <2> QED
    BY <2>6, <2>8, <2>9, GivesStakes
<1>12. CASE \E caller \in Accounts : RetrySettlement(j, caller)
  <2>1. e.status # "Absent" /\ SettleEscrow(j, Retried(e), stats, f)
    BY <1>12 DEF RetrySettlement, Retryable
  <2>2. Retried(e) \in EscrowRecord
    BY <1>3, <2>1, RetriedType
  <2>3. Retried(e).status = e.status /\ Retried(e).stake = e.stake
    BY <1>3, <2>1 DEF Retried, EscrowRecord
  <2> QED
    BY <1>1, <2>1, <2>2, <2>3, SettlesAsIs
<1>13. CASE RetryExhausted(j)
  <2> DEFINE r == Retried(e)
             e1 == [r EXCEPT !.status = "Cancelled"]
  <2>1. e \in EscrowRecord /\ e.status # "Absent"
    BY <1>3, <1>13 DEF RetryExhausted, Retryable
  <2>2. r \in EscrowRecord
    BY <2>1, RetriedType
  <2>3. r.stake = e.stake /\ r.stakeRefund = e.stakeRefund
    BY <2>1 DEF Retried, EscrowRecord
  <2>4. escrows' = [escrows EXCEPT ![j] = e1] /\ flow' = [flow EXCEPT ![j] = StorageBack(f)]
    BY <1>13 DEF RetryExhausted
  <2> HIDE DEF r
  <2>5. e1.status = "Cancelled" /\ e1.stake = e.stake /\ e1.stakeRefund = e.stakeRefund
    BY <2>2, <2>3 DEF EscrowRecord
  <2> HIDE DEF e1
  <2>6. Stakes(StorageBack(f)) = Stakes(f)
    BY <1>1, StakeFlows
  <2> QED
    BY <2>1, <2>4, <2>5, <2>6, StatusStakes
<1>14. ASSUME e.status = "PendingFunding", CancelUnfunded(j)
       PROVE  MovesStakes(j)
  <2> DEFINE e1 == [e EXCEPT !.status = "Cancelled"]
  <2>1. e \in EscrowRecord
    BY <1>3, <1>14
  <2>2. escrows' = [escrows EXCEPT ![j] = e1] /\ flow' = [flow EXCEPT ![j] = StorageBack(f)]
    BY <1>1, <1>14 DEF CancelUnfunded
  <2>3. e1.status = "Cancelled" /\ e1.stake = e.stake /\ e1.stakeRefund = e.stakeRefund
    BY <2>1 DEF EscrowRecord
  <2> HIDE DEF e1
  <2>4. Stakes(StorageBack(f)) = Stakes(f)
    BY <1>1, StakeFlows
  <2> QED
    BY <1>14, <2>2, <2>3, <2>4, StatusStakes
<1>15. CASE Cancel(j)
  <2>1. CASE e.status = "Open" /\ SettleEscrow(j, [e EXCEPT !.target = "FullRefund"], stats, f)
    <3> DEFINE e1 == [e EXCEPT !.target = "FullRefund"]
    <3>1. e \in EscrowRecord
      BY <1>3, <2>1
    <3>2. e1 \in EscrowRecord /\ e1.status = e.status /\ e1.stake = e.stake
      BY <1>2, <3>1 DEF EscrowRecord
    <3> HIDE DEF e1
    <3> QED
      BY <1>1, <2>1, <3>2, SettlesAsIs DEF e1
  <2> QED
    BY <1>14, <1>15, <2>1 DEF Cancel
<1>16. CASE ForceCancelVerifying(j)
  <2> DEFINE e1 == [e EXCEPT !.status = "Cancelled", !.target = "FullRefund", !.stake = 0,
                             !.dataId = 0, !.consumed = FALSE]
             g1 == IF e.pubkey = NoOne THEN BondBack(f, e.stake) ELSE BondGone(f, e.stake)
             g == StorageBack(g1)
  <2>1. e \in EscrowRecord /\ e.status = "Verifying" /\ e.stake \in Nat
    BY <1>3, <1>16 DEF ForceCancelVerifying
  <2>2. e1 \in EscrowRecord /\ e1.status = "Cancelled" /\ e1.stake = 0
    <3>1. 0 \in 0 .. MaxYields
      BY EscrowAssumption
    <3> QED
      BY <1>2, <2>1, <3>1, ZenonT(60) DEF EscrowRecord
  <2>3. g1 \in Flow
    BY <1>1, <2>1, FlowType
  <2>4. g \in Flow /\ Stakes(g) = Stakes(g1)
    BY <2>3, FlowType, StakeFlows
  <2>5. SettleEscrow(j, e1, Moved(stats, "Verifying", "Cancelled"), g)
    BY <1>16 DEF ForceCancelVerifying
  <2>6. Moved(stats, "Verifying", "Cancelled") \in Counters
    BY <1>1, <1>2, MovedType
  <2>7. \/ Stakes(g) = Stakes(BondBack(flow[j], e.stake))
        \/ Stakes(g) = Stakes(BondGone(flow[j], e.stake))
    BY <2>4
  <2> HIDE DEF e1, g
  <2> QED
    BY <2>1, <2>2, <2>4, <2>5, <2>6, <2>7, ReleasedStakes
<1>17. CASE RefundUnsubmitted(j)
  <2> DEFINE forfeit == IF e.status = "InProgress" THEN e.stake ELSE 0
             kept == IF e.status = "InProgress" THEN 0 ELSE e.stake
             e1 == [e EXCEPT !.target = "FullRefund", !.stake = kept]
             g == BondGone(f, forfeit)
  <2>1. /\ e \in EscrowRecord /\ e.status \in {"Open", "InProgress"} /\ Bonded(e, f)
        /\ forfeit \in Nat /\ kept \in Nat /\ forfeit + kept = e.stake
    BY <1>3, <1>17 DEF RefundUnsubmitted
  <2>2. e1 \in EscrowRecord /\ e1.status = e.status /\ e1.stake = kept
    BY <1>2, <2>1 DEF EscrowRecord
  <2>3. SettleEscrow(j, e1, stats, g)
    BY <1>17 DEF RefundUnsubmitted
  <2> HIDE DEF forfeit, kept, e1
  <2>4. g \in Flow /\ Stakes(g) = <<f.bond, f.own, f.relayed, f.bondBack, f.bondGone + forfeit>>
    BY <1>1, <2>1, FlowType, StakeFlows
  <2> HIDE DEF g
  <2>5. Bonded(e1, g)
    <3>1. /\ g.bond = f.bond /\ g.own = f.own /\ g.relayed = f.relayed
          /\ g.bondBack = f.bondBack /\ g.bondGone = f.bondGone + forfeit
      BY <2>4 DEF Stakes
    <3>2. e.status = "Open" => kept = 0
      BY <2>1 DEF Bonded, kept
    <3> QED
      BY <1>1, <2>1, <2>2, <3>1, <3>2, StakeTypes DEF Bonded, HeldFor, StakesOut
  <2> QED
    BY <1>1, <2>2, <2>3, <2>4, <2>5, SettleEscrowStakes
<1>18. CASE RefundStuck(j)
  <2> DEFINE r == StakeReturned(e)
             e1 == [r EXCEPT !.dataId = 0, !.consumed = FALSE, !.target = "FullRefund"]
             g == StakeReturnedFlow(e, f)
  <2>1. e \in EscrowRecord /\ e.status = "Verifying"
    BY <1>3, <1>18 DEF RefundStuck
  <2>2. SettleEscrow(j, e1, stats, g)
    BY <1>18 DEF RefundStuck
  <2>3. r \in EscrowRecord
    BY <2>1, StakeReturnedType
  <2>4. r.status = "Verifying" /\ r.stake = 0
    BY <2>1, StakeReturnedFields
  <2> HIDE DEF r
  <2>5. e1 \in EscrowRecord
    <3>1. 0 \in 0 .. MaxYields
      BY EscrowAssumption
    <3> QED
      BY <1>2, <2>3, <3>1, ZenonT(60) DEF EscrowRecord
  <2>6. e1.status = "Verifying" /\ e1.stake = 0
    BY <2>3, <2>4 DEF EscrowRecord
  <2> HIDE DEF e1
  <2> QED
    BY <1>1, <2>1, <2>2, <2>5, <2>6, ReturnedStakes
<1>19. CASE RefundExpired(j)
  <2>1. CASE e.status = "SettlementFailed" /\ SettleEscrow(j, e, stats, f)
    BY <1>1, <1>3, <2>1, SettlesAsIs
  <2> QED
    BY <1>14, <1>17, <1>18, <1>19, <2>1 DEF RefundExpired
<1>20. CASE \E p \in Pubkeys : SubmitResultForReplay(j, p)
  BY <1>20 DEF SubmitResultForReplay, KeepsStakes
<1> QED
  BY <1>4, <1>6, <1>7, <1>9, <1>10, <1>11, <1>12, <1>13, <1>15, <1>16, <1>19, <1>20 DEF UserCall

\* A deposit opens the escrow, before anyone could submit to it.
LEMMA DepositStakes ==
    ASSUME TypeOK, AllStaked, NEW j \in Jobs, Deposit(j) \/ FtOnTransfer(j)
    PROVE  MovesStakes(j) \/ KeepsStakes
<1> DEFINE e == escrows[j]
           f == flow[j]
<1>1. CASE Deposit(j) \/ FtOnTransferReject(j)
  BY <1>1 DEF Deposit, FtTransferCall, FtOnTransferReject, KeepsStakes
<1>2. CASE FtOnTransferAccept(j)
  <2> DEFINE e1 == [e EXCEPT !.status = "Open"]
             n == transfers[j].amount
             g == [f EXCEPT !.in = @ + n]
  <2>1. e.status = "PendingFunding"
    BY <1>2 DEF FtOnTransferAccept, Accepted
  <2>2. /\ e \in EscrowRecord /\ f \in Flow /\ Bonded(e, f) /\ e.stakeRefund <= e.stake
    BY <2>1, StakedParts
  <2>3. escrows' = [escrows EXCEPT ![j] = e1] /\ flow' = [flow EXCEPT ![j] = g]
    BY <1>2 DEF FtOnTransferAccept, TypeOK
  <2>4. e1.status = "Open" /\ e1.stake = e.stake /\ e1.stakeRefund = e.stakeRefund
    BY <2>2 DEF EscrowRecord
  <2>5. Stakes(g) = Stakes(f)
    BY <2>2 DEF Stakes, Flow
  <2> HIDE DEF e1, g
  <2>6. Staked(e1, f)
    BY <2>1, <2>2, <2>4, StakeTypes DEF Staked, Bonded, HeldFor
  <2> QED
    BY <2>3, <2>5, <2>6, SameStakes, GivesStakes
<1> QED
  BY <1>1, <1>2 DEF FtOnTransfer

\* The callback of a yielded promise.
LEMMA VerificationStakes ==
    ASSUME TypeOK, AllStaked, NEW d \in YieldIds, VerifierCall(d) \/ YieldCallback(d)
    PROVE  (\E j \in Jobs : MovesStakes(j)) \/ KeepsStakes
<1> DEFINE j == yields[d].job
           e == escrows[j]
<1>1. yields[d] \in YieldRecord /\ stats \in Counters
  BY DEF TypeOK, Counters
<1>2. CASE VerifierCall(d) \/ CallbackAborts(d) \/ CallbackStale(d)
  BY <1>2 DEF VerifierCall, ResumeVerificationMulti, ResumeVerification, Resume, CallbackAborts,
              CallbackStale, KeepsStakes
<1>3. CASE CallbackVerdict(d)
  <2> DEFINE payload == yields[d].payload
             e1 == Judged(e, payload)
  <2>1. j \in Jobs /\ payload \in Payload /\ e.status = "Verifying"
    BY <1>1, <1>3 DEF CallbackVerdict, YieldRecord, Yield
  <2>2. e \in EscrowRecord
    BY <2>1, StakedParts
  <2>3. e1 \in EscrowRecord /\ e1.status = e.status
    BY <2>1, <2>2, JudgedType, JudgedFields
  <2>4. e1.stake = e.stake
    BY <2>2 DEF Judged, EscrowRecord
  <2>5. SettleEscrow(j, e1, stats, flow[j])
    BY <1>3 DEF CallbackVerdict
  <2> HIDE DEF e1, j
  <2> QED
    BY <1>1, <2>1, <2>3, <2>4, <2>5, SettlesAsIs
<1>4. CASE CallbackNoVerdict(d)
  <2> DEFINE r == StakeReturned(e)
             e1 == [r EXCEPT !.score = 0, !.passed = FALSE, !.consumed = TRUE,
                             !.dataId = 0, !.target = "FullRefund"]
  <2>1. j \in Jobs /\ e.status = "Verifying"
    BY <1>1, <1>4, SMTT(30) DEF CallbackNoVerdict, NoVerdict, YieldRecord, Yield
  <2>2. e \in EscrowRecord
    BY <2>1, StakedParts
  <2>3. r \in EscrowRecord
    BY <2>2, StakeReturnedType
  <2>4. r.status = "Verifying" /\ r.stake = 0
    BY <2>1, <2>2, StakeReturnedFields
  <2>5. SettleEscrow(j, e1, stats, StakeReturnedFlow(e, flow[j]))
    BY <1>4 DEF CallbackNoVerdict
  <2> HIDE DEF r
  <2>6. e1 \in EscrowRecord
    <3>1. 0 \in 0 .. MaxYields /\ 0 \in 0 .. 255 /\ "FullRefund" \in Targets
      BY EscrowAssumption DEF Targets
    <3> QED
      BY <2>3, <3>1, ZenonT(90) DEF EscrowRecord
  <2>7. e1.status = "Verifying" /\ e1.stake = 0
    BY <2>3, <2>4 DEF EscrowRecord
  <2> HIDE DEF e1, j
  <2> QED
    BY <1>1, <2>1, <2>5, <2>6, <2>7, ReturnedStakes
<1> QED
  BY <1>2, <1>3, <1>4 DEF YieldCallback

\* A batch that is executed moves no stake; its callback returns the stake.
LEMMA SettlementStakes ==
    ASSUME TypeOK, AllStaked, NEW b \in BatchIds, FtExecute(b) \/ SettleCallback(b)
    PROVE  (\E j \in Jobs : MovesStakes(j)) \/ KeepsStakes
<1> DEFINE j == batches[b].job
           e == escrows[j]
<1>1. /\ batches[b] \in Batch /\ stats \in Counters /\ flow \in [Jobs -> Flow]
      /\ escrows \in [Jobs -> EscrowRecord \cup {NoEscrow}]
  BY DEF TypeOK, Counters
<1>2. CASE FtExecute(b)
  <2> PICK mainOk \in BOOLEAN, feeOk \in BOOLEAN :
        LET main == IF mainOk THEN batches[b].amount ELSE 0
            fee == IF feeOk THEN batches[b].fee ELSE 0
        IN flow' = [flow EXCEPT ![j].agent = IF batches[b].to = "agent" THEN @ + main ELSE @,
                                ![j].worker = IF batches[b].to = "worker" THEN @ + main ELSE @,
                                ![j].owner = @ + fee]
    BY <1>2, ZenonT(60) DEF FtExecute
  <2>1. \A k \in Jobs : flow'[k].bond = flow[k].bond
    BY <1>1 DEF Flow
  <2>2. \A k \in Jobs : flow'[k].own = flow[k].own
    BY <1>1 DEF Flow
  <2>3. \A k \in Jobs : flow'[k].relayed = flow[k].relayed
    BY <1>1 DEF Flow
  <2>4. \A k \in Jobs : flow'[k].bondBack = flow[k].bondBack
    BY <1>1 DEF Flow
  <2>5. \A k \in Jobs : flow'[k].bondGone = flow[k].bondGone
    BY <1>1 DEF Flow
  <2>6. \A k \in Jobs : Stakes(flow'[k]) = Stakes(flow[k])
    BY <2>1, <2>2, <2>3, <2>4, <2>5 DEF Stakes
  <2> QED
    BY <1>2, <2>6, ZenonT(60) DEF FtExecute, KeepsStakes
<1>3. CASE SettleCallbackOk(b)
  <2>1. j \in Jobs /\ e.status # "Absent" /\ Finish(j, e, stats, flow[j])
    BY <1>1, <1>3 DEF SettleCallbackOk, Batch, NoBatch
  <2>2. e \in EscrowRecord /\ flow[j] \in Flow /\ Staked(e, flow[j])
    BY <2>1, StakedParts DEF Staked
  <2> HIDE DEF j
  <2> QED
    BY <1>1, <2>1, <2>2, FinishStakes
<1>4. CASE SettleCallbackFailed(b)
  <2> DEFINE e1 == [e EXCEPT !.status = "SettlementFailed"]
  <2>1. j \in Jobs /\ e.status # "Absent"
    BY <1>1, <1>4 DEF SettleCallbackFailed, Batch, NoBatch
  <2>2. e \in EscrowRecord
    BY <2>1, StakedParts
  <2>3. escrows' = [escrows EXCEPT ![j] = e1] /\ flow' = [flow EXCEPT ![j] = flow[j]]
    BY <1>1, <1>4, <2>1 DEF SettleCallbackFailed
  <2>4. e1.status = "SettlementFailed" /\ e1.stake = e.stake /\ e1.stakeRefund = e.stakeRefund
    BY <2>2 DEF EscrowRecord
  <2> HIDE DEF e1, j
  <2> QED
    BY <2>1, <2>3, <2>4, StatusStakes
<1>5. CASE SettleCallbackAborts(b)
  BY <1>5 DEF SettleCallbackAborts, KeepsStakes
<1> QED
  BY <1>2, <1>3, <1>4, <1>5 DEF SettleCallback

LEMMA NextStakes ==
    ASSUME TypeOK, AllStaked, [Next]_vars
    PROVE  AllStaked'
<1>1. CASE \E j \in Jobs : MovesStakes(j)
  <2> SUFFICES ASSUME NEW k \in Jobs, Exists(k)'
               PROVE  Staked(escrows'[k], flow'[k])
    BY DEF AllStaked
  <2>1. PICK j \in Jobs : MovesStakes(j)
    BY <1>1
  <2>2. CASE k # j
    <3>1. Staked(escrows[k], flow[k])
      BY <2>1, <2>2 DEF MovesStakes, AllStaked, Exists
    <3> QED
      BY <2>1, <2>2, <3>1, SameStakes DEF MovesStakes
  <2> QED
    BY <2>1, <2>2 DEF MovesStakes
<1>2. CASE KeepsStakes
  <2> SUFFICES ASSUME NEW k \in Jobs, Exists(k)'
               PROVE  Staked(escrows'[k], flow'[k])
    BY DEF AllStaked
  <2>1. escrows'[k] = escrows[k] /\ Stakes(flow'[k]) = Stakes(flow[k])
    BY <1>2 DEF KeepsStakes, Exists, NoEscrow
  <2>2. Staked(escrows[k], flow[k])
    BY <2>1 DEF AllStaked, Exists
  <2> QED
    BY <2>1, <2>2, SameStakes
<1>3. CASE \E j \in Jobs : (MayCall(j) /\ UserCall(j)) \/ Deposit(j) \/ FtOnTransfer(j)
  BY <1>1, <1>2, <1>3, UserCallStakes, DepositStakes
<1>4. CASE \E removed \in SUBSET Jobs : CleanupCompleted(removed)
  BY <1>2, <1>4 DEF CleanupCompleted, KeepsStakes
<1>5. CASE \E d \in YieldIds : VerifierCall(d) \/ YieldCallback(d)
  BY <1>1, <1>2, <1>5, VerificationStakes
<1>6. CASE \E b \in BatchIds : FtExecute(b) \/ SettleCallback(b)
  BY <1>1, <1>2, <1>6, SettlementStakes
<1>7. CASE UNCHANGED <<escrows, flow>>
  BY <1>2, <1>7 DEF KeepsStakes
<1> QED
  BY <1>3, <1>4, <1>5, <1>6, <1>7 DEF Next, vars, escrowVars, Tick

\* No stake is paid out twice, by no order of cancellation, timeout, expiry,
\* designation and settlement, and under every fault.
THEOREM StakeNotDuplicatedHolds == Spec => []StakeNotDuplicated
<1>1. Init => AllStaked
  BY DEF Init, AllStaked, Exists, NoEscrow
<1>2. TypeOK /\ AllStaked /\ [Next]_vars => AllStaked'
  BY NextStakes
<1>3. TypeOK /\ AllStaked => StakeNotDuplicated
  <2> SUFFICES ASSUME TypeOK, AllStaked, NEW j \in Jobs, Exists(j)
               PROVE  /\ flow[j].bondBack + flow[j].bondGone + StakesHeld(j) <= flow[j].bond
                      /\ escrows[j].stakeRefund <= escrows[j].stake
    BY DEF StakeNotDuplicated
  <2>1. escrows[j].status # "Absent"
    BY DEF Exists
  <2> QED
    BY <2>1, StakedParts DEF Bonded, StakesOut, HeldFor, StakesHeld
<1> QED
  BY <1>1, <1>2, <1>3, TypeCorrect, PTL DEF Spec
=============================================================================
