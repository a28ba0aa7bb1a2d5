-------------------------- MODULE EscrowProperties --------------------------
(***************************************************************************)
(* What the escrow contract is to guarantee whatever goes wrong (the       *)
(* constant Faults of Escrow.tla), and what its documents say that it does *)
(* not do.  What becomes of the tokens is in EscrowHistory.tla.            *)
(***************************************************************************)
EXTENDS Escrow

Exists(j) == escrows[j].status # "Absent"

IsSettled(e) == e.status \in {"Claimed", "Refunded"}

\* The tokens in the history of an escrow.
Tokens(f) == <<f.in, f.agent, f.worker, f.owner, f.credit>>

\* Tokens that have left the escrow: transferred, or credited to a worker.
Paid(j) == flow[j].agent + flow[j].worker + flow[j].owner + flow[j].credit

-----------------------------------------------------------------------------
(* Whatever goes wrong: any member of FaultKinds. *)

\* An escrow that is Claimed or Refunded has nothing left to settle: no target
\* by which another settle_callback or retry_settlement could pay it again, no
\* stake and no pending credit.
SettledOwesNothing ==
    \A j \in Jobs : IsSettled(escrows[j]) =>
        /\ escrows[j].target = "None"
        /\ escrows[j].stake = 0 /\ escrows[j].payout = 0 /\ escrows[j].stakeRefund = 0

\* Only a verdict that passed, with a score of at least the escrow's threshold,
\* makes _settle_escrow pay the worker, through every timeout, cancellation,
\* retry and force-cancel; and only then is there a payout to credit.
ClaimNeedsPass ==
    \A j \in Jobs : Exists(j) =>
        LET e == escrows[j] IN
        /\ (e.target = "Claim" \/ e.status = "Claimed") =>
              e.passed /\ e.score >= e.terms.threshold
        /\ e.payout > 0 => e.target = "Claim" /\ e.pubkey # NoOne

\* An internal worker is credited at most once for an escrow, with its payout,
\* however often the settlement failed, was retried or overlapped another one:
\* the deferred credits of _apply_pending_credits.
CreditedOnce ==
    \A j \in Jobs : Exists(j) =>
        LET e == escrows[j] IN
        flow[j].credit > 0 =>
            e.status = "Claimed" /\ flow[j].credit = e.terms.amount - e.terms.fee

\* The stakes that the contract holds for an escrow: the claiming worker's, or
\* those of the submissions to an open competition.
StakesHeld(j) ==
    escrows[j].stake + IF escrows[j].status = "Open" THEN flow[j].own + flow[j].relayed ELSE 0

\* No stake is paid out twice: what went back, what was forfeited and what is
\* still held for an escrow are at most what was posted for it, although
\* cancellation, timeout, refund_expired, designate_winner and settle_callback
\* all return stakes.
StakeNotDuplicated ==
    \A j \in Jobs : Exists(j) =>
        /\ flow[j].bondBack + flow[j].bondGone + StakesHeld(j) <= flow[j].bond
        /\ escrows[j].stakeRefund <= escrows[j].stake

\* The verifiers find the escrow by the data id of its yield: data_id_index
\* follows data_id through every handler that sets or clears it.
YieldIndexed ==
    \A j \in Jobs : Exists(j) /\ escrows[j].dataId # 0 =>
        /\ index[escrows[j].dataId] = j
        /\ yields[escrows[j].dataId].job \in {j, NoOne}

\* An escrow in Verifying has a settlement target, by which retry_settlement
\* takes it on, or waits for a yield of its own: a live one, which a verdict or
\* the timeout ends, or one whose callback aborted.  Only the latter leaves it
\* to refund_expired and force_cancel_verifying after
\* VERIFICATION_SAFETY_TIMEOUT_MS; neither an overlapping call nor a stale
\* callback, a retry or a callback of another yield does.
VerifyingHasWayOut ==
    \A j \in Jobs : escrows[j].status = "Verifying" /\ escrows[j].target = "None" =>
        LET d == escrows[j].dataId IN
        /\ d # 0
        /\ (Live(d) /\ yields[d].job = j) \/ yields[d].phase = "aborted"

\* No callback of an earlier batch or yield, no retry and no refund changes an
\* escrow that is Claimed or Refunded; it can only be cleaned up.
SettledIsFinal ==
    [][\A j \in Jobs : IsSettled(escrows[j]) => escrows'[j] \in {escrows[j], NoEscrow}]_vars

-----------------------------------------------------------------------------
(* Progress. *)

\* The runtime runs every callback, and executes every transfer.
RuntimeFairness ==
    /\ \A d \in YieldIds : WF_vars(YieldCallback(d))
    /\ \A b \in BatchIds : WF_vars(FtExecute(b)) /\ WF_vars(SettleCallback(b))
    /\ \A j \in Jobs : WF_vars(FtOnTransfer(j))

\* Someone asks for the refund of an expired escrow, and the token contract
\* does not refuse for ever.
KeeperFairness ==
    /\ WF_vars(Tick)
    /\ \A j \in Jobs : WF_vars(MayCall(j) /\ RefundExpired(j))
    /\ \A b \in BatchIds : SF_vars(FtExecute(b) /\ batches'[b].phase = "ok")

RuntimeSpec == Spec /\ RuntimeFairness
KeeperSpec == Spec /\ RuntimeFairness /\ KeeperFairness

\* A verification ends by itself, by a verdict or by the timeout of the yield,
\* whatever the owner pauses or reconfigures in the meantime: neither
\* verification_callback nor settle_callback looks at the switches.
VerificationEnds ==
    \A j \in Jobs : escrows[j].status = "Verifying" ~> escrows[j].status # "Verifying"

Funded(j) == escrows[j].status \in {"Open", "InProgress", "Verifying", "SettlementFailed"}

\* The bounded clock stops before the escrow expires or counts as stuck.
BeyondClock(j) ==
    /\ Exists(j)
    /\ LET e == escrows[j] IN
       \/ e.created + e.terms.timeout >= MaxTime
       \/ e.status = "Verifying" /\ e.since + SafetyTimeout > MaxTime

\* No escrow holds a deposit for ever, even if a yield is lost, and whether or
\* not anyone claims, submits or verifies: refund_expired takes it out of every
\* status that holds one.  What it ends in may be the Cancelled of an exhausted
\* retry_settlement, which CleanupReleases is about.
DepositEnds == \A j \in Jobs : Funded(j) ~> (~Funded(j) \/ BeyondClock(j))

-----------------------------------------------------------------------------
(* What the comments and documents say and the code does not do.              *)

\* "This prevents double-payment if settlement fails and is retried"
\* (src/lib.rs:1679): an escrow whose settlement was retried has not paid out
\* more than was deposited for it.
RetryPaysOnce == \A j \in Jobs :
    Exists(j) /\ escrows[j].retry > 0 => Paid(j) <= flow[j].in

\* "Worker stake REFUNDED to worker" (src/lib.rs:1615, on the timeout of a
\* yield): an escrow that has settled returned the stake to the worker, or
\* forfeited it.
StakeAccountedFor ==
    \A j \in Jobs : IsSettled(escrows[j]) =>
        flow[j].bondBack + flow[j].bondGone = flow[j].bond

\* "Removing terminal state is always safe" (src/lib.rs:2095): an escrow that
\* cleanup_completed removes has paid out its deposit.
CleanupReleases ==
    [][\A j \in Jobs : Exists(j) /\ ~Exists(j)' => Paid(j) = flow[j].in]_vars
=============================================================================
