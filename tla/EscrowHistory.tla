--------------------------- MODULE EscrowHistory ---------------------------
(***************************************************************************)
(* What becomes of the tokens of an escrow, whatever goes wrong.           *)
(*                                                                         *)
(* Nothing in the contract keeps a call from touching an escrow whose      *)
(* settlement is in flight, a batch from failing by half, or a callback    *)
(* from being lost, and then an escrow may be paid too much or too little. *)
(* Two history variables record to which escrows this has happened.  They  *)
(* are read by no action: every behaviour of Escrow.tla is one of this     *)
(* module.  The properties say that nothing else can go wrong with the     *)
(* tokens of an escrow, and that what has happened to one escrow harms no  *)
(* other one.                                                              *)
(***************************************************************************)
EXTENDS EscrowProperties, FiniteSetsExt, Functions

VARIABLES
    disturbed,   \* the job ids whose settlement something has happened to
    overpaid     \* job id -> tokens that escrows no longer there paid too much

historyVars == <<disturbed, overpaid>>

BatchesOf(j) == {b \in BatchIds : batches[b].job = j}

Excess(j) == IF Paid(j) > flow[j].in THEN Paid(j) - flow[j].in ELSE 0

HistoryOK ==
    /\ disturbed \in SUBSET Jobs
    /\ overpaid \in [Jobs -> Nat]

HistoryInit ==
    /\ Init
    /\ disturbed = {}
    /\ overpaid = [j \in Jobs |-> 0]

\* A handler other than settle_callback changes an escrow, moves its tokens or
\* settles it while a settlement of it is in flight.
Overlapped(j) ==
    /\ InFlight(j)
    /\ \A b \in BatchesOf(j) : batches'[b] = batches[b]
    /\ \/ escrows'[j] # escrows[j]
       \/ Tokens(flow'[j]) # Tokens(flow[j])
       \/ BatchesOf(j)' # BatchesOf(j)

\* One transfer of a batch has failed and the other one has not.
HalfFailed(j) ==
    \E b \in BatchesOf(j) :
        /\ batches[b].phase = "sent" /\ batches'[b].phase = "failed"
        /\ Tokens(flow'[j]) # Tokens(flow[j])

\* settle_callback aborts although the escrow is there, to be settled; for a
\* batch that failed this makes a difference unless the escrow is
\* SettlementFailed already.
CallbackLost(j) ==
    \E b \in BatchesOf(j) :
        /\ batches'[b] = NoBatch
        /\ Exists(j) /\ escrows[j].target # "None" /\ escrows'[j] = escrows[j]
        /\ batches[b].phase = "failed" => escrows[j].status # "SettlementFailed"

Disturbs(j) == Overlapped(j) \/ HalfFailed(j) \/ CallbackLost(j)

Created(j) == ~Exists(j) /\ Exists(j)'

\* A new escrow starts afresh when nothing of an earlier one with its job id is
\* left, neither a settlement in flight nor a promise.
Mended(j) ==
    /\ Created(j)
    /\ ~InFlight(j)
    /\ \A d \in YieldIds : Live(d) => yields[d].job # j

HistoryNext ==
    /\ Next
    /\ disturbed' = {j \in Jobs : Disturbs(j) \/ (j \in disturbed /\ ~Mended(j))}
    /\ overpaid' = [j \in Jobs |->
          overpaid[j] + IF Created(j) /\ j \in disturbed THEN Excess(j) ELSE 0]

HistorySpec == HistoryInit /\ [][HistoryNext]_<<vars, historyVars>>

-----------------------------------------------------------------------------
(* The escrows to which nothing has happened. *)

Undisturbed == Jobs \ disturbed

\* No more tokens leave an escrow than were deposited for it, over all the
\* retries of its settlement, unless calls overlapped with it, a batch failed
\* by half or a callback was lost: there is no fourth way to overpay.
NeverOverpaid == \A j \in Undisturbed : Paid(j) <= flow[j].in

\* The agent and the worker are never both paid, by a settlement, its retries
\* and the expiry that follows it.
OneSidePaid ==
    \A j \in Undisturbed : flow[j].agent = 0 \/ flow[j].worker + flow[j].credit = 0

\* An escrow that settles has paid everything out: a claimed one the payout to
\* the worker and the fee to the owner, a refunded one nothing to the worker.
SettledInFull ==
    \A j \in Undisturbed : IsSettled(escrows[j]) =>
        /\ Paid(j) = flow[j].in
        /\ escrows[j].status = "Claimed" =>
              flow[j].worker + flow[j].credit = escrows[j].terms.amount - escrows[j].terms.fee
        /\ escrows[j].status = "Refunded" => flow[j].worker + flow[j].credit = 0

\* A promise that can still be resumed, or time out, belongs to an escrow that
\* waits for this very promise.  verification_callback is given the job id
\* only: no escrow is judged by the yield of an earlier one with its job id.
LiveYieldOwned ==
    \A d \in YieldIds : Live(d) /\ yields[d].job \in Undisturbed =>
        LET e == escrows[yields[d].job] IN e.status = "Verifying" /\ e.dataId = d

-----------------------------------------------------------------------------
(* All escrows. *)

\* What an escrow has yet to pay; one that was overpaid lends nothing to the
\* others.
Owed == [j \in Jobs |-> IF Paid(j) <= flow[j].in THEN flow[j].in - Paid(j) ELSE 0]
Balances == [p \in Pubkeys |-> wallet[p].ft]
Arriving == [j \in Jobs |-> transfers[j].amount]

\* What the disturbed escrows of a job id have cost the others.
Shortfall == [j \in Jobs |-> overpaid[j] + IF j \in disturbed THEN Excess(j) ELSE 0]

\* The contract's account in the token contract, which all escrows share,
\* covers what every escrow has yet to pay, the balances of the internal
\* workers and the deposits that ft_on_transfer may still refuse, but for what
\* the disturbed escrows paid too much.
Solvent == pool + SumFunction(Shortfall)
             >= SumFunction(Owed) + SumFunction(Balances) + SumFunction(Arriving)

-----------------------------------------------------------------------------
(* The contract keeps the promise of EscrowPromise.tla. *)

\* The payout of an internal worker is as good as paid when the batch with the
\* fee has been executed: only the callback that credits it is missing.
AboutToCredit(j) ==
    IF \E b \in BatchIds : batches[b].job = j /\ batches[b].phase = "ok"
    THEN escrows[j].payout ELSE 0

\* The deal about job id j.
DealOf(j) ==
    LET earned == flow[j].worker + flow[j].credit + AboutToCredit(j)
        held == flow[j].in - flow[j].agent - flow[j].owner - earned
    IN [held |-> held, agent |-> flow[j].agent, worker |-> earned, owner |-> flow[j].owner,
        phase |-> CASE flow[j].in = 0 -> "idle"
                    [] flow[j].in # 0 /\ held = 0 /\ earned > 0 -> "paid"
                    [] flow[j].in # 0 /\ held = 0 /\ earned = 0 -> "returned"
                    [] held # 0 /\ ~Exists(j) -> "dropped"
                    [] held # 0 /\ Exists(j) /\ escrows[j].target = "Claim" -> "approved"
                    [] OTHER -> "held"]

BrokenDeal == [held |-> 0, agent |-> 0, worker |-> 0, owner |-> 0, phase |-> "broken"]

Promise == INSTANCE EscrowPromise
               WITH deal <- [j \in Jobs |-> IF j \in disturbed THEN BrokenDeal ELSE DealOf(j)],
                    Prices <- {[amount |-> t.amount, fee |-> t.fee] : t \in ValidTerms}

\* Every step on the tokens of an escrow is one that the promise allows: what
\* was approved is paid and never returned, what was not is never paid, and
\* either happens once and as a whole, whatever the receipts it takes.
KeepsPromise == Promise!Spec
=============================================================================
