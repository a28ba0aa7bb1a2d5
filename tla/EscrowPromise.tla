--------------------------- MODULE EscrowPromise ---------------------------
(***************************************************************************)
(* What an escrow promises to its three parties, without receipts,         *)
(* callbacks or retries: the agent's tokens are held until a verdict       *)
(* approves the work; approved work is paid for, once and in one step, with *)
(* the fee to the owner; work that was not approved is never paid for and  *)
(* the tokens go back to the agent, less the fee if a verdict refused it.  *)
(*                                                                         *)
(* A deal may break, and then nothing is promised until the job id is used *)
(* again.  The contract of Escrow.tla implements this; EscrowHistory.tla   *)
(* has the mapping, and says which deals are broken.                       *)
(***************************************************************************)
EXTENDS Naturals

CONSTANTS Jobs, Prices   \* Prices: pairs of an amount and the fee in it

VARIABLE deal   \* job id -> what became of the tokens deposited for it

NoDeal == [phase |-> "idle", held |-> 0, agent |-> 0, worker |-> 0, owner |-> 0]
Broken == [NoDeal EXCEPT !.phase = "broken"]

Init == deal = [j \in Jobs |-> NoDeal]

Deposit(j) ==
    /\ deal[j].phase = "idle"
    /\ \E price \in Prices :
          deal'[j] = [NoDeal EXCEPT !.phase = "held", !.held = price.amount]

Approve(j) ==
    /\ deal[j].phase = "held"
    /\ deal'[j] = [deal[j] EXCEPT !.phase = "approved"]

\* When no fee is due, the approval and the payment may be one step.
Pay(j) ==
    \E price \in Prices :
        /\ deal[j].phase = "approved" \/ (deal[j].phase = "held" /\ price.fee = 0)
        /\ deal[j].held = price.amount
        /\ deal'[j] = [NoDeal EXCEPT !.phase = "paid", !.owner = price.fee,
                                     !.worker = price.amount - price.fee]

Return(j) ==
    /\ deal[j].phase = "held"
    /\ \E price \in Prices : \E fee \in {0, price.fee} :
          /\ deal[j].held = price.amount
          /\ deal'[j] = [NoDeal EXCEPT !.phase = "returned", !.owner = fee,
                                       !.agent = price.amount - fee]

\* The contract gives up on settling and forgets an escrow: nobody gets the
\* tokens.
Drop(j) ==
    /\ deal[j].phase \in {"held", "approved"}
    /\ deal'[j] = [deal[j] EXCEPT !.phase = "dropped"]

\* The job id is used again.
Reuse(j) ==
    /\ deal[j].phase \in {"paid", "returned", "dropped", "broken"}
    /\ deal'[j] = NoDeal

Break(j) == deal'[j] = Broken

\* Every deal takes its own steps; several may move at once, as when escrows
\* are cleaned up.
Next ==
    /\ deal' = [j \in Jobs |-> deal'[j]]
    /\ \A j \in Jobs :
          \/ deal'[j] = deal[j]
          \/ Deposit(j) \/ Approve(j) \/ Pay(j) \/ Return(j) \/ Drop(j) \/ Reuse(j) \/ Break(j)

Spec == Init /\ [][Next]_deal
=============================================================================
