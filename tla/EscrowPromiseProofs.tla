------------------------- MODULE EscrowPromiseProofs -------------------------
(***************************************************************************)
(* What becomes of the tokens of an escrow, under every fault and every    *)
(* interleaving.  As long as nothing has disturbed the settlement of an    *)
(* escrow (EscrowHistory.tla) it is in one of the stages below, whatever   *)
(* happens to the other escrows; from the stages follow that it is never   *)
(* overpaid, that one side is paid and that it settles in full.  A step    *)
(* that moves it from stage to stage is one that EscrowPromise allows, and *)
(* a step that disturbs it breaks its deal and no other one.               *)
(***************************************************************************)
EXTENDS EscrowStepProofs, EscrowHistory

-----------------------------------------------------------------------------
\* What has been paid of an escrow with the history f and the terms t: nothing,
\* the worker's side, or the agent's.
Unpaid(f) == f.agent = 0 /\ f.worker = 0 /\ f.owner = 0 /\ f.credit = 0
PaidFor(f, t) ==
    /\ f.in = t.amount /\ f.agent = 0 /\ f.owner = t.fee
    /\ f.worker + f.credit = t.amount - t.fee
Returned(f, t) ==
    /\ f.in = t.amount /\ f.worker = 0 /\ f.credit = 0
    /\ f.owner \in {0, t.fee} /\ f.agent = t.amount - f.owner

\* There is no escrow: it was never created, or cleaned up.
Gone(j) ==
    /\ escrows[j] = NoEscrow /\ ~InFlight(j)
    /\ \/ Unpaid(flow[j])
       \/ \E t \in ValidTerms : PaidFor(flow[j], t) \/ Returned(flow[j], t)

\* Created and not yet funded.
Asked(j) ==
    /\ escrows[j] \in EscrowRecord /\ ~InFlight(j)
    /\ escrows[j].status = "PendingFunding" /\ escrows[j].target = "None"
    /\ Unpaid(flow[j]) /\ flow[j].in = 0

Unsettled == {"Open", "InProgress", "Verifying", "SettlementFailed", "Cancelled"}

\* The contract holds the deposit; or it has been cancelled before there was one.
\* A target is what is left of a settlement that failed.
Held(j) ==
    /\ escrows[j] \in EscrowRecord /\ ~InFlight(j)
    /\ escrows[j].status \in Unsettled
    /\ escrows[j].target # "None" =>
          escrows[j].status \in {"SettlementFailed", "Cancelled"}
    /\ Unpaid(flow[j])
    /\ \/ flow[j].in = escrows[j].terms.amount
       \/ flow[j].in = 0 /\ escrows[j].status = "Cancelled" /\ escrows[j].target = "None"

\* The batch b is its settlement.
Settling(j, b) ==
    LET e == escrows[j]
        s == batches[b]
        f == flow[j]
    IN
    /\ e \in EscrowRecord /\ e.status \in Unsettled /\ e.target # "None"
    /\ e.payout = Prepared(e).payout
    /\ s.phase # "free" /\ s.job = j
    /\ s.to = BatchFor(j, e).to /\ s.amount = BatchFor(j, e).amount /\ s.fee = BatchFor(j, e).fee
    /\ \A c \in BatchIds \ {b} : batches[c].job # j
    /\ f.in = e.terms.amount /\ f.credit = 0
    /\ IF s.phase = "ok"
       THEN /\ f.agent = IF s.to = "agent" THEN s.amount ELSE 0
            /\ f.worker = IF s.to = "worker" THEN s.amount ELSE 0
            /\ f.owner = s.fee
       ELSE Unpaid(f)

Over(j) ==
    LET e == escrows[j] IN
    /\ e \in EscrowRecord /\ IsSettled(e) /\ e.target = "None" /\ ~InFlight(j)
    /\ IF e.status = "Claimed" THEN PaidFor(flow[j], e.terms) ELSE Returned(flow[j], e.terms)

Staged(j) == Gone(j) \/ Asked(j) \/ Held(j) \/ Over(j) \/ \E b \in BatchIds : Settling(j, b)

\* A promise that may still be resumed, or time out, is the one that its escrow
\* waits for, and no time has passed since it was created.
Awaited(d) ==
    LET e == escrows[yields[d].job] IN
    e.status = "Verifying" /\ e.dataId = d /\ e.target = "None" /\ e.since = now

StageInv ==
    /\ \A j \in Undisturbed : Staged(j)
    /\ \A d \in YieldIds : Live(d) /\ yields[d].job \in Undisturbed => Awaited(d)

-----------------------------------------------------------------------------
(* The deal of EscrowPromise as a value.                                     *)

Deal(phase, held, agent, worker, owner) ==
    [held |-> held, agent |-> agent, worker |-> worker, owner |-> owner, phase |-> phase]

\* What the promise allows for the deal of one job id.
DealStep(x, y) ==
    \/ y = x
    \/ /\ x.phase = "idle"
       /\ \E t \in ValidTerms : y = Deal("held", t.amount, 0, 0, 0)
    \/ /\ x.phase = "held"
       /\ y = [x EXCEPT !.phase = "approved"]
    \/ \E t \in ValidTerms :
          /\ x.phase = "approved" \/ (x.phase = "held" /\ t.fee = 0)
          /\ x.held = t.amount
          /\ y = Deal("paid", 0, 0, t.amount - t.fee, t.fee)
    \/ \E t \in ValidTerms : \E fee \in {0, t.fee} :
          /\ x.phase = "held" /\ x.held = t.amount
          /\ y = Deal("returned", 0, t.amount - fee, 0, fee)
    \/ /\ x.phase \in {"held", "approved"}
       /\ y = [x EXCEPT !.phase = "dropped"]
    \/ /\ x.phase \in {"paid", "returned", "dropped", "broken"}
       /\ y = Deal("idle", 0, 0, 0, 0)

\* DealOf, from what it depends on.
DealFrom(f, due, there, target) ==
    LET earned == f.worker + f.credit + due
        held == f.in - f.agent - f.owner - earned
    IN Deal(CASE f.in = 0 -> "idle"
              [] f.in # 0 /\ held = 0 /\ earned > 0 -> "paid"
              [] f.in # 0 /\ held = 0 /\ earned = 0 -> "returned"
              [] held # 0 /\ ~there -> "dropped"
              [] held # 0 /\ there /\ target = "Claim" -> "approved"
              [] OTHER -> "held",
            held, f.agent, earned, f.owner)

LEMMA DealIsFrom ==
    ASSUME NEW j \in Jobs
    PROVE  /\ DealOf(j) = DealFrom(flow[j], AboutToCredit(j), Exists(j), escrows[j].target)
           /\ DealOf(j)' = DealFrom(flow'[j], AboutToCredit(j)', Exists(j)', escrows'[j].target)
  BY DEF DealOf, DealFrom, Deal

LEMMA ValidTermsType ==
    ASSUME NEW t \in ValidTerms
    PROVE  t.amount \in Nat \ {0} /\ t.fee \in Nat /\ t.amount - t.fee \in Nat \ {0}
  BY EscrowAssumption DEF ValidTerms, IsValid, Term

LEMMA UnpaidDeal ==
    ASSUME NEW f \in Flow, Unpaid(f), NEW there, NEW target
    PROVE  /\ f.in = 0 => DealFrom(f, 0, there, target) = Deal("idle", 0, 0, 0, 0)
           /\ f.in # 0 /\ ~there =>
                 DealFrom(f, 0, there, target) = Deal("dropped", f.in, 0, 0, 0)
           /\ f.in # 0 /\ there /\ target = "Claim" =>
                 DealFrom(f, 0, there, target) = Deal("approved", f.in, 0, 0, 0)
           /\ f.in # 0 /\ there /\ target # "Claim" =>
                 DealFrom(f, 0, there, target) = Deal("held", f.in, 0, 0, 0)
<1>1. f.in \in Nat
  BY DEF Flow
<1> QED
  BY <1>1 DEF DealFrom, Unpaid

LEMMA PaidDeal ==
    ASSUME NEW f \in Flow, NEW t \in ValidTerms, NEW due \in Nat, NEW there, NEW target,
           f.in = t.amount, f.agent = 0, f.owner = t.fee,
           f.worker + f.credit + due = t.amount - t.fee
    PROVE  DealFrom(f, due, there, target) = Deal("paid", 0, 0, t.amount - t.fee, t.fee)
<1>1. f.in # 0 /\ t.amount - 0 - t.fee - (t.amount - t.fee) = 0 /\ t.amount - t.fee > 0
  BY ValidTermsType
<1> QED
  BY <1>1 DEF DealFrom

LEMMA PaidForDeal ==
    ASSUME NEW f \in Flow, NEW t \in ValidTerms, NEW there, NEW target, PaidFor(f, t)
    PROVE  DealFrom(f, 0, there, target) = Deal("paid", 0, 0, t.amount - t.fee, t.fee)
<1>1. f.in # 0 /\ f.worker + f.credit + 0 = t.amount - t.fee /\ t.amount - t.fee > 0
  BY ValidTermsType DEF PaidFor, Flow
<1>2. t.amount - 0 - t.fee - (t.amount - t.fee) = 0
  BY ValidTermsType
<1> QED
  BY <1>1, <1>2 DEF DealFrom, PaidFor

LEMMA ReturnedDeal ==
    ASSUME NEW f \in Flow, NEW t \in ValidTerms, NEW there, NEW target, Returned(f, t)
    PROVE  DealFrom(f, 0, there, target) = Deal("returned", 0, t.amount - f.owner, 0, f.owner)
<1>1. /\ f.in # 0 /\ f.worker + f.credit + 0 = 0
      /\ f.in - f.agent - f.owner - 0 = 0
  BY ValidTermsType DEF Returned
<1> QED
  BY <1>1 DEF DealFrom, Returned

\* The deals as EscrowHistory maps them.
Deals == [j \in Jobs |-> IF j \in disturbed THEN BrokenDeal ELSE DealOf(j)]

DealsMove == [Promise!Next]_Deals

LEMMA FreshDeals ==
    ASSUME NEW n, NEW fee
    PROVE  /\ [Promise!NoDeal EXCEPT !.phase = "held", !.held = n] = Deal("held", n, 0, 0, 0)
           /\ [Promise!NoDeal EXCEPT !.phase = "paid", !.owner = fee, !.worker = n]
                 = Deal("paid", 0, 0, n, fee)
           /\ [Promise!NoDeal EXCEPT !.phase = "returned", !.owner = fee, !.agent = n]
                 = Deal("returned", 0, n, 0, fee)
<1>1. /\ [Promise!NoDeal EXCEPT !.phase = "held"] = Deal("held", 0, 0, 0, 0)
      /\ [Promise!NoDeal EXCEPT !.phase = "paid"] = Deal("paid", 0, 0, 0, 0)
      /\ [Promise!NoDeal EXCEPT !.phase = "returned"] = Deal("returned", 0, 0, 0, 0)
  BY DEF Promise!NoDeal, Deal
<1>2. /\ [Deal("paid", 0, 0, 0, 0) EXCEPT !.owner = fee] = Deal("paid", 0, 0, 0, fee)
      /\ [Deal("returned", 0, 0, 0, 0) EXCEPT !.owner = fee] = Deal("returned", 0, 0, 0, fee)
  BY DEF Deal
<1>3. /\ [Deal("held", 0, 0, 0, 0) EXCEPT !.held = n] = Deal("held", n, 0, 0, 0)
      /\ [Deal("paid", 0, 0, 0, fee) EXCEPT !.worker = n] = Deal("paid", 0, 0, n, fee)
      /\ [Deal("returned", 0, 0, 0, fee) EXCEPT !.agent = n] = Deal("returned", 0, n, 0, fee)
  BY DEF Deal
<1> QED
  BY <1>1, <1>2, <1>3

\* Deals that each move as the promise allows, or break, keep the promise.
LEMMA DealsKeepPromise ==
    ASSUME \A j \in Jobs : DealStep(Deals[j], Deals'[j]) \/ Deals'[j] = BrokenDeal
    PROVE  DealsMove
<1> DEFINE Prices == {[amount |-> t.amount, fee |-> t.fee] : t \in ValidTerms}
<1>1. Deals' = [j \in Jobs |-> Deals'[j]]
  BY DEF Deals
<1>2. ASSUME NEW t \in ValidTerms
      PROVE  \E price \in Prices : price.amount = t.amount /\ price.fee = t.fee
  <2> DEFINE price == [amount |-> t.amount, fee |-> t.fee]
  <2>1. price \in Prices /\ price.amount = t.amount /\ price.fee = t.fee
    OBVIOUS
  <2> QED
    BY <2>1
<1> HIDE DEF Prices
<1>3. ASSUME NEW j \in Jobs
      PROVE  \/ Deals'[j] = Deals[j]
             \/ Promise!Deposit(j) \/ Promise!Approve(j) \/ Promise!Pay(j) \/ Promise!Return(j)
             \/ Promise!Drop(j) \/ Promise!Reuse(j) \/ Promise!Break(j)
  <2> DEFINE x == Deals[j]
             y == Deals'[j]
  <2>1. CASE y = BrokenDeal
    <3>1. Promise!Break(j)
      BY <2>1 DEF Promise!Break, Promise!Broken, Promise!NoDeal, BrokenDeal, Deals
    <3> QED
      BY <3>1
  <2>2. CASE y = x
    BY <2>2
  <2>3. CASE x.phase = "idle" /\ \E t \in ValidTerms : y = Deal("held", t.amount, 0, 0, 0)
    <3>1. PICK t \in ValidTerms : y = Deal("held", t.amount, 0, 0, 0)
      BY <2>3
    <3>2. PICK price \in Prices : price.amount = t.amount
      BY <1>2
    <3> DEFINE amount == price.amount
    <3> HIDE DEF amount
    <3>6. [Promise!NoDeal EXCEPT !.phase = "held", !.held = amount] = Deal("held", amount, 0, 0, 0)
      BY FreshDeals
    <3>3. y = [Promise!NoDeal EXCEPT !.phase = "held", !.held = price.amount]
      BY <3>1, <3>2, <3>6 DEF amount
    <3>4. \E p \in Prices : y = [Promise!NoDeal EXCEPT !.phase = "held", !.held = p.amount]
      BY <3>3
    <3>5. Promise!Deposit(j)
      BY <2>3, <3>4 DEF Promise!Deposit, Deals, Prices
    <3> QED
      BY <3>5
  <2>4. CASE x.phase = "held" /\ y = [x EXCEPT !.phase = "approved"]
    <3>1. Promise!Approve(j)
      BY <2>4 DEF Promise!Approve, Deals
    <3> QED
      BY <3>1
  <2>5. CASE \E t \in ValidTerms :
               /\ x.phase = "approved" \/ (x.phase = "held" /\ t.fee = 0)
               /\ x.held = t.amount
               /\ y = Deal("paid", 0, 0, t.amount - t.fee, t.fee)
    <3>1. PICK t \in ValidTerms :
               /\ x.phase = "approved" \/ (x.phase = "held" /\ t.fee = 0)
               /\ x.held = t.amount
               /\ y = Deal("paid", 0, 0, t.amount - t.fee, t.fee)
      BY <2>5
    <3>2. PICK price \in Prices : price.amount = t.amount /\ price.fee = t.fee
      BY <1>2
    <3> DEFINE fee == price.fee
               earned == price.amount - price.fee
    <3> HIDE DEF fee, earned
    <3>6. [Promise!NoDeal EXCEPT !.phase = "paid", !.owner = fee, !.worker = earned]
            = Deal("paid", 0, 0, earned, fee)
      BY FreshDeals
    <3>3. /\ y = [Promise!NoDeal EXCEPT !.phase = "paid", !.owner = price.fee,
                                        !.worker = price.amount - price.fee]
          /\ x.phase = "approved" \/ (x.phase = "held" /\ price.fee = 0)
          /\ x.held = price.amount
      BY <3>1, <3>2, <3>6 DEF fee, earned
    <3>4. \E p \in Prices :
             /\ x.phase = "approved" \/ (x.phase = "held" /\ p.fee = 0)
             /\ x.held = p.amount
             /\ y = [Promise!NoDeal EXCEPT !.phase = "paid", !.owner = p.fee,
                                           !.worker = p.amount - p.fee]
      BY <3>3
    <3>5. Promise!Pay(j)
      BY <3>4 DEF Promise!Pay, Deals, Prices
    <3> QED
      BY <3>5
  <2>6. CASE \E t \in ValidTerms : \E fee \in {0, t.fee} :
               /\ x.phase = "held" /\ x.held = t.amount
               /\ y = Deal("returned", 0, t.amount - fee, 0, fee)
    <3> PICK t \in ValidTerms : \E fee \in {0, t.fee} :
               /\ x.phase = "held" /\ x.held = t.amount
               /\ y = Deal("returned", 0, t.amount - fee, 0, fee)
      BY <2>6
    <3>1. PICK fee \in {0, t.fee} :
               /\ x.phase = "held" /\ x.held = t.amount
               /\ y = Deal("returned", 0, t.amount - fee, 0, fee)
      OBVIOUS
    <3>2. PICK price \in Prices : price.amount = t.amount /\ price.fee = t.fee
      BY <1>2
    <3>3. y = [Promise!NoDeal EXCEPT !.phase = "returned", !.owner = fee,
                                     !.agent = price.amount - fee]
      <4>1. y = Deal("returned", 0, price.amount - fee, 0, fee)
        BY <3>1, <3>2
      <4> DEFINE back == price.amount - fee
      <4> HIDE DEF back
      <4>2. [Promise!NoDeal EXCEPT !.phase = "returned", !.owner = fee, !.agent = back]
              = Deal("returned", 0, back, 0, fee)
        BY FreshDeals
      <4> QED
        BY <4>1, <4>2 DEF back
    <3>4. x.phase = "held" /\ x.held = price.amount /\ fee \in {0, price.fee}
      BY <3>1, <3>2
    <3>5. Promise!Return(j)
      BY <3>3, <3>4 DEF Promise!Return, Deals, Prices
    <3> QED
      BY <3>5
  <2>7. CASE x.phase \in {"held", "approved"} /\ y = [x EXCEPT !.phase = "dropped"]
    <3>1. Promise!Drop(j)
      BY <2>7 DEF Promise!Drop, Deals
    <3> QED
      BY <3>1
  <2>8. CASE x.phase \in {"paid", "returned", "dropped", "broken"} /\ y = Deal("idle", 0, 0, 0, 0)
    <3>1. Promise!Reuse(j)
      BY <2>8 DEF Promise!Reuse, Promise!NoDeal, Deal, Deals
    <3> QED
      BY <3>1
  <2> QED
    BY <2>1, <2>2, <2>3, <2>4, <2>5, <2>6, <2>7, <2>8 DEF DealStep
<1> QED
  BY <1>1, <1>3 DEF DealsMove, Promise!Next, Deals

-----------------------------------------------------------------------------
(* Escrows that a step does not concern.                                     *)

Kept(k) ==
    /\ escrows'[k] = escrows[k] /\ Tokens(flow'[k]) = Tokens(flow[k])
    /\ \A b \in BatchIds : batches[b].job = k \/ batches'[b].job = k => batches'[b] = batches[b]

LEMMA TokenFields ==
    ASSUME NEW f, NEW g, Tokens(f) = Tokens(g)
    PROVE  f.in = g.in /\ f.agent = g.agent /\ f.worker = g.worker /\ f.owner = g.owner
           /\ f.credit = g.credit
  BY DEF Tokens

LEMMA KeptStage ==
    ASSUME NEW k \in Jobs, Staged(k), Kept(k)
    PROVE  Staged(k)' /\ DealOf(k)' = DealOf(k)
<1> DEFINE f == flow[k]
           g == flow'[k]
<1>1. /\ g.in = f.in /\ g.agent = f.agent /\ g.worker = f.worker /\ g.owner = f.owner
      /\ g.credit = f.credit
  BY TokenFields DEF Kept
<1>2. escrows'[k] = escrows[k]
  BY DEF Kept
<1>3. /\ InFlight(k)' = InFlight(k)
      /\ AboutToCredit(k)' = AboutToCredit(k)
  BY <1>2 DEF Kept, InFlight, AboutToCredit
<1>4. ASSUME NEW t
      PROVE  /\ Unpaid(g) = Unpaid(f) /\ PaidFor(g, t) = PaidFor(f, t)
             /\ Returned(g, t) = Returned(f, t)
  BY <1>1 DEF Unpaid, PaidFor, Returned
<1>5. ASSUME NEW b \in BatchIds, Settling(k, b)
      PROVE  Settling(k, b)'
  <2>1. /\ batches'[b] = batches[b]
        /\ \A c \in BatchIds \ {b} : batches'[c].job # k
    BY <1>5 DEF Kept, Settling
  <2>2. batches'[b].phase # "ok" => Unpaid(g)
    BY <1>4, <1>5, <2>1 DEF Settling
  <2> QED
    BY <1>1, <1>2, <1>5, <2>1, <2>2 DEF Settling
<1>6. Staged(k)'
  BY <1>1, <1>2, <1>3, <1>4, <1>5 DEF Staged, Gone, Asked, Held, Over
<1>7. DealOf(k)' = DealOf(k)
  <2>1. Exists(k)' = Exists(k)
    BY <1>2 DEF Exists
  <2>2. DealFrom(g, AboutToCredit(k)', Exists(k)', escrows'[k].target)
          = DealFrom(f, AboutToCredit(k), Exists(k), escrows[k].target)
    BY <1>1, <1>2, <1>3, <2>1 DEF DealFrom
  <2> QED
    BY <2>2, DealIsFrom
<1> QED
  BY <1>6, <1>7

LEMMA FreeBatch ==
    ASSUME TypeOK, NEW b \in BatchIds, batches[b].phase = "free"
    PROVE  batches[b] = NoBatch /\ batches[b].job \notin Jobs
<1>1. batches[b] = NoBatch
  BY DEF TypeOK, Batch
<1> QED
  BY <1>1, EscrowAssumption DEF NoBatch

-----------------------------------------------------------------------------
(* An escrow that moves from stage to stage.                                 *)

Moves(j) == Staged(j)' /\ DealStep(DealOf(j), DealOf(j)')

LEMMA NothingDue ==
    ASSUME NEW j \in Jobs
    PROVE  /\ ~InFlight(j) => AboutToCredit(j) = 0
           /\ ~InFlight(j)' => AboutToCredit(j)' = 0
  BY DEF InFlight, AboutToCredit

\* As long as nothing is paid, the deal is that the deposit is held; it may be
\* approved.
LEMMA UnpaidMoves ==
    ASSUME NEW j \in Jobs, flow[j] \in Flow, flow'[j] \in Flow,
           Unpaid(flow[j]), Unpaid(flow'[j]), flow'[j].in = flow[j].in,
           AboutToCredit(j) = 0, AboutToCredit(j)' = 0, Exists(j), Exists(j)',
           escrows[j].target = "Claim" => escrows'[j].target = "Claim"
    PROVE  DealStep(DealOf(j), DealOf(j)')
<1> DEFINE f == flow[j]
           g == flow'[j]
           x == DealOf(j)
           y == DealOf(j)'
<1>1. /\ x = DealFrom(f, 0, TRUE, escrows[j].target)
      /\ y = DealFrom(g, 0, TRUE, escrows'[j].target)
  BY DealIsFrom
<1>2. CASE f.in = 0
  <2>1. x = y
    BY <1>1, <1>2, UnpaidDeal
  <2> QED
    BY <2>1 DEF DealStep
<1>3. CASE f.in # 0 /\ (escrows[j].target = "Claim" \/ escrows'[j].target # "Claim")
  <2>1. CASE escrows[j].target = "Claim"
    <3>1. x = Deal("approved", f.in, 0, 0, 0) /\ y = Deal("approved", f.in, 0, 0, 0)
      BY <1>1, <1>3, <2>1, UnpaidDeal
    <3> QED
      BY <3>1 DEF DealStep
  <2>2. CASE escrows'[j].target # "Claim"
    <3>1. x = Deal("held", f.in, 0, 0, 0) /\ y = Deal("held", f.in, 0, 0, 0)
      BY <1>1, <1>3, <2>2, UnpaidDeal
    <3> QED
      BY <3>1 DEF DealStep
  <2> QED
    BY <1>3, <2>1, <2>2
<1>4. CASE f.in # 0 /\ escrows[j].target # "Claim" /\ escrows'[j].target = "Claim"
  <2>1. x = Deal("held", f.in, 0, 0, 0) /\ y = Deal("approved", f.in, 0, 0, 0)
    BY <1>1, <1>4, UnpaidDeal
  <2>2. x.phase = "held" /\ y = [x EXCEPT !.phase = "approved"]
    BY <2>1 DEF Deal
  <2> QED
    BY <2>2 DEF DealStep
<1> QED
  BY <1>2, <1>3, <1>4

\* create_escrow.
LEMMA CreateMoves ==
    ASSUME TypeOK, TypeOK', NEW j \in Jobs, Staged(j), ~InFlight(j), Creates(j)
    PROVE  Moves(j)
<1> DEFINE f == flow[j]
<1>1. /\ escrows \in [Jobs -> EscrowRecord \cup {NoEscrow}] /\ flow \in [Jobs -> Flow]
      /\ flow' \in [Jobs -> Flow] /\ flow' = [flow EXCEPT ![j] = NoFlow] /\ batches' = batches
  BY DEF TypeOK, Creates
<1>2. PICK t \in ValidTerms : escrows' = [escrows EXCEPT ![j] = NewEscrow(t)]
  BY DEF Creates
<1>3. /\ escrows'[j] = NewEscrow(t) /\ NewEscrow(t) \in EscrowRecord
      /\ NewEscrow(t).status = "PendingFunding" /\ NewEscrow(t).target = "None"
  BY <1>1, <1>2, NewEscrowType DEF NewEscrow
<1>4. flow'[j] = NoFlow /\ Unpaid(NoFlow) /\ NoFlow.in = 0 /\ ~InFlight(j)'
  BY <1>1 DEF NoFlow, Unpaid, InFlight
<1>5. Asked(j)'
  BY <1>3, <1>4 DEF Asked
<1>6. Gone(j)
  <2>1. escrows[j] = NoEscrow /\ NoEscrow \notin EscrowRecord
    BY DEF Creates, NoEscrow, EscrowRecord, Statuses
  <2> QED
    BY <2>1 DEF Staged, Asked, Held, Over, Settling
<1>7. DealOf(j)' = Deal("idle", 0, 0, 0, 0)
  BY <1>1, <1>4, NothingDue, DealIsFrom, UnpaidDeal
<1>8. DealOf(j).phase \in {"idle", "paid", "returned", "dropped"}
      /\ (DealOf(j).phase = "idle" => DealOf(j) = Deal("idle", 0, 0, 0, 0))
  <2> DEFINE x == DealOf(j)
             target == escrows[j].target
  <2>1. f \in Flow /\ f.in \in Nat
    BY <1>1 DEF Flow
  <2>2. x = DealFrom(f, 0, FALSE, target)
    <3>1. AboutToCredit(j) = 0 /\ Exists(j) = FALSE
      BY <1>6, NothingDue DEF Gone, Exists, NoEscrow
    <3> QED
      BY <3>1, DealIsFrom
  <2> HIDE DEF x, target
  <2>3. CASE Unpaid(f)
    <3>1. x = Deal("idle", 0, 0, 0, 0) \/ x = Deal("dropped", f.in, 0, 0, 0)
      BY <2>1, <2>2, <2>3, UnpaidDeal
    <3> QED
      BY <3>1 DEF Deal, x
  <2>5. CASE \E s \in ValidTerms : PaidFor(f, s)
    <3> PICK s \in ValidTerms : PaidFor(f, s)
      BY <2>5
    <3>1. x = Deal("paid", 0, 0, s.amount - s.fee, s.fee)
      BY <2>1, <2>2, PaidForDeal
    <3> QED
      BY <3>1 DEF Deal, x
  <2>4. CASE \E s \in ValidTerms : Returned(f, s)
    <3> PICK s \in ValidTerms : Returned(f, s)
      BY <2>4
    <3>1. x = Deal("returned", 0, s.amount - f.owner, 0, f.owner)
      BY <2>1, <2>2, ReturnedDeal
    <3> QED
      BY <3>1 DEF Deal, x
  <2> QED
    BY <1>6, <2>3, <2>4, <2>5 DEF Gone
<1> QED
  BY <1>5, <1>7, <1>8 DEF Moves, Staged, DealStep

LEMMA HeldIfUnsettled ==
    ASSUME NEW j \in Jobs, Staged(j), ~InFlight(j), escrows[j].status \in Unsettled
    PROVE  Held(j)
<1>1. escrows[j] # NoEscrow
  BY DEF NoEscrow, Unsettled
<1>2. ~ \E b \in BatchIds : Settling(j, b)
  BY DEF Settling, InFlight
<1> QED
  BY <1>1, <1>2 DEF Staged, Gone, Asked, Over, IsSettled, Unsettled

\* What claims, submissions and a retry that is given up have in common.
LEMMA HeldMoves ==
    ASSUME TypeOK, TypeOK', NEW j \in Jobs, Held(j), NEW e \in EscrowRecord, Alike(j, e),
           e.status \in Unsettled,
           e.target # "None" => e.status \in {"SettlementFailed", "Cancelled"},
           escrows[j].status # "Cancelled" \/ e.status = "Cancelled",
           escrows' = [escrows EXCEPT ![j] = e], TokensKept, batches' = batches
    PROVE  Moves(j)
<1>1. /\ escrows \in [Jobs -> EscrowRecord \cup {NoEscrow}]
      /\ flow[j] \in Flow /\ flow'[j] \in Flow
  BY DEF TypeOK
<1>2. escrows'[j] = e
  BY <1>1
<1>3. Unpaid(flow'[j]) /\ flow'[j].in = flow[j].in
  BY TokenFields DEF TokensKept, Held, Unpaid
<1>4. ~InFlight(j) /\ ~InFlight(j)'
  BY DEF Held, InFlight
<1>5. Held(j)'
  BY <1>2, <1>3, <1>4 DEF Held, Alike
<1>6. Exists(j) /\ Exists(j)'
  BY <1>2 DEF Exists, Held, EscrowRecord, Statuses
<1>7. DealStep(DealOf(j), DealOf(j)')
  BY <1>1, <1>2, <1>3, <1>4, <1>6, NothingDue, UnpaidMoves DEF Held, Alike
<1> QED
  BY <1>5, <1>7 DEF Moves, Staged

\* A deposit that is accepted.
LEMMA FundMoves ==
    ASSUME TypeOK, TypeOK', NEW j \in Jobs, Staged(j), Funds(j)
    PROVE  Moves(j)
<1> DEFINE f == flow[j]
           g == flow'[j]
<1>1. /\ escrows \in [Jobs -> EscrowRecord \cup {NoEscrow}]
      /\ flow \in [Jobs -> Flow] /\ f \in Flow /\ g \in Flow
  BY DEF TypeOK
<1>2. PICK e \in EscrowRecord :
         /\ Alike(j, e) /\ e.status = "Open"
         /\ escrows' = [escrows EXCEPT ![j] = e]
         /\ flow' = [flow EXCEPT ![j].in = @ + e.terms.amount]
  BY DEF Funds
<1>3. Asked(j)
  <2>1. escrows[j] # NoEscrow
    BY DEF Funds, NoEscrow
  <2> QED
    BY <2>1 DEF Staged, Gone, Held, Over, Settling, IsSettled, Unsettled, Funds
<1>4. escrows'[j] = e /\ batches' = batches
  BY <1>1, <1>2 DEF Funds
<1>5. /\ Unpaid(f) /\ f.in = 0 /\ Unpaid(g) /\ g.in = e.terms.amount
      /\ e.terms \in ValidTerms /\ e.terms.amount \in Nat \ {0}
  <2>1. e.terms.amount \in Nat \ {0} /\ e.terms \in ValidTerms
    BY TermsType DEF EscrowRecord
  <2>2. g = [f EXCEPT !.in = @ + e.terms.amount]
    BY <1>1, <1>2
  <2> QED
    BY <1>1, <1>3, <2>1, <2>2 DEF Asked, Unpaid, Flow
<1>6. ~InFlight(j) /\ ~InFlight(j)' /\ e.target = "None"
  BY <1>2, <1>3, <1>4 DEF Asked, Alike, InFlight
<1>7. Held(j)'
  BY <1>2, <1>4, <1>5, <1>6 DEF Held, Unsettled
<1>8. DealOf(j) = Deal("idle", 0, 0, 0, 0)
  BY <1>1, <1>5, <1>6, NothingDue, DealIsFrom, UnpaidDeal
<1>9. DealOf(j)' = Deal("held", e.terms.amount, 0, 0, 0)
  <2>1. Exists(j)'
    BY <1>2, <1>4 DEF Exists
  <2> QED
    BY <1>1, <1>4, <1>5, <1>6, <2>1, NothingDue, DealIsFrom, UnpaidDeal
<1>10. DealStep(DealOf(j), DealOf(j)')
  <2>1. DealOf(j).phase = "idle"
    BY <1>8 DEF Deal
  <2> QED
    BY <1>5, <1>9, <2>1 DEF DealStep
<1> QED
  BY <1>7, <1>10 DEF Moves, Staged

\* Claims, submissions, results and cancellations without tokens to move.
LEMMA WorkMoves ==
    ASSUME TypeOK, TypeOK', NEW j \in Jobs, Staged(j), ~InFlight(j),
           Takes(j) \/ (\E d \in YieldIds : Opens(j, d)) \/ Cancels(j)
    PROVE  Moves(j)
<1>1. /\ escrows \in [Jobs -> EscrowRecord \cup {NoEscrow}]
      /\ flow[j] \in Flow /\ flow'[j] \in Flow
  BY DEF TypeOK
<1>2. CASE Takes(j) \/ \E d \in YieldIds : Opens(j, d)
  <2>1. escrows[j].status \in {"Open", "InProgress"}
    BY <1>2 DEF Takes, Opens
  <2>2. Held(j) /\ escrows[j].target = "None"
    <3>1. Held(j)
      BY <2>1, HeldIfUnsettled DEF Unsettled
    <3> QED
      BY <2>1, <3>1 DEF Held
  <2>3. PICK e \in EscrowRecord :
           /\ Alike(j, e) /\ e.status \in {"Open", "InProgress", "Verifying"}
           /\ escrows' = [escrows EXCEPT ![j] = e] /\ TokensKept /\ batches' = batches
    BY <1>2 DEF Takes, Opens
  <2>4. e.target = "None"
    BY <2>2, <2>3 DEF Alike
  <2> QED
    BY <2>1, <2>2, <2>3, <2>4, HeldMoves DEF Unsettled
<1>3. CASE Cancels(j)
  <2>1. PICK e \in EscrowRecord :
           /\ Alike(j, e) /\ e.status = "Cancelled"
           /\ escrows' = [escrows EXCEPT ![j] = e] /\ TokensKept /\ batches' = batches
    BY <1>3 DEF Cancels
  <2>2. CASE Retryable(escrows[j])
    <3>1. Held(j)
      BY <2>2, HeldIfUnsettled DEF Retryable, Unsettled
    <3> QED
      BY <2>1, <3>1, HeldMoves DEF Unsettled
  <2>3. CASE escrows[j].status = "PendingFunding"
    <3>1. Asked(j)
      <4>1. escrows[j] # NoEscrow
        BY <2>3 DEF NoEscrow
      <4> QED
        BY <2>3, <4>1 DEF Staged, Gone, Held, Over, Settling, IsSettled, Unsettled
    <3>2. escrows'[j] = e
      BY <1>1, <2>1
    <3>3. Unpaid(flow'[j]) /\ flow'[j].in = flow[j].in /\ e.target = "None"
      BY <2>1, <3>1, TokenFields DEF TokensKept, Asked, Unpaid, Alike
    <3>4. ~InFlight(j) /\ ~InFlight(j)'
      BY <2>1 DEF InFlight
    <3>5. Held(j)'
      BY <2>1, <3>1, <3>2, <3>3, <3>4 DEF Held, Asked, Unsettled
    <3>6. Exists(j) /\ Exists(j)'
      BY <2>1, <2>3, <3>2 DEF Exists
    <3>7. DealStep(DealOf(j), DealOf(j)')
      BY <1>1, <3>1, <3>2, <3>3, <3>4, <3>6, NothingDue, UnpaidMoves DEF Asked
    <3> QED
      BY <3>5, <3>7 DEF Moves, Staged
  <2> QED
    BY <1>3, <2>2, <2>3 DEF Cancels
<1> QED
  BY <1>2, <1>3

\* _settle_escrow for an escrow that holds its deposit.
LEMMA SettleMoves ==
    ASSUME TypeOK, TypeOK', NEW j \in Jobs, Held(j), NEW e \in EscrowRecord, Settles(j, e),
           e.status \in Unsettled, flow[j].in = e.terms.amount,
           escrows[j].target = "Claim" => e.target = "Claim"
    PROVE  Moves(j)
<1> DEFINE f == flow[j]
           g == flow'[j]
           p == Prepared(e)
<1>1. /\ escrows \in [Jobs -> EscrowRecord \cup {NoEscrow}] /\ batches \in [BatchIds -> Batch]
      /\ flow \in [Jobs -> Flow] /\ f \in Flow /\ g \in Flow
  BY DEF TypeOK
<1>2. /\ p \in EscrowRecord /\ p.status = e.status /\ p.target = e.target
      /\ p.terms = e.terms /\ p.pubkey = e.pubkey /\ e.target # "None"
      /\ p.payout = IF p.target = "Claim" /\ p.pubkey # NoOne
                    THEN p.terms.amount - p.terms.fee ELSE 0
  BY PreparedType, PreparedFields DEF Settles
<1>3. p.payout = Prepared(p).payout
  BY <1>2, PreparedFields
<1>4. ~InFlight(j) /\ \A c \in BatchIds : batches[c].job # j
  <2>1. ~InFlight(j)
    BY DEF Held
  <2>2. ASSUME NEW c \in BatchIds, batches[c].job = j PROVE FALSE
    <3>1. batches[c].phase = "free"
      BY <2>1, <2>2 DEF InFlight
    <3> QED
      BY <2>2, <3>1, FreeBatch
  <2> QED
    BY <2>1, <2>2
<1>5. Unpaid(f) /\ f.in = p.terms.amount /\ Exists(j)
  BY <1>2 DEF Held, Exists, EscrowRecord, Statuses
<1> HIDE DEF p
<1>6. CASE Sends(j, e)
  <2>1. escrows' = [escrows EXCEPT ![j] = p] /\ TokensKept
    BY <1>6 DEF Sends, p
  <2>2. PICK b \in BatchIds :
           batches[b].phase = "free" /\ batches' = [batches EXCEPT ![b] = BatchFor(j, p)]
    BY <1>6 DEF Sends, p
  <2>3. /\ escrows'[j] = p /\ batches'[b] = BatchFor(j, p)
        /\ \A c \in BatchIds \ {b} : batches'[c] = batches[c]
    BY <1>1, <2>1, <2>2
  <2>4. BatchFor(j, p).job = j /\ BatchFor(j, p).phase = "sent"
    BY DEF BatchFor
  <2>7. Unpaid(g) /\ g.in = f.in /\ g.credit = 0
    BY <1>5, <2>1, TokenFields DEF TokensKept, Unpaid
  <2>8. Settling(j, b)'
    <3>1. \A c \in BatchIds \ {b} : batches'[c].job # j
      BY <1>4, <2>3
    <3>2. p.status \in Unsettled
      BY <1>2
    <3> QED
      BY <1>2, <1>3, <1>5, <2>3, <2>4, <2>7, <3>1, <3>2 DEF Settling
  <2>9. AboutToCredit(j) = 0 /\ AboutToCredit(j)' = 0
    <3>1. ~ \E c \in BatchIds : batches'[c].job = j /\ batches'[c].phase = "ok"
      BY <1>4, <2>3, <2>4
    <3> QED
      BY <1>4, <3>1, NothingDue DEF AboutToCredit
  <2>10. Exists(j)' /\ (escrows[j].target = "Claim" => escrows'[j].target = "Claim")
    BY <1>2, <2>3 DEF Exists, Unsettled
  <2>11. DealStep(DealOf(j), DealOf(j)')
    BY <1>1, <1>5, <2>7, <2>9, <2>10, UnpaidMoves
  <2> QED
    BY <2>8, <2>11 DEF Moves, Staged
<1>7. CASE SettlesAtOnce(j, e)
  <2>1. /\ escrows' = [escrows EXCEPT ![j] = Settled(p)] /\ flow' = [flow EXCEPT ![j] = g]
        /\ batches' = batches
        /\ p.target = "Claim" /\ p.terms.fee = 0
    BY <1>2, <1>7 DEF SettlesAtOnce, p
  <2>2. PICK h \in Flow : /\ Tokens(h) = Tokens(f)
                          /\ Tokens(g) = Tokens([h EXCEPT !.credit = @ + e.terms.amount])
    BY <1>7 DEF SettlesAtOnce
  <2>3. /\ g.in = f.in /\ g.agent = 0 /\ g.worker = 0 /\ g.owner = 0
        /\ g.credit = p.terms.amount
    <3> DEFINE h1 == [h EXCEPT !.credit = @ + e.terms.amount]
    <3>1. h.in = f.in /\ h.agent = 0 /\ h.worker = 0 /\ h.owner = 0 /\ h.credit = 0
      BY <1>5, <2>2, TokenFields DEF Unpaid
    <3>2. e.terms.amount \in Nat
      BY TermsType
    <3>3. h1.in = f.in /\ h1.agent = 0 /\ h1.worker = 0 /\ h1.owner = 0
          /\ h1.credit = e.terms.amount
      BY <3>1, <3>2 DEF Flow
    <3> HIDE DEF h1
    <3>4. Tokens(g) = Tokens(h1)
      BY <2>2 DEF h1
    <3> QED
      BY <1>2, <3>3, <3>4, TokenFields
  <2>4. /\ Settled(p) \in EscrowRecord /\ Settled(p).status = "Claimed"
        /\ Settled(p).target = "None" /\ Settled(p).terms = p.terms
    BY <1>2, <2>1, SettledType, SettledFields
  <2>5. escrows'[j] = Settled(p) /\ ~InFlight(j)'
    BY <1>1, <1>4, <2>1 DEF InFlight
  <2>6. p.terms \in ValidTerms /\ p.terms.amount \in Nat
    BY <1>2, TermsType DEF EscrowRecord
  <2>7. PaidFor(g, p.terms)
    BY <1>5, <2>1, <2>3, <2>6 DEF PaidFor
  <2>8. Over(j)'
    BY <2>4, <2>5, <2>7 DEF Over, IsSettled
  <2>9. DealOf(j)' = Deal("paid", 0, 0, p.terms.amount - p.terms.fee, p.terms.fee)
    BY <1>1, <2>5, <2>6, <2>7, NothingDue, DealIsFrom, PaidForDeal
  <2>10. /\ DealOf(j).phase \in {"held", "approved"} /\ DealOf(j).held = p.terms.amount
    <3>1. f.in # 0
      BY <1>2, <1>5, TermsType
    <3>2. \/ DealOf(j) = Deal("approved", f.in, 0, 0, 0)
          \/ DealOf(j) = Deal("held", f.in, 0, 0, 0)
      BY <1>1, <1>4, <1>5, <3>1, NothingDue, DealIsFrom, UnpaidDeal
    <3> QED
      BY <1>5, <3>2 DEF Deal
  <2>11. DealStep(DealOf(j), DealOf(j)')
    BY <2>1, <2>6, <2>9, <2>10 DEF DealStep
  <2> QED
    BY <2>8, <2>11 DEF Moves, Staged
<1> QED
  BY <1>6, <1>7, SettlesHow

\* Cancellation, expiry and retry.
LEMMA RefundMoves ==
    ASSUME TypeOK, TypeOK', NEW j \in Jobs, Staged(j), ~InFlight(j), Refunds(j)
    PROVE  Moves(j)
<1> PICK e \in EscrowRecord :
       /\ Settles(j, e)
       /\ escrows[j].status # "PendingFunding"
       /\ \/ e.target = escrows[j].target /\ e.status = escrows[j].status
          \/ /\ e.target = "FullRefund" /\ escrows[j].status \in {"Open", "InProgress", "Verifying"}
             /\ e.status \in {escrows[j].status, "Cancelled"}
  BY DEF Refunds
<1>1. /\ escrows[j] \in EscrowRecord /\ ~IsSettled(escrows[j])
      /\ e.target # "None" /\ e.terms = escrows[j].terms
  BY DEF Settles
<1>2. escrows[j].status \in Unsettled /\ e.status \in Unsettled
  BY <1>1 DEF IsSettled, EscrowRecord, Statuses, Unsettled
<1>3. Held(j)
  BY <1>2, HeldIfUnsettled
<1>4. flow[j].in = e.terms.amount
  BY <1>1, <1>3 DEF Held
<1>5. escrows[j].target = "Claim" => e.target = "Claim"
  BY <1>3 DEF Held
<1> QED
  BY <1>2, <1>3, <1>4, <1>5, SettleMoves

\* verification_callback.
LEMMA JudgeMoves ==
    ASSUME TypeOK, TypeOK', NEW j \in Jobs, NEW d \in YieldIds, Staged(j), Awaited(d), Judges(j, d)
    PROVE  Moves(j)
<1> PICK e \in EscrowRecord : Settles(j, e) /\ e.status = "Verifying"
  BY DEF Judges
<1>1. escrows[j].status = "Verifying" /\ escrows[j].target = "None"
  BY DEF Judges, Awaited
<1>2. Held(j)
  <2>1. escrows[j] # NoEscrow
    BY <1>1 DEF NoEscrow
  <2> QED
    BY <1>1, <2>1 DEF Staged, Gone, Asked, Over, Settling, IsSettled
<1>3. flow[j].in = e.terms.amount
  BY <1>1, <1>2 DEF Held, Settles
<1> QED
  BY <1>1, <1>2, <1>3, SettleMoves DEF Unsettled

-----------------------------------------------------------------------------
(* The batch of a settlement.                                                *)

LEMMA BatchOwner ==
    ASSUME TypeOK, NEW b \in BatchIds, batches[b].phase # "free", Staged(batches[b].job)
    PROVE  batches[b].job \in Jobs /\ Settling(batches[b].job, b)
<1> DEFINE j == batches[b].job
<1>1. j \in Jobs
  BY DEF TypeOK, Batch, NoBatch
<1>2. InFlight(j)
  BY DEF InFlight
<1>3. PICK c \in BatchIds : Settling(j, c)
  BY <1>2 DEF Staged, Gone, Asked, Held, Over
<1>4. c = b
  BY <1>3 DEF Settling
<1> QED
  BY <1>1, <1>3, <1>4

\* What a settlement has paid when its batch has been executed; an internal
\* worker has yet to be credited.
LEMMA ExecutedDeal ==
    ASSUME NEW j, NEW e \in EscrowRecord, NEW f \in Flow, NEW there,
           e.target # "None", e.payout = Prepared(e).payout,
           f.in = e.terms.amount, f.credit = 0, f.owner = BatchFor(j, e).fee,
           f.agent = IF BatchFor(j, e).to = "agent" THEN BatchFor(j, e).amount ELSE 0,
           f.worker = IF BatchFor(j, e).to = "worker" THEN BatchFor(j, e).amount ELSE 0
    PROVE  /\ e.target = "Claim" =>
                 /\ f.agent = 0 /\ f.owner = e.terms.fee
                 /\ f.worker + e.payout = e.terms.amount - e.terms.fee
                 /\ DealFrom(f, e.payout, there, e.target) =
                       Deal("paid", 0, 0, e.terms.amount - e.terms.fee, e.terms.fee)
           /\ e.target # "Claim" =>
                 /\ e.payout = 0 /\ Returned(f, e.terms)
                 /\ DealFrom(f, e.payout, there, e.target) =
                       Deal("returned", 0, e.terms.amount - f.owner, 0, f.owner)
           /\ e.pubkey = NoOne => e.payout = 0
<1> DEFINE t == e.terms
           b == BatchFor(j, e)
<1>1. /\ t \in ValidTerms /\ t.amount \in Nat \ {0} /\ t.fee \in Nat
      /\ t.amount - t.fee \in Nat \ {0}
  BY TermsType DEF EscrowRecord
<1>2. e.payout = IF e.target = "Claim" /\ e.pubkey # NoOne THEN t.amount - t.fee ELSE 0
  BY PreparedFields
<1>3. CASE e.target = "Claim"
  <2>1. b.to = "worker" /\ b.fee = t.fee
        /\ b.amount = IF e.pubkey # NoOne THEN 0 ELSE t.amount - t.fee
    BY <1>3 DEF BatchFor
  <2> HIDE DEF b
  <2>2. f.agent = 0 /\ f.owner = t.fee /\ f.worker + e.payout = t.amount - t.fee
    BY <1>1, <1>2, <1>3, <2>1 DEF b
  <2>3. f.worker + f.credit + e.payout = t.amount - t.fee /\ e.payout \in Nat
    BY <1>1, <1>2, <2>2 DEF Flow
  <2> HIDE DEF t
  <2>4. DealFrom(f, e.payout, there, e.target) = Deal("paid", 0, 0, t.amount - t.fee, t.fee)
    BY <1>1, <2>2, <2>3, PaidDeal DEF t
  <2> QED
    BY <1>2, <1>3, <2>2, <2>4 DEF t
<1>4. CASE e.target # "Claim"
  <2>1. b.to = "agent" /\ b.fee \in {0, t.fee} /\ b.amount = t.amount - b.fee
    <3>1. CASE e.target = "FullRefund"
      BY <1>1, <3>1 DEF BatchFor
    <3>2. CASE e.target # "FullRefund"
      BY <1>4, <3>2 DEF BatchFor
    <3> QED
      BY <3>1, <3>2
  <2> HIDE DEF b
  <2>2. e.payout = 0 /\ Returned(f, t)
    BY <1>2, <1>4, <2>1 DEF Returned, b
  <2> QED
    BY <1>1, <1>4, <2>2, ReturnedDeal
<1> QED
  BY <1>3, <1>4

\* The transfers of a batch succeed, or fail together.
LEMMA ExecuteMoves ==
    ASSUME TypeOK, TypeOK', NEW b \in BatchIds, NEW j \in Jobs, batches[b].job = j,
           Staged(j), FtExecute(b), ~HalfFailed(j)
    PROVE  Moves(j)
<1> DEFINE s == batches[b]
           e == escrows[j]
           f == flow[j]
           g == flow'[j]
<1>1. s.phase = "sent" /\ escrows' = escrows
  BY DEF FtExecute
<1>2. s.job = j /\ Settling(j, b)
  BY <1>1, BatchOwner
<1>3. /\ batches \in [BatchIds -> Batch] /\ flow \in [Jobs -> Flow] /\ f \in Flow /\ g \in Flow
      /\ s.amount \in Nat /\ s.fee \in Nat
  BY <1>1, <1>2 DEF TypeOK, Batch, NoBatch
<1>4. PICK mainOk \in BOOLEAN, feeOk \in BOOLEAN :
         /\ s.amount = 0 => mainOk
         /\ s.fee = 0 => feeOk
         /\ flow' = [flow EXCEPT
               ![j].agent = IF s.to = "agent" THEN @ + (IF mainOk THEN s.amount ELSE 0) ELSE @,
               ![j].worker = IF s.to = "worker" THEN @ + (IF mainOk THEN s.amount ELSE 0) ELSE @,
               ![j].owner = @ + (IF feeOk THEN s.fee ELSE 0)]
         /\ batches' = [batches EXCEPT ![b].phase = IF mainOk /\ feeOk THEN "ok" ELSE "failed"]
  BY DEF FtExecute
<1>5. /\ f.agent = 0 /\ f.worker = 0 /\ f.owner = 0 /\ f.credit = 0
      /\ f.in = e.terms.amount /\ f.in \in Nat \ {0} /\ e \in EscrowRecord /\ Exists(j) /\ Exists(j)'
  <2>1. e \in EscrowRecord /\ Unpaid(f) /\ f.in = e.terms.amount
    BY <1>1, <1>2 DEF Settling
  <2> QED
    BY <1>1, <2>1, TermsType DEF Unpaid, Exists, EscrowRecord, Statuses
<1>7. AboutToCredit(j) = 0
  BY <1>1, <1>2 DEF Settling, AboutToCredit
<1>8. \A c \in BatchIds \ {b} : batches'[c] = batches[c] /\ batches'[c].job # j
  BY <1>2, <1>3, <1>4 DEF Settling
<1>9. CASE mainOk /\ feeOk
  <2>1. batches'[b] = [s EXCEPT !.phase = "ok"]
    BY <1>3, <1>4, <1>9
  <2>2. /\ batches'[b].phase = "ok" /\ batches'[b].job = j /\ batches'[b].to = s.to
        /\ batches'[b].amount = s.amount /\ batches'[b].fee = s.fee
    BY <1>1, <1>2, <1>3, <2>1 DEF Batch, NoBatch
  <2>3. /\ g.in = f.in /\ g.credit = 0 /\ g.owner = s.fee
        /\ g.agent = IF s.to = "agent" THEN s.amount ELSE 0
        /\ g.worker = IF s.to = "worker" THEN s.amount ELSE 0
    BY <1>2, <1>3, <1>4, <1>5, <1>9 DEF Flow
  <2>4. Settling(j, b)'
    BY <1>1, <1>2, <1>8, <2>2, <2>3 DEF Settling
  <2>5. AboutToCredit(j)' = e.payout
    BY <1>1, <2>2 DEF AboutToCredit
  <2>6. /\ e.target # "None" /\ e.payout = Prepared(e).payout
        /\ s.to = BatchFor(j, e).to /\ s.amount = BatchFor(j, e).amount
        /\ s.fee = BatchFor(j, e).fee
    BY <1>2 DEF Settling
  <2>7. e.terms \in ValidTerms
    BY <1>5 DEF EscrowRecord
  <2>8. DealOf(j)' = DealFrom(g, e.payout, Exists(j)', e.target)
    BY <1>1, <2>5, DealIsFrom
  <2>9. DealOf(j) = DealFrom(f, 0, TRUE, e.target) /\ Unpaid(f)
    BY <1>5, <1>7, DealIsFrom DEF Unpaid
  <2> HIDE DEF e, f, g
  <2>12. /\ g.in = e.terms.amount /\ g.owner = BatchFor(j, e).fee
         /\ g.agent = IF BatchFor(j, e).to = "agent" THEN BatchFor(j, e).amount ELSE 0
         /\ g.worker = IF BatchFor(j, e).to = "worker" THEN BatchFor(j, e).amount ELSE 0
    BY <1>5, <2>3, <2>6
  <2>13. f.in # 0
    BY <1>5
  <2>14. /\ e.target = "Claim" =>
               DealFrom(g, e.payout, Exists(j)', e.target)
                 = Deal("paid", 0, 0, e.terms.amount - e.terms.fee, e.terms.fee)
         /\ e.target # "Claim" =>
               /\ Returned(g, e.terms)
               /\ DealFrom(g, e.payout, Exists(j)', e.target)
                    = Deal("returned", 0, e.terms.amount - g.owner, 0, g.owner)
    <3> DEFINE there == Exists(j)'
    <3>1. e \in EscrowRecord /\ g \in Flow /\ g.credit = 0
      BY <1>3, <1>5, <2>3
    <3> HIDE DEF there
    <3>2. /\ e.target = "Claim" =>
                DealFrom(g, e.payout, there, e.target)
                  = Deal("paid", 0, 0, e.terms.amount - e.terms.fee, e.terms.fee)
          /\ e.target # "Claim" =>
                /\ Returned(g, e.terms)
                /\ DealFrom(g, e.payout, there, e.target)
                     = Deal("returned", 0, e.terms.amount - g.owner, 0, g.owner)
      BY <2>6, <2>12, <3>1, ExecutedDeal, SMTT(30)
    <3> QED
      BY <3>2 DEF there
  <2>10. CASE e.target = "Claim"
    <3>1. DealOf(j)' = Deal("paid", 0, 0, e.terms.amount - e.terms.fee, e.terms.fee)
      BY <2>8, <2>10, <2>14
    <3>2. DealOf(j) = Deal("approved", e.terms.amount, 0, 0, 0)
      BY <1>3, <1>5, <2>9, <2>10, <2>13, UnpaidDeal
    <3>3. DealOf(j).phase = "approved" /\ DealOf(j).held = e.terms.amount
      BY <3>2 DEF Deal
    <3> QED
      BY <2>4, <2>7, <3>1, <3>3 DEF Moves, Staged, DealStep
  <2>11. CASE e.target # "Claim"
    <3>1. /\ Returned(g, e.terms)
          /\ DealOf(j)' = Deal("returned", 0, e.terms.amount - g.owner, 0, g.owner)
      BY <2>8, <2>11, <2>14
    <3>2. DealOf(j) = Deal("held", e.terms.amount, 0, 0, 0)
      BY <1>3, <1>5, <2>9, <2>11, <2>13, UnpaidDeal
    <3>3. DealOf(j).phase = "held" /\ DealOf(j).held = e.terms.amount
      BY <3>2 DEF Deal
    <3>4. g.owner \in {0, e.terms.fee}
      BY <3>1 DEF Returned
    <3> QED
      BY <2>4, <2>7, <3>1, <3>3, <3>4 DEF Moves, Staged, DealStep
  <2> QED
    BY <2>10, <2>11
<1>10. CASE ~(mainOk /\ feeOk)
  <2>1. batches'[b] = [s EXCEPT !.phase = "failed"]
    BY <1>3, <1>4, <1>10
  <2>2. /\ batches'[b].phase = "failed" /\ batches'[b].job = j /\ batches'[b].to = s.to
        /\ batches'[b].amount = s.amount /\ batches'[b].fee = s.fee
    BY <1>1, <1>3, <2>1 DEF Batch, NoBatch
  <2>3. Tokens(g) = Tokens(f)
    BY <1>1, <2>2 DEF HalfFailed, BatchesOf
  <2>4. Unpaid(g) /\ g.in = f.in
    BY <1>5, <2>3, TokenFields DEF Unpaid
  <2>5. Settling(j, b)'
    BY <1>1, <1>2, <1>8, <2>2, <2>4 DEF Settling, Unpaid
  <2>6. AboutToCredit(j)' = 0
    BY <1>8, <2>2 DEF AboutToCredit
  <2>7. DealStep(DealOf(j), DealOf(j)')
    BY <1>1, <1>2, <1>3, <1>5, <1>7, <2>4, <2>6, UnpaidMoves DEF Unpaid
  <2> QED
    BY <2>5, <2>7 DEF Moves, Staged
<1> QED
  BY <1>9, <1>10

\* settle_callback runs to its end, or is lost where that makes no difference.
LEMMA CallbackMoves ==
    ASSUME TypeOK, TypeOK', NEW b \in BatchIds, NEW j \in Jobs, batches[b].job = j,
           Staged(j), SettleCallback(b), ~CallbackLost(j)
    PROVE  Moves(j)
<1> DEFINE s == batches[b]
           e == escrows[j]
           f == flow[j]
           g == flow'[j]
<1>1. s.phase \in {"ok", "failed"} /\ Settling(j, b)
  <2>1. s.phase \in {"ok", "failed"}
    BY DEF SettleCallback, SettleCallbackOk, SettleCallbackFailed, SettleCallbackAborts
  <2> QED
    BY <2>1, BatchOwner
<1>2. /\ batches \in [BatchIds -> Batch] /\ flow \in [Jobs -> Flow] /\ f \in Flow /\ g \in Flow
      /\ escrows \in [Jobs -> EscrowRecord \cup {NoEscrow}] /\ e \in EscrowRecord
      /\ e.terms \in ValidTerms /\ NoOne \notin Jobs
  BY <1>1, EscrowAssumption DEF TypeOK, Settling, EscrowRecord
<1>3. e.target # "None" /\ e.payout = Prepared(e).payout /\ Exists(j)
      /\ f.in = e.terms.amount /\ f.credit = 0 /\ e.status \in Unsettled
  BY <1>1 DEF Settling, Exists, Unsettled
<1>5. batches' = [batches EXCEPT ![b] = NoBatch]
  BY DEF SettleCallback, SettleCallbackOk, SettleCallbackFailed, SettleCallbackAborts
<1>6. ~InFlight(j)' /\ batches'[b] = NoBatch
  BY <1>1, <1>2, <1>5 DEF Settling, InFlight, NoBatch
<1>4. CASE SettleCallbackAborts(b)
  <2>1. escrows' = escrows /\ flow' = flow
    BY <1>4 DEF SettleCallbackAborts
  <2>2. s.phase = "failed" /\ e.status = "SettlementFailed"
    BY <1>1, <1>3, <1>6, <2>1 DEF CallbackLost, BatchesOf
  <2>3. Unpaid(f) /\ AboutToCredit(j) = 0 /\ AboutToCredit(j)' = 0
    <3>1. Unpaid(f) /\ AboutToCredit(j) = 0
      BY <1>1, <2>2 DEF Settling, AboutToCredit
    <3> QED
      BY <1>6, <3>1, NothingDue
  <2>4. Held(j)'
    BY <1>2, <1>3, <1>6, <2>1, <2>2, <2>3 DEF Held, Unpaid
  <2>5. DealStep(DealOf(j), DealOf(j)')
    BY <1>2, <1>3, <2>1, <2>3, UnpaidMoves DEF Exists
  <2> QED
    BY <2>4, <2>5 DEF Moves, Staged
<1>7. CASE SettleCallbackFailed(b)
  <2> DEFINE e1 == [e EXCEPT !.status = "SettlementFailed"]
  <2>1. escrows' = [escrows EXCEPT ![j] = e1] /\ flow' = flow /\ s.phase = "failed"
    BY <1>2, <1>7 DEF SettleCallbackFailed
  <2>2. /\ e1 \in EscrowRecord /\ e1.status = "SettlementFailed" /\ e1.target = e.target
        /\ e1.terms = e.terms
    BY <1>2, StatusNames DEF EscrowRecord
  <2> HIDE DEF e1
  <2>3. escrows'[j] = e1
    BY <1>2, <2>1
  <2>4. Unpaid(f) /\ Unpaid(g) /\ g.in = f.in
    BY <1>1, <2>1 DEF Settling
  <2>5. Held(j)'
    BY <1>3, <1>6, <2>2, <2>3, <2>4 DEF Held, Unsettled
  <2>6. AboutToCredit(j) = 0 /\ AboutToCredit(j)' = 0
    <3>1. AboutToCredit(j) = 0
      BY <1>1, <2>1 DEF Settling, AboutToCredit
    <3> QED
      BY <1>6, <3>1, NothingDue
  <2>7. Exists(j)' /\ (escrows[j].target = "Claim" => escrows'[j].target = "Claim")
    BY <2>2, <2>3 DEF Exists
  <2>8. DealStep(DealOf(j), DealOf(j)')
    BY <1>2, <1>3, <2>4, <2>6, <2>7, UnpaidMoves
  <2> QED
    BY <2>5, <2>8 DEF Moves, Staged
<1>8. CASE SettleCallbackOk(b)
  <2>1. Finish(j, e, stats, f) /\ s.phase = "ok"
    BY <1>8 DEF SettleCallbackOk
  <2>2. /\ escrows' = [escrows EXCEPT ![j] = Settled(e)] /\ flow' = [flow EXCEPT ![j] = g]
        /\ Tokens(g) = IF e.pubkey = NoOne THEN Tokens(f)
                       ELSE Tokens([f EXCEPT !.credit = @ + e.payout])
    BY <1>2, <2>1, FinishTokens
  <2>3. /\ Settled(e) \in EscrowRecord /\ Settled(e).target = "None" /\ Settled(e).terms = e.terms
        /\ Settled(e).status = IF e.target = "Claim" THEN "Claimed" ELSE "Refunded"
    BY <1>2, SettledType, SettledFields
  <2>4. escrows'[j] = Settled(e)
    BY <1>2, <2>2
  <2>5. AboutToCredit(j) = e.payout /\ AboutToCredit(j)' = 0
    <3>1. AboutToCredit(j) = e.payout
      BY <2>1 DEF AboutToCredit
    <3> QED
      BY <1>6, <3>1, NothingDue
  <2>6. /\ f.owner = BatchFor(j, e).fee
        /\ f.agent = IF BatchFor(j, e).to = "agent" THEN BatchFor(j, e).amount ELSE 0
        /\ f.worker = IF BatchFor(j, e).to = "worker" THEN BatchFor(j, e).amount ELSE 0
    BY <1>1, <2>1 DEF Settling
  <2> DEFINE there == Exists(j)
             there1 == Exists(j)'
             target1 == escrows'[j].target
  <2>7. /\ DealOf(j) = DealFrom(f, e.payout, there, e.target)
        /\ DealOf(j)' = DealFrom(g, 0, there1, target1)
    BY <2>5, DealIsFrom
  <2> HIDE DEF e, f, g, there, there1, target1
  <2>8. /\ e.target = "Claim" =>
              /\ f.agent = 0 /\ f.owner = e.terms.fee
              /\ f.worker + e.payout = e.terms.amount - e.terms.fee
              /\ DealFrom(f, e.payout, there, e.target) =
                    Deal("paid", 0, 0, e.terms.amount - e.terms.fee, e.terms.fee)
        /\ e.target # "Claim" =>
              /\ e.payout = 0 /\ Returned(f, e.terms)
              /\ DealFrom(f, e.payout, there, e.target) =
                    Deal("returned", 0, e.terms.amount - f.owner, 0, f.owner)
        /\ e.pubkey = NoOne => e.payout = 0
    <3>1. e \in EscrowRecord /\ f \in Flow
      BY <1>2
    <3>2. /\ e.target # "None" /\ e.payout = Prepared(e).payout
          /\ f.in = e.terms.amount /\ f.credit = 0
      BY <1>3
    <3> QED
      BY <2>6, <3>1, <3>2, ExecutedDeal, SMTT(30)
  <2>9. /\ g.in = f.in /\ g.agent = f.agent /\ g.worker = f.worker /\ g.owner = f.owner
        /\ g.credit = e.payout
    <3>1. CASE e.pubkey = NoOne
      BY <1>3, <2>2, <2>8, <3>1, TokenFields
    <3>2. CASE e.pubkey # NoOne
      <4> DEFINE h == [f EXCEPT !.credit = @ + e.payout]
      <4>1. /\ h.in = f.in /\ h.agent = f.agent /\ h.worker = f.worker /\ h.owner = f.owner
            /\ h.credit = e.payout
        BY <1>2, <1>3 DEF Flow, EscrowRecord
      <4> HIDE DEF h
      <4>2. Tokens(g) = Tokens(h)
        BY <2>2, <3>2 DEF h
      <4> QED
        BY <4>1, <4>2, TokenFields
    <3> QED
      BY <3>1, <3>2
  <2>10. CASE e.target = "Claim"
    <3>1. PaidFor(g, e.terms)
      BY <1>3, <2>8, <2>9, <2>10 DEF PaidFor
    <3>2. Over(j)'
      BY <1>6, <2>3, <2>4, <2>10, <3>1 DEF Over, IsSettled, g
    <3>3. DealOf(j)' = DealOf(j)
      BY <1>2, <2>7, <2>8, <2>10, <3>1, PaidForDeal
    <3> QED
      BY <3>2, <3>3 DEF Moves, Staged, DealStep
  <2>11. CASE e.target # "Claim"
    <3>1. Returned(g, e.terms)
      BY <2>8, <2>9, <2>11 DEF Returned
    <3>2. Over(j)'
      BY <1>6, <2>3, <2>4, <2>11, <3>1 DEF Over, IsSettled, g
    <3>3. DealOf(j)' = DealOf(j)
      BY <1>2, <2>7, <2>8, <2>9, <2>11, <3>1, ReturnedDeal
    <3> QED
      BY <3>2, <3>3 DEF Moves, Staged, DealStep
  <2> QED
    BY <2>10, <2>11
<1> QED
  BY <1>4, <1>7, <1>8 DEF SettleCallback

-----------------------------------------------------------------------------
(* cleanup_completed.                                                        *)

LEMMA CleanMoves ==
    ASSUME TypeOK, TypeOK', NEW removed \in SUBSET Jobs, CleanupCompleted(removed),
           NEW j \in removed, Staged(j), ~InFlight(j)
    PROVE  Moves(j)
<1> DEFINE f == flow[j]
           e == escrows[j]
           target == escrows[j].target
           target1 == escrows'[j].target
           there == Exists(j)
           there1 == Exists(j)'
<1>1. ~InFlight(j) /\ ~InFlight(j)' /\ f \in Flow /\ f.in \in Nat /\ flow' = flow
  BY DEF CleanupCompleted, InFlight, TypeOK, Flow
<1>2. IsTerminal(e) /\ escrows'[j] = NoEscrow /\ Exists(j) /\ ~Exists(j)'
  BY DEF CleanupCompleted, IsTerminal, Exists, NoEscrow
<1>3. /\ DealOf(j) = DealFrom(f, 0, there, target)
      /\ DealOf(j)' = DealFrom(f, 0, there1, target1)
  BY <1>1, NothingDue, DealIsFrom
<1>4. Held(j) \/ Over(j)
  <2>1. e # NoEscrow
    BY <1>2 DEF Exists, NoEscrow
  <2> QED
    BY <1>1, <1>2, <2>1 DEF Staged, Gone, Asked, Settling, InFlight, IsTerminal
<1> HIDE DEF target, target1, there1
<1>5. CASE Held(j)
  <2>1. Gone(j)'
    BY <1>1, <1>2, <1>5 DEF Gone, Held
  <2>2. CASE f.in = 0
    <3>1. DealOf(j)' = DealOf(j)
      BY <1>1, <1>3, <1>5, <2>2, UnpaidDeal DEF Held
    <3> QED
      BY <2>1, <3>1 DEF Moves, Staged, DealStep
  <2>3. CASE f.in # 0
    <3>1. DealOf(j)' = Deal("dropped", f.in, 0, 0, 0)
      BY <1>1, <1>2, <1>3, <1>5, <2>3, UnpaidDeal DEF Held, there1
    <3>2. \/ DealOf(j) = Deal("approved", f.in, 0, 0, 0)
          \/ DealOf(j) = Deal("held", f.in, 0, 0, 0)
      BY <1>1, <1>2, <1>3, <1>5, <2>3, UnpaidDeal DEF Held
    <3>3. /\ DealOf(j).phase \in {"held", "approved"}
          /\ DealOf(j)' = [DealOf(j) EXCEPT !.phase = "dropped"]
      BY <3>1, <3>2 DEF Deal
    <3> QED
      BY <2>1, <3>3 DEF Moves, Staged, DealStep
  <2> QED
    BY <2>2, <2>3
<1>6. CASE Over(j)
  <2>1. /\ e.terms \in ValidTerms
        /\ PaidFor(f, e.terms) \/ Returned(f, e.terms)
    BY <1>6 DEF Over, EscrowRecord
  <2>2. Gone(j)'
    BY <1>1, <1>2, <2>1 DEF Gone
  <2>3. DealOf(j)' = DealOf(j)
    BY <1>1, <1>3, <2>1, PaidForDeal, ReturnedDeal
  <2> QED
    BY <2>2, <2>3 DEF Moves, Staged, DealStep
<1> QED
  BY <1>4, <1>5, <1>6

-----------------------------------------------------------------------------
(* The steps of other escrows.                                               *)

\* A call for the escrow j or a verdict on it.
StepOf(j) == CallShape(j) \/ Funds(j) \/ \E d \in YieldIds : Judges(j, d)

LEMMA SettlesKeeps ==
    ASSUME TypeOK, NEW j \in Jobs, NEW e \in EscrowRecord, Settles(j, e)
    PROVE  /\ \A k \in Jobs \ {j} : Kept(k)
           /\ \A b \in BatchIds : batches[b].job = j => batches'[b] = batches[b]
<1>1. /\ escrows \in [Jobs -> EscrowRecord \cup {NoEscrow}] /\ batches \in [BatchIds -> Batch]
      /\ flow \in [Jobs -> Flow]
  BY DEF TypeOK
<1>2. CASE Sends(j, e)
  <2>1. PICK b \in BatchIds :
           batches[b].phase = "free" /\ batches' = [batches EXCEPT ![b] = BatchFor(j, Prepared(e))]
    BY <1>2 DEF Sends
  <2>2. /\ batches[b].job \notin Jobs /\ batches'[b].job = j
        /\ \A c \in BatchIds \ {b} : batches'[c] = batches[c]
    BY <1>1, <2>1, FreeBatch DEF BatchFor
  <2> QED
    BY <1>1, <1>2, <2>2 DEF Kept, Sends, TokensKept
<1>3. CASE SettlesAtOnce(j, e)
  <2>1. /\ batches' = batches /\ escrows' = [escrows EXCEPT ![j] = Settled(Prepared(e))]
        /\ flow' = [flow EXCEPT ![j] = flow'[j]]
    BY <1>3 DEF SettlesAtOnce
  <2>2. \A k \in Jobs \ {j} : flow'[k] = flow[k] /\ escrows'[k] = escrows[k]
    BY <1>1, <2>1
  <2> QED
    BY <2>1, <2>2 DEF Kept
<1> QED
  BY <1>2, <1>3, SettlesHow

LEMMA StepKeeps ==
    ASSUME TypeOK, NEW j \in Jobs, StepOf(j)
    PROVE  /\ \A k \in Jobs \ {j} : Kept(k)
           /\ \A b \in BatchIds : batches[b].job = j => batches'[b] = batches[b]
<1>1. escrows \in [Jobs -> EscrowRecord \cup {NoEscrow}] /\ flow \in [Jobs -> Flow]
  BY DEF TypeOK
<1>2. CASE (\E d \in YieldIds : Judges(j, d)) \/ Refunds(j)
  BY <1>2, SettlesKeeps DEF Judges, Refunds
<1>3. CASE Creates(j) \/ Funds(j)
  BY <1>1, <1>3 DEF Creates, Funds, Kept
<1>4. CASE Takes(j) \/ Cancels(j)
  BY <1>1, <1>4 DEF Takes, Cancels, TokensKept, Kept
<1>5. CASE \E d \in YieldIds : Opens(j, d)
  BY <1>1, <1>5 DEF Opens, TokensKept, Kept
<1> QED
  BY <1>2, <1>3, <1>4, <1>5 DEF StepOf, CallShape

LEMMA BatchKeeps ==
    ASSUME TypeOK, NEW b \in BatchIds, FtExecute(b) \/ SettleCallback(b)
    PROVE  \A k \in Jobs : batches[b].job # k => Kept(k)
<1> DEFINE j == batches[b].job
<1>1. /\ escrows \in [Jobs -> EscrowRecord \cup {NoEscrow}] /\ batches \in [BatchIds -> Batch]
      /\ flow \in [Jobs -> Flow] /\ NoOne \notin Jobs
  BY EscrowAssumption DEF TypeOK
<1>2. batches[b].phase # "free" /\ j \in Jobs
  <2>1. batches[b].phase # "free" /\ batches[b] \in Batch
    BY <1>1 DEF FtExecute, SettleCallback, SettleCallbackOk, SettleCallbackFailed,
                SettleCallbackAborts
  <2> QED
    BY <2>1 DEF Batch, NoBatch
<1>3. CASE FtExecute(b)
  <2>1. /\ \A k \in Jobs \ {j} : flow'[k] = flow[k]
        /\ \E phase : batches' = [batches EXCEPT ![b].phase = phase]
    BY <1>1, <1>3 DEF FtExecute
  <2>2. batches[b] \in [job : Jobs, to : {"agent", "worker"}, amount : Nat, fee : Nat,
                        phase : {"sent", "ok", "failed"}]
    BY <1>1, <1>2 DEF Batch, NoBatch
  <2>3. batches'[b].job = j /\ \A c \in BatchIds \ {b} : batches'[c] = batches[c]
    BY <1>1, <2>1, <2>2
  <2> QED
    BY <1>3, <2>1, <2>3 DEF FtExecute, Kept
<1>4. CASE SettleCallback(b)
  <2>1. batches' = [batches EXCEPT ![b] = NoBatch]
    BY <1>4 DEF SettleCallback, SettleCallbackOk, SettleCallbackFailed, SettleCallbackAborts
  <2>2. batches'[b].job = NoOne /\ \A c \in BatchIds \ {b} : batches'[c] = batches[c]
    BY <1>1, <2>1 DEF NoBatch
  <2>3. \A k \in Jobs \ {j} : escrows'[k] = escrows[k] /\ flow'[k] = flow[k]
    BY <1>1, <1>4 DEF SettleCallback, SettleCallbackOk, SettleCallbackFailed,
                      SettleCallbackAborts, Finish
  <2> QED
    BY <1>1, <2>2, <2>3 DEF Kept
<1> QED
  BY <1>3, <1>4

\* Nothing but its batch touches an escrow whose settlement is in flight, unless
\* that disturbs it.
LEMMA InFlightKept ==
    ASSUME NEW k \in Jobs, InFlight(k), ~Overlapped(k),
           \A b \in BatchIds : batches[b].job = k => batches'[b] = batches[b]
    PROVE  Kept(k)
<1>1. \A b \in BatchesOf(k) : batches'[b] = batches[b]
  BY DEF BatchesOf
<1>2. /\ escrows'[k] = escrows[k] /\ Tokens(flow'[k]) = Tokens(flow[k])
      /\ BatchesOf(k)' = BatchesOf(k)
  BY <1>1 DEF Overlapped
<1> QED
  BY <1>1, <1>2 DEF Kept, BatchesOf

-----------------------------------------------------------------------------
(* The promises that are awaited.                                            *)

LEMMA LiveJob ==
    ASSUME TypeOK, NEW d \in YieldIds, Live(d)
    PROVE  yields[d].job \in Jobs
<1>1. yields[d] \in YieldRecord
  BY DEF TypeOK
<1> QED
  BY <1>1 DEF YieldRecord, Yield, Live

\* An escrow that awaits a promise has its deposit and no settlement in flight.
LEMMA AwaitedHeld ==
    ASSUME NEW j \in Jobs, Staged(j), escrows[j].status = "Verifying", escrows[j].target = "None"
    PROVE  Held(j)
  BY DEF Staged, Gone, Asked, Over, Settling, IsSettled, NoEscrow

-----------------------------------------------------------------------------
(* Every step, for an escrow that stays undisturbed.                         *)

LEMMA KeptMoves ==
    ASSUME NEW k \in Jobs, Staged(k), Kept(k)
    PROVE  Moves(k)
  BY KeptStage DEF Moves, DealStep

LEMMA CallMoves ==
    ASSUME TypeOK, TypeOK', NEW j \in Jobs, Staged(j), ~Overlapped(j),
           CallShape(j) \/ Funds(j)
    PROVE  Moves(j)
<1>1. CASE Funds(j)
  BY <1>1, FundMoves
<1>2. CASE CallShape(j) /\ InFlight(j)
  BY <1>2, StepKeeps, InFlightKept, KeptMoves DEF StepOf
<1>3. CASE CallShape(j) /\ ~InFlight(j)
  BY <1>3, CreateMoves, WorkMoves, RefundMoves DEF CallShape
<1> QED
  BY <1>1, <1>2, <1>3

LEMMA UndisturbedMoves ==
    ASSUME TypeOK, TypeOK', IndexInv, StageInv, [Next]_vars, NEW k \in Undisturbed, ~Disturbs(k)
    PROVE  Moves(k)
<1>1. k \in Jobs /\ Staged(k) /\ ~Overlapped(k) /\ ~HalfFailed(k) /\ ~CallbackLost(k)
  BY DEF Undisturbed, StageInv, Disturbs
<1>2. CASE Rests
  <2>1. Kept(k)
    BY <1>1, <1>2 DEF Rests, TokensKept, Kept
  <2> QED
    BY <1>1, <2>1, KeptMoves
<1>3. CASE \E j \in Jobs : CallShape(j) \/ Funds(j)
  <2>1. PICK j \in Jobs : CallShape(j) \/ Funds(j)
    BY <1>3
  <2>2. j # k => Kept(k)
    BY <1>1, <2>1, StepKeeps DEF StepOf
  <2> QED
    BY <1>1, <2>1, <2>2, KeptMoves, CallMoves
<1>4. CASE CleanupShape
  <2> PICK removed \in SUBSET Jobs : CleanupCompleted(removed)
    BY <1>4 DEF CleanupShape
  <2>1. /\ escrows' = [j \in Jobs |-> IF j \in removed THEN NoEscrow ELSE escrows[j]]
        /\ UNCHANGED <<batches, flow>>
    BY DEF CleanupCompleted
  <2>2. CASE k \notin removed \/ InFlight(k)
    <3>1. Kept(k)
      BY <1>1, <2>1, <2>2, InFlightKept DEF Kept
    <3> QED
      BY <1>1, <3>1, KeptMoves
  <2>3. CASE k \in removed /\ ~InFlight(k)
    BY <1>1, <2>3, CleanMoves
  <2> QED
    BY <2>2, <2>3
<1>5. CASE \E d \in YieldIds : YieldShape(d)
  <2>1. PICK d \in YieldIds : YieldShape(d)
    BY <1>5
  <2>2. CASE Resumes(d) \/ CallbackAborts(d) \/ CallbackStale(d)
    <3>1. Kept(k)
      BY <1>1, <2>2 DEF Resumes, CallbackAborts, CallbackStale, Kept
    <3> QED
      BY <1>1, <3>1, KeptMoves
  <2>3. CASE \E j \in Jobs : Judges(j, d)
    <3>1. PICK j \in Jobs : Judges(j, d)
      BY <2>3
    <3>2. CASE j # k
      <4>1. Kept(k)
        BY <1>1, <3>1, <3>2, StepKeeps DEF StepOf
      <4> QED
        BY <1>1, <4>1, KeptMoves
    <3>3. CASE j = k
      <4>1. Live(d) /\ yields[d].job = k
        BY <3>1, <3>3 DEF Judges
      <4>2. Awaited(d)
        BY <4>1 DEF StageInv
      <4> QED
        BY <1>1, <3>1, <3>3, <4>2, JudgeMoves
    <3> QED
      BY <3>2, <3>3
  <2> QED
    BY <2>1, <2>2, <2>3 DEF YieldShape
<1>6. CASE \E b \in BatchIds : FtExecute(b) \/ SettleCallback(b)
  <2>1. PICK b \in BatchIds : FtExecute(b) \/ SettleCallback(b)
    BY <1>6
  <2>2. CASE batches[b].job # k
    BY <1>1, <2>1, <2>2, BatchKeeps, KeptMoves
  <2>3. CASE batches[b].job = k
    BY <1>1, <2>1, <2>3, ExecuteMoves, CallbackMoves
  <2> QED
    BY <2>2, <2>3
<1> QED
  BY <1>2, <1>3, <1>4, <1>5, <1>6, NextShape DEF IndexInv

\* A new escrow with nothing left of an earlier one is undisturbed.
LEMMA MendedMoves ==
    ASSUME TypeOK, TypeOK', IndexInv, [Next]_vars, NEW k \in Jobs, Mended(k)
    PROVE  Staged(k)' /\ DealOf(k)' = Deal("idle", 0, 0, 0, 0)
<1>1. ~Exists(k) /\ Exists(k)' /\ escrows[k] = NoEscrow /\ ~InFlight(k)
  BY DEF Mended, Created, Exists, TypeOK, EscrowRecord, Statuses
<1>2. Creates(k)
  <2>1. escrows'[k] # escrows[k]
    BY <1>1 DEF Exists
  <2>2. ~Kept(k)
    BY <2>1 DEF Kept
  <2>3. CASE Rests \/ CleanupShape
    BY <1>1, <2>1, <2>3 DEF Rests, CleanupShape, CleanupCompleted
  <2>4. CASE \E j \in Jobs : CallShape(j) \/ Funds(j)
    <3>1. CallShape(k) \/ Funds(k)
      BY <2>2, <2>4, StepKeeps DEF StepOf
    <3> QED
      BY <1>1, <3>1 DEF CallShape, Funds, Takes, Opens, Cancels, Retryable, Refunds, Settles,
                        Exists, NoEscrow, EscrowRecord, Statuses
  <2>5. CASE \E d \in YieldIds : YieldShape(d)
    <3>1. PICK d \in YieldIds : YieldShape(d)
      BY <2>5
    <3>2. \A j \in Jobs : Judges(j, d) => j = k
      BY <2>2, StepKeeps DEF StepOf
    <3> QED
      BY <1>1, <2>1, <3>1, <3>2
      DEF YieldShape, Resumes, CallbackAborts, CallbackStale, Judges, NoEscrow
  <2>6. CASE \E b \in BatchIds : FtExecute(b) \/ SettleCallback(b)
    <3>1. PICK b \in BatchIds : FtExecute(b) \/ SettleCallback(b)
      BY <2>6
    <3>2. batches[b].job = k
      BY <2>2, <3>1, BatchKeeps
    <3> QED
      BY <1>1, <3>1, <3>2
      DEF InFlight, FtExecute, SettleCallback, SettleCallbackOk, SettleCallbackFailed,
          SettleCallbackAborts
  <2> QED
    BY <2>3, <2>4, <2>5, <2>6, NextShape DEF IndexInv
<1>3. PICK t \in ValidTerms : escrows' = [escrows EXCEPT ![k] = NewEscrow(t)]
  BY <1>2 DEF Creates
<1>4. /\ escrows'[k] = NewEscrow(t) /\ NewEscrow(t) \in EscrowRecord
      /\ NewEscrow(t).status = "PendingFunding" /\ NewEscrow(t).target = "None"
  BY <1>3, NewEscrowType DEF NewEscrow, TypeOK
<1>5. /\ flow'[k] = NoFlow /\ NoFlow \in Flow /\ Unpaid(NoFlow) /\ NoFlow.in = 0
      /\ ~InFlight(k)'
  BY <1>1, <1>2 DEF Creates, TypeOK, InFlight, NoFlow, Flow, Unpaid
<1>6. DealOf(k)' = Deal("idle", 0, 0, 0, 0)
  BY <1>5, NothingDue, DealIsFrom, UnpaidDeal
<1> QED
  BY <1>4, <1>5, <1>6 DEF Staged, Asked

\* A promise that is awaited stays so until it ends.
LEMMA AwaitedStays ==
    ASSUME TypeOK, IndexInv, StageInv, [Next]_vars, NEW d \in YieldIds, Live(d), Live(d)',
           yields'[d].job = yields[d].job, yields[d].job \in Undisturbed
    PROVE  Awaited(d)'
<1> DEFINE k == yields[d].job
           e == escrows[k]
<1>1. /\ k \in Jobs /\ Staged(k) /\ e.status = "Verifying" /\ e.dataId = d
      /\ e.target = "None" /\ e.since = now
  BY DEF Awaited, StageInv, Undisturbed
<1>2. Held(k) /\ e \in EscrowRecord /\ ~InFlight(k)
  BY <1>1, AwaitedHeld DEF Held
<1>3. SUFFICES escrows'[k] = e /\ now' = now
  BY <1>1 DEF Awaited
<1>4. CASE Rests
  BY <1>4 DEF Rests
<1>5. CASE \E j \in Jobs : CallShape(j) \/ Funds(j)
  <2>1. PICK j \in Jobs : CallShape(j) \/ Funds(j)
    BY <1>5
  <2>2. j # k
    <3>1. ~Stuck(e)
      BY <1>1, <1>2, EscrowAssumption DEF Stuck, EscrowRecord
    <3> QED
      BY <1>1, <2>1, <3>1 DEF CallShape, Funds, Creates, Takes, Opens, Cancels, Retryable, Refunds,
                              NoEscrow
  <2>3. Kept(k)
    BY <1>1, <2>1, <2>2, StepKeeps DEF StepOf
  <2>4. now' = now
    BY <2>1 DEF CallShape, Funds, Creates, Takes, Opens, Cancels, Refunds
  <2> QED
    BY <2>3, <2>4 DEF Kept
<1>6. CASE CleanupShape
  BY <1>1, <1>6 DEF CleanupShape, CleanupCompleted, IsTerminal
<1>7. CASE \E c \in YieldIds : YieldShape(c)
  <2>1. PICK c \in YieldIds : YieldShape(c)
    BY <1>7
  <2>2. CASE Resumes(c) \/ CallbackAborts(c) \/ CallbackStale(c)
    BY <2>2 DEF Resumes, CallbackAborts, CallbackStale
  <2>3. CASE \E j \in Jobs : Judges(j, c)
    <3>1. PICK j \in Jobs : Judges(j, c)
      BY <2>3
    <3>2. j # k
      <4>1. SUFFICES ASSUME j = k PROVE FALSE
        OBVIOUS
      <4>2. Awaited(c) /\ Ended(c)
        BY <3>1, <4>1 DEF Judges, StageInv
      <4>3. c = d
        BY <1>1, <3>1, <4>1, <4>2 DEF Awaited, Judges
      <4> QED
        BY <4>2, <4>3 DEF Ended, Live, Yield, TypeOK
    <3> QED
      BY <1>1, <3>1, <3>2, StepKeeps DEF StepOf, Kept, Judges
  <2> QED
    BY <2>1, <2>2, <2>3 DEF YieldShape
<1>8. CASE \E b \in BatchIds : FtExecute(b) \/ SettleCallback(b)
  <2>1. PICK b \in BatchIds : FtExecute(b) \/ SettleCallback(b)
    BY <1>8
  <2>2. batches[b].job # k /\ now' = now
    BY <1>2, <2>1
    DEF InFlight, FtExecute, SettleCallback, SettleCallbackOk, SettleCallbackFailed,
        SettleCallbackAborts
  <2> QED
    BY <1>1, <2>1, <2>2, BatchKeeps DEF Kept
<1> QED
  BY <1>4, <1>5, <1>6, <1>7, <1>8, NextShape DEF IndexInv

\* A live promise is an old one, or has just been created.
LEMMA LiveBefore ==
    ASSUME TypeOK, IndexInv, [Next]_vars, NEW d \in YieldIds, Live(d)'
    PROVE  \/ Live(d) /\ yields'[d].job = yields[d].job
           \/ \E j \in Jobs : Opens(j, d) /\ yields'[d].job = j
<1>1. yields \in [YieldIds -> YieldRecord]
  BY DEF TypeOK
<1>2. CASE UNCHANGED yields
  BY <1>2 DEF Live
<1>3. ASSUME NEW c \in YieldIds, Ended(c) \/ Aborted(c)
      PROVE  Live(d) /\ yields'[d].job = yields[d].job
  BY <1>1, <1>3 DEF Ended, Aborted, Yield, Live
<1>4. CASE \E j \in Jobs : CallShape(j) \/ Funds(j)
  <2>1. PICK j \in Jobs : CallShape(j) \/ Funds(j)
    BY <1>4
  <2>2. CASE \E c \in YieldIds : Opens(j, c)
    <3>1. PICK c \in YieldIds : Opens(j, c)
      BY <2>2
    <3>2. yields' = [yields EXCEPT ![c] = Yield(j, "waiting")]
      BY <3>1 DEF Opens, OpenYield
    <3>3. CASE c = d
      BY <1>1, <3>1, <3>2, <3>3 DEF Yield
    <3>4. CASE c # d
      BY <1>1, <3>2, <3>4 DEF Live
    <3> QED
      BY <3>3, <3>4
  <2>3. CASE ~ \E c \in YieldIds : Opens(j, c)
    BY <1>2, <2>1, <2>3 DEF CallShape, Funds, Creates, Takes, Cancels, Refunds
  <2> QED
    BY <2>2, <2>3
<1>5. CASE \E c \in YieldIds : YieldShape(c)
  <2>1. PICK c \in YieldIds : YieldShape(c)
    BY <1>5
  <2>2. CASE Resumes(c)
    <3>1. PICK payload \in Payload :
             /\ yields[c].phase = "waiting"
             /\ yields' = [yields EXCEPT ![c].phase = "resumed", ![c].payload = payload]
      BY <2>2 DEF Resumes
    <3>2. yields[c] \in [job : Jobs, phase : {"waiting", "resumed"}, payload : Payload]
      BY <1>1, <3>1 DEF YieldRecord, Yield
    <3>3. yields'[c] = [[yields[c] EXCEPT !.phase = "resumed"] EXCEPT !.payload = payload]
      BY <1>1, <3>1
    <3>4. yields'[c].job = yields[c].job
      BY <3>2, <3>3
    <3>5. c # d => yields'[d] = yields[d]
      BY <1>1, <3>1
    <3> QED
      BY <3>1, <3>4, <3>5 DEF Live
  <2> QED
    BY <1>3, <2>1, <2>2 DEF YieldShape, CallbackAborts, CallbackStale, Judges
<1>6. CASE Rests \/ CleanupShape \/ \E b \in BatchIds : FtExecute(b) \/ SettleCallback(b)
  BY <1>2, <1>6 DEF Rests, CleanupShape, CleanupCompleted, FtExecute, SettleCallback,
                    SettleCallbackOk, SettleCallbackFailed, SettleCallbackAborts
<1> QED
  BY <1>4, <1>5, <1>6, NextShape DEF IndexInv

\* A result submitted for an undisturbed escrow is awaited by it.
LEMMA OpenedAwaited ==
    ASSUME TypeOK, NEW j \in Jobs, NEW d \in YieldIds, Staged(j), ~Overlapped(j), Opens(j, d),
           yields'[d].job = j
    PROVE  Awaited(d)'
<1>1. PICK e \in EscrowRecord :
         /\ escrows[j].status \in {"Open", "InProgress"}
         /\ Alike(j, e) /\ e.status = "Verifying" /\ e.dataId = d /\ e.since = now
         /\ escrows' = [escrows EXCEPT ![j] = e] /\ now' = now
  BY DEF Opens
<1>2. escrows'[j] = e /\ e # escrows[j]
  BY <1>1 DEF TypeOK
<1>3. ~InFlight(j)
  BY <1>2, StepKeeps, InFlightKept DEF StepOf, CallShape, Kept
<1>4. e.target = "None"
  BY <1>1, <1>3, HeldIfUnsettled DEF Unsettled, Held, Alike
<1> QED
  BY <1>1, <1>2, <1>4 DEF Awaited

LEMMA StageStep ==
    ASSUME TypeOK, TypeOK', IndexInv, StageInv, HistoryNext
    PROVE  StageInv' /\ DealsMove
<1>1. [Next]_vars
  BY DEF HistoryNext
<1>2. ASSUME NEW k \in Undisturbed'
      PROVE  k \in Jobs /\ ~Disturbs(k) /\ (k \in Undisturbed \/ (k \in disturbed /\ Mended(k)))
  BY <1>2 DEF HistoryNext, Undisturbed
<1>3. ASSUME NEW k \in Undisturbed'
      PROVE  Staged(k)' /\ DealStep(Deals[k], Deals'[k])
  <2>1. k \in Jobs /\ k \notin disturbed' /\ Deals'[k] = DealOf(k)'
    BY DEF Undisturbed, Deals
  <2>2. CASE k \in Undisturbed
    <3>1. Deals[k] = DealOf(k)
      BY <2>1, <2>2 DEF Deals, Undisturbed
    <3> QED
      BY <1>1, <1>2, <2>1, <2>2, <3>1, UndisturbedMoves DEF Moves
  <2>3. CASE k \in disturbed /\ Mended(k)
    <3>1. Deals[k] = BrokenDeal /\ BrokenDeal.phase = "broken"
      BY <2>1, <2>3 DEF Deals, BrokenDeal
    <3> QED
      BY <1>1, <2>1, <2>3, <3>1, MendedMoves DEF DealStep
  <2> QED
    BY <1>2, <2>2, <2>3
<1>4. DealsMove
  <2>1. \A k \in Jobs : k \notin Undisturbed' => Deals'[k] = BrokenDeal
    BY DEF Undisturbed, Deals, BrokenDeal
  <2> QED
    BY <1>3, <2>1, DealsKeepPromise
<1>5. ASSUME NEW d \in YieldIds, Live(d)', yields'[d].job \in Undisturbed'
      PROVE  Awaited(d)'
  <2> PICK k \in Jobs : k = yields'[d].job
    BY <1>5 DEF Undisturbed
  <2>1. k \in Jobs /\ ~Overlapped(k) /\ (k \in Undisturbed \/ Mended(k))
    BY <1>2, <1>5 DEF Disturbs
  <2>2. CASE Live(d) /\ k = yields[d].job
    <3>1. k \in Undisturbed
      BY <2>1, <2>2 DEF Mended
    <3> QED
      BY <1>1, <1>5, <2>2, <3>1, AwaitedStays
  <2>3. CASE \E j \in Jobs : Opens(j, d) /\ k = j
    <3>1. Exists(k) /\ Opens(k, d)
      BY <2>3 DEF Opens, Exists
    <3>2. k \in Undisturbed
      BY <2>1, <3>1 DEF Mended, Created
    <3> QED
      BY <2>1, <3>1, <3>2, OpenedAwaited DEF StageInv
  <2> QED
    BY <1>1, <1>5, <2>2, <2>3, LiveBefore
<1> QED
  BY <1>3, <1>4, <1>5 DEF StageInv

-----------------------------------------------------------------------------
(* Every behaviour.                                                          *)

LEMMA StageInit == HistoryInit => StageInv /\ Promise!Init
<1> SUFFICES ASSUME HistoryInit PROVE StageInv /\ Promise!Init
  OBVIOUS
<1>1. ASSUME NEW j \in Jobs
      PROVE  Gone(j) /\ DealOf(j) = Deal("idle", 0, 0, 0, 0) /\ j \notin disturbed
  <2>1. /\ escrows[j] = NoEscrow /\ flow[j] = NoFlow /\ ~InFlight(j) /\ disturbed = {}
        /\ Unpaid(NoFlow) /\ NoFlow.in = 0 /\ NoFlow \in Flow
    BY <1>1 DEF HistoryInit, Init, InFlight, NoBatch, NoFlow, Unpaid, Flow
  <2>2. DealOf(j) = DealFrom(NoFlow, 0, Exists(j), escrows[j].target)
    BY <2>1, NothingDue, DealIsFrom
  <2> QED
    BY <2>1, <2>2, UnpaidDeal DEF Gone
<1>2. \A d \in YieldIds : ~Live(d)
  BY DEF HistoryInit, Init, Live, Yield
<1>3. Promise!Init
  BY <1>1 DEF Promise!Init, Promise!NoDeal, Deal
<1> QED
  BY <1>1, <1>2, <1>3 DEF StageInv, Staged, Undisturbed

\* The history variables restrict nothing: what holds of the contract holds here.
LEMMA HistoryIsSpec == HistorySpec => Spec
<1>1. HistoryInit => Init
  BY DEF HistoryInit
<1>2. [HistoryNext]_<<vars, historyVars>> => [Next]_vars
  BY DEF HistoryNext
<1> QED
  BY <1>1, <1>2, PTL DEF HistorySpec, Spec

LEMMA HistoryKeepsTypes == HistorySpec => [](TypeOK /\ IndexInv)
  BY HistoryIsSpec, TypeCorrect, IndexSound, PTL

LEMMA StageStutter ==
    ASSUME StageInv, UNCHANGED <<vars, historyVars>>
    PROVE  StageInv' /\ DealsMove
<1>1. \A j \in Jobs : Kept(j)
  BY DEF Kept, vars
<1>2. \A j \in Undisturbed : Staged(j)'
  BY <1>1, KeptStage DEF StageInv, Undisturbed
<1>3. \A d \in YieldIds : Live(d)' /\ yields'[d].job \in Undisturbed => Awaited(d)'
  BY DEF StageInv, Live, Awaited, vars
<1>4. Deals' = Deals
  BY DEF Deals, DealOf, AboutToCredit, Exists, vars, historyVars
<1> QED
  BY <1>2, <1>3, <1>4 DEF StageInv, Undisturbed, historyVars, DealsMove, Deals

\* Every escrow that nothing has disturbed is in one of the stages, and every
\* live promise of such an escrow is awaited by it, whatever becomes of the
\* others.
THEOREM EscrowsStaged == HistorySpec => []StageInv
<1>1. HistoryInit => StageInv
  BY StageInit
<1>2. TypeOK /\ TypeOK' /\ IndexInv /\ StageInv /\ [HistoryNext]_<<vars, historyVars>>
        => StageInv'
  BY StageStep, StageStutter
<1> QED
  BY <1>1, <1>2, HistoryKeepsTypes, PTL DEF HistorySpec

\* What the stages say of the tokens that left an escrow.
LEMMA StagePays ==
    ASSUME TypeOK, NEW j \in Jobs, Staged(j)
    PROVE  /\ Paid(j) <= flow[j].in
           /\ flow[j].agent = 0 \/ flow[j].worker + flow[j].credit = 0
           /\ IsSettled(escrows[j]) =>
                 /\ Paid(j) = flow[j].in
                 /\ escrows[j].status = "Claimed" =>
                       flow[j].worker + flow[j].credit
                          = escrows[j].terms.amount - escrows[j].terms.fee
                 /\ escrows[j].status = "Refunded" => flow[j].worker + flow[j].credit = 0
<1> DEFINE f == flow[j]
           e == escrows[j]
<1>1. f \in Flow /\ f.in \in Nat
  BY DEF TypeOK, Flow
<1>2. CASE Unpaid(f) /\ ~IsSettled(e)
  BY <1>1, <1>2 DEF Unpaid, Paid
<1>3. ASSUME NEW t \in ValidTerms, PaidFor(f, t)
      PROVE  Paid(j) = f.in /\ f.agent = 0 /\ f.worker + f.credit = t.amount - t.fee
  BY <1>1, <1>3, ValidTermsType DEF PaidFor, Paid, Flow
<1>4. ASSUME NEW t \in ValidTerms, Returned(f, t)
      PROVE  Paid(j) = f.in /\ f.worker + f.credit = 0
  BY <1>1, <1>4, ValidTermsType DEF Returned, Paid, Flow
<1>5. CASE Gone(j)
  <2>1. ~IsSettled(e)
    BY <1>5 DEF Gone, IsSettled, NoEscrow
  <2> QED
    BY <1>1, <1>2, <1>3, <1>4, <1>5, <2>1 DEF Gone
<1>6. CASE Asked(j) \/ Held(j)
  BY <1>2, <1>6 DEF Asked, Held, IsSettled, Unsettled
<1>7. CASE Over(j)
  <2>1. e.terms \in ValidTerms /\ e.status \in {"Claimed", "Refunded"}
    BY <1>7 DEF Over, EscrowRecord, IsSettled
  <2> QED
    BY <1>1, <1>3, <1>4, <1>7, <2>1 DEF Over
<1>8. ASSUME NEW b \in BatchIds, Settling(j, b)
      PROVE  Paid(j) <= f.in /\ (f.agent = 0 \/ f.worker + f.credit = 0) /\ ~IsSettled(e)
  <2>1. ~IsSettled(e) /\ e \in EscrowRecord
    BY <1>8 DEF Settling, IsSettled, Unsettled
  <2>2. CASE batches[b].phase # "ok"
    BY <1>2, <1>8, <2>1, <2>2 DEF Settling, Unpaid, Paid
  <2>3. CASE batches[b].phase = "ok"
    <3>1. /\ e.terms.amount \in Nat /\ e.terms.fee \in Nat /\ e.terms.amount - e.terms.fee \in Nat
      BY <2>1, TermsType
    <3>2. /\ BatchFor(j, e).to \in {"agent", "worker"} /\ BatchFor(j, e).amount \in Nat
          /\ BatchFor(j, e).fee \in Nat
          /\ BatchFor(j, e).amount + BatchFor(j, e).fee <= e.terms.amount
      BY <3>1 DEF BatchFor
    <3>3. /\ f.in = e.terms.amount /\ f.credit = 0 /\ f.owner = BatchFor(j, e).fee
          /\ f.agent = IF BatchFor(j, e).to = "agent" THEN BatchFor(j, e).amount ELSE 0
          /\ f.worker = IF BatchFor(j, e).to = "worker" THEN BatchFor(j, e).amount ELSE 0
      BY <1>8, <2>3 DEF Settling
    <3> QED
      BY <2>1, <3>1, <3>2, <3>3 DEF Paid
  <2> QED
    BY <2>2, <2>3
<1> QED
  BY <1>5, <1>6, <1>7, <1>8, <1>2 DEF Staged

-----------------------------------------------------------------------------
(* What follows from the stages. *)

\* A settlement, its retries and the expiry that follows them never pay out more
\* than the tokens that came in for an escrow, unless a call overlapped with
\* them, a batch failed by half or a callback was lost.
THEOREM NeverOverpaidHolds == HistorySpec => []NeverOverpaid
<1>1. TypeOK /\ StageInv => NeverOverpaid
  BY StagePays DEF StageInv, NeverOverpaid, Undisturbed
<1> QED
  BY <1>1, HistoryKeepsTypes, EscrowsStaged, PTL

\* The agent and the worker of an undisturbed escrow are never both paid.
THEOREM OneSidePaidHolds == HistorySpec => []OneSidePaid
<1>1. TypeOK /\ StageInv => OneSidePaid
  BY StagePays DEF StageInv, OneSidePaid, Undisturbed
<1> QED
  BY <1>1, HistoryKeepsTypes, EscrowsStaged, PTL

\* An undisturbed escrow that is Claimed or Refunded has paid out all it held,
\* and to the side its status names.
THEOREM SettledInFullHolds == HistorySpec => []SettledInFull
<1>1. TypeOK /\ StageInv => SettledInFull
  BY StagePays DEF StageInv, SettledInFull, Undisturbed
<1> QED
  BY <1>1, HistoryKeepsTypes, EscrowsStaged, PTL

\* A promise that can still deliver a verdict to an undisturbed escrow is the
\* one that this escrow is waiting for.
THEOREM LiveYieldOwnedHolds == HistorySpec => []LiveYieldOwned
<1>1. StageInv => LiveYieldOwned
  BY DEF StageInv, Awaited, LiveYieldOwned
<1> QED
  BY <1>1, EscrowsStaged, PTL

\* The contract implements EscrowPromise: every step on the tokens of an escrow,
\* whichever call, callback or retry makes it, is one that the promise allows,
\* and a step that disturbs one escrow breaks no other deal.
THEOREM KeepsPromiseHolds == HistorySpec => KeepsPromise
<1>1. HistoryInit => Promise!Init
  BY StageInit
<1>2. /\ TypeOK /\ TypeOK' /\ IndexInv /\ StageInv /\ [HistoryNext]_<<vars, historyVars>>
         => DealsMove
  BY StageStep, StageStutter
<1>3. HistorySpec => [][DealsMove]_<<vars, historyVars>>
  BY <1>2, HistoryKeepsTypes, EscrowsStaged, PTL DEF HistorySpec
<1>4. (UNCHANGED <<vars, historyVars>>) => (UNCHANGED Deals)
  BY DEF Deals, DealOf, AboutToCredit, Exists, vars, historyVars
<1>5. HistorySpec => [][Promise!Next]_Deals
  BY <1>3, <1>4, PTL DEF DealsMove
<1>6. HistorySpec => Promise!Init
  BY <1>1, PTL DEF HistorySpec
<1> QED
  BY <1>5, <1>6, PTL DEF KeepsPromise, Promise!Spec, Deals
=============================================================================
