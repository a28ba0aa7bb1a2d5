--------------------------- MODULE AgentMsigProofs ---------------------------
(***************************************************************************)
(* Proofs about the agent's wallet, for all keys, actions, limits and      *)
(* submitters.  MsigInv is the inductive invariant: the log is as long as  *)
(* the nonce says, a call in flight has an entry, and no entry is younger  *)
(* than last_action_block.  SpendingInv adds what the counters of the      *)
(* spending window know of the log, which the two limits rest on.          *)
(***************************************************************************)
EXTENDS RelayerProperties, TLAPS

\* The log is the sequence of nonces, and every dispatched call is in it.
Logged ==
    /\ Len(log) = msig.nonce
    /\ \A i \in 1 .. Len(log) : log[i].msg.nonce = i
    /\ \A n \in Nonces : calls[n].phase # "none" => n \in 1 .. Len(log)
    /\ \A n \in Nonces : calls[n].phase = "moved" => log[n].msg.action.kind = "fund"

BlocksInOrder ==
    /\ msig.lastAction <= block
    /\ \A i \in 1 .. Len(log) : log[i].block <= msig.lastAction

\* An escrow that exists was created with a token.
TokensKnown == \A j \in Jobs : jobs[j].status # "Absent" => jobs[j].token \in Tokens

MsigInv == MsigTypeOK /\ Logged /\ BlocksInOrder /\ TokensKnown

-----------------------------------------------------------------------------
(* What execute does to the wallet's record and to the log.                *)

\* _enforce_spending_limit: the counters after an action.
LEMMA CountedFields ==
    ASSUME MsigTypeOK, NEW a \in Actions
    PROVE  LET counts == MovesValue(a) /\ msig.limits.daily > 0 IN
           /\ Counted(a) \in MsigRecord
           /\ Counted(a).nonce = msig.nonce /\ Counted(a).key = msig.key
           /\ Counted(a).lastAction = msig.lastAction /\ Counted(a).limits = msig.limits
           /\ Counted(a).spent = IF counts THEN NewTotal(a) ELSE msig.spent
           /\ Counted(a).windowStart = IF counts /\ WindowOver THEN block ELSE msig.windowStart
<1>1. a.amount \in Nat /\ NewTotal(a) \in Nat
  BY MsigAssumption DEF MsigTypeOK, MsigRecord, Action, NewTotal
<1> HIDE DEF NewTotal
<1>2. block \in Nat /\ msig \in MsigRecord
  BY DEF MsigTypeOK
<1> QED
  BY <1>1, <1>2 DEF Counted, MsigRecord

LEMMA ExecutedFields ==
    ASSUME MsigTypeOK, NEW m \in Messages, m.nonce = msig.nonce + 1
    PROVE  LET counts == MovesValue(m.action) /\ msig.limits.daily > 0 IN
           /\ Executed(m) \in MsigRecord
           /\ Executed(m).nonce = m.nonce /\ Executed(m).lastAction = block
           /\ Executed(m).limits = msig.limits
           /\ Executed(m).spent = IF counts THEN NewTotal(m.action) ELSE msig.spent
           /\ Executed(m).windowStart = Counted(m.action).windowStart
           /\ m.action.kind # "rotate" => Executed(m).key = msig.key
<1> DEFINE c == Counted(m.action)
<1>1. m.action \in Actions /\ m.nonce \in 0 .. MaxNonce
  BY DEF Messages
<1>2. m.action.kind = "rotate" => m.action.key \in Keys
  BY <1>1, MsigAssumption
<1>3. c \in MsigRecord /\ c.limits = msig.limits /\ c.key = msig.key
  BY <1>1, CountedFields
<1>4. c.spent = IF MovesValue(m.action) /\ msig.limits.daily > 0 THEN NewTotal(m.action) ELSE msig.spent
  BY <1>1, CountedFields
<1>5. block \in Nat
  BY DEF MsigTypeOK
<1>6. Executed(m) = [c EXCEPT !.nonce = m.nonce, !.lastAction = block,
                              !.key = IF m.action.kind = "rotate" THEN m.action.key ELSE @]
  BY DEF Executed
<1> HIDE DEF c
<1>7. Executed(m) \in MsigRecord
  BY <1>1, <1>2, <1>3, <1>5, <1>6 DEF MsigRecord
<1>8. Executed(m).spent = c.spent /\ Executed(m).windowStart = c.windowStart
  BY <1>3, <1>6 DEF MsigRecord
<1>9. /\ Executed(m).nonce = m.nonce /\ Executed(m).lastAction = block
      /\ Executed(m).limits = c.limits
      /\ m.action.kind # "rotate" => Executed(m).key = c.key
  BY <1>3, <1>6 DEF MsigRecord
<1> QED
  BY <1>3, <1>4, <1>7, <1>8, <1>9 DEF c

\* The entry of an execution.
LEMMA RecordFields ==
    ASSUME MsigTypeOK, NEW m \in Messages
    PROVE  /\ Record(m) \in Entry
           /\ Record(m).msg = m /\ Record(m).block = block
           /\ Record(m).limit = msig.limits.daily
           /\ Record(m).window = Counted(m.action).windowStart
           /\ Record(m).value = ActionValue(m.action)
           /\ Record(m).total = LogTotal + ActionValue(m.action)
<1>1. m.action \in Actions
  BY DEF Messages
<1>2. ActionValue(m.action) \in Nat
  BY <1>1, MsigAssumption DEF ActionValue, Action
<1>3. LogTotal \in Nat
  <2>1. log # << >> => log[Len(log)] \in Entry
    BY DEF MsigTypeOK
  <2> QED
    BY <2>1 DEF LogTotal, Entry
<1>4. Counted(m.action).windowStart \in Nat
  BY <1>1, CountedFields DEF MsigRecord
<1>5. block \in Nat /\ msig.limits.daily \in Nat
  BY DEF MsigTypeOK, MsigRecord, Limit
<1> QED
  BY <1>2, <1>3, <1>4, <1>5 DEF Record, Entry

\* An execution adds one entry at the end of the log.
LEMMA LogAfterExecute ==
    ASSUME MsigTypeOK, NEW s \in Submitters, NEW m \in Messages, Execute(s, m)
    PROVE  /\ log' \in Seq(Entry)
           /\ Len(log) \in Nat /\ Len(log') = Len(log) + 1
           /\ \A i \in 1 .. Len(log) : log'[i] = log[i]
           /\ log'[Len(log) + 1] = Record(m)
<1>1. Record(m) \in Entry
  BY RecordFields
<1>2. log \in Seq(Entry) /\ log' = Append(log, Record(m))
  BY DEF MsigTypeOK, Execute
<1> QED
  BY <1>1, <1>2

-----------------------------------------------------------------------------
(* MsigInv is inductive.                                                   *)

LEMMA MsigInitInv == MsigInit => MsigInv
<1> SUFFICES ASSUME MsigInit PROVE MsigInv
  OBVIOUS
<1>1. msig \in MsigRecord
  BY MsigAssumption DEF MsigInit, MsigRecord, Limit
<1>2. calls \in [Nonces -> Call] /\ jobs \in [Jobs -> Job]
  BY DEF MsigInit, Call, NoCall, Phases, Job, NoJob, JobStatuses
<1>3. /\ funds \in [Tokens -> Nat] /\ near \in Nat /\ block \in Nat
      /\ log \in Seq(Entry) /\ Len(log) = 0
  BY MsigAssumption DEF MsigInit
<1>4. Logged
  BY <1>3 DEF MsigInit, Logged, NoCall, MsigRecord
<1>5. BlocksInOrder
  BY <1>3 DEF MsigInit, BlocksInOrder, MsigRecord
<1>6. TokensKnown
  BY DEF MsigInit, TokensKnown, NoJob
<1> QED
  BY <1>1, <1>2, <1>3, <1>4, <1>5, <1>6 DEF MsigInv, MsigTypeOK

\* execute: the nonce and the log grow together.
LEMMA ExecuteInv ==
    ASSUME MsigInv, NEW s \in Submitters, NEW m \in Messages, Execute(s, m)
    PROVE  MsigInv'
<1> DEFINE c == [phase |-> IF m.action.kind = "rotate" THEN "action_succeeded" ELSE "sent",
                 signer |-> s]
<1>1. MsigTypeOK /\ m.nonce = msig.nonce + 1 /\ m.nonce \in Nonces /\ m.action \in Actions
  BY DEF MsigInv, Execute, CanExecute, Messages, Nonces
<1>2. /\ log' \in Seq(Entry)
      /\ Len(log) \in Nat /\ Len(log') = Len(log) + 1
      /\ \A i \in 1 .. Len(log) : log'[i] = log[i]
      /\ log'[Len(log) + 1] = Record(m)
  BY <1>1, LogAfterExecute
<1>3. Record(m).msg = m /\ Record(m).block = block
  BY <1>1, RecordFields
<1>4. /\ msig' \in MsigRecord /\ msig'.nonce = m.nonce /\ msig'.lastAction = block
  BY <1>1, ExecutedFields DEF Execute
<1>5. near' \in Nat
  <2>1. Attached(m.action) \in Nat
    BY <1>1, MsigAssumption DEF Attached, Action
  <2>2. Attached(m.action) <= near /\ near \in Nat /\ near' = near - Attached(m.action)
    BY DEF Execute, CanExecute, MsigInv, MsigTypeOK
  <2> HIDE DEF Attached
  <2> QED
    BY <2>1, <2>2
<1>6. calls' = [calls EXCEPT ![m.nonce] = c] /\ calls \in [Nonces -> Call] /\ c \in Call
  BY DEF Execute, MsigInv, MsigTypeOK, Call, Phases
<1>7. MsigTypeOK'
  BY <1>2, <1>4, <1>5, <1>6 DEF MsigTypeOK, Execute, MsigInv
<1>8. Logged'
  <2>1. Len(log) = msig.nonce /\ Len(log') = m.nonce
    BY <1>1, <1>2 DEF MsigInv, Logged
  <2>2. \A i \in 1 .. Len(log') : log'[i].msg.nonce = i
    BY <1>2, <1>3, <2>1 DEF MsigInv, Logged
  <2>3. \A n \in Nonces : n # m.nonce => calls'[n] = calls[n]
    BY <1>6
  <2>4. calls'[m.nonce].phase # "moved"
    BY <1>1, <1>6
  <2>5. ASSUME NEW n \in Nonces, n # m.nonce, calls'[n].phase # "none"
        PROVE  n \in 1 .. Len(log) /\ (calls'[n].phase = "moved" => log[n].msg.action.kind = "fund")
    BY <2>3, <2>5 DEF MsigInv, Logged
  <2>6. m.nonce \in 1 .. Len(log')
    BY <1>1, <2>1 DEF Nonces
  <2>7. \A n \in Nonces : calls'[n].phase # "none" => n \in 1 .. Len(log')
    BY <1>2, <2>5, <2>6
  <2>8. \A n \in Nonces : calls'[n].phase = "moved" => log'[n].msg.action.kind = "fund"
    BY <1>2, <2>4, <2>5
  <2> QED
    BY <1>4, <2>1, <2>2, <2>7, <2>8 DEF Logged
<1>9. BlocksInOrder'
  <2>1. \A i \in 1 .. Len(log) : log[i].block <= block
    <3>1. \A i \in 1 .. Len(log) : log[i] \in Entry
      BY DEF MsigInv, MsigTypeOK
    <3>2. \A i \in 1 .. Len(log) : log[i].block \in Nat
      BY <3>1 DEF Entry
    <3>3. msig.lastAction \in Nat /\ block \in Nat
      BY DEF MsigInv, MsigTypeOK, MsigRecord
    <3> QED
      BY <3>2, <3>3 DEF MsigInv, BlocksInOrder
  <2>2. block' = block /\ block \in Nat
    BY DEF Execute, MsigInv, MsigTypeOK
  <2> QED
    BY <1>2, <1>3, <1>4, <2>1, <2>2 DEF BlocksInOrder
<1>10. TokensKnown'
  BY DEF MsigInv, TokensKnown, Execute
<1> QED
  BY <1>7, <1>8, <1>9, <1>10 DEF MsigInv

\* Rewriting a call that is in the log, and no other, keeps Logged.
LEMMA CallEnds ==
    ASSUME MsigInv, NEW n \in Nonces, calls[n].phase # "none", NEW p \in Phases, Ends(n, p),
           p = "moved" => Arg(n).kind = "fund", UNCHANGED <<msig, block, log>>
    PROVE  calls' \in [Nonces -> Call] /\ Logged' /\ BlocksInOrder'
<1>1. calls \in [Nonces -> Call] /\ calls' = [calls EXCEPT ![n].phase = p]
  BY DEF MsigInv, MsigTypeOK, Ends
<1>2. calls' \in [Nonces -> Call]
  BY <1>1 DEF Call
<1>3. calls'[n].phase = p /\ \A k \in Nonces : k # n => calls'[k] = calls[k]
  BY <1>1 DEF Call
<1>4. Logged'
  BY <1>3 DEF MsigInv, Logged, Arg
<1> QED
  BY <1>2, <1>4 DEF MsigInv, BlocksInOrder

\* What a call in flight carries.
LEMMA ArgType ==
    ASSUME MsigInv, NEW n \in Nonces, calls[n].phase # "none"
    PROVE  /\ n \in 1 .. Len(log) /\ log[n] \in Entry /\ Arg(n) \in Actions
           /\ Arg(n).amount \in Nat
           /\ Arg(n).kind \in {"create", "fund", "cancel", "designate"} => Arg(n).job \in Jobs
           /\ Arg(n).kind \in {"create", "fund", "register"} => Arg(n).token \in Tokens
           /\ Arg(n).token \in Tokens \cup {NoOne}
<1>1. n \in 1 .. Len(log) /\ log \in Seq(Entry)
  BY DEF MsigInv, Logged, MsigTypeOK
<1>2. log[n] \in Entry
  BY <1>1
<1>3. Arg(n) \in Actions
  BY <1>2 DEF Entry, Messages, Arg
<1> HIDE DEF Arg
<1>4. Arg(n).amount \in Nat /\ Arg(n).token \in Tokens \cup {NoOne}
  BY <1>3, MsigAssumption DEF Action
<1> QED
  BY <1>1, <1>2, <1>3, <1>4, MsigAssumption

\* A balance changed by a credit or by a debit that it covers.
LEMMA FundsType ==
    ASSUME funds \in [Tokens -> Nat], NEW t \in Tokens, NEW a \in Nat
    PROVE  /\ [funds EXCEPT ![t] = @ + a] \in [Tokens -> Nat]
           /\ a <= funds[t] => [funds EXCEPT ![t] = @ - a] \in [Tokens -> Nat]
<1>1. [funds EXCEPT ![t] = @ + a] \in [Tokens -> Nat]
  OBVIOUS
<1>2. ASSUME a <= funds[t]
      PROVE  [funds EXCEPT ![t] = @ - a] \in [Tokens -> Nat]
  BY <1>2
<1> QED
  BY <1>1, <1>2

\* What a dispatched call does in the contract it goes to.
LEMMA RunCallInv ==
    ASSUME MsigInv, NEW n \in Nonces, RunCall(n)
    PROVE  MsigInv'
<1> DEFINE a == Arg(n)
<1>1. /\ funds \in [Tokens -> Nat] /\ near \in Nat /\ jobs \in [Jobs -> Job]
      /\ StorageDeposit \in Nat /\ UNCHANGED <<msig, block, log>>
  BY MsigAssumption DEF MsigInv, MsigTypeOK, RunCall
<1>2. calls[n].phase # "none"
  BY DEF RunCall, CreateEscrow, SendFunds, FundEscrow, CancelEscrow, DesignateWinner,
         RegisterToken, Withdraw, CallFails, Runs
<1>3. a.amount \in Nat /\ a.token \in Tokens \cup {NoOne}
  BY <1>2, ArgType
<1>4. Attached(a) \in Nat
  BY <1>1, <1>3 DEF Attached
<1>5. ASSUME NEW p \in Phases, Ends(n, p), p = "moved" => a.kind = "fund",
             jobs' \in [Jobs -> Job], funds' \in [Tokens -> Nat], near' \in Nat, TokensKnown'
      PROVE  MsigInv'
  <2>1. calls' \in [Nonces -> Call] /\ Logged' /\ BlocksInOrder'
    BY <1>1, <1>2, <1>5, CallEnds
  <2> QED
    BY <1>1, <1>5, <2>1 DEF MsigInv, MsigTypeOK
<1>6. UNCHANGED jobs => TokensKnown' /\ jobs' \in [Jobs -> Job]
  BY <1>1 DEF MsigInv, TokensKnown
<1>7. ASSUME NEW j \in Jobs, NEW st \in JobStatuses \ {"Absent"}, jobs[j].status # "Absent",
             jobs' = [jobs EXCEPT ![j].status = st]
      PROVE  TokensKnown' /\ jobs' \in [Jobs -> Job]
  <2>1. jobs' \in [Jobs -> Job]
    BY <1>1, <1>7 DEF Job
  <2>2. \A k \in Jobs : jobs'[k].token = jobs[k].token /\ (k # j => jobs'[k] = jobs[k])
    BY <1>1, <1>7 DEF Job
  <2> QED
    BY <1>7, <2>1, <2>2 DEF MsigInv, TokensKnown
<1>8. CASE CreateEscrow(n)
  <2>1. a.job \in Jobs /\ a.token \in Tokens /\ calls[n].signer \in Submitters \cup {NoOne}
    BY <1>2, <1>8, ArgType DEF CreateEscrow, Runs, Arg, MsigInv, MsigTypeOK, Call
  <2>2. NewJob(n) \in Job /\ NewJob(n).token \in Tokens
    BY <1>3, <2>1 DEF NewJob, Job, JobStatuses
  <2>3. jobs' \in [Jobs -> Job] /\ TokensKnown'
    BY <1>1, <1>8, <2>1, <2>2 DEF CreateEscrow, MsigInv, TokensKnown
  <2> QED
    BY <1>1, <1>5, <1>8, <2>3 DEF CreateEscrow, Phases
<1>9. CASE SendFunds(n)
  <2>1. a.kind = "fund"
    BY <1>9 DEF SendFunds, Runs, Arg
  <2>2. funds' \in [Tokens -> Nat]
    BY <1>1, <1>2, <1>3, <1>9, <2>1, ArgType, FundsType DEF SendFunds
  <2> QED
    BY <1>1, <1>5, <1>6, <1>9, <2>1, <2>2 DEF SendFunds, Phases
<1>10. CASE FundEscrow(n)
  <2>1. a.kind = "fund" /\ a.job \in Jobs /\ a.token \in Tokens
    BY <1>2, <1>10, ArgType DEF FundEscrow, MsigInv, Logged, Arg
  <2>2. CASE Accepts(n)
    <3>1. jobs' = [jobs EXCEPT ![a.job].status = "Open"] /\ jobs[a.job].status # "Absent"
      BY <1>10, <2>2 DEF FundEscrow, Accepts
    <3>2. "Open" \in JobStatuses \ {"Absent"}
      BY DEF JobStatuses
    <3>3. TokensKnown' /\ jobs' \in [Jobs -> Job]
      BY <1>7, <2>1, <3>1, <3>2
    <3> QED
      BY <1>1, <1>5, <1>10, <2>2, <3>3 DEF FundEscrow, Phases
  <2>3. CASE ~Accepts(n)
    <3>1. funds' \in [Tokens -> Nat]
      BY <1>1, <1>3, <1>10, <2>1, <2>3, FundsType DEF FundEscrow
    <3> QED
      BY <1>1, <1>5, <1>6, <1>10, <2>3, <3>1 DEF FundEscrow, Phases
  <2> QED
    BY <2>2, <2>3
<1>11. CASE CancelEscrow(n)
  <2>1. a.job \in Jobs
    BY <1>2, <1>11, ArgType DEF CancelEscrow, Runs, Arg
  <2>2. PICK st \in {"Refunding", "Cancelled"} : jobs' = [jobs EXCEPT ![a.job].status = st]
    BY <1>1, <2>1, <1>11 DEF CancelEscrow
  <2>3. TokensKnown' /\ jobs' \in [Jobs -> Job]
    BY <1>7, <1>11, <2>1, <2>2 DEF JobStatuses, CancelEscrow
  <2>4. near' \in Nat
    BY <1>1, <1>11 DEF CancelEscrow
  <2> QED
    BY <1>1, <1>5, <1>11, <2>3, <2>4 DEF CancelEscrow, Phases
<1>12. CASE DesignateWinner(n)
  <2>1. a.job \in Jobs
    BY <1>2, <1>12, ArgType DEF DesignateWinner, Runs, Arg
  <2>2. "Verifying" \in JobStatuses \ {"Absent"}
    BY DEF JobStatuses
  <2>3. jobs[a.job].status # "Absent" /\ jobs' = [jobs EXCEPT ![a.job].status = "Verifying"]
    BY <1>12 DEF DesignateWinner
  <2>4. TokensKnown' /\ jobs' \in [Jobs -> Job]
    BY <1>7, <2>1, <2>2, <2>3
  <2> QED
    BY <1>1, <1>5, <1>12, <2>4 DEF DesignateWinner, Phases
<1>13. CASE RegisterToken(n)
  BY <1>1, <1>5, <1>6, <1>13 DEF RegisterToken, Phases
<1>14. CASE Withdraw(n)
  <2>1. funds' \in [Tokens -> Nat]
    BY <1>1, <1>3, <1>14, FundsType DEF Withdraw
  <2> QED
    BY <1>1, <1>5, <1>6, <1>14, <2>1 DEF Withdraw, Phases
<1>15. CASE CallFails(n)
  <2>1. near' \in Nat
    BY <1>1, <1>4, <1>15 DEF CallFails
  <2> QED
    BY <1>1, <1>5, <1>6, <1>15, <2>1 DEF CallFails, Phases
<1> HIDE DEF a
<1> QED
  BY <1>8, <1>9, <1>10, <1>11, <1>12, <1>13, <1>14, <1>15 DEF RunCall

\* Every other action of the wallet and of its owner.
LEMMA OtherInv ==
    ASSUME MsigInv,
           \/ \E n \in Nonces : OnActionCallback(n)
           \/ \E j \in Jobs : RefundArrives(j)
           \/ Owner \/ (\E t \in Tokens : FtOnTransfer(t)) \/ Tick \/ UNCHANGED msigVars
    PROVE  MsigInv'
<1>1. CASE \E n \in Nonces : OnActionCallback(n)
  <2>1. PICK n \in Nonces : OnActionCallback(n)
    BY <1>1
  <2>2. PICK p \in {"action_succeeded", "action_failed"} : Ends(n, p)
    BY <2>1 DEF OnActionCallback
  <2>3. p \in Phases /\ calls[n].phase # "none" /\ UNCHANGED <<msig, jobs, funds, near, block, log>>
    BY <2>1 DEF OnActionCallback, Phases
  <2>4. calls' \in [Nonces -> Call] /\ Logged' /\ BlocksInOrder'
    BY <2>2, <2>3, CallEnds
  <2> QED
    BY <2>3, <2>4 DEF MsigInv, MsigTypeOK, TokensKnown
<1>2. CASE \E j \in Jobs : RefundArrives(j)
  <2>1. PICK j \in Jobs : RefundArrives(j)
    BY <1>2
  <2>2. jobs \in [Jobs -> Job] /\ jobs[j].token \in Tokens /\ jobs[j].amount \in Nat
    BY <2>1 DEF RefundArrives, MsigInv, MsigTypeOK, TokensKnown, Job
  <2>3. jobs' \in [Jobs -> Job] /\ TokensKnown'
    BY <2>1, <2>2 DEF RefundArrives, MsigInv, TokensKnown, Job, JobStatuses
  <2>4. funds' \in [Tokens -> Nat] /\ near' \in Nat
    <3>1. funds \in [Tokens -> Nat] /\ near \in Nat /\ StorageDeposit \in Nat
      BY MsigAssumption DEF MsigInv, MsigTypeOK
    <3>2. [funds EXCEPT ![jobs[j].token] = @ + jobs[j].amount] \in [Tokens -> Nat]
      BY <2>2, <3>1, FundsType
    <3> QED
      BY <2>1, <3>1, <3>2 DEF RefundArrives
  <2> QED
    BY <2>1, <2>3, <2>4 DEF RefundArrives, MsigInv, MsigTypeOK, Logged, BlocksInOrder
<1>3. CASE Owner
  <2>1. msig' \in MsigRecord /\ msig'.nonce = msig.nonce /\ msig'.lastAction = msig.lastAction
    BY <1>3, MsigAssumption
    DEF Owner, ForceRotate, SetAllowedTokens, SetSpendingLimits, MsigInv, MsigTypeOK, MsigRecord
  <2>2. UNCHANGED <<calls, jobs, funds, near, block, log>>
    BY <1>3 DEF Owner, ForceRotate, SetAllowedTokens, SetSpendingLimits
  <2> QED
    BY <2>1, <2>2 DEF MsigInv, MsigTypeOK, Logged, BlocksInOrder, TokensKnown
<1>4. CASE \E t \in Tokens : FtOnTransfer(t)
  <2>1. funds' \in [Tokens -> Nat]
    BY <1>4, FundsType DEF FtOnTransfer, MsigInv, MsigTypeOK
  <2> QED
    BY <1>4, <2>1 DEF FtOnTransfer, MsigInv, MsigTypeOK, Logged, BlocksInOrder, TokensKnown
<1>5. CASE Tick
  BY <1>5 DEF Tick, MsigInv, MsigTypeOK, MsigRecord, Logged, BlocksInOrder, TokensKnown
<1>6. CASE UNCHANGED msigVars
  BY <1>6 DEF msigVars, MsigInv, MsigTypeOK, Logged, BlocksInOrder, TokensKnown
<1> QED
  BY <1>1, <1>2, <1>3, <1>4, <1>5, <1>6

LEMMA MsigStepInv == MsigInv /\ [MsigNext]_msigVars => MsigInv'
<1> SUFFICES ASSUME MsigInv, [MsigNext]_msigVars PROVE MsigInv'
  OBVIOUS
<1>1. CASE \E s \in Submitters, m \in Messages : Execute(s, m)
  BY <1>1, ExecuteInv
<1>2. CASE \E n \in Nonces : RunCall(n)
  BY <1>2, RunCallInv
<1>3. CASE ~(\E s \in Submitters, m \in Messages : Execute(s, m)) /\ ~(\E n \in Nonces : RunCall(n))
  BY <1>3, OtherInv DEF MsigNext, Chain
<1> QED
  BY <1>1, <1>2, <1>3

\* The wallet's state keeps its types under everything that can happen to it: the
\* nonce within what was executed, every balance and counter a natural number, no
\* attached deposit beyond the wallet's balance.
THEOREM WalletSound == MsigSpec => []MsigInv
<1>1. MsigInit => MsigInv
  BY MsigInitInv
<1>2. MsigInv /\ [MsigNext]_msigVars => MsigInv'
  BY MsigStepInv
<1> QED
  BY <1>1, <1>2, PTL DEF MsigSpec

-----------------------------------------------------------------------------
(* Replay protection.                                                      *)

\* Whatever is submitted, by whom and how often, the log holds the nonces 1, 2,
\* 3 ... once each (ExecutedOnce, execute 218-227).
THEOREM MsigExecutedOnce == MsigSpec => []ExecutedOnce
<1>1. MsigInv => ExecutedOnce
  <2> SUFFICES ASSUME MsigInv PROVE ExecutedOnce
    OBVIOUS
  <2>1. DOMAIN log = 1 .. Len(log) /\ \A i \in 1 .. Len(log) : log[i].msg.nonce = i
    BY DEF MsigInv, MsigTypeOK, Logged
  <2> QED
    BY <2>1 DEF ExecutedOnce
<1> QED
  BY <1>1, WalletSound, PTL

-----------------------------------------------------------------------------
(* Who may fund.                                                           *)

\* Two facts about the escrows that the wallet's calls reach: one whose agent is
\* the wallet was created in a transaction that the wallet signed, and one that
\* was funded has the wallet as its agent.
JobsOwned ==
    \A j \in Jobs :
        /\ jobs[j].agent = Msig => CreatedBySelf(j)
        /\ jobs[j].status \in {"Open", "Verifying", "Refunding"} => jobs[j].agent = Msig

LEMMA CreatedKept ==
    ASSUME MsigInv, [MsigNext]_msigVars, NEW j \in Jobs, CreatedBySelf(j)
    PROVE  CreatedBySelf(j)'
<1>1. PICK i \in DOMAIN log : /\ log[i].msg.action.kind = "create" /\ log[i].msg.action.job = j
                              /\ calls[i].signer = Msig
  BY DEF CreatedBySelf
<1>2. /\ i \in 1 .. Len(log) /\ log \in Seq(Entry) /\ calls \in [Nonces -> Call]
      /\ Len(log) = msig.nonce /\ msig.nonce \in 0 .. MaxNonce
  BY <1>1 DEF MsigInv, MsigTypeOK, Logged, MsigRecord
<1>3. i \in Nonces
  BY <1>2, MsigAssumption DEF Nonces
<1>4. SUFFICES i \in DOMAIN log' /\ log'[i] = log[i] /\ calls'[i].signer = calls[i].signer
  BY <1>1 DEF CreatedBySelf
<1>5. CASE \E s \in Submitters, m \in Messages : Execute(s, m)
  <2>1. PICK s \in Submitters, m \in Messages : Execute(s, m)
    BY <1>5
  <2>2. i \in 1 .. Len(log') /\ log'[i] = log[i] /\ log' \in Seq(Entry)
    BY <1>2, <2>1, LogAfterExecute DEF MsigInv
  <2>3. m.nonce # i /\ calls'[i] = calls[i]
    BY <1>2, <1>3, <2>1 DEF Execute, CanExecute
  <2> QED
    BY <1>2, <1>3, <2>2, <2>3
<1>6. CASE \E n \in Nonces : RunCall(n) \/ OnActionCallback(n)
  <2>1. log' = log /\ \E n \in Nonces, p \in Phases : calls' = [calls EXCEPT ![n].phase = p]
    BY <1>6 DEF RunCall, CreateEscrow, SendFunds, FundEscrow, CancelEscrow, DesignateWinner,
                RegisterToken, Withdraw, CallFails, OnActionCallback, Ends, Phases
  <2> QED
    BY <1>1, <1>2, <1>3, <2>1 DEF Call
<1>7. CASE UNCHANGED <<log, calls>>
  BY <1>1, <1>7
<1> QED
  BY <1>5, <1>6, <1>7
  DEF MsigNext, Chain, RefundArrives, Owner, ForceRotate, SetAllowedTokens, SetSpendingLimits,
      FtOnTransfer, Tick, msigVars

\* The escrow side: only create_escrow names an agent, and only ft_on_transfer,
\* which compares it with the wallet, opens an escrow.
LEMMA JobsOwnedStep ==
    ASSUME MsigInv, JobsOwned, [MsigNext]_msigVars
    PROVE  JobsOwned'
<1>1. \A j \in Jobs : CreatedBySelf(j) => CreatedBySelf(j)'
  BY CreatedKept
<1>2. jobs \in [Jobs -> Job]
  BY DEF MsigInv, MsigTypeOK
<1>3. ASSUME NEW j \in Jobs, NEW st \in JobStatuses, jobs' = [jobs EXCEPT ![j].status = st],
             st \in {"Open", "Verifying", "Refunding"} => jobs[j].agent = Msig
      PROVE  JobsOwned'
  <2>1. \A k \in Jobs : jobs'[k].agent = jobs[k].agent /\ (k # j => jobs'[k] = jobs[k])
    BY <1>2, <1>3 DEF Job
  <2>2. jobs'[j].status = st
    BY <1>2, <1>3 DEF Job
  <2> QED
    BY <1>1, <1>3, <2>1, <2>2 DEF JobsOwned
<1>4. CASE UNCHANGED jobs
  BY <1>1, <1>4 DEF JobsOwned
<1>5. ASSUME NEW n \in Nonces, CreateEscrow(n), UNCHANGED log
      PROVE  JobsOwned'
  <2>0. Arg(n).job \in Jobs /\ Arg(n).kind = "create" /\ n \in DOMAIN log
    BY <1>5, ArgType DEF CreateEscrow, Runs, Arg, MsigInv, MsigTypeOK
  <2>1. PICK j \in Jobs : j = Arg(n).job
    BY <2>0
  <2>2. jobs' = [jobs EXCEPT ![j] = NewJob(n)]
    BY <1>5, <2>1 DEF CreateEscrow
  <2>3. calls'[n].signer = calls[n].signer
    BY <1>5 DEF CreateEscrow, Ends, MsigInv, MsigTypeOK, Call
  <2>4. NewJob(n).agent = Msig => CreatedBySelf(j)'
    BY <1>5, <2>0, <2>1, <2>3 DEF NewJob, CreatedBySelf, Arg
  <2>5. NewJob(n).status = "PendingFunding"
    BY DEF NewJob
  <2>6. jobs'[j] = NewJob(n) /\ \A k \in Jobs : k # j => jobs'[k] = jobs[k]
    BY <1>2, <2>1, <2>2
  <2> QED
    BY <1>1, <2>4, <2>5, <2>6 DEF JobsOwned
<1>6. ASSUME NEW n \in Nonces, RunCall(n)
      PROVE  JobsOwned'
  <2>1. CASE CreateEscrow(n)
    BY <1>5, <1>6, <2>1 DEF RunCall
  <2>2. CASE FundEscrow(n)
    <3>1. Arg(n).job \in Jobs
      BY <2>2, ArgType DEF FundEscrow, MsigInv, Logged, Arg
    <3>2. "Open" \in JobStatuses
      BY DEF JobStatuses
    <3>3. CASE Accepts(n)
      BY <1>3, <2>2, <3>1, <3>2, <3>3 DEF FundEscrow, Accepts
    <3>4. CASE ~Accepts(n)
      BY <1>4, <2>2, <3>4 DEF FundEscrow
    <3> QED
      BY <3>3, <3>4
  <2>3. CASE CancelEscrow(n)
    <3>1. Arg(n).job \in Jobs
      BY <2>3, ArgType DEF CancelEscrow, Runs, Arg
    <3>2. PICK st \in {"Refunding", "Cancelled"} :
              /\ jobs' = [jobs EXCEPT ![Arg(n).job].status = st]
              /\ st = "Refunding" => jobs[Arg(n).job].status = "Open"
      BY <1>2, <2>3, <3>1 DEF CancelEscrow
    <3>3. st \in JobStatuses /\ (st = "Refunding" => jobs[Arg(n).job].agent = Msig)
      BY <3>1, <3>2 DEF JobStatuses, JobsOwned
    <3> QED
      BY <1>3, <3>1, <3>2, <3>3
  <2>4. CASE DesignateWinner(n)
    <3>1. Arg(n).job \in Jobs /\ "Verifying" \in JobStatuses
      BY <2>4, ArgType DEF DesignateWinner, Runs, Arg, JobStatuses
    <3> QED
      BY <1>3, <2>4, <3>1 DEF DesignateWinner
  <2>5. CASE UNCHANGED jobs
    BY <1>4, <2>5
  <2> QED
    BY <1>6, <2>1, <2>2, <2>3, <2>4, <2>5 DEF RunCall, SendFunds, RegisterToken, Withdraw, CallFails
<1>7. ASSUME NEW j \in Jobs, RefundArrives(j)
      PROVE  JobsOwned'
  BY <1>3, <1>7 DEF RefundArrives, JobStatuses
<1> QED
  BY <1>4, <1>6, <1>7
  DEF MsigNext, Chain, Execute, OnActionCallback, Owner, ForceRotate, SetAllowedTokens,
      SetSpendingLimits, FtOnTransfer, Tick, msigVars

\* How far the violation of FundsAccepted goes: what the wallet deposits is kept
\* only for an escrow that it created in a transaction of its own account, under a
\* relayer never.
THEOREM MsigFundedBySelfOnly == MsigSpec => []FundedBySelfOnly
<1>1. MsigInit => JobsOwned
  BY MsigAssumption DEF MsigInit, JobsOwned, NoJob
<1>2. MsigInv /\ JobsOwned /\ [MsigNext]_msigVars => JobsOwned'
  BY JobsOwnedStep
<1>3. JobsOwned => FundedBySelfOnly
  BY DEF JobsOwned, FundedBySelfOnly
<1> QED
  BY <1>1, <1>2, <1>3, WalletSound, PTL DEF MsigSpec

-----------------------------------------------------------------------------
(* The two limits on what the wallet spends, for all limits, cooldowns and    *)
(* actions, whatever the owner changes in between.                            *)
(*                                                                            *)
(* Neither limit is inductive: the contract keeps one counter and one block   *)
(* height, the limits are about stretches of the log.  SpendingInv says what  *)
(* the counter knows of the log: it covers what was spent since any entry of  *)
(* the current window (Covers), and together with one full limit what was     *)
(* spent since any entry shortly before it (CoversPrevious).                  *)

\* Windows and blocks only grow along the log.
WindowsInOrder ==
    /\ msig.windowStart <= block
    /\ \A i \in 1 .. Len(log) :
          /\ log[i].window <= msig.windowStart
          /\ log[i].window < msig.windowStart => log[i].block <= msig.windowStart
    /\ \A i, k \in 1 .. Len(log) : i <= k => /\ log[i].window <= log[k].window
                                             /\ log[i].block <= log[k].block

Covers ==
    \A i \in 1 .. Len(log) :
        log[i].window = msig.windowStart /\ SameLimit(i, Len(log))
            => SpentBetween(i, Len(log)) <= msig.spent

CoversPrevious ==
    \A i \in 1 .. Len(log) :
        /\ log[i].window < msig.windowStart
        /\ msig.windowStart - log[i].block < Cooldown
        /\ SameLimit(i, Len(log))
        => SpentBetween(i, Len(log)) <= log[Len(log)].limit + msig.spent

SpendingInv ==
    MsigInv /\ WindowsInOrder /\ Covers /\ CoversPrevious /\ WindowWithinLimit /\ SlidingLimit

-----------------------------------------------------------------------------
\* The numbers of an entry and of the wallet.
LEMMA Numbers ==
    ASSUME MsigInv
    PROVE  /\ \A i \in 1 .. Len(log) : /\ log[i].block \in Nat /\ log[i].window \in Nat
                                       /\ log[i].limit \in Nat /\ log[i].value \in Nat
                                       /\ log[i].total \in Nat
           /\ msig.spent \in Nat /\ msig.windowStart \in Nat /\ block \in Nat
           /\ msig.limits.daily \in Nat /\ msig.limits.max \in Nat
           /\ Len(log) \in Nat /\ DOMAIN log = 1 .. Len(log) /\ Cooldown \in Nat \ {0}
<1>1. \A i \in 1 .. Len(log) : log[i] \in Entry
  BY DEF MsigInv, MsigTypeOK
<1>2. Len(log) \in Nat /\ DOMAIN log = 1 .. Len(log)
  BY DEF MsigInv, MsigTypeOK
<1> QED
  BY <1>1, <1>2, MsigAssumption DEF MsigInv, MsigTypeOK, MsigRecord, Limit, Entry

LEMMA SpentIsInt ==
    ASSUME MsigInv, NEW k \in 1 .. Len(log), NEW i \in 1 .. k
    PROVE  SpentBetween(i, k) \in Int
<1>1. i \in 1 .. Len(log)
  BY Numbers
<1>2. log[k].total \in Nat /\ log[i].total \in Nat /\ log[i].value \in Nat
  BY <1>1, Numbers
<1> QED
  BY <1>2 DEF SpentBetween

\* What an execution does to the counter and the window, and what it counts.
LEMMA ExecuteSpends ==
    ASSUME MsigInv, NEW s \in Submitters, NEW m \in Messages, Execute(s, m)
    PROVE  LET L == Len(log)
               v == ActionValue(m.action)
               daily == msig.limits.daily
           IN
           /\ v \in Nat
           /\ log'[L + 1].block = block /\ log'[L + 1].limit = daily
           /\ log'[L + 1].value = v /\ log'[L + 1].total = LogTotal + v
           /\ log'[L + 1].window = msig'.windowStart
           /\ block' = block
           /\ \/ /\ block - msig.windowStart >= Cooldown
                 /\ msig'.windowStart = block /\ msig'.spent = v /\ v <= daily
              \/ /\ msig'.windowStart = msig.windowStart
                 /\ msig'.spent = msig.spent + v /\ msig'.spent <= daily
              \/ /\ msig'.windowStart = msig.windowStart
                 /\ msig'.spent = msig.spent
                 /\ daily = 0 \/ v = 0
<1> DEFINE a == m.action
           daily == msig.limits.daily
<1>1. MsigTypeOK /\ m.nonce = msig.nonce + 1 /\ a \in Actions /\ a.amount \in Nat
  BY MsigAssumption DEF MsigInv, Execute, CanExecute, Messages, Action
<1>2. /\ Executed(m).windowStart = Counted(a).windowStart
      /\ Executed(m).spent = IF MovesValue(a) /\ daily > 0 THEN NewTotal(a) ELSE msig.spent
      /\ msig' = Executed(m)
  BY <1>1, ExecutedFields DEF Execute
<1>3. Counted(a).windowStart =
        IF (MovesValue(a) /\ daily > 0) /\ WindowOver THEN block ELSE msig.windowStart
  BY <1>1, CountedFields
<1>4. /\ Record(m).block = block /\ Record(m).limit = daily
      /\ Record(m).window = msig'.windowStart
      /\ Record(m).value = ActionValue(a) /\ Record(m).total = LogTotal + ActionValue(a)
  BY <1>1, <1>2, RecordFields
<1>5. log'[Len(log) + 1] = Record(m)
  BY <1>1, LogAfterExecute
<1>6. ActionValue(a) = IF MovesValue(a) THEN a.amount ELSE 0
  BY DEF ActionValue
<1>7. MovesValue(a) /\ daily > 0 => NewTotal(a) <= daily
  BY DEF Execute, CanExecute, WithinLimits
<1>8. NewTotal(a) = IF WindowOver THEN a.amount ELSE msig.spent + a.amount
  BY <1>1 DEF NewTotal, MsigTypeOK, MsigRecord
<1>9. msig.spent \in Nat /\ daily \in Nat
  BY Numbers
<1>10. block' = block
  BY DEF Execute
<1> HIDE DEF a, daily
<1>11. \/ /\ WindowOver
          /\ msig'.windowStart = block /\ msig'.spent = ActionValue(a) /\ ActionValue(a) <= daily
       \/ /\ msig'.windowStart = msig.windowStart
          /\ msig'.spent = msig.spent + ActionValue(a) /\ msig'.spent <= daily
       \/ /\ msig'.windowStart = msig.windowStart
          /\ msig'.spent = msig.spent
          /\ daily = 0 \/ ActionValue(a) = 0
  <2>1. CASE MovesValue(a) /\ daily > 0
    BY <1>2, <1>3, <1>6, <1>7, <1>8, <2>1
  <2>2. CASE ~(MovesValue(a) /\ daily > 0)
    BY <1>2, <1>3, <1>6, <1>9, <2>2
  <2> QED
    BY <2>1, <2>2
<1> QED
  BY <1>1, <1>4, <1>5, <1>6, <1>10, <1>11 DEF a, daily, WindowOver

\* How the sums over the log grow by one entry.
LEMMA SumsAfterExecute ==
    ASSUME MsigInv, NEW s \in Submitters, NEW m \in Messages, Execute(s, m),
           NEW L \in Nat, L = Len(log)
    PROVE  LET v == ActionValue(m.action) IN
           /\ \A k \in 1 .. L : \A i \in 1 .. k :
                 /\ SpentBetween(i, k)' = SpentBetween(i, k)
                 /\ SameLimit(i, k)' <=> SameLimit(i, k)
           /\ \A i \in 1 .. L : SpentBetween(i, L + 1)' = SpentBetween(i, L) + v
           /\ SpentBetween(L + 1, L + 1)' = v
           /\ \A i \in 1 .. L : SameLimit(i, L + 1)' =>
                 SameLimit(i, L) /\ log[L].limit = msig.limits.daily
           /\ \A i \in 1 .. L + 1 : SameLimit(i, L + 1)' => msig.limits.daily > 0
<1> DEFINE v == ActionValue(m.action)
<1>1. \A i \in 1 .. L : log'[i] = log[i]
  BY LogAfterExecute DEF MsigInv
<1>2. /\ v \in Nat /\ log'[L + 1].value = v /\ log'[L + 1].total = LogTotal + v
      /\ log'[L + 1].limit = msig.limits.daily
  BY ExecuteSpends
<1>3. \A i \in 1 .. L : log[i].total \in Nat /\ log[i].value \in Nat
  BY Numbers
<1>4. L > 0 => LogTotal = log[L].total
  BY <1>1 DEF LogTotal
<1>5. LogTotal \in Nat
  BY <1>1, <1>3, <1>4 DEF LogTotal, MsigInv, MsigTypeOK
<1> HIDE DEF v
<1>6. \A k \in 1 .. L : \A i \in 1 .. k : SpentBetween(i, k)' = SpentBetween(i, k)
  BY <1>1 DEF SpentBetween
<1>7. ASSUME NEW k \in 1 .. L, NEW i \in 1 .. k
      PROVE  SameLimit(i, k)' <=> SameLimit(i, k)
  <2>1. log'[k] = log[k] /\ \A x \in i .. k : log'[x] = log[x]
    BY <1>1
  <2> QED
    BY <2>1 DEF SameLimit
<1>8. \A i \in 1 .. L : SpentBetween(i, L + 1)' = SpentBetween(i, L) + v
  BY <1>1, <1>2, <1>3, <1>4 DEF SpentBetween
<1>9. SpentBetween(L + 1, L + 1)' = v
  BY <1>2, <1>5 DEF SpentBetween
<1>10. \A i \in 1 .. L : SameLimit(i, L + 1)' => SameLimit(i, L) /\ log[L].limit = msig.limits.daily
  BY <1>1, <1>2 DEF SameLimit
<1>11. \A i \in 1 .. L + 1 : SameLimit(i, L + 1)' => msig.limits.daily > 0
  BY <1>1, <1>2 DEF SameLimit
<1> QED
  BY <1>6, <1>7, <1>8, <1>9, <1>10, <1>11 DEF v

-----------------------------------------------------------------------------
(* One lemma per part of SpendingInv: what an execution does to it.        *)

LEMMA WindowsStep ==
    ASSUME MsigInv, WindowsInOrder, NEW s \in Submitters, NEW m \in Messages, Execute(s, m)
    PROVE  WindowsInOrder'
<1>1. PICK L \in Nat : L = Len(log) /\ Len(log') = L + 1 /\ \A i \in 1 .. L : log'[i] = log[i]
  BY LogAfterExecute DEF MsigInv
<1>2. /\ log'[L + 1].block = block /\ log'[L + 1].window = msig'.windowStart /\ block' = block
      /\ \/ block - msig.windowStart >= Cooldown /\ msig'.windowStart = block
         \/ msig'.windowStart = msig.windowStart
  BY <1>1, ExecuteSpends
<1>3. /\ \A i \in 1 .. L : log[i].block \in Nat /\ log[i].window \in Nat /\ log[i].block <= block
      /\ msig.windowStart \in Nat /\ block \in Nat /\ msig.lastAction \in Nat
      /\ Cooldown \in Nat
  BY <1>1, Numbers DEF MsigInv, BlocksInOrder, MsigTypeOK, MsigRecord
<1>4. msig'.windowStart <= block' /\ msig'.windowStart >= msig.windowStart
  BY <1>2, <1>3 DEF WindowsInOrder
<1>5. ASSUME NEW i \in 1 .. L + 1
      PROVE  /\ log'[i].window <= msig'.windowStart
             /\ log'[i].window < msig'.windowStart => log'[i].block <= msig'.windowStart
  <2>1. CASE i = L + 1
    BY <1>2, <1>3, <2>1
  <2>2. CASE i \in 1 .. L
    <3>1. /\ log'[i] = log[i] /\ log[i].window <= msig.windowStart
          /\ log[i].window < msig.windowStart => log[i].block <= msig.windowStart
          /\ log[i].block \in Nat /\ log[i].window \in Nat /\ log[i].block <= block
      BY <1>1, <1>3, <2>2 DEF WindowsInOrder
    <3> QED
      BY <1>2, <1>3, <3>1
  <2> QED
    BY <2>1, <2>2
<1>6. ASSUME NEW i \in 1 .. L + 1, NEW k \in 1 .. L + 1, i <= k
      PROVE  log'[i].window <= log'[k].window /\ log'[i].block <= log'[k].block
  <2>1. CASE k = L + 1
    BY <1>1, <1>2, <1>3, <1>5, <1>6, <2>1
  <2>2. CASE k \in 1 .. L
    BY <1>1, <1>6, <2>2 DEF WindowsInOrder
  <2> QED
    BY <1>1, <2>1, <2>2
<1> QED
  BY <1>1, <1>4, <1>5, <1>6 DEF WindowsInOrder

\* While no new window starts, and one starts with an amount that it covers.
LEMMA CoversStep ==
    ASSUME SpendingInv, NEW s \in Submitters, NEW m \in Messages, Execute(s, m)
    PROVE  Covers'
<1>1. PICK L \in Nat : L = Len(log) /\ Len(log') = L + 1 /\ \A i \in 1 .. L : log'[i] = log[i]
  BY LogAfterExecute DEF SpendingInv, MsigInv
<1> DEFINE v == ActionValue(m.action)
<1>2. /\ v \in Nat /\ log'[L + 1].window = msig'.windowStart
      /\ \/ /\ block - msig.windowStart >= Cooldown
            /\ msig'.windowStart = block /\ msig'.spent = v
         \/ /\ msig'.windowStart = msig.windowStart
            /\ msig'.spent = msig.spent + v
         \/ /\ msig'.windowStart = msig.windowStart
            /\ msig'.spent = msig.spent
            /\ msig.limits.daily = 0 \/ v = 0
  BY <1>1, ExecuteSpends DEF SpendingInv
<1>3. /\ \A i \in 1 .. L : SpentBetween(i, L + 1)' = SpentBetween(i, L) + v
      /\ SpentBetween(L + 1, L + 1)' = v
      /\ \A i \in 1 .. L : SameLimit(i, L + 1)' => SameLimit(i, L)
      /\ \A i \in 1 .. L + 1 : SameLimit(i, L + 1)' => msig.limits.daily > 0
  BY <1>1, SumsAfterExecute DEF SpendingInv
<1>4. /\ \A i \in 1 .. L : log[i].window \in Nat /\ log[i].window <= msig.windowStart
      /\ \A i \in 1 .. L : SpentBetween(i, L) \in Int
      /\ msig.windowStart \in Nat /\ msig.spent \in Nat /\ block \in Nat /\ Cooldown \in Nat \ {0}
      /\ msig.limits.daily \in Nat
  <2>1. \A i \in 1 .. L : log[i].window <= msig.windowStart
    BY <1>1 DEF SpendingInv, WindowsInOrder
  <2>2. \A i \in 1 .. L : log[i].total \in Nat /\ log[i].value \in Nat /\ L \in 1 .. L
    BY <1>1, Numbers DEF SpendingInv
  <2>3. \A i \in 1 .. L : SpentBetween(i, L) \in Int
    BY <2>2 DEF SpentBetween
  <2> QED
    BY <1>1, <2>1, <2>3, Numbers DEF SpendingInv
<1> HIDE DEF v
<1>5. ASSUME NEW i \in 1 .. L, log'[i].window = msig'.windowStart, SameLimit(i, L + 1)'
      PROVE  SpentBetween(i, L + 1)' <= msig'.spent
  <2>0. log'[i] = log[i] /\ log[i].window <= msig.windowStart /\ log[i].window \in Nat
    BY <1>1, <1>4
  <2>1. msig'.windowStart = msig.windowStart
    BY <1>2, <1>4, <1>5, <2>0
  <2>2. SpentBetween(i, L) <= msig.spent
    BY <1>1, <1>3, <1>5, <2>1 DEF SpendingInv, Covers
  <2>3. SpentBetween(i, L + 1)' = SpentBetween(i, L) + v /\ msig.limits.daily > 0
    BY <1>3, <1>5
  <2>4. msig'.spent = msig.spent + v
    BY <1>2, <1>4, <1>5, <2>0, <2>3
  <2> QED
    BY <1>2, <1>4, <2>2, <2>3, <2>4
<1>6. ASSUME SameLimit(L + 1, L + 1)'
      PROVE  SpentBetween(L + 1, L + 1)' <= msig'.spent
  BY <1>2, <1>3, <1>4, <1>6
<1>7. ASSUME NEW i \in 1 .. L + 1, log'[i].window = msig'.windowStart, SameLimit(i, L + 1)'
      PROVE  SpentBetween(i, L + 1)' <= msig'.spent
  BY <1>5, <1>6, <1>7
<1> QED
  BY <1>1, <1>7 DEF Covers

\* An entry of the current window sees the last entry in it too.
LEMMA LastInWindow ==
    ASSUME SpendingInv, NEW L \in Nat, L = Len(log), NEW i \in 1 .. L,
           log[i].window = msig.windowStart
    PROVE  log[i].window = log[L].window
<1>1. log[i].window <= log[L].window /\ log[L].window <= msig.windowStart
  BY DEF SpendingInv, WindowsInOrder
<1>2. log[i].window \in Nat /\ log[L].window \in Nat /\ msig.windowStart \in Nat
  BY Numbers DEF SpendingInv
<1> QED
  BY <1>1, <1>2

\* The check against the counter keeps the window within its limit; an action that
\* counts nothing leaves it at what it was.
LEMMA WindowLimitStep ==
    ASSUME SpendingInv, Covers', NEW s \in Submitters, NEW m \in Messages, Execute(s, m)
    PROVE  WindowWithinLimit'
<1>1. PICK L \in Nat : L = Len(log) /\ Len(log') = L + 1 /\ \A i \in 1 .. L : log'[i] = log[i]
  BY LogAfterExecute DEF SpendingInv, MsigInv
<1> DEFINE v == ActionValue(m.action)
           daily == msig.limits.daily
<1>2. /\ v \in Nat /\ log'[L + 1].window = msig'.windowStart /\ log'[L + 1].limit = daily
      /\ \/ msig'.spent = v /\ v <= daily
         \/ msig'.spent = msig.spent + v /\ msig'.spent <= daily
         \/ msig'.windowStart = msig.windowStart /\ (daily = 0 \/ v = 0)
  BY <1>1, ExecuteSpends DEF SpendingInv
<1>3. /\ \A k \in 1 .. L : \A i \in 1 .. k : /\ SpentBetween(i, k)' = SpentBetween(i, k)
                                             /\ SameLimit(i, k)' <=> SameLimit(i, k)
      /\ \A i \in 1 .. L : SpentBetween(i, L + 1)' = SpentBetween(i, L) + v
      /\ SpentBetween(L + 1, L + 1)' = v
      /\ \A i \in 1 .. L : SameLimit(i, L + 1)' => SameLimit(i, L) /\ log[L].limit = daily
      /\ \A i \in 1 .. L + 1 : SameLimit(i, L + 1)' => daily > 0
  BY <1>1, SumsAfterExecute DEF SpendingInv
<1>4. /\ DOMAIN log = 1 .. L /\ DOMAIN log' = 1 .. L + 1
      /\ msig.spent \in Nat /\ daily \in Nat
  <2>1. log' \in Seq(Entry)
    BY LogAfterExecute DEF SpendingInv, MsigInv
  <2> QED
    BY <1>1, <2>1, Numbers DEF SpendingInv
<1> HIDE DEF v, daily
<1>5. ASSUME NEW k \in 1 .. L, NEW i \in 1 .. k, SameLimit(i, k)', log'[i].window = log'[k].window
      PROVE  SpentBetween(i, k)' <= log'[k].limit
  <2>1. log'[i] = log[i] /\ log'[k] = log[k] /\ SameLimit(i, k)
    BY <1>1, <1>3, <1>5
  <2> QED
    BY <1>3, <1>4, <1>5, <2>1 DEF SpendingInv, WindowWithinLimit
<1>6. ASSUME NEW i \in 1 .. L, SameLimit(i, L + 1)', log'[i].window = log'[L + 1].window
      PROVE  SpentBetween(i, L + 1)' <= log'[L + 1].limit
  <2>1. log'[i] = log[i] /\ SpentBetween(i, L + 1)' <= msig'.spent
    BY <1>1, <1>2, <1>6 DEF Covers
  <2>2. L \in 1 .. L /\ i \in 1 .. L /\ SpentBetween(i, L) \in Int
    BY <1>1, SpentIsInt DEF SpendingInv
  <2>3. CASE msig'.windowStart = msig.windowStart /\ (daily = 0 \/ v = 0)
    <3>1. log[i].window = msig.windowStart /\ v = 0 /\ log[L].limit = daily /\ SameLimit(i, L)
      BY <1>2, <1>3, <1>4, <1>6, <2>1, <2>3
    <3>2. log[i].window = log[L].window
      BY <1>1, <3>1, LastInWindow
    <3>3. SpentBetween(i, L) <= log[L].limit
      BY <1>4, <2>2, <3>1, <3>2 DEF SpendingInv, WindowWithinLimit
    <3> QED
      BY <1>2, <1>3, <2>2, <3>1, <3>3
  <2>4. CASE msig'.spent \in Nat /\ msig'.spent <= daily
    <3>1. SpentBetween(i, L + 1)' \in Int
      BY <1>2, <1>3, <2>2
    <3> QED
      BY <1>2, <1>4, <2>1, <2>4, <3>1
  <2> QED
    BY <1>2, <1>4, <2>3, <2>4
<1>7. ASSUME SameLimit(L + 1, L + 1)'
      PROVE  SpentBetween(L + 1, L + 1)' <= log'[L + 1].limit
  BY <1>2, <1>3, <1>4, <1>7
<1>8. ASSUME NEW k \in 1 .. L + 1, NEW i \in 1 .. k, SameLimit(i, k)', log'[i].window = log'[k].window
      PROVE  SpentBetween(i, k)' <= log'[k].limit
  <2>1. CASE k \in 1 .. L
    BY <1>5, <1>8, <2>1
  <2>2. CASE k = L + 1 /\ i = L + 1
    BY <1>7, <1>8, <2>2
  <2>3. CASE k = L + 1 /\ i \in 1 .. L
    BY <1>6, <1>8, <2>3
  <2> QED
    BY <2>1, <2>2, <2>3
<1> QED
  BY <1>4, <1>8 DEF WindowWithinLimit

\* A new window starts at least a cooldown after the old one did: an entry that is
\* younger than that is of the old window, which was within its limit.
LEMMA CoversPreviousStep ==
    ASSUME SpendingInv, NEW s \in Submitters, NEW m \in Messages, Execute(s, m)
    PROVE  CoversPrevious'
<1>1. PICK L \in Nat : L = Len(log) /\ Len(log') = L + 1 /\ \A i \in 1 .. L : log'[i] = log[i]
  BY LogAfterExecute DEF SpendingInv, MsigInv
<1> DEFINE v == ActionValue(m.action)
           daily == msig.limits.daily
<1>2. /\ v \in Nat /\ log'[L + 1].window = msig'.windowStart /\ log'[L + 1].limit = daily
      /\ \/ /\ block - msig.windowStart >= Cooldown
            /\ msig'.windowStart = block /\ msig'.spent = v
         \/ msig'.windowStart = msig.windowStart /\ msig'.spent = msig.spent + v
         \/ msig'.windowStart = msig.windowStart /\ msig'.spent = msig.spent /\ (daily = 0 \/ v = 0)
  BY <1>1, ExecuteSpends DEF SpendingInv
<1>3. /\ \A i \in 1 .. L : SpentBetween(i, L + 1)' = SpentBetween(i, L) + v
      /\ \A i \in 1 .. L : SameLimit(i, L + 1)' => SameLimit(i, L) /\ log[L].limit = daily
      /\ \A i \in 1 .. L + 1 : SameLimit(i, L + 1)' => daily > 0
  BY <1>1, SumsAfterExecute DEF SpendingInv
<1>4. /\ \A i \in 1 .. L : log[i].block \in Nat /\ log[i].window \in Nat
      /\ msig.windowStart \in Nat /\ msig.spent \in Nat /\ block \in Nat
      /\ daily \in Nat /\ Cooldown \in Nat \ {0} /\ DOMAIN log = 1 .. L
  BY <1>1, Numbers DEF SpendingInv
<1> HIDE DEF v, daily
<1>5. ASSUME NEW i \in 1 .. L, log'[i].window < msig'.windowStart,
             msig'.windowStart - log'[i].block < Cooldown, SameLimit(i, L + 1)'
      PROVE  SpentBetween(i, L + 1)' <= log'[L + 1].limit + msig'.spent
  <2>1. /\ log'[i] = log[i] /\ SameLimit(i, L) /\ log[L].limit = daily /\ daily > 0
        /\ log[i].window <= msig.windowStart
        /\ log[i].window < msig.windowStart => log[i].block <= msig.windowStart
    BY <1>1, <1>3, <1>5 DEF SpendingInv, WindowsInOrder
  <2>2. L \in 1 .. L /\ i \in 1 .. L /\ SpentBetween(i, L) \in Int
    BY <1>1, SpentIsInt DEF SpendingInv
  <2>3. CASE msig'.windowStart = msig.windowStart
    <3>1. SpentBetween(i, L) <= daily + msig.spent
      BY <1>1, <1>5, <2>1, <2>3 DEF SpendingInv, CoversPrevious
    <3>2. msig'.spent = msig.spent + v
      BY <1>2, <1>4, <2>1, <2>3
    <3>3. SpentBetween(i, L + 1)' = SpentBetween(i, L) + v
      BY <1>3
    <3> QED
      BY <1>2, <1>4, <2>2, <3>1, <3>2, <3>3
  <2>4. CASE block - msig.windowStart >= Cooldown /\ msig'.windowStart = block /\ msig'.spent = v
    <3>0. log[i].block > msig.windowStart
      BY <1>4, <1>5, <2>1, <2>4
    <3>1. log[i].window = msig.windowStart
      BY <1>4, <2>1, <3>0
    <3>2. log[i].window = log[L].window
      BY <1>1, <3>1, LastInWindow
    <3>3. SpentBetween(i, L) <= daily
      BY <1>4, <2>1, <2>2, <3>2 DEF SpendingInv, WindowWithinLimit
    <3> QED
      BY <1>2, <1>3, <1>4, <2>2, <2>4, <3>3
  <2> QED
    BY <1>2, <2>3, <2>4
<1>6. msig'.windowStart \in Nat
  BY <1>2, <1>4
<1>7. ASSUME NEW i \in 1 .. L + 1, log'[i].window < msig'.windowStart,
             msig'.windowStart - log'[i].block < Cooldown, SameLimit(i, L + 1)'
      PROVE  SpentBetween(i, L + 1)' <= log'[L + 1].limit + msig'.spent
  <2>1. i # L + 1
    BY <1>2, <1>6, <1>7
  <2>2. i \in 1 .. L
    BY <2>1
  <2> QED
    BY <1>5, <1>7, <2>2
<1> QED
  BY <1>1, <1>7 DEF CoversPrevious

\* An entry less than a cooldown old is of the current window, which is within
\* its limit, or of the one before it, and then one more limit covers it.
LEMMA SlidingStep ==
    ASSUME SpendingInv, NEW s \in Submitters, NEW m \in Messages, Execute(s, m),
           WindowsInOrder', WindowWithinLimit', CoversPrevious'
    PROVE  SlidingLimit'
<1>1. PICK L \in Nat : L = Len(log) /\ Len(log') = L + 1 /\ \A i \in 1 .. L : log'[i] = log[i]
  BY LogAfterExecute DEF SpendingInv, MsigInv
<1> DEFINE v == ActionValue(m.action)
           daily == msig.limits.daily
<1>2. /\ v \in Nat /\ block' = block
      /\ log'[L + 1].window = msig'.windowStart /\ log'[L + 1].limit = daily
      /\ log'[L + 1].block = block
      /\ \/ /\ block - msig.windowStart >= Cooldown
            /\ msig'.windowStart = block /\ msig'.spent = v /\ v <= daily
         \/ /\ msig'.windowStart = msig.windowStart
            /\ msig'.spent = msig.spent + v /\ msig'.spent <= daily
         \/ msig'.windowStart = msig.windowStart /\ msig'.spent = msig.spent /\ (daily = 0 \/ v = 0)
  BY <1>1, ExecuteSpends DEF SpendingInv
<1>3. /\ \A k \in 1 .. L : \A i \in 1 .. k :
            SpentBetween(i, k)' = SpentBetween(i, k) /\ (SameLimit(i, k)' <=> SameLimit(i, k))
      /\ \A i \in 1 .. L : SpentBetween(i, L + 1)' = SpentBetween(i, L) + v
      /\ SpentBetween(L + 1, L + 1)' = v
      /\ \A i \in 1 .. L : SameLimit(i, L + 1)' => SameLimit(i, L) /\ log[L].limit = daily
      /\ \A i \in 1 .. L + 1 : SameLimit(i, L + 1)' => daily > 0
  BY <1>1, SumsAfterExecute DEF SpendingInv
<1>4. /\ \A i \in 1 .. L : log[i].block \in Nat /\ log[i].window \in Nat
      /\ msig.windowStart \in Nat /\ msig.spent \in Nat /\ block \in Nat
      /\ daily \in Nat /\ Cooldown \in Nat \ {0}
      /\ DOMAIN log = 1 .. L /\ DOMAIN log' = 1 .. L + 1
  BY <1>1, Numbers, LogAfterExecute DEF SpendingInv, MsigInv
<1> HIDE DEF v, daily
<1>5. msig'.windowStart \in Nat /\ msig'.spent \in Nat
  BY <1>2, <1>4
<1>6. ASSUME NEW k \in 1 .. L, NEW i \in 1 .. k, SameLimit(i, k)',
             log'[k].block - log'[i].block < Cooldown
      PROVE  SpentBetween(i, k)' <= 2 * log'[k].limit
  <2>1. k \in DOMAIN log /\ i \in 1 .. L
    BY <1>4, <1>6
  <2>2. SpentBetween(i, k)' = SpentBetween(i, k) /\ SameLimit(i, k)
    BY <1>3, <1>6
  <2>3. log'[k] = log[k] /\ log'[i] = log[i]
    BY <1>1, <2>1
  <2> QED
    BY <1>6, <2>1, <2>2, <2>3 DEF SpendingInv, SlidingLimit
<1>7. ASSUME NEW i \in 1 .. L, SameLimit(i, L + 1)', log'[L + 1].block - log'[i].block < Cooldown
      PROVE  SpentBetween(i, L + 1)' <= 2 * log'[L + 1].limit
  <2>1. /\ log'[i] = log[i] /\ daily > 0 /\ log'[i].block \in Nat /\ log'[i].window \in Nat
        /\ SameLimit(i, L) /\ log[L].limit = daily
        /\ SpentBetween(i, L + 1)' = SpentBetween(i, L) + v
    BY <1>1, <1>3, <1>4, <1>7
  <2>2. /\ L \in 1 .. L /\ i \in 1 .. L + 1 /\ L + 1 \in 1 .. L + 1
        /\ SpentBetween(i, L) \in Int
    BY <1>1, SpentIsInt DEF SpendingInv
  <2>3. /\ log'[i].window <= log'[L + 1].window
        /\ log'[i].window < msig'.windowStart => log'[i].block <= msig'.windowStart
        /\ msig'.windowStart <= block
    BY <1>1, <1>2, <1>4, <2>2 DEF WindowsInOrder
  <2>4. CASE log'[i].window = msig'.windowStart
    <3>1. SpentBetween(i, L + 1)' <= log'[L + 1].limit
      BY <1>2, <1>4, <1>7, <2>2, <2>4 DEF WindowWithinLimit
    <3> QED
      BY <1>2, <1>4, <2>1, <2>2, <3>1
  <2>5. CASE log'[i].window < msig'.windowStart /\ msig'.spent <= daily
    <3>1. msig'.windowStart - log'[i].block < Cooldown
      BY <1>2, <1>4, <1>5, <1>7, <2>1, <2>3
    <3>2. SpentBetween(i, L + 1)' <= log'[L + 1].limit + msig'.spent
      BY <1>1, <1>7, <2>2, <2>5, <3>1 DEF CoversPrevious
    <3> QED
      BY <1>2, <1>4, <1>5, <2>1, <2>2, <2>5, <3>2
  <2>6. CASE v = 0
    <3>0. msig.lastAction \in Nat /\ msig.lastAction <= block /\ log[L].block <= msig.lastAction
      BY <1>1, <2>2 DEF SpendingInv, MsigInv, MsigTypeOK, MsigRecord, BlocksInOrder
    <3>1. log[L].block \in Nat /\ log[L].block <= block
      BY <1>4, <2>2, <3>0
    <3>2. log[L].block - log[i].block < Cooldown
      BY <1>2, <1>4, <1>7, <2>1, <3>1
    <3>3. SpentBetween(i, L) <= 2 * log[L].limit
      BY <1>4, <2>1, <2>2, <3>2 DEF SpendingInv, SlidingLimit
    <3> QED
      BY <1>2, <1>4, <2>1, <2>2, <2>6, <3>3
  <2>7. v = 0 \/ msig'.spent <= daily
    BY <1>2, <1>4, <2>1
  <2>8. log'[i].window = msig'.windowStart \/ log'[i].window < msig'.windowStart
    BY <1>2, <1>5, <2>1, <2>3
  <2> QED
    BY <2>4, <2>5, <2>6, <2>7, <2>8
<1>8. ASSUME SameLimit(L + 1, L + 1)'
      PROVE  SpentBetween(L + 1, L + 1)' <= 2 * log'[L + 1].limit
  <2>1. L + 1 \in 1 .. L + 1 /\ L + 1 \in DOMAIN log'
    BY <1>1, <1>4
  <2>2. SpentBetween(L + 1, L + 1)' <= log'[L + 1].limit
    BY <1>8, <2>1 DEF WindowWithinLimit
  <2> QED
    BY <1>2, <1>3, <1>4, <2>2
<1>9. ASSUME NEW k \in 1 .. L + 1, NEW i \in 1 .. k, SameLimit(i, k)',
             log'[k].block - log'[i].block < Cooldown
      PROVE  SpentBetween(i, k)' <= 2 * log'[k].limit
  <2>1. CASE k \in 1 .. L
    BY <1>6, <1>9, <2>1
  <2>2. CASE k = L + 1 /\ i = L + 1
    BY <1>8, <1>9, <2>2
  <2>3. CASE k = L + 1 /\ i \in 1 .. L
    BY <1>7, <1>9, <2>3
  <2> QED
    BY <1>9, <2>1, <2>2, <2>3
<1> QED
  BY <1>4, <1>9 DEF SlidingLimit

-----------------------------------------------------------------------------
LEMMA SpendingExecute ==
    ASSUME SpendingInv, NEW s \in Submitters, NEW m \in Messages, Execute(s, m)
    PROVE  SpendingInv'
<1>1. MsigInv'
  BY ExecuteInv DEF SpendingInv
<1>2. WindowsInOrder'
  BY WindowsStep DEF SpendingInv
<1>3. Covers'
  BY CoversStep
<1>4. CoversPrevious'
  BY CoversPreviousStep
<1>5. WindowWithinLimit'
  BY <1>2, <1>3, WindowLimitStep
<1>6. SlidingLimit'
  BY <1>2, <1>4, <1>5, SlidingStep
<1> QED
  BY <1>1, <1>2, <1>3, <1>4, <1>5, <1>6 DEF SpendingInv

\* Every other step leaves log, counter and window alone.
LEMMA OtherKeeps ==
    ASSUME MsigInv,
           \/ \E n \in Nonces : RunCall(n)
           \/ \E n \in Nonces : OnActionCallback(n)
           \/ \E j \in Jobs : RefundArrives(j)
           \/ Owner \/ (\E t \in Tokens : FtOnTransfer(t)) \/ Tick \/ UNCHANGED msigVars
    PROVE  /\ log' = log /\ msig'.spent = msig.spent /\ msig'.windowStart = msig.windowStart
           /\ block' = block \/ block' = block + 1
<1>1. CASE UNCHANGED <<msig, log, block>>
  BY <1>1
<1>2. CASE Owner
  BY <1>2 DEF Owner, ForceRotate, SetAllowedTokens, SetSpendingLimits, MsigInv, MsigTypeOK, MsigRecord
<1>3. CASE Tick
  BY <1>3 DEF Tick
<1>4. CASE \E t \in Tokens : FtOnTransfer(t)
  BY <1>1, <1>4 DEF FtOnTransfer
<1>5. CASE \E n \in Nonces : RunCall(n)
  BY <1>1, <1>5 DEF RunCall
<1>6. CASE \E n \in Nonces : OnActionCallback(n)
  BY <1>1, <1>6 DEF OnActionCallback
<1>7. CASE \E j \in Jobs : RefundArrives(j)
  BY <1>1, <1>7 DEF RefundArrives
<1>8. CASE UNCHANGED msigVars
  BY <1>1, <1>8 DEF msigVars
<1> QED
  BY <1>2, <1>3, <1>4, <1>5, <1>6, <1>7, <1>8

LEMMA SpendingOther ==
    ASSUME SpendingInv, MsigInv',
           log' = log, msig'.spent = msig.spent, msig'.windowStart = msig.windowStart,
           block' = block \/ block' = block + 1
    PROVE  SpendingInv'
<1>1. WindowsInOrder'
  BY Numbers DEF SpendingInv, WindowsInOrder
<1>2. WindowWithinLimit' /\ SlidingLimit'
  BY DEF SpendingInv, WindowWithinLimit, SlidingLimit, SameLimit, SpentBetween
<1>3. Covers' /\ CoversPrevious'
  BY DEF SpendingInv, Covers, CoversPrevious, SameLimit, SpentBetween
<1> QED
  BY <1>1, <1>2, <1>3 DEF SpendingInv

LEMMA SpendingStepInv == SpendingInv /\ [MsigNext]_msigVars => SpendingInv'
<1> SUFFICES ASSUME SpendingInv, [MsigNext]_msigVars PROVE SpendingInv'
  OBVIOUS
<1>1. CASE \E s \in Submitters, m \in Messages : Execute(s, m)
  BY <1>1, SpendingExecute
<1>2. CASE \/ \E n \in Nonces : RunCall(n)
           \/ \E n \in Nonces : OnActionCallback(n)
           \/ \E j \in Jobs : RefundArrives(j)
           \/ Owner \/ (\E t \in Tokens : FtOnTransfer(t)) \/ Tick \/ UNCHANGED msigVars
  <2>1. MsigInv'
    BY MsigStepInv DEF SpendingInv
  <2> QED
    BY <1>2, <2>1, OtherKeeps, SpendingOther DEF SpendingInv
<1> QED
  BY <1>1, <1>2 DEF MsigNext, Chain

LEMMA SpendingInit == MsigInit => SpendingInv
<1> SUFFICES ASSUME MsigInit PROVE SpendingInv
  OBVIOUS
<1>1. MsigInv /\ Len(log) = 0 /\ DOMAIN log = {} /\ msig.windowStart = 0 /\ block = 0
  BY MsigInitInv DEF MsigInit
<1> QED
  BY <1>1 DEF SpendingInv, WindowsInOrder, Covers, CoversPrevious, WindowWithinLimit, SlidingLimit

\* The counter of the contract is enough for both limits: whatever is executed
\* and whatever the owner sets, no window spends more than its daily limit, and
\* no stretch shorter than the cooldown more than twice.
THEOREM SpendingSound == MsigSpec => []SpendingInv
<1> QED
  BY SpendingInit, SpendingStepInv, PTL DEF MsigSpec

THEOREM MsigWindowWithinLimit == MsigSpec => []WindowWithinLimit
<1>1. SpendingInv => WindowWithinLimit
  BY DEF SpendingInv
<1> QED
  BY <1>1, SpendingSound, PTL

THEOREM MsigSlidingLimit == MsigSpec => []SlidingLimit
<1>1. SpendingInv => SlidingLimit
  BY DEF SpendingInv
<1> QED
  BY <1>1, SpendingSound, PTL
=============================================================================
