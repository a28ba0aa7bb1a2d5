------------------------------ MODULE AgentMsig ------------------------------
(***************************************************************************)
(* The contract agent-msig/src/lib.rs: the NEAR wallet of an agent that    *)
(* has only a key.  Anyone may submit an action that the agent signed; the *)
(* contract checks key, nonce and spending limits, uses the nonce up and   *)
(* dispatches a call to another contract, whose outcome a callback reports *)
(* later.                                                                  *)
(*                                                                         *)
(* An execution that panics changes nothing and has no action.  A          *)
(* dispatched call is in flight in `calls', by its nonce.  What the called *)
(* contracts do with it (escrow, token, the native transfer) is modelled   *)
(* as far as they tell the wallet from the account that submitted.  `log'  *)
(* is a history variable: every execution, read by properties and by the   *)
(* call it dispatched, whose arguments it holds.                           *)
(***************************************************************************)
EXTENDS Integers, Sequences

CONSTANTS
    Keys,            \* the agent's keys, past and future
    FirstKey,        \* the one given to new()
    Jobs,            \* job ids
    Tokens,          \* token contracts
    Submitters,      \* accounts that sign the transactions which call execute
    Msig,            \* the account of the wallet
    Actions,         \* what the agent signs in this instance
    Limits,          \* what the owner sets as limits: [max, daily]
    Cooldown,        \* FORCE_ROTATE_COOLDOWN_BLOCKS
    StorageDeposit,  \* STORAGE_DEPOSIT_YOCTO
    FirstNear,       \* native balance given to the wallet
    FirstFunds,      \* balance given to it with each token
    NoOne,           \* None
    MaxNonce,        \* bound: actions executed
    MaxBlock,        \* bound: the block height
    MaxFunds         \* bound: the balance with a token

Kinds == {"create", "fund", "cancel", "designate", "register", "rotate", "withdraw"}

\* token = NoOne in a withdrawal of NEAR.  valid: the arguments that execute
\* looks at are in order, a score threshold of at most 100 or a key that decodes.
Action == [kind : Kinds, job : Jobs \cup {NoOne}, token : Tokens \cup {NoOne},
           amount : Nat, key : Keys \cup {NoOne}, valid : BOOLEAN]

Limit == [max : Nat, daily : Nat]

ASSUME MsigAssumption ==
    /\ FirstKey \in Keys
    /\ NoOne \notin Jobs \cup Tokens \cup Keys \cup Submitters \cup {Msig}
    /\ Actions \subseteq Action
    /\ \A a \in Actions : a.kind = "rotate" => a.key \in Keys
    /\ \A a \in Actions : a.kind \in {"create", "fund", "cancel", "designate"} => a.job \in Jobs
    /\ \A a \in Actions : a.kind \in {"create", "fund", "register"} => a.token \in Tokens
    /\ Limits \subseteq Limit
    /\ Cooldown \in Nat \ {0}
    /\ {StorageDeposit, FirstNear, FirstFunds, MaxNonce, MaxBlock, MaxFunds} \subseteq Nat

VARIABLES
    msig,    \* the contract's state
    calls,   \* nonce -> the call that its action dispatched
    jobs,    \* the escrows of these job ids, in the escrow contract
    funds,   \* token -> balance of the wallet
    near,    \* native balance of the wallet
    block,   \* block height
    log      \* history: the executions in order

msigVars == <<msig, calls, jobs, funds, near, block, log>>

Messages == [key : Keys, nonce : 1 .. MaxNonce, action : Actions]
Nonces == 1 .. MaxNonce

MsigRecord == [key : Keys, nonce : 0 .. MaxNonce, lastAction : Nat,
               allowed : SUBSET Tokens, limits : Limit, spent : Nat, windowStart : Nat]

\* moved: the tokens of a fund action have left, ft_on_transfer has not run;
\* ok, failed: executed, the callback has not run; the last two: reported.
Phases == {"none", "sent", "moved", "ok", "failed", "action_succeeded", "action_failed"}
NoCall == [phase |-> "none", signer |-> NoOne]
Call == [phase : Phases, signer : Submitters \cup {NoOne}]

JobStatuses == {"Absent", "PendingFunding", "Open", "Verifying", "Refunding", "Cancelled"}
NoJob == [status |-> "Absent", agent |-> NoOne, token |-> NoOne, amount |-> 0]
Job == [status : JobStatuses, agent : Submitters \cup {NoOne},
        token : Tokens \cup {NoOne}, amount : Nat]

\* window and limit: the spending window and its limit as the execution left
\* them; value: what it counted as spent; total: that of all until here.
Entry == [msg : Messages, block : Nat, window : Nat, limit : Nat, value : Nat, total : Nat]

MsigTypeOK ==
    /\ msig \in MsigRecord
    /\ calls \in [Nonces -> Call]
    /\ jobs \in [Jobs -> Job]
    /\ funds \in [Tokens -> Nat]
    /\ near \in Nat
    /\ block \in Nat
    /\ log \in Seq(Entry)

MsigInit ==
    /\ msig = [key |-> FirstKey, nonce |-> 0, lastAction |-> 0, allowed |-> {},
               limits |-> [max |-> 0, daily |-> 0], spent |-> 0, windowStart |-> 0]
    /\ calls = [n \in Nonces |-> NoCall]
    /\ jobs = [j \in Jobs |-> NoJob]
    /\ funds = [t \in Tokens |-> FirstFunds]
    /\ near = FirstNear
    /\ block = 0
    /\ log = << >>

-----------------------------------------------------------------------------
(* Spending limits.                                                        *)

\* Creating an escrow counts as spending its amount, although only the
\* storage deposit leaves; registering with a token does not count.
MovesValue(a) == a.kind \in {"create", "fund", "withdraw"}
ActionValue(a) == IF MovesValue(a) THEN a.amount ELSE 0

WindowOver == block - msig.windowStart >= Cooldown
NewTotal(a) == (IF WindowOver THEN 0 ELSE msig.spent) + a.amount

\* Mutant: compares what was spent before.
WithinLimitsBefore(a) ==
    MovesValue(a) => (msig.limits.daily > 0 => msig.spent <= msig.limits.daily)
WithinLimits(a) ==
    MovesValue(a) =>
        /\ msig.limits.max > 0 => a.amount <= msig.limits.max
        /\ msig.limits.daily > 0 => NewTotal(a) <= msig.limits.daily

\* Nothing is counted while there is no daily limit.
\* Mutant: a new window keeps the start of the old one.
CountedInOldWindow(a) ==
    IF MovesValue(a) /\ msig.limits.daily > 0 THEN [msig EXCEPT !.spent = NewTotal(a)] ELSE msig
Counted(a) ==
    IF MovesValue(a) /\ msig.limits.daily > 0
    THEN [msig EXCEPT !.spent = NewTotal(a), !.windowStart = IF WindowOver THEN block ELSE @]
    ELSE msig

-----------------------------------------------------------------------------
(* execute.                                                                *)

\* Native NEAR that leaves with the call.
Attached(a) ==
    CASE a.kind \in {"create", "register"} -> StorageDeposit
      [] a.kind = "withdraw" /\ a.token = NoOne -> a.amount
      [] OTHER -> 0

\* The runtime refuses a call that attaches more than the wallet has.
\* Mutants: an old nonce will do; the balance is not compared.
CanExecuteAgain(m) ==
    m.key = msig.key /\ m.nonce <= msig.nonce + 1 /\ m.action.valid
      /\ WithinLimits(m.action) /\ Attached(m.action) <= near
CanExecutePoor(m) ==
    m.key = msig.key /\ m.nonce = msig.nonce + 1 /\ m.action.valid /\ WithinLimits(m.action)
CanExecute(m) ==
    /\ m.key = msig.key
    /\ m.nonce = msig.nonce + 1
    /\ m.action.valid
    /\ WithinLimits(m.action)
    /\ Attached(m.action) <= near

LogTotal == IF log = << >> THEN 0 ELSE log[Len(log)].total

\* Mutant: last_action_block is set for actions that move value only.
ExecutedQuietly(m) ==
    [Counted(m.action) EXCEPT !.nonce = m.nonce,
                              !.lastAction = IF MovesValue(m.action) THEN block ELSE @,
                              !.key = IF m.action.kind = "rotate" THEN m.action.key ELSE @]
Executed(m) ==
    [Counted(m.action) EXCEPT !.nonce = m.nonce, !.lastAction = block,
                              !.key = IF m.action.kind = "rotate" THEN m.action.key ELSE @]

Record(m) ==
    [msg |-> m, block |-> block, window |-> Counted(m.action).windowStart,
     limit |-> msig.limits.daily, value |-> ActionValue(m.action),
     total |-> LogTotal + ActionValue(m.action)]

\* A rotation calls nobody and reports itself.
Execute(signer, m) ==
    /\ CanExecute(m)
    /\ msig' = Executed(m)
    /\ near' = near - Attached(m.action)
    /\ calls' = [calls EXCEPT ![m.nonce] =
                    [phase |-> IF m.action.kind = "rotate" THEN "action_succeeded" ELSE "sent",
                     signer |-> signer]]
    /\ log' = Append(log, Record(m))
    /\ UNCHANGED <<jobs, funds, block>>

-----------------------------------------------------------------------------
(* The dispatched calls in the contracts they go to.                       *)

\* A call of this kind is on its way and its receipt runs now.
Runs(n, kind) == calls[n].phase = "sent" /\ log[n].msg.action.kind = kind
Arg(n) == log[n].msg.action

Ends(n, phase) == calls' = [calls EXCEPT ![n].phase = phase]

\* create_escrow takes the signer of the transaction as the agent.
NewJob(n) ==
    [status |-> "PendingFunding", agent |-> calls[n].signer,
     token |-> Arg(n).token, amount |-> Arg(n).amount]

CreateEscrow(n) ==
    /\ Runs(n, "create")
    /\ jobs[Arg(n).job] = NoJob
    /\ jobs' = [jobs EXCEPT ![Arg(n).job] = NewJob(n)]
    /\ Ends(n, "ok")
    /\ UNCHANGED <<funds, near>>

\* ft_transfer_call: the tokens move before the receiver is asked.
SendFunds(n) ==
    /\ Runs(n, "fund")
    /\ Arg(n).amount <= funds[Arg(n).token]
    /\ funds' = [funds EXCEPT ![Arg(n).token] = @ - Arg(n).amount]
    /\ Ends(n, "moved")
    /\ UNCHANGED <<jobs, near>>

\* ft_on_transfer of the escrow contract compares the sender with the agent.
Accepts(n) ==
    LET job == jobs[Arg(n).job] IN
    /\ job.status = "PendingFunding"
    /\ job.agent = Msig
    /\ job.token = Arg(n).token /\ job.amount = Arg(n).amount

\* ft_transfer_call succeeds whether the tokens are kept or come back.
FundEscrow(n) ==
    /\ calls[n].phase = "moved"
    /\ IF Accepts(n)
       THEN /\ jobs' = [jobs EXCEPT ![Arg(n).job].status = "Open"]
            /\ UNCHANGED funds
       ELSE /\ funds' = [funds EXCEPT ![Arg(n).token] = @ + Arg(n).amount]
            /\ UNCHANGED jobs
    /\ Ends(n, "ok")
    /\ UNCHANGED near

\* cancel compares the signer with the agent, and pays the storage deposit to
\* the agent.
CancelEscrow(n) ==
    LET job == jobs[Arg(n).job] IN
    /\ Runs(n, "cancel")
    /\ job.agent = calls[n].signer
    /\ job.status \in {"PendingFunding", "Open"}
    /\ jobs' = [jobs EXCEPT ![Arg(n).job].status =
                   IF @ = "Open" THEN "Refunding" ELSE "Cancelled"]
    /\ near' = IF job.status = "PendingFunding" /\ job.agent = Msig
               THEN near + StorageDeposit ELSE near
    /\ Ends(n, "ok")
    /\ UNCHANGED funds

\* designate_winner compares the caller with the agent.
DesignateWinner(n) ==
    /\ Runs(n, "designate")
    /\ jobs[Arg(n).job].agent = Msig
    /\ jobs[Arg(n).job].status = "Open"
    /\ jobs' = [jobs EXCEPT ![Arg(n).job].status = "Verifying"]
    /\ Ends(n, "ok")
    /\ UNCHANGED <<funds, near>>

RegisterToken(n) ==
    /\ Runs(n, "register")
    /\ Ends(n, "ok")
    /\ UNCHANGED <<jobs, funds, near>>

Withdraw(n) ==
    /\ Runs(n, "withdraw")
    /\ IF Arg(n).token = NoOne
       THEN UNCHANGED funds
       ELSE /\ Arg(n).amount <= funds[Arg(n).token]
            /\ funds' = [funds EXCEPT ![Arg(n).token] = @ - Arg(n).amount]
    /\ Ends(n, "ok")
    /\ UNCHANGED <<jobs, near>>

\* Any call may fail for a reason of the contract it goes to; what it attached
\* comes back.
CallFails(n) ==
    /\ calls[n].phase = "sent"
    /\ near' = near + Attached(Arg(n))
    /\ Ends(n, "failed")
    /\ UNCHANGED <<jobs, funds>>

RunCall(n) ==
    /\ \/ CreateEscrow(n) \/ SendFunds(n) \/ FundEscrow(n) \/ CancelEscrow(n)
       \/ DesignateWinner(n) \/ RegisterToken(n) \/ Withdraw(n) \/ CallFails(n)
    /\ UNCHANGED <<msig, block, log>>

\* _on_action_callback
OnActionCallback(n) ==
    /\ calls[n].phase \in {"ok", "failed"}
    /\ Ends(n, IF calls[n].phase = "ok" THEN "action_succeeded" ELSE "action_failed")
    /\ UNCHANGED <<msig, jobs, funds, near, block, log>>

-----------------------------------------------------------------------------
(* The owner, incoming tokens, and the rest of the world.                  *)

ForceRotate(k) ==
    /\ block - msig.lastAction >= Cooldown
    /\ msig' = [msig EXCEPT !.key = k]
    /\ UNCHANGED <<calls, jobs, funds, near, block, log>>

SetAllowedTokens(ts) ==
    /\ msig' = [msig EXCEPT !.allowed = ts]
    /\ UNCHANGED <<calls, jobs, funds, near, block, log>>

SetSpendingLimits(l) ==
    /\ msig' = [msig EXCEPT !.limits = l]
    /\ UNCHANGED <<calls, jobs, funds, near, block, log>>

\* The wallet's ft_on_transfer; an empty whitelist accepts every token.
FtOnTransfer(t) ==
    /\ msig.allowed = {} \/ t \in msig.allowed
    /\ funds[t] < MaxFunds
    /\ funds' = [funds EXCEPT ![t] = @ + 1]
    /\ UNCHANGED <<msig, calls, jobs, near, block, log>>

\* The refund of a cancelled escrow arrives, tokens and storage deposit.
RefundArrives(j) ==
    /\ jobs[j].status = "Refunding"
    /\ jobs' = [jobs EXCEPT ![j].status = "Cancelled"]
    /\ funds' = [funds EXCEPT ![jobs[j].token] = @ + jobs[j].amount]
    /\ near' = near + StorageDeposit
    /\ UNCHANGED <<msig, calls, block, log>>

Tick ==
    /\ block < MaxBlock
    /\ block' = block + 1
    /\ UNCHANGED <<msig, calls, jobs, funds, near, log>>

Owner ==
    \/ \E k \in Keys : ForceRotate(k)
    \/ \E ts \in SUBSET Tokens : SetAllowedTokens(ts)
    \/ \E l \in Limits : SetSpendingLimits(l)

Chain ==
    \/ \E n \in Nonces : RunCall(n) \/ OnActionCallback(n)
    \/ \E j \in Jobs : RefundArrives(j)

MsigNext ==
    \/ \E s \in Submitters, m \in Messages : Execute(s, m)
    \/ Chain
    \/ Owner
    \/ \E t \in Tokens : FtOnTransfer(t)
    \/ Tick

MsigSpec == MsigInit /\ [][MsigNext]_msigVars
=============================================================================
