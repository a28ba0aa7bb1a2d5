-------------------------- MODULE RelayerProperties --------------------------
(* What the wallet of AgentMsig and the relayer owe the agent. *)
EXTENDS Relayer

\* Replay protection (execute, 218-227): the actions run in the order of their
\* nonces without a gap, and none runs twice, however often relays, retries,
\* restarts and other submitters bring it and whatever keys come and go.
ExecutedOnce ==
    \A i \in DOMAIN log :
        /\ log[i].msg.nonce = i
        /\ \A k \in DOMAIN log : log[i].msg = log[k].msg => i = k

-----------------------------------------------------------------------------
\* The executions from the i-th to the k-th ran under one daily limit.
SameLimit(i, k) == \A x \in i .. k : log[x].limit > 0 /\ log[x].limit = log[k].limit

SpentBetween(i, k) == log[k].total - log[i].total + log[i].value

\* The daily limit (_enforce_spending_limit, 508-523): what the actions of one
\* window spend stays within it.
WindowWithinLimit ==
    \A k \in DOMAIN log : \A i \in 1 .. k :
        SameLimit(i, k) /\ log[i].window = log[k].window => SpentBetween(i, k) <= log[k].limit

\* The windows do not slide, a new one starts with the first action after the
\* old one: in some stretch of 24 hours twice the limit goes out, never more.
SlidingLimit ==
    \A k \in DOMAIN log : \A i \in 1 .. k :
        SameLimit(i, k) /\ log[k].block - log[i].block < Cooldown
            => SpentBetween(i, k) <= 2 * log[k].limit

-----------------------------------------------------------------------------
\* force_rotate (449-459) is for an agent that has lost its key: the key changes
\* by an action that the old key signed, or when nothing has been executed for
\* the cooldown.
KeyChangeJustified ==
    [][msig'.key # msig.key =>
          \/ /\ Len(log') = Len(log) + 1
             /\ log'[Len(log')].msg.action.kind = "rotate"
             /\ log'[Len(log')].msg.key = msig.key
          \/ \A i \in DOMAIN log : block - log[i].block >= Cooldown]_vars

-----------------------------------------------------------------------------
\* "Escrow's ft_on_transfer sees sender=msig, token=usdc.near, amount matches ->
\* Open" (DESIGN-MSIG.md:148): the escrow that waits for these tokens keeps what a
\* FundEscrow of the wallet brings it.
FundsAccepted ==
    \A n \in Nonces :
        LET job == jobs[Arg(n).job] IN
        /\ calls[n].phase = "moved"
        /\ job.status = "PendingFunding"
        /\ job.token = Arg(n).token /\ job.amount = Arg(n).amount
        => Accepts(n)

\* create_escrow takes the signer of the transaction as the agent (src/lib.rs:996),
\* ft_on_transfer the caller of the token contract as the sender (1118).  So far
\* the violation of FundsAccepted goes: what a relayer submits is created for the
\* relayer, and the escrow keeps a deposit of the wallet only if the wallet's own
\* account signed the transaction in which the wallet created it.
CreatedBySelf(j) ==
    \E i \in DOMAIN log :
        /\ log[i].msg.action.kind = "create" /\ log[i].msg.action.job = j
        /\ calls[i].signer = Msig

FundedBySelfOnly ==
    \A j \in Jobs : jobs[j].status \in {"Open", "Verifying", "Refunding"} => CreatedBySelf(j)

\* The relayer announces FUNDED (_publish_funded_event) only when the wallet has
\* executed both the CreateEscrow and the FundEscrow of the job, in this order.
AnnouncedExecuted ==
    \A j \in announced : \E k \in DOMAIN log : \E i \in 1 .. k - 1 :
        /\ log[i].msg.action.kind = "create" /\ log[i].msg.action.job = j
        /\ log[k].msg.action.kind = "fund" /\ log[k].msg.action.job = j

\* What the relayer may submit after these events and executions: the action that
\* an event begins with, or the FundEscrow of a TASK event whose CreateEscrow has
\* been executed.
Due(m, events, executed) ==
    \E e \in events :
       \/ m = e.msgs[1]
       \/ /\ Len(e.msgs) = 2 /\ m = e.msgs[2]
          /\ \E i \in DOMAIN executed : executed[i].msg = e.msgs[1]

\* _on_signed_action, the retries and the passes over them reorder submissions, but
\* a FundEscrow that came behind a CreateEscrow is in the relayer's hands only when
\* the CreateEscrow of its event has been executed.
FundAfterCreate ==
    /\ relay.work # NoWork => Due(relay.work.msgs[1], published, log)
    /\ \A i \in DOMAIN relay.queue : Due(relay.queue[i].msg, published, log)
    /\ \A i \in DOMAIN relay.kept : Due(relay.kept[i].msg, published, log)

-----------------------------------------------------------------------------
\* A pass of _retry_loop appends what fails to the list it iterates over, in a
\* loop without an await: it ends all the same.
PassEnds == relay.retrying ~> ~relay.retrying
=============================================================================
