------------------------------- MODULE Relayer -------------------------------
(***************************************************************************)
(* The relayer nostr/relayer.py: it sees the events that agents publish on *)
(* Nostr relays and submits the signed actions they carry to the agent's   *)
(* wallet, the contract of AgentMsig.                                      *)
(*                                                                         *)
(* One thread: while a submission is under way nothing else of the relayer *)
(* runs, but the chain does.  All of its state is in memory.  Others may   *)
(* submit the same published actions at any time: a second relayer, the    *)
(* agent, or a transaction of this one that lands after its RPC call has   *)
(* failed.                                                                 *)
(***************************************************************************)
EXTENDS AgentMsig, FiniteSets

CONSTANTS
    Events,         \* what agents publish
    Self,           \* relayer_account_id
    MaxRetries,     \* max_retries
    MaxProcessed,   \* max_processed_cache
    HourlyMax,      \* rate_limit_hourly_max
    Setups,         \* what is explored: the instances of a run
    MaxQueue        \* bound: actions waiting for a retry when an event is handled

\* A TASK event carries CreateEscrow and perhaps FundEscrow of one job (its tags,
\* which the relayer does not compare with the actions), a generic event one
\* action.  An event is its own id, which is a hash of it; `copy' tells
\* events with the same actions apart.
Event == [copy : Nat, msgs : Seq(Messages)]

OwnerOps == {"rotate", "limits", "tokens", "incoming"}

\* account: the relayer has a NEAR account, without one it only watches;
\* limited: rate_limit_seconds > 0; events: those that may be published;
\* others, ops, crash, blocks: who else submits, what the owner does and whether
\* tokens come in, whether the relayer crashes, and how far the chain gets, in
\* this instance.
Setup == [account : BOOLEAN, limited : BOOLEAN, events : SUBSET Events,
          others : SUBSET Submitters, ops : SUBSET OwnerOps, crash : BOOLEAN,
          blocks : 0 .. MaxBlock]

ASSUME RelayerAssumption ==
    /\ Events \subseteq Event
    /\ \A e \in Events : Len(e.msgs) \in 1 .. 2
    /\ \A e \in Events : Len(e.msgs) = 2 =>
          /\ e.msgs[1].action.kind = "create" /\ e.msgs[2].action.kind = "fund"
          /\ e.msgs[1].action.job = e.msgs[2].action.job
    /\ Self \in Submitters
    /\ Setups \subseteq Setup
    /\ {MaxRetries, MaxProcessed, HourlyMax, MaxQueue} \subseteq Nat

VARIABLES
    setup,      \* constant during a behaviour
    published,  \* events published so far
    visible,    \* those the relays deliver: published since the relayer subscribed
    relay,      \* the relayer's memory
    announced   \* jobs for which it published FUNDED (kind 41004)

relayVars == <<setup, published, visible, relay, announced>>
vars == <<msigVars, relayVars>>

Item == [msg : Messages, attempt : 1 .. MaxRetries]

\* The submission under way: msgs is the action and what follows it in the
\* event; funding: it is the second step of a TASK event; attempt is 0 for an
\* event and counts the retries otherwise; nonce is nonce_before, -1 until it
\* is read.
NoWork == [msgs |-> << >>, funding |-> FALSE, attempt |-> 0, nonce |-> -1]
Work(msgs, funding, attempt) ==
    [msgs |-> msgs, funding |-> funding, attempt |-> attempt, nonce |-> -1]
WorkRecord == [msgs : Seq(Messages), funding : BOOLEAN, attempt : 0 .. MaxRetries,
               nonce : -1 .. MaxNonce]

\* retrying: a pass of _retry_loop is under way, queue is the list it iterates
\* over from the current position on, kept is still_queued.
Memory == [seen : Seq(Events), queue : Seq(Item), kept : Seq(Item), retrying : BOOLEAN,
           work : WorkRecord, recent : BOOLEAN, hour : 0 .. HourlyMax]
FreshMemory == [seen |-> << >>, queue |-> << >>, kept |-> << >>, retrying |-> FALSE,
                work |-> NoWork, recent |-> FALSE, hour |-> 0]

TypeOK ==
    /\ MsigTypeOK
    /\ setup \in Setups
    /\ published \in SUBSET Events
    /\ visible \in SUBSET published
    /\ relay \in Memory
    /\ announced \in SUBSET Jobs

Init ==
    /\ MsigInit
    /\ setup \in Setups
    /\ published = IF setup.account THEN {} ELSE setup.events
    /\ visible = {}
    /\ relay = FreshMemory
    /\ announced = {}

-----------------------------------------------------------------------------
Idle == relay.work = NoWork /\ ~relay.retrying

\* _check_rate_limit: recent says that the last submission is less than
\* rate_limit_seconds ago, hour counts those of the last hour.
MaySubmit == ~(setup.limited /\ relay.recent) /\ relay.hour < HourlyMax

\* _record_rate_limit
Counting(r) == [r EXCEPT !.recent = setup.limited, !.hour = @ + 1]

\* _enqueue_retry
Enqueued(queue, m, attempt) ==
    IF attempt > MaxRetries THEN queue ELSE Append(queue, [msg |-> m, attempt |-> attempt])

\* processed_events, cut to its size from the oldest on.
Remember(seen, e) ==
    LET longer == Append(seen, e) IN
    IF Len(longer) > MaxProcessed THEN Tail(longer) ELSE longer

Seen(e) == \E i \in DOMAIN relay.seen : relay.seen[i] = e

-----------------------------------------------------------------------------
(* Events.                                                                 *)

Publish(e) ==
    /\ e \in setup.events \ published
    /\ published' = published \cup {e}
    /\ visible' = visible \cup {e}
    /\ UNCHANGED <<msigVars, setup, relay, announced>>

\* Only the first action waits, a FundEscrow behind it is not kept.
\* Mutant: both wait.
WaitingBoth(r, e) ==
    [r EXCEPT !.queue = @ \o [i \in DOMAIN e.msgs |-> [msg |-> e.msgs[i], attempt |-> 1]]]
Waiting(r, e) == [r EXCEPT !.queue = Enqueued(r.queue, Head(e.msgs), 1)]

\* _handle_event with the first step of its two handlers.  A relay may deliver
\* an event again; it is new when it was not seen or has been forgotten.
HandleEvent(e) ==
    /\ setup.account /\ Idle /\ Len(relay.queue) < MaxQueue
    /\ e \in visible
    /\ ~Seen(e)
    /\ LET r == [relay EXCEPT !.seen = Remember(@, e)] IN
       relay' = IF MaySubmit THEN [r EXCEPT !.work = Work(e.msgs, FALSE, 0)] ELSE Waiting(r, e)
    /\ UNCHANGED <<msigVars, setup, published, visible, announced>>

-----------------------------------------------------------------------------
(* _submit_action and what its callers do with the result.                 *)

Submitting == relay.work.nonce # -1
Current == Head(relay.work.msgs)

ReadNonce ==
    /\ relay.work # NoWork /\ ~Submitting
    /\ relay' = [relay EXCEPT !.work.nonce = msig.nonce]
    /\ UNCHANGED <<msigVars, setup, published, visible, announced>>

\* The submission is over and its action has to be tried again.
\* Mutant: a retry is enqueued as the same attempt.
TrySameLater(r) ==
    [r EXCEPT !.work = NoWork, !.queue = Enqueued(@, Current, IF relay.work.attempt = 0 THEN 1
                                                             ELSE relay.work.attempt)]
TryLater(r) ==
    [r EXCEPT !.work = NoWork, !.queue = Enqueued(r.queue, Current, relay.work.attempt + 1)]

GiveUp(r) == [r EXCEPT !.work = NoWork]

\* After a CreateEscrow the FundEscrow of the event follows, if the rate limit
\* lets it.
Confirmed(r) ==
    IF relay.work.attempt = 0 /\ Len(relay.work.msgs) = 2
    THEN IF ~setup.limited /\ r.hour < HourlyMax
         THEN [r EXCEPT !.work = Work(Tail(relay.work.msgs), TRUE, 0)]
         ELSE [r EXCEPT !.work = NoWork, !.queue = Enqueued(r.queue, relay.work.msgs[2], 1)]
    ELSE GiveUp(r)

\* FUNDED is published when execute of the second step has succeeded.
\* Mutant: of any step.
AnnouncedEarly ==
    IF relay.work.attempt = 0 /\ Current.action.job # NoOne
    THEN announced \cup {Current.action.job} ELSE announced
AnnouncedNow ==
    IF relay.work.funding THEN announced \cup {Current.action.job} ELSE announced

\* execute succeeded; whether the call it dispatched does is not known yet.
SubmitSucceeds ==
    /\ Submitting
    /\ Execute(Self, Current)
    /\ relay' = Confirmed(Counting(relay))
    /\ announced' = AnnouncedNow
    /\ UNCHANGED <<setup, published, visible>>

\* The transaction failed: execute panicked, or gas or the network stopped it.  A
\* nonce other than before counts as used by this action, and so does one that
\* cannot be read.
SubmitReverts ==
    /\ Submitting
    /\ \/ relay' = GiveUp(Counting(relay))
       \/ /\ msig.nonce = relay.work.nonce
          /\ relay' = TryLater(Counting(relay))
    /\ UNCHANGED <<msigVars, setup, published, visible, announced>>

\* An RPC call raised: the nonce could not be read, or the outcome of the
\* transaction, which may still arrive, is not known.
RpcError ==
    /\ relay.work # NoWork
    /\ relay' = TryLater(relay)
    /\ UNCHANGED <<msigVars, setup, published, visible, announced>>

Submit == ReadNonce \/ SubmitSucceeds \/ SubmitReverts \/ RpcError

-----------------------------------------------------------------------------
(* _retry_loop.                                                            *)

StartRetries ==
    /\ Idle
    /\ relay.queue # << >>
    /\ relay' = [relay EXCEPT !.retrying = TRUE]
    /\ UNCHANGED <<msigVars, setup, published, visible, announced>>

\* What fails in this pass is appended to the list that the pass iterates over.
NextRetry ==
    /\ relay.retrying /\ relay.work = NoWork
    /\ relay.queue # << >>
    /\ LET item == Head(relay.queue) IN
       relay' = IF MaySubmit
                THEN [relay EXCEPT !.queue = Tail(@),
                                   !.work = Work(<<item.msg>>, FALSE, item.attempt)]
                ELSE [relay EXCEPT !.queue = Tail(@), !.kept = Append(relay.kept, item)]
    /\ UNCHANGED <<msigVars, setup, published, visible, announced>>

EndRetries ==
    /\ relay.retrying /\ relay.work = NoWork
    /\ relay.queue = << >>
    /\ relay' = [relay EXCEPT !.queue = relay.kept, !.kept = << >>, !.retrying = FALSE]
    /\ UNCHANGED <<msigVars, setup, published, visible, announced>>

Retries == StartRetries \/ NextRetry \/ EndRetries

-----------------------------------------------------------------------------
(* The world around the relayer.                                           *)

\* Time passes for the rate limit.
RateLimitPasses ==
    /\ \E h \in 0 .. relay.hour :
          relay' = [relay EXCEPT !.recent = FALSE, !.hour = h]
    /\ UNCHANGED <<msigVars, setup, published, visible, announced>>

\* A restarted relayer subscribes to what is published from then on.
Crash ==
    /\ setup.crash /\ relay # FreshMemory
    /\ relay' = FreshMemory
    /\ visible' = {}
    /\ UNCHANGED <<msigVars, setup, published, announced>>

\* A published action reaches the wallet by another way.
OtherSubmits ==
    /\ \E e \in published, s \in setup.others :
          \E i \in DOMAIN e.msgs : Execute(s, e.msgs[i])
    /\ UNCHANGED relayVars

Environment ==
    /\ \/ Chain
       \/ "rotate" \in setup.ops /\ \E k \in Keys : ForceRotate(k)
       \/ "limits" \in setup.ops /\ \E l \in Limits : SetSpendingLimits(l)
       \/ "tokens" \in setup.ops /\ \E ts \in SUBSET Tokens : SetAllowedTokens(ts)
       \/ "incoming" \in setup.ops /\ \E t \in Tokens : FtOnTransfer(t)
       \/ block < setup.blocks /\ Tick
    /\ UNCHANGED relayVars

Next ==
    \/ \E e \in Events : Publish(e) \/ HandleEvent(e)
    \/ Submit
    \/ Retries
    \/ RateLimitPasses
    \/ Crash
    \/ OtherSubmits
    \/ Environment

Spec == Init /\ [][Next]_vars

\* The thread of the relayer goes on and its RPC calls return.
RelaySpec == Spec /\ WF_vars(Submit) /\ WF_vars(NextRetry \/ EndRetries)
=============================================================================
