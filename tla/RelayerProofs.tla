---------------------------- MODULE RelayerProofs ----------------------------
(***************************************************************************)
(* The wallet with its relayer, for all wallets, events and bounds.  Every *)
(* step of the relayer is a step of the wallet or leaves the wallet alone, *)
(* so what AgentMsigProofs proves of the wallet with anybody as submitter  *)
(* holds of it here.  The relayer's own promise is about what it           *)
(* announces.                                                              *)
(***************************************************************************)
EXTENDS AgentMsigProofs, SequenceTheorems

\* A submission has an action, leaves room in the hourly count, and is that of a
\* FundEscrow when it is the second step of a TASK event.
Shaped(r) ==
    /\ r \in Memory
    /\ r.work # NoWork => r.work.msgs # << >> /\ r.hour < HourlyMax
    /\ r.work.funding => r.work.msgs[1].action.kind = "fund"
    /\ Len(r.work.msgs) = 2 =>
          /\ r.work.msgs[1].action.kind = "create" /\ r.work.msgs[2].action.kind = "fund"
          /\ r.work.msgs[1].action.job = r.work.msgs[2].action.job

\* The second step of a TASK event comes after the first was executed.
CreatedBefore ==
    relay.work.funding =>
        \E i \in DOMAIN log :
            /\ log[i].msg.action.kind = "create"
            /\ log[i].msg.action.job = relay.work.msgs[1].action.job

RelayInv ==
    /\ MsigInv
    /\ setup \in Setups
    /\ published \in SUBSET Events
    /\ visible \in SUBSET published
    /\ announced \in SUBSET Jobs
    /\ Shaped(relay)
    /\ CreatedBefore
    /\ AnnouncedExecuted

-----------------------------------------------------------------------------
(* What the helpers of the relayer return.                                 *)

LEMMA BoundsNat == {MaxRetries, MaxProcessed, HourlyMax, MaxQueue, MaxNonce} \subseteq Nat
  BY RelayerAssumption, MsigAssumption

LEMMA WorkFields ==
    ASSUME NEW msgs \in Seq(Messages), NEW b \in BOOLEAN, NEW a \in 0 .. MaxRetries
    PROVE  /\ Work(msgs, b, a) \in WorkRecord
           /\ Work(msgs, b, a).msgs = msgs /\ Work(msgs, b, a).funding = b
           /\ NoWork \in WorkRecord /\ NoWork.msgs = << >> /\ NoWork.funding = FALSE
  BY BoundsNat DEF Work, WorkRecord, NoWork

LEMMA TailOfTwo ==
    ASSUME NEW S, NEW s \in Seq(S), Len(s) = 2
    PROVE  Tail(s) \in Seq(S) /\ Tail(s) # << >> /\ Len(Tail(s)) = 1 /\ Tail(s)[1] = s[2]
<1>1. s # << >>
  OBVIOUS
<1>2. Tail(s) \in Seq(S) /\ Len(Tail(s)) = Len(s) - 1
  BY <1>1, HeadTailProperties
<1>3. \A i \in 1 .. Len(Tail(s)) : Tail(s)[i] = s[i + 1]
  BY <1>1, HeadTailProperties
<1>4. Len(s) - 1 = 1 /\ Len(<< >>) # 1 /\ 1 \in 1 .. 1 /\ 1 + 1 = 2
  OBVIOUS
<1>5. Tail(s)[1] = s[2]
  BY <1>2, <1>3, <1>4, Zenon
<1>6. Tail(s) # << >>
  BY <1>2, <1>4, Zenon
<1> QED
  BY <1>2, <1>4, <1>5, <1>6, Zenon

LEMMA EnqueuedType ==
    ASSUME NEW queue \in Seq(Item), NEW m \in Messages, NEW a \in Nat \ {0}
    PROVE  Enqueued(queue, m, a) \in Seq(Item)
<1>1. CASE a > MaxRetries
  BY <1>1 DEF Enqueued
<1>2. CASE ~(a > MaxRetries)
  <2>1. [msg |-> m, attempt |-> a] \in Item
    BY <1>2, BoundsNat DEF Item
  <2> QED
    BY <1>2, <2>1 DEF Enqueued
<1> QED
  BY <1>1, <1>2

LEMMA RememberType ==
    ASSUME NEW seen \in Seq(Events), NEW e \in Events
    PROVE  Remember(seen, e) \in Seq(Events)
<1>1. Append(seen, e) \in Seq(Events) /\ Append(seen, e) # << >>
  BY AppendProperties
<1>2. Tail(Append(seen, e)) \in Seq(Events)
  BY <1>1, HeadTailProperties
<1> QED
  BY <1>1, <1>2 DEF Remember

LEMMA CountingFields ==
    ASSUME NEW r \in Memory, r.hour < HourlyMax, setup \in Setups
    PROVE  /\ Counting(r) \in Memory
           /\ Counting(r).queue = r.queue /\ Counting(r).work = r.work
<1>1. setup.limited \in BOOLEAN
  BY RelayerAssumption DEF Setup
<1>2. r.hour + 1 \in 0 .. HourlyMax
  BY BoundsNat DEF Memory
<1> QED
  BY <1>1, <1>2 DEF Counting, Memory

LEMMA MemoryFields ==
    ASSUME NEW r \in Memory
    PROVE  /\ r.seen \in Seq(Events) /\ r.queue \in Seq(Item) /\ r.kept \in Seq(Item)
           /\ r.retrying \in BOOLEAN /\ r.work \in WorkRecord /\ r.recent \in BOOLEAN
           /\ r.hour \in 0 .. HourlyMax
           /\ r.work.msgs \in Seq(Messages) /\ r.work.funding \in BOOLEAN
           /\ r.work.attempt \in 0 .. MaxRetries /\ r.work.nonce \in -1 .. MaxNonce
  BY DEF Memory, WorkRecord

\* A memory without a submission is in shape.
LEMMA ShapedIdle ==
    ASSUME NEW r \in Memory, r.work = NoWork
    PROVE  Shaped(r) /\ ~r.work.funding
  BY DEF Shaped, NoWork

\* The action that is being submitted.
LEMMA CurrentType ==
    ASSUME Shaped(relay), relay.work # NoWork
    PROVE  /\ Current \in Messages /\ Current = relay.work.msgs[1]
           /\ Len(relay.work.msgs) \in Nat \ {0}
<1>1. relay.work.msgs \in Seq(Messages) /\ relay.work.msgs # << >>
  BY MemoryFields DEF Shaped
<1> QED
  BY <1>1, HeadTailProperties DEF Current

-----------------------------------------------------------------------------
(* What a submission leaves behind.                                        *)

LEMMA TryLaterShaped ==
    ASSUME Shaped(relay), relay.work # NoWork, NEW r \in Memory, r.queue = relay.queue
    PROVE  Shaped(TryLater(r)) /\ ~TryLater(r).work.funding
<1> DEFINE q == Enqueued(r.queue, Current, relay.work.attempt + 1)
<1>1. relay.work.attempt + 1 \in Nat \ {0}
  BY BoundsNat, MemoryFields DEF Shaped
<1>2. q \in Seq(Item)
  BY <1>1, CurrentType, EnqueuedType, MemoryFields
<1>3. NoWork \in WorkRecord
  BY BoundsNat DEF WorkRecord, NoWork
<1>4. TryLater(r) = [r EXCEPT !.work = NoWork, !.queue = q]
  BY DEF TryLater
<1> HIDE DEF q
<1>5. TryLater(r) \in Memory /\ TryLater(r).work = NoWork
  BY <1>2, <1>3, <1>4 DEF Memory
<1> QED
  BY <1>5, ShapedIdle

LEMMA GiveUpShaped ==
    ASSUME NEW r \in Memory
    PROVE  Shaped(GiveUp(r)) /\ ~GiveUp(r).work.funding
<1>1. NoWork \in WorkRecord
  BY BoundsNat DEF WorkRecord, NoWork
<1>2. r.queue \in Seq(Item)
  BY MemoryFields
<1>3. GiveUp(r) \in Memory /\ GiveUp(r).work = NoWork
  BY <1>1, <1>2 DEF GiveUp, Memory
<1> QED
  BY <1>3, ShapedIdle

\* After a success there is nothing left to submit, or the FundEscrow of the
\* job whose CreateEscrow it was.
LEMMA ConfirmedShaped ==
    ASSUME Shaped(relay), relay.work # NoWork, NEW r \in Memory
    PROVE  /\ Shaped(Confirmed(r))
           /\ Confirmed(r).work.funding =>
                 /\ Current.action.kind = "create"
                 /\ Confirmed(r).work.msgs[1].action.job = Current.action.job
<1> DEFINE msgs == relay.work.msgs
<1>1. msgs \in Seq(Messages) /\ Len(msgs) \in Nat \ {0} /\ Current = msgs[1]
  BY CurrentType, MemoryFields DEF Shaped
<1>0. r.queue \in Seq(Item)
  BY MemoryFields
<1>2. CASE ~(relay.work.attempt = 0 /\ Len(msgs) = 2)
  BY <1>2, GiveUpShaped DEF Confirmed
<1>3. CASE relay.work.attempt = 0 /\ Len(msgs) = 2 /\ ~(~setup.limited /\ r.hour < HourlyMax)
  <2> DEFINE q == Enqueued(r.queue, msgs[2], 1)
  <2>1. msgs[2] \in Messages
    BY <1>1, <1>3
  <2>0. 1 \in Nat \ {0}
    OBVIOUS
  <2>2. q \in Seq(Item)
    BY ONLY <1>0, <2>0, <2>1, EnqueuedType
  <2>3. NoWork \in WorkRecord
    BY BoundsNat DEF WorkRecord, NoWork
  <2>4. Confirmed(r) = [r EXCEPT !.work = NoWork, !.queue = q]
    BY <1>3 DEF Confirmed
  <2> HIDE DEF q
  <2>5. Confirmed(r) \in Memory /\ Confirmed(r).work = NoWork
    BY <2>2, <2>3, <2>4 DEF Memory
  <2> QED
    BY <2>5, ShapedIdle
<1>4. CASE relay.work.attempt = 0 /\ Len(msgs) = 2 /\ ~setup.limited /\ r.hour < HourlyMax
  <2> DEFINE w == Work(Tail(msgs), TRUE, 0)
  <2>0. PICK tail \in Seq(Messages) :
            tail = Tail(msgs) /\ tail # << >> /\ Len(tail) = 1 /\ tail[1] = msgs[2]
    BY <1>1, <1>4, TailOfTwo
  <2>1. 0 \in 0 .. MaxRetries
    BY BoundsNat
  <2>2. w \in WorkRecord /\ w.msgs = tail /\ w.funding = TRUE
    BY ONLY <2>0, <2>1, WorkFields DEF w
  <2>3. Confirmed(r) = [r EXCEPT !.work = w]
    BY <1>4 DEF Confirmed
  <2> HIDE DEF w
  <2>4. Confirmed(r) \in Memory /\ Confirmed(r).work = w /\ Confirmed(r).hour = r.hour
    BY <2>2, <2>3 DEF Memory
  <2>5. /\ msgs[1].action.kind = "create" /\ msgs[2].action.kind = "fund"
        /\ msgs[1].action.job = msgs[2].action.job
    BY <1>4 DEF Shaped
  <2>6. w.msgs # << >> /\ Len(w.msgs) = 1 /\ w.msgs[1] = msgs[2]
    BY <2>0, <2>2
  <2>7. Shaped(Confirmed(r))
    BY <1>4, <2>4, <2>5, <2>6 DEF Shaped
  <2> QED
    BY <1>1, <2>4, <2>5, <2>6, <2>7
<1> QED
  BY <1>2, <1>3, <1>4

-----------------------------------------------------------------------------
(* The relayer's part of the invariant.                                    *)

\* The history only grows.
LEMMA LogGrows ==
    ASSUME MsigInv, [MsigNext]_msigVars
    PROVE  \A i \in DOMAIN log : i \in DOMAIN log' /\ log'[i] = log[i]
<1>1. CASE \E s \in Submitters, m \in Messages : Execute(s, m)
  <2>1. log \in Seq(Entry) /\ log' \in Seq(Entry) /\ Len(log') = Len(log) + 1
        /\ \A i \in 1 .. Len(log) : log'[i] = log[i]
    BY <1>1, LogAfterExecute DEF MsigInv, MsigTypeOK
  <2> QED
    BY <2>1
<1>2. CASE \/ \E n \in Nonces : RunCall(n)
           \/ \E n \in Nonces : OnActionCallback(n)
           \/ \E j \in Jobs : RefundArrives(j)
           \/ Owner \/ (\E t \in Tokens : FtOnTransfer(t)) \/ Tick \/ UNCHANGED msigVars
  <2>1. log' = log
    BY <1>2, OtherKeeps
  <2> QED
    BY <2>1
<1> QED
  BY <1>1, <1>2 DEF MsigNext, Chain

\* What was announced stays justified.
LEMMA AnnouncedKept ==
    ASSUME RelayInv, [MsigNext]_msigVars, NEW j \in announced
    PROVE  \E k \in DOMAIN log' : \E i \in 1 .. k - 1 :
              /\ log'[i].msg.action.kind = "create" /\ log'[i].msg.action.job = j
              /\ log'[k].msg.action.kind = "fund" /\ log'[k].msg.action.job = j
<1>1. PICK k \in DOMAIN log : \E i \in 1 .. k - 1 :
              /\ log[i].msg.action.kind = "create" /\ log[i].msg.action.job = j
              /\ log[k].msg.action.kind = "fund" /\ log[k].msg.action.job = j
  BY DEF RelayInv, AnnouncedExecuted
<1>2. PICK i \in 1 .. k - 1 :
              /\ log[i].msg.action.kind = "create" /\ log[i].msg.action.job = j
              /\ log[k].msg.action.kind = "fund" /\ log[k].msg.action.job = j
  BY <1>1
<1>3. DOMAIN log = 1 .. Len(log) /\ Len(log) \in Nat
  BY DEF RelayInv, MsigInv, MsigTypeOK
<1>4. i \in DOMAIN log
  BY <1>2, <1>3
<1>5. k \in DOMAIN log' /\ log'[k] = log[k] /\ log'[i] = log[i]
  BY <1>1, <1>4, LogGrows DEF RelayInv
<1> QED
  BY <1>2, <1>5

LEMMA CreationKept ==
    ASSUME RelayInv, [MsigNext]_msigVars,
           relay'.work.funding => relay.work.funding /\ relay'.work.msgs = relay.work.msgs
    PROVE  CreatedBefore'
  BY LogGrows DEF RelayInv, CreatedBefore

LEMMA EventMessages ==
    ASSUME NEW e \in Events
    PROVE  /\ e.msgs \in Seq(Messages) /\ e.msgs # << >> /\ e.msgs[1] \in Messages
           /\ Head(e.msgs) = e.msgs[1]
           /\ \A i \in DOMAIN e.msgs : e.msgs[i] \in Messages
           /\ Len(e.msgs) = 2 =>
                 /\ e.msgs[1].action.kind = "create" /\ e.msgs[2].action.kind = "fund"
                 /\ e.msgs[1].action.job = e.msgs[2].action.job
<1>1. e.msgs \in Seq(Messages) /\ Len(e.msgs) \in 1 .. 2
  BY RelayerAssumption DEF Event
<1>2. e.msgs # << >> /\ DOMAIN e.msgs = 1 .. Len(e.msgs) /\ 1 \in DOMAIN e.msgs
  BY <1>1
<1>3. \A i \in DOMAIN e.msgs : e.msgs[i] \in Messages
  BY <1>1, <1>2
<1>4. Head(e.msgs) = e.msgs[1]
  BY <1>1, <1>2
<1>5. Len(e.msgs) = 2 =>
          /\ e.msgs[1].action.kind = "create" /\ e.msgs[2].action.kind = "fund"
          /\ e.msgs[1].action.job = e.msgs[2].action.job
  BY RelayerAssumption
<1> QED
  BY <1>1, <1>2, <1>3, <1>4, <1>5, Zenon

\* The relayer is one of those who may submit, and what is submitted are messages.
LEMMA RelayerIsMsigStep ==
    ASSUME RelayInv, [Next]_vars
    PROVE  [MsigNext]_msigVars
<1>1. CASE UNCHANGED msigVars
  BY <1>1
<1>2. CASE SubmitSucceeds
  <2>1. relay.work # NoWork
    BY <1>2 DEF SubmitSucceeds, Submitting, NoWork
  <2>2. Current \in Messages /\ Self \in Submitters
    BY <2>1, CurrentType, RelayerAssumption DEF RelayInv
  <2> QED
    BY <1>2, <2>2 DEF SubmitSucceeds, MsigNext
<1>3. CASE OtherSubmits
  <2>1. PICK e \in published, s \in setup.others :
            \E i \in DOMAIN e.msgs : Execute(s, e.msgs[i])
    BY <1>3 DEF OtherSubmits
  <2>2. e \in Events /\ s \in Submitters
    BY <2>1, RelayerAssumption DEF RelayInv, Setup
  <2> QED
    BY <2>1, <2>2, EventMessages DEF MsigNext
<1>4. CASE Environment
  BY <1>4 DEF Environment, MsigNext, Owner
<1>5. \/ UNCHANGED msigVars \/ SubmitSucceeds \/ OtherSubmits \/ Environment
  BY DEF Next, vars, Publish, HandleEvent, Submit, ReadNonce, SubmitReverts, RpcError,
         Retries, StartRetries, NextRetry, EndRetries, RateLimitPasses, Crash
<1> QED
  BY <1>1, <1>2, <1>3, <1>4, <1>5

\* A step after which the relayer announces nothing new and has no second step
\* that it did not have before.
LEMMA QuietStep ==
    ASSUME RelayInv, [MsigNext]_msigVars,
           setup' = setup, announced' = announced,
           published' \in SUBSET Events, visible' \in SUBSET published',
           Shaped(relay'),
           relay'.work.funding => relay.work.funding /\ relay'.work.msgs = relay.work.msgs
    PROVE  RelayInv'
<1>1. MsigInv'
  BY MsigStepInv DEF RelayInv
<1>2. CreatedBefore'
  BY CreationKept
<1>3. AnnouncedExecuted'
  BY AnnouncedKept DEF AnnouncedExecuted
<1>4. Shaped(relay)'
  BY DEF Shaped
<1> QED
  BY <1>1, <1>2, <1>3, <1>4 DEF RelayInv

LEMMA HandleEventInv ==
    ASSUME RelayInv, [MsigNext]_msigVars, NEW e \in Events, HandleEvent(e)
    PROVE  RelayInv'
<1> DEFINE r == [relay EXCEPT !.seen = Remember(@, e)]
<1>1. relay \in Memory /\ relay.work = NoWork /\ ~relay.work.funding
  BY DEF RelayInv, Shaped, HandleEvent, Idle, NoWork
<1>2. /\ r \in Memory /\ r.work = NoWork /\ r.hour = relay.hour /\ r.queue = relay.queue
      /\ relay.queue \in Seq(Item)
  <2>1. Remember(relay.seen, e) \in Seq(Events)
    BY <1>1, MemoryFields, RememberType
  <2> QED
    BY <1>1, <2>1 DEF Memory
<1>3. relay' = IF MaySubmit THEN [r EXCEPT !.work = Work(e.msgs, FALSE, 0)] ELSE Waiting(r, e)
  BY DEF HandleEvent
<1> HIDE DEF r
<1>4. CASE MaySubmit
  <2>1. /\ Work(e.msgs, FALSE, 0) \in WorkRecord
        /\ Work(e.msgs, FALSE, 0).msgs = e.msgs /\ Work(e.msgs, FALSE, 0).funding = FALSE
    <3>1. 0 \in 0 .. MaxRetries /\ FALSE \in BOOLEAN /\ e.msgs \in Seq(Messages)
      BY BoundsNat, EventMessages
    <3> QED
      BY ONLY <3>1, WorkFields
  <2> DEFINE w == Work(e.msgs, FALSE, 0)
  <2>2. w \in WorkRecord /\ w.msgs = e.msgs /\ w.funding = FALSE /\ relay' = [r EXCEPT !.work = w]
    BY <1>3, <1>4, <2>1
  <2> HIDE DEF w
  <2>3. relay' \in Memory /\ relay'.work = w /\ relay'.hour = relay.hour
    BY <1>2, <2>2 DEF Memory
  <2>4. relay.hour < HourlyMax
    BY <1>4 DEF MaySubmit
  <2>5. /\ e.msgs # << >>
        /\ Len(e.msgs) = 2 =>
              /\ e.msgs[1].action.kind = "create" /\ e.msgs[2].action.kind = "fund"
              /\ e.msgs[1].action.job = e.msgs[2].action.job
    BY EventMessages
  <2>6. Shaped(relay') /\ ~relay'.work.funding
    BY <2>2, <2>3, <2>4, <2>5 DEF Shaped
  <2> QED
    BY <2>6, QuietStep DEF RelayInv, HandleEvent
<1>5. CASE ~MaySubmit
  <2>1. 1 \in Nat \ {0} /\ e.msgs[1] \in Messages /\ Head(e.msgs) = e.msgs[1]
    BY EventMessages
  <2>2. Enqueued(relay.queue, Head(e.msgs), 1) \in Seq(Item)
    BY <1>2, <2>1, EnqueuedType
  <2>3. relay' = [r EXCEPT !.queue = Enqueued(relay.queue, Head(e.msgs), 1)]
    BY <1>2, <1>3, <1>5 DEF Waiting
  <2>4. relay' \in Memory /\ relay'.work = NoWork
    BY <1>2, <2>2, <2>3 DEF Memory
  <2> QED
    BY <2>4, ShapedIdle, QuietStep DEF RelayInv, HandleEvent
<1> QED
  BY <1>4, <1>5

LEMMA ReadNonceInv ==
    ASSUME RelayInv, [MsigNext]_msigVars, ReadNonce
    PROVE  RelayInv'
<1> DEFINE w == [relay.work EXCEPT !.nonce = msig.nonce]
<1>1. relay \in Memory /\ relay.work \in WorkRecord /\ relay.work # NoWork
  BY MemoryFields DEF RelayInv, Shaped, ReadNonce
<1>2. msig.nonce \in -1 .. MaxNonce
  BY BoundsNat DEF RelayInv, MsigInv, MsigTypeOK, MsigRecord
<1>3. /\ w \in WorkRecord /\ w.msgs = relay.work.msgs /\ w.funding = relay.work.funding
  BY <1>1, <1>2 DEF WorkRecord
<1>4. relay' = [relay EXCEPT !.work = w]
  BY DEF ReadNonce
<1> HIDE DEF w
<1>5. relay' \in Memory /\ relay'.work = w /\ relay'.hour = relay.hour
  BY <1>1, <1>3, <1>4 DEF Memory
<1>6. Shaped(relay')
  BY <1>1, <1>3, <1>5 DEF RelayInv, Shaped
<1> QED
  BY <1>3, <1>5, <1>6, QuietStep DEF RelayInv, ReadNonce

LEMMA FailedSubmissionInv ==
    ASSUME RelayInv, [MsigNext]_msigVars, SubmitReverts \/ RpcError
    PROVE  RelayInv'
<1>1. /\ relay \in Memory /\ relay.work # NoWork /\ Shaped(relay) /\ relay.hour < HourlyMax
      /\ setup \in Setups
  BY DEF RelayInv, Shaped, SubmitReverts, RpcError, Submitting, NoWork
<1>2. Counting(relay) \in Memory /\ Counting(relay).queue = relay.queue
  BY <1>1, CountingFields
<1>3. /\ Shaped(TryLater(relay)) /\ ~TryLater(relay).work.funding
      /\ Shaped(TryLater(Counting(relay))) /\ ~TryLater(Counting(relay)).work.funding
      /\ Shaped(GiveUp(Counting(relay))) /\ ~GiveUp(Counting(relay)).work.funding
  BY <1>1, <1>2, TryLaterShaped, GiveUpShaped
<1>4. Shaped(relay') /\ ~relay'.work.funding
  BY <1>3 DEF SubmitReverts, RpcError
<1> QED
  BY <1>4, QuietStep DEF RelayInv, SubmitReverts, RpcError

\* The step that may announce a job and may go on to the second action.
LEMMA SubmitSucceedsInv ==
    ASSUME RelayInv, [MsigNext]_msigVars, SubmitSucceeds
    PROVE  RelayInv'
<1>1. /\ relay \in Memory /\ relay.work # NoWork /\ Shaped(relay) /\ relay.hour < HourlyMax
      /\ setup \in Setups
  BY DEF RelayInv, Shaped, SubmitSucceeds, Submitting, NoWork
<1>2. Current \in Messages /\ Current = relay.work.msgs[1] /\ Self \in Submitters
  BY <1>1, CurrentType, RelayerAssumption
<1>3. PICK L \in Nat : /\ L = Len(log) /\ DOMAIN log = 1 .. L /\ DOMAIN log' = 1 .. L + 1
                       /\ \A i \in 1 .. L : log'[i] = log[i]
                       /\ log'[L + 1].msg = Current
  <2>1. MsigTypeOK /\ Execute(Self, Current)
    BY DEF RelayInv, MsigInv, SubmitSucceeds
  <2>2. /\ log' \in Seq(Entry) /\ Len(log) \in Nat /\ Len(log') = Len(log) + 1
        /\ \A i \in 1 .. Len(log) : log'[i] = log[i]
        /\ log'[Len(log) + 1] = Record(Current)
    BY <1>2, <2>1, LogAfterExecute
  <2>3. Record(Current).msg = Current
    BY <1>2, <2>1, RecordFields
  <2>4. DOMAIN log = 1 .. Len(log) /\ DOMAIN log' = 1 .. Len(log) + 1
    BY <2>1, <2>2 DEF MsigTypeOK
  <2> QED
    BY <2>2, <2>3, <2>4
<1>4. /\ Shaped(relay')
      /\ relay'.work.funding =>
            /\ Current.action.kind = "create"
            /\ relay'.work.msgs[1].action.job = Current.action.job
  <2>1. Counting(relay) \in Memory /\ relay' = Confirmed(Counting(relay))
    BY <1>1, CountingFields DEF SubmitSucceeds
  <2> QED
    BY <1>1, <2>1, ConfirmedShaped
<1>5. CreatedBefore'
  BY <1>3, <1>4 DEF CreatedBefore
<1>6. relay.work.funding => Current.action.kind = "fund" /\ Current.action.job \in Jobs
  BY <1>1, <1>2, MsigAssumption DEF Shaped, Messages
<1>7. announced' \in SUBSET Jobs
  BY <1>6 DEF RelayInv, SubmitSucceeds, AnnouncedNow
<1>8. ASSUME NEW j \in announced', j \notin announced
      PROVE  \E k \in DOMAIN log' : \E i \in 1 .. k - 1 :
                /\ log'[i].msg.action.kind = "create" /\ log'[i].msg.action.job = j
                /\ log'[k].msg.action.kind = "fund" /\ log'[k].msg.action.job = j
  <2>1. relay.work.funding /\ j = Current.action.job
    BY <1>8 DEF SubmitSucceeds, AnnouncedNow
  <2>2. PICK i \in 1 .. L : log[i].msg.action.kind = "create" /\ log[i].msg.action.job = j
    BY <1>2, <1>3, <2>1 DEF RelayInv, CreatedBefore
  <2>3. i \in 1 .. (L + 1) - 1 /\ L + 1 \in DOMAIN log' /\ log'[i] = log[i]
    BY <1>3, <2>2
  <2> QED
    BY <1>3, <1>6, <2>1, <2>2, <2>3
<1>9. AnnouncedExecuted'
  BY <1>8, AnnouncedKept DEF AnnouncedExecuted
<1>10. MsigInv'
  BY MsigStepInv DEF RelayInv
<1>11. Shaped(relay)'
  BY <1>4 DEF Shaped
<1> QED
  BY <1>5, <1>7, <1>9, <1>10, <1>11 DEF RelayInv, SubmitSucceeds

LEMMA RetriesInv ==
    ASSUME RelayInv, [MsigNext]_msigVars, Retries
    PROVE  RelayInv'
<1>1. /\ relay \in Memory /\ relay.work = NoWork
      /\ relay.queue \in Seq(Item) /\ relay.kept \in Seq(Item)
  BY MemoryFields DEF RelayInv, Shaped, Retries, StartRetries, Idle, NextRetry, EndRetries
<1>2. CASE StartRetries
  <2>1. relay' \in Memory /\ relay'.work = NoWork
    BY <1>1, <1>2 DEF StartRetries, Memory
  <2> QED
    BY <1>2, <2>1, ShapedIdle, QuietStep DEF RelayInv, StartRetries
<1>3. CASE EndRetries
  <2>1. << >> \in Seq(Item)
    OBVIOUS
  <2>2. relay' \in Memory /\ relay'.work = NoWork
    BY <1>1, <1>3, <2>1 DEF EndRetries, Memory
  <2> QED
    BY <1>3, <2>2, ShapedIdle, QuietStep DEF RelayInv, EndRetries
<1>4. CASE NextRetry
  <2>1. PICK item \in Item : item = Head(relay.queue)
    BY <1>1, <1>4, HeadTailProperties DEF NextRetry
  <2>2. PICK rest \in Seq(Item) : rest = Tail(relay.queue)
    BY <1>1, <1>4, HeadTailProperties DEF NextRetry
  <2>3. CASE MaySubmit
    <3>1. /\ <<item.msg>> \in Seq(Messages) /\ <<item.msg>> # << >>
          /\ Len(<<item.msg>>) = 1 /\ item.attempt \in 0 .. MaxRetries /\ FALSE \in BOOLEAN
      BY BoundsNat DEF Item
    <3>2. PICK w \in WorkRecord : /\ w = Work(<<item.msg>>, FALSE, item.attempt)
                                  /\ w.msgs = <<item.msg>> /\ w.funding = FALSE
      BY ONLY <3>1, WorkFields
    <3>3. relay' = [relay EXCEPT !.queue = rest, !.work = w]
      BY <1>4, <2>1, <2>2, <2>3, <3>2 DEF NextRetry
    <3>4. relay' \in Memory /\ relay'.work = w /\ relay'.hour = relay.hour
      BY <1>1, <3>3 DEF Memory
    <3>5. relay.hour < HourlyMax
      BY <2>3 DEF MaySubmit
    <3>6. 1 # 2
      OBVIOUS
    <3>7. w.msgs # << >> /\ Len(w.msgs) # 2
      BY <3>1, <3>2, <3>6, Zenon
    <3>8. Shaped(relay') /\ ~relay'.work.funding
      BY <3>2, <3>4, <3>5, <3>7, Zenon DEF Shaped
    <3> QED
      BY <1>4, <3>8, QuietStep DEF RelayInv, NextRetry
  <2>4. CASE ~MaySubmit
    <3>1. Append(relay.kept, item) \in Seq(Item)
      BY <1>1, AppendProperties
    <3>2. relay' = [relay EXCEPT !.queue = rest, !.kept = Append(relay.kept, item)]
      BY <1>1, <1>4, <2>1, <2>2, <2>4 DEF NextRetry
    <3>3. relay' \in Memory /\ relay'.work = NoWork
      BY <1>1, <3>1, <3>2 DEF Memory
    <3> QED
      BY <1>4, <3>3, ShapedIdle, QuietStep DEF RelayInv, NextRetry
  <2> QED
    BY <2>3, <2>4
<1> QED
  BY <1>2, <1>3, <1>4 DEF Retries

LEMMA OtherStepsInv ==
    ASSUME RelayInv, [MsigNext]_msigVars,
           \/ \E e \in Events : Publish(e)
           \/ RateLimitPasses \/ Crash \/ OtherSubmits \/ Environment \/ UNCHANGED vars
    PROVE  RelayInv'
<1>1. relay \in Memory /\ Shaped(relay)
  BY DEF RelayInv, Shaped
<1>2. CASE \E e \in Events : Publish(e)
  BY <1>1, <1>2, QuietStep DEF RelayInv, Publish
<1>3. CASE RateLimitPasses
  <2>1. PICK h \in 0 .. relay.hour : relay' = [relay EXCEPT !.recent = FALSE, !.hour = h]
    BY <1>3 DEF RateLimitPasses
  <2>2. relay.hour \in 0 .. HourlyMax /\ HourlyMax \in Nat
    BY <1>1, BoundsNat, MemoryFields
  <2>3. h \in 0 .. HourlyMax /\ (relay.hour < HourlyMax => h < HourlyMax)
    BY <2>1, <2>2
  <2>4. relay' \in Memory /\ relay'.work = relay.work /\ relay'.hour = h
    BY <1>1, <2>1, <2>3 DEF Memory
  <2>5. Shaped(relay')
    BY <1>1, <2>3, <2>4 DEF Shaped
  <2> QED
    BY <1>3, <2>4, <2>5, QuietStep DEF RelayInv, RateLimitPasses
<1>4. CASE Crash
  <2>1. FreshMemory \in Memory /\ FreshMemory.work = NoWork
    <3>1. << >> \in Seq(Item) /\ << >> \in Seq(Events) /\ << >> \in Seq(Messages)
      OBVIOUS
    <3>2. NoWork \in WorkRecord
      BY <3>1, BoundsNat DEF NoWork, WorkRecord
    <3> QED
      BY <3>1, <3>2, BoundsNat DEF FreshMemory, Memory
  <2> QED
    BY <1>4, <2>1, ShapedIdle, QuietStep DEF RelayInv, Crash
<1>5. CASE OtherSubmits \/ Environment \/ UNCHANGED vars
  <2>1. UNCHANGED relayVars
    BY <1>5 DEF OtherSubmits, Environment, vars
  <2> QED
    BY <1>1, <2>1, QuietStep DEF RelayInv, relayVars
<1> QED
  BY <1>2, <1>3, <1>4, <1>5

LEMMA RelayStepInv == RelayInv /\ [Next]_vars => RelayInv' /\ [MsigNext]_msigVars
<1> SUFFICES ASSUME RelayInv, [Next]_vars PROVE RelayInv' /\ [MsigNext]_msigVars
  OBVIOUS
<1>1. [MsigNext]_msigVars
  BY RelayerIsMsigStep
<1>2. CASE \E e \in Events : HandleEvent(e)
  BY <1>1, <1>2, HandleEventInv
<1>3. CASE ReadNonce
  BY <1>1, <1>3, ReadNonceInv
<1>4. CASE SubmitReverts \/ RpcError
  BY <1>1, <1>4, FailedSubmissionInv
<1>5. CASE SubmitSucceeds
  BY <1>1, <1>5, SubmitSucceedsInv
<1>6. CASE Retries
  BY <1>1, <1>6, RetriesInv
<1>7. CASE \/ \E e \in Events : Publish(e)
           \/ RateLimitPasses \/ Crash \/ OtherSubmits \/ Environment \/ UNCHANGED vars
  BY <1>1, <1>7, OtherStepsInv
<1> QED
  BY <1>1, <1>2, <1>3, <1>4, <1>5, <1>6, <1>7 DEF Next, Submit

LEMMA RelayInit == Init => RelayInv
<1> SUFFICES ASSUME Init PROVE RelayInv
  OBVIOUS
<1>1. MsigInv
  BY MsigInitInv DEF Init
<1>2. relay = FreshMemory /\ FreshMemory \in Memory /\ FreshMemory.work = NoWork
  <2>1. << >> \in Seq(Item) /\ << >> \in Seq(Events) /\ << >> \in Seq(Messages)
    OBVIOUS
  <2>2. NoWork \in WorkRecord
    BY <2>1, BoundsNat DEF NoWork, WorkRecord
  <2> QED
    BY <2>1, <2>2, BoundsNat DEF FreshMemory, Memory, Init
<1>3. Shaped(relay) /\ ~relay.work.funding
  BY <1>2, ShapedIdle
<1>4. setup \in Setups /\ published \in SUBSET Events /\ visible = {} /\ announced = {}
  BY RelayerAssumption DEF Init, Setup
<1> QED
  BY <1>1, <1>3, <1>4 DEF RelayInv, CreatedBefore, AnnouncedExecuted

-----------------------------------------------------------------------------
(* What is in the relayer's hands.                                         *)

\* Two actions under way are those of a published TASK event.
TaskUnderWay ==
    Len(relay.work.msgs) = 2 =>
        \E e \in published :
            /\ Len(e.msgs) = 2
            /\ e.msgs[1] = relay.work.msgs[1] /\ e.msgs[2] = relay.work.msgs[2]

HandsInv == RelayInv /\ FundAfterCreate /\ TaskUnderWay

\* All that the memory r may still submit is in D.
Within(r, D) ==
    /\ r.work # NoWork => r.work.msgs[1] \in D
    /\ \A i \in DOMAIN r.queue : r.queue[i].msg \in D
    /\ \A i \in DOMAIN r.kept : r.kept[i].msg \in D

\* The actions that are due after a step.
DueNext == {m \in Messages : Due(m, published', log')}

LEMMA EnqueuedWithin ==
    ASSUME NEW D \in SUBSET Messages, NEW queue \in Seq(Item),
           \A i \in DOMAIN queue : queue[i].msg \in D,
           NEW m \in D, NEW a \in Nat \ {0}
    PROVE  \A i \in DOMAIN Enqueued(queue, m, a) : Enqueued(queue, m, a)[i].msg \in D
<1>1. CASE a > MaxRetries
  BY <1>1 DEF Enqueued
<1>2. CASE ~(a > MaxRetries)
  <2> DEFINE item == [msg |-> m, attempt |-> a]
  <2>1. item \in Item /\ item.msg = m
    BY <1>2, BoundsNat DEF Item
  <2>2. Enqueued(queue, m, a) = Append(queue, item)
    BY <1>2 DEF Enqueued
  <2> HIDE DEF item
  <2> QED
    BY <2>1, <2>2
<1> QED
  BY <1>1, <1>2

LEMMA ItemMessages ==
    ASSUME NEW queue \in Seq(Item)
    PROVE  \A i \in DOMAIN queue : queue[i].msg \in Messages
<1>1. \A i \in DOMAIN queue : queue[i] \in Item
  OBVIOUS
<1> QED
  BY <1>1 DEF Item

\* What is due stays due, and an action of the relayer's memory is a message.
LEMMA DueStays ==
    ASSUME HandsInv, [MsigNext]_msigVars, published \subseteq published'
    PROVE  /\ Within(relay, DueNext)
           /\ \A e \in published' : e.msgs[1] \in Messages => e.msgs[1] \in DueNext
<1>1. ASSUME NEW m \in Messages, Due(m, published, log)
      PROVE  m \in DueNext
  BY <1>1, LogGrows DEF HandsInv, RelayInv, Due, DueNext
<1>2. /\ relay \in Memory /\ relay.queue \in Seq(Item) /\ relay.kept \in Seq(Item)
      /\ relay.work # NoWork => relay.work.msgs[1] \in Messages
  BY MemoryFields, CurrentType DEF HandsInv, RelayInv, Shaped
<1>3. /\ \A i \in DOMAIN relay.queue : relay.queue[i].msg \in Messages
      /\ \A i \in DOMAIN relay.kept : relay.kept[i].msg \in Messages
  BY <1>2, ItemMessages
<1>4. Within(relay, DueNext)
  BY <1>1, <1>2, <1>3 DEF HandsInv, FundAfterCreate, Within
<1>5. \A e \in published' : e.msgs[1] \in Messages => e.msgs[1] \in DueNext
  BY DEF Due, DueNext
<1> QED
  BY <1>4, <1>5

\* A step after which all in hand is due, and no two actions are under way.
LEMMA HandsKept ==
    ASSUME RelayInv', Within(relay', DueNext),
           Len(relay'.work.msgs) # 2 \/ TaskUnderWay'
    PROVE  HandsInv'
<1>1. FundAfterCreate'
  BY DEF Within, FundAfterCreate, DueNext
<1>2. TaskUnderWay'
  BY DEF TaskUnderWay
<1> QED
  BY <1>1, <1>2 DEF HandsInv

\* A submission that is over; what it was about may wait for a retry.
LEMMA OverWithin ==
    ASSUME Shaped(relay), relay.work # NoWork, NEW D \in SUBSET Messages,
           NEW r \in Memory, r.queue = relay.queue, r.kept = relay.kept, Within(relay, D)
    PROVE  /\ Within(TryLater(r), D) /\ Len(TryLater(r).work.msgs) # 2
           /\ Within(GiveUp(r), D) /\ Len(GiveUp(r).work.msgs) # 2
<1> DEFINE q == Enqueued(r.queue, Current, relay.work.attempt + 1)
<1>1. relay.work.attempt + 1 \in Nat \ {0} /\ r.queue \in Seq(Item)
  BY BoundsNat, MemoryFields DEF Shaped
<1>2. Current \in D
  BY CurrentType DEF Within
<1>3. \A i \in DOMAIN q : q[i].msg \in D
  BY <1>1, <1>2, EnqueuedWithin DEF Within
<1>4. Len(NoWork.msgs) # 2
  BY DEF NoWork
<1>5. TryLater(r) = [r EXCEPT !.work = NoWork, !.queue = q]
  BY DEF TryLater
<1> HIDE DEF q
<1>6. TryLater(r).work = NoWork /\ TryLater(r).queue = q /\ TryLater(r).kept = r.kept
  BY <1>5 DEF Memory
<1>7. GiveUp(r).work = NoWork /\ GiveUp(r).queue = r.queue /\ GiveUp(r).kept = r.kept
  BY DEF GiveUp, Memory
<1> QED
  BY <1>3, <1>4, <1>6, <1>7 DEF Within

\* The FundEscrow behind an action that has succeeded is next, or waits.
LEMMA ConfirmedWithin ==
    ASSUME Shaped(relay), relay.work # NoWork, NEW D \in SUBSET Messages,
           Len(relay.work.msgs) = 2 => relay.work.msgs[2] \in D,
           NEW r \in Memory, r.queue = relay.queue, r.kept = relay.kept, Within(relay, D)
    PROVE  Within(Confirmed(r), D) /\ Len(Confirmed(r).work.msgs) # 2
<1> DEFINE msgs == relay.work.msgs
<1>1. msgs \in Seq(Messages) /\ r.queue \in Seq(Item)
  BY MemoryFields DEF Shaped
<1>2. CASE ~(relay.work.attempt = 0 /\ Len(msgs) = 2)
  BY <1>2, OverWithin DEF Confirmed
<1>3. CASE relay.work.attempt = 0 /\ Len(msgs) = 2 /\ ~(~setup.limited /\ r.hour < HourlyMax)
  <2> DEFINE q == Enqueued(r.queue, msgs[2], 1)
  <2>1. msgs[2] \in D /\ 1 \in Nat \ {0}
    BY <1>3
  <2>2. \A i \in DOMAIN q : q[i].msg \in D
    BY <1>1, <2>1, EnqueuedWithin DEF Within
  <2>3. Confirmed(r) = [r EXCEPT !.work = NoWork, !.queue = q]
    BY <1>3 DEF Confirmed
  <2> HIDE DEF q
  <2>4. Confirmed(r).work = NoWork /\ Confirmed(r).queue = q /\ Confirmed(r).kept = r.kept
    BY <2>3 DEF Memory
  <2>5. Len(NoWork.msgs) # 2
    BY DEF NoWork
  <2> QED
    BY <2>2, <2>4, <2>5 DEF Within
<1>4. CASE relay.work.attempt = 0 /\ Len(msgs) = 2 /\ ~setup.limited /\ r.hour < HourlyMax
  <2> DEFINE w == Work(Tail(msgs), TRUE, 0)
  <2>1. PICK tail \in Seq(Messages) :
            tail = Tail(msgs) /\ Len(tail) = 1 /\ tail[1] = msgs[2]
    BY <1>1, <1>4, TailOfTwo
  <2>2. 0 \in 0 .. MaxRetries
    BY BoundsNat
  <2>3. w.msgs = tail
    BY ONLY <2>1, <2>2, WorkFields DEF w
  <2>4. Confirmed(r) = [r EXCEPT !.work = w]
    BY <1>4 DEF Confirmed
  <2> HIDE DEF w
  <2>5. Confirmed(r).work = w /\ Confirmed(r).queue = r.queue /\ Confirmed(r).kept = r.kept
    BY <2>4 DEF Memory
  <2>6. w.msgs[1] \in D /\ Len(w.msgs) # 2
    <3>1. msgs[2] \in D /\ 1 # 2
      BY <1>4
    <3> QED
      BY ONLY <2>1, <2>3, <3>1, Zenon
  <2> QED
    BY <2>5, <2>6 DEF Within
<1> QED
  BY <1>2, <1>3, <1>4

LEMMA HandleEventHands ==
    ASSUME HandsInv, RelayInv', [MsigNext]_msigVars, NEW e \in Events, HandleEvent(e)
    PROVE  HandsInv'
<1> DEFINE r == [relay EXCEPT !.seen = Remember(@, e)]
           D == DueNext
<1>1. relay \in Memory /\ published' = published /\ e \in published /\ relay.work = NoWork
  BY DEF HandsInv, RelayInv, Shaped, HandleEvent, Idle
<1>2. r.work = NoWork /\ r.queue = relay.queue /\ r.kept = relay.kept /\ r.queue \in Seq(Item)
  BY <1>1, MemoryFields DEF Memory
<1>3. D \in SUBSET Messages /\ Within(relay, D) /\ e.msgs[1] \in D /\ Head(e.msgs) = e.msgs[1]
  BY <1>1, DueStays, EventMessages DEF DueNext
<1>4. relay' = IF MaySubmit THEN [r EXCEPT !.work = Work(e.msgs, FALSE, 0)] ELSE Waiting(r, e)
  BY DEF HandleEvent
<1>5. DOMAIN r = DOMAIN relay
  BY <1>1
<1> HIDE DEF r, D
<1>6. CASE MaySubmit
  <2> DEFINE w == Work(e.msgs, FALSE, 0)
  <2>1. w.msgs = e.msgs
    BY DEF Work
  <2>2. relay' = [r EXCEPT !.work = w]
    BY <1>4, <1>6
  <2> HIDE DEF w
  <2>3. relay'.work = w /\ relay'.queue = relay.queue /\ relay'.kept = relay.kept
    BY <1>1, <1>2, <1>5, <2>2 DEF Memory
  <2>4. Within(relay', D)
    BY <1>3, <2>1, <2>3 DEF Within
  <2>5. TaskUnderWay'
    BY <1>1, <2>1, <2>3 DEF TaskUnderWay
  <2> QED
    BY <2>4, <2>5, HandsKept DEF D
<1>7. CASE ~MaySubmit
  <2> DEFINE q == Enqueued(r.queue, Head(e.msgs), 1)
  <2>1. 1 \in Nat \ {0} /\ \A i \in DOMAIN r.queue : r.queue[i].msg \in D
    BY <1>2, <1>3 DEF Within
  <2>2. \A i \in DOMAIN q : q[i].msg \in D
    BY <1>2, <1>3, <2>1, EnqueuedWithin
  <2>3. relay' = [r EXCEPT !.queue = q]
    BY <1>4, <1>7 DEF Waiting
  <2> HIDE DEF q
  <2>4. relay'.work = NoWork /\ relay'.queue = q /\ relay'.kept = relay.kept
    BY <1>1, <1>2, <1>5, <2>3 DEF Memory
  <2>5. Within(relay', D) /\ Len(relay'.work.msgs) # 2
    BY <1>3, <2>2, <2>4 DEF Within, NoWork
  <2> QED
    BY <2>5, HandsKept DEF D
<1> QED
  BY <1>6, <1>7

LEMMA SubmitHands ==
    ASSUME HandsInv, RelayInv', [MsigNext]_msigVars, Submit
    PROVE  HandsInv'
<1> DEFINE D == DueNext
<1>1. /\ relay \in Memory /\ Shaped(relay) /\ relay.work # NoWork /\ relay.hour < HourlyMax
      /\ published' = published /\ setup \in Setups
  BY DEF HandsInv, RelayInv, Shaped, Submit, ReadNonce, SubmitSucceeds, SubmitReverts, RpcError,
         Submitting, NoWork
<1>2. D \in SUBSET Messages /\ Within(relay, D)
  BY <1>1, DueStays DEF DueNext
<1>3. PICK r \in Memory : r = Counting(relay)
  BY <1>1, CountingFields
<1>4. r.queue = relay.queue /\ r.kept = relay.kept
  BY <1>1, <1>3 DEF Counting, Memory
<1>5. CASE ReadNonce
  <2> DEFINE w == [relay.work EXCEPT !.nonce = msig.nonce]
  <2>1. relay.work \in WorkRecord
    BY <1>1, MemoryFields
  <2>2. w.msgs = relay.work.msgs
    BY <2>1 DEF WorkRecord
  <2>3. relay' = [relay EXCEPT !.work = w]
    BY <1>5 DEF ReadNonce
  <2> HIDE DEF w
  <2>4. relay'.work = w /\ relay'.queue = relay.queue /\ relay'.kept = relay.kept
    BY <1>1, <2>3 DEF Memory
  <2>5. Within(relay', D)
    BY <1>1, <1>2, <2>2, <2>4 DEF Within
  <2>6. TaskUnderWay'
    BY <1>1, <2>2, <2>4 DEF HandsInv, TaskUnderWay
  <2> QED
    BY <2>5, <2>6, HandsKept
<1>6. CASE SubmitReverts \/ RpcError
  <2>1. relay' \in {TryLater(relay), TryLater(r), GiveUp(r)}
    BY <1>3, <1>6 DEF SubmitReverts, RpcError
  <2> HIDE DEF D
  <2>2. Within(relay', D) /\ Len(relay'.work.msgs) # 2
    BY <1>1, <1>2, <1>4, <2>1, OverWithin
  <2> QED
    BY <2>2, HandsKept DEF D
\* The CreateEscrow has just been executed.
<1>7. CASE SubmitSucceeds
  <2>1. relay' = Confirmed(r)
    BY <1>3, <1>7 DEF SubmitSucceeds
  <2>2. /\ Current \in Messages /\ Current = relay.work.msgs[1] /\ Self \in Submitters
        /\ relay.work.msgs \in Seq(Messages)
    BY <1>1, CurrentType, MemoryFields, RelayerAssumption
  <2>3. \E i \in DOMAIN log' : log'[i].msg = Current
    <3>1. MsigTypeOK /\ Execute(Self, Current)
      BY <1>7 DEF HandsInv, RelayInv, MsigInv, SubmitSucceeds
    <3>2. /\ log' \in Seq(Entry) /\ Len(log) \in Nat /\ Len(log') = Len(log) + 1
          /\ log'[Len(log) + 1] = Record(Current)
      BY <2>2, <3>1, LogAfterExecute
    <3>3. Record(Current).msg = Current
      BY <2>2, <3>1, RecordFields
    <3> QED
      BY <3>2, <3>3
  <2>4. Len(relay.work.msgs) = 2 => relay.work.msgs[2] \in D
    <3> SUFFICES ASSUME Len(relay.work.msgs) = 2
                 PROVE  relay.work.msgs[2] \in D
      OBVIOUS
    <3>1. PICK e \in published : /\ Len(e.msgs) = 2 /\ e.msgs[1] = relay.work.msgs[1]
                                 /\ e.msgs[2] = relay.work.msgs[2]
      BY DEF HandsInv, TaskUnderWay
    <3>2. relay.work.msgs[2] \in Messages
      BY <2>2
    <3> QED
      BY <1>1, <2>2, <2>3, <3>1, <3>2 DEF DueNext, Due
  <2> HIDE DEF D
  <2>5. Within(relay', D) /\ Len(relay'.work.msgs) # 2
    BY <1>1, <1>2, <1>4, <2>1, <2>4, ConfirmedWithin
  <2> QED
    BY <2>5, HandsKept DEF D
<1> QED
  BY <1>5, <1>6, <1>7 DEF Submit

LEMMA RetriesHands ==
    ASSUME HandsInv, RelayInv', [MsigNext]_msigVars, Retries
    PROVE  HandsInv'
<1> DEFINE D == DueNext
<1>1. /\ relay \in Memory /\ relay.work = NoWork /\ published' = published
      /\ relay.queue \in Seq(Item) /\ relay.kept \in Seq(Item) /\ Len(NoWork.msgs) # 2
  BY MemoryFields DEF HandsInv, RelayInv, Shaped, Retries, StartRetries, Idle, NextRetry,
                      EndRetries, NoWork
<1>2. D \in SUBSET Messages /\ Within(relay, D)
  BY <1>1, DueStays DEF DueNext
<1> HIDE DEF D
<1>3. CASE StartRetries
  <2>1. relay'.work = NoWork /\ relay'.queue = relay.queue /\ relay'.kept = relay.kept
    BY <1>1, <1>3 DEF StartRetries, Memory
  <2> QED
    BY <1>1, <1>2, <2>1, HandsKept DEF Within, D
<1>4. CASE EndRetries
  <2>1. relay'.work = NoWork /\ relay'.queue = relay.kept /\ relay'.kept = << >>
    BY <1>1, <1>4 DEF EndRetries, Memory
  <2>2. Within(relay', D)
    BY <1>2, <2>1 DEF Within
  <2> QED
    BY <1>1, <2>1, <2>2, HandsKept DEF D
<1>5. CASE NextRetry
  <2>1. relay.queue # << >>
    BY <1>5 DEF NextRetry
  <2>2. PICK item \in Item : item = Head(relay.queue)
    BY <1>1, <2>1, HeadTailProperties
  <2>3. PICK rest \in Seq(Item) : rest = Tail(relay.queue)
    BY <1>1, <2>1, HeadTailProperties
  <2>4. item.msg \in D /\ \A i \in DOMAIN rest : rest[i].msg \in D
    BY <1>1, <1>2, <2>1, <2>2, <2>3 DEF Within
  <2>5. CASE MaySubmit
    <3> DEFINE w == Work(<<item.msg>>, FALSE, item.attempt)
    <3>1. w.msgs = <<item.msg>>
      BY DEF Work
    <3>2. relay' = [relay EXCEPT !.queue = rest, !.work = w]
      BY <1>5, <2>2, <2>3, <2>5 DEF NextRetry
    <3> HIDE DEF w
    <3>3. relay'.work = w /\ relay'.queue = rest /\ relay'.kept = relay.kept
      BY <1>1, <3>2 DEF Memory
    <3>4. w.msgs[1] \in D /\ Len(w.msgs) # 2
      BY <2>4, <3>1
    <3>5. Within(relay', D)
      BY <1>2, <2>4, <3>3, <3>4 DEF Within
    <3> QED
      BY <3>3, <3>4, <3>5, HandsKept DEF D
  <2>6. CASE ~MaySubmit
    <3>1. relay' = [relay EXCEPT !.queue = rest, !.kept = Append(relay.kept, item)]
      BY <1>5, <2>2, <2>3, <2>6 DEF NextRetry
    <3> DEFINE k == Append(relay.kept, item)
    <3>2. \A i \in DOMAIN k : k[i].msg \in D
      BY <1>1, <1>2, <2>4 DEF Within
    <3> HIDE DEF k
    <3>3. relay'.work = NoWork /\ relay'.queue = rest /\ relay'.kept = k
      BY <1>1, <3>1 DEF Memory, k
    <3>4. Within(relay', D)
      BY <2>4, <3>2, <3>3 DEF Within
    <3> QED
      BY <1>1, <3>3, <3>4, HandsKept DEF D
  <2> QED
    BY <2>5, <2>6
<1> QED
  BY <1>3, <1>4, <1>5 DEF Retries

LEMMA OtherHands ==
    ASSUME HandsInv, RelayInv', [MsigNext]_msigVars,
           \/ \E e \in Events : Publish(e)
           \/ RateLimitPasses \/ Crash \/ OtherSubmits \/ Environment \/ UNCHANGED vars
    PROVE  HandsInv'
<1>1. published \subseteq published' /\ relay \in Memory
  BY DEF HandsInv, RelayInv, Shaped, Publish, RateLimitPasses, Crash, OtherSubmits, Environment,
         vars, relayVars
<1>2. Within(relay, DueNext)
  BY <1>1, DueStays
<1>3. CASE Crash
  <2>1. relay' = FreshMemory
    BY <1>3 DEF Crash
  <2> QED
    BY <2>1, HandsKept DEF FreshMemory, Within, NoWork
<1>4. CASE ~Crash
  <2>1. relay'.work = relay.work /\ relay'.queue = relay.queue /\ relay'.kept = relay.kept
    BY <1>1, <1>4
    DEF Publish, RateLimitPasses, OtherSubmits, Environment, vars, relayVars, Memory
  <2>2. Within(relay', DueNext)
    BY <1>2, <2>1 DEF Within
  <2>3. TaskUnderWay'
    BY <1>1, <2>1 DEF HandsInv, TaskUnderWay
  <2> QED
    BY <2>2, <2>3, HandsKept
<1> QED
  BY <1>3, <1>4

LEMMA HandsStep == HandsInv /\ [Next]_vars => HandsInv'
<1> SUFFICES ASSUME HandsInv, [Next]_vars PROVE HandsInv'
  OBVIOUS
<1>1. RelayInv' /\ [MsigNext]_msigVars
  BY RelayStepInv DEF HandsInv
<1>2. CASE \E e \in Events : HandleEvent(e)
  BY <1>1, <1>2, HandleEventHands
<1>3. CASE Submit \/ Retries
  BY <1>1, <1>3, SubmitHands, RetriesHands
<1>4. CASE \/ \E e \in Events : Publish(e)
           \/ RateLimitPasses \/ Crash \/ OtherSubmits \/ Environment \/ UNCHANGED vars
  BY <1>1, <1>4, OtherHands
<1> QED
  BY <1>2, <1>3, <1>4 DEF Next

LEMMA HandsInit == Init => HandsInv
<1> SUFFICES ASSUME Init PROVE HandsInv
  OBVIOUS
<1>1. relay = FreshMemory
  BY DEF Init
<1>2. FundAfterCreate /\ TaskUnderWay
  BY <1>1 DEF FreshMemory, NoWork, FundAfterCreate, TaskUnderWay
<1> QED
  BY <1>2, RelayInit DEF HandsInv

-----------------------------------------------------------------------------
(* Theorems.                                                               *)

\* Whatever is published, retried, lost in a crash or submitted by others, the
\* relayer's memory keeps its shape and its announcements are justified.
THEOREM RelayerSound == Spec => []RelayInv
<1>1. RelayInv /\ [Next]_vars => RelayInv'
  BY RelayStepInv
<1> QED
  BY <1>1, RelayInit, PTL DEF Spec

\* The relayer and its environment are one environment of the wallet: what holds
\* of the wallet with anybody as submitter holds with this relayer.
THEOREM RelayerImplementsMsig == Spec => MsigSpec
<1>1. Init => MsigInit
  BY DEF Init
<1>2. RelayInv /\ [Next]_vars => [MsigNext]_msigVars
  BY RelayStepInv
<1> QED
  BY <1>1, <1>2, RelayerSound, PTL DEF Spec, MsigSpec

\* Type correctness of wallet, calls in flight and relayer.
THEOREM RelayerTypeOK == Spec => []TypeOK
<1>1. RelayInv => TypeOK
  BY DEF RelayInv, MsigInv, Shaped, TypeOK
<1> QED
  BY <1>1, RelayerSound, PTL

\* No action runs twice and none out of turn, with retries, restarts and others
\* that submit the same events.
THEOREM RelayerExecutedOnce == Spec => []ExecutedOnce
  BY RelayerImplementsMsig, MsigExecutedOnce, PTL

\* The two limits on what goes out.
THEOREM RelayerWithinLimits == Spec => []WindowWithinLimit /\ []SlidingLimit
  BY RelayerImplementsMsig, MsigWindowWithinLimit, MsigSlidingLimit, PTL

\* With the relayer beside it too: the wallet never funds an escrow whose creation
\* a relayer submitted, which is the flow of DESIGN-MSIG.md.
THEOREM RelayerFundedBySelfOnly == Spec => []FundedBySelfOnly
  BY RelayerImplementsMsig, MsigFundedBySelfOnly, PTL

\* FUNDED is announced for jobs whose two actions were executed in order.
THEOREM RelayerAnnouncedExecuted == Spec => []AnnouncedExecuted
<1>1. RelayInv => AnnouncedExecuted
  BY DEF RelayInv
<1> QED
  BY <1>1, RelayerSound, PTL

\* Through retries, passes over them, rate limits and crashes, a FundEscrow that came
\* behind a CreateEscrow is never in the relayer's hands before the CreateEscrow of
\* its event has been executed, whichever events are published.
THEOREM RelayerFundAfterCreate == Spec => []FundAfterCreate
<1>1. HandsInv => FundAfterCreate
  BY DEF HandsInv
<1> QED
  BY <1>1, HandsInit, HandsStep, PTL DEF Spec

\* The owner replaces a key only when every execution is a cooldown back, because
\* the contract remembers the block of the last one.
LEMMA KeyChange ==
    ASSUME MsigInv, [MsigNext]_msigVars, msig'.key # msig.key
    PROVE  \/ /\ Len(log') = Len(log) + 1
              /\ log'[Len(log')].msg.action.kind = "rotate"
              /\ log'[Len(log')].msg.key = msig.key
           \/ \A i \in DOMAIN log : block - log[i].block >= Cooldown
<1>1. CASE \E s \in Submitters, m \in Messages : Execute(s, m)
  <2>1. PICK s \in Submitters, m \in Messages : Execute(s, m)
    BY <1>1
  <2>2. MsigTypeOK /\ m.nonce = msig.nonce + 1 /\ m.key = msig.key /\ msig' = Executed(m)
    BY <2>1 DEF Execute, CanExecute, MsigInv
  <2>3. Len(log') = Len(log) + 1 /\ log'[Len(log) + 1] = Record(m)
    BY <2>1, <2>2, LogAfterExecute
  <2>4. Record(m).msg = m
    BY <2>2, RecordFields
  <2>5. m.action.kind = "rotate"
    BY <2>2, ExecutedFields
  <2> QED
    BY <2>2, <2>3, <2>4, <2>5
<1>2. CASE Owner
  <2>1. \E k \in Keys : ForceRotate(k)
    BY <1>2 DEF Owner, ForceRotate, SetAllowedTokens, SetSpendingLimits, MsigInv, MsigTypeOK, MsigRecord
  <2>2. block - msig.lastAction >= Cooldown
    BY <2>1 DEF ForceRotate
  <2>3. \A i \in DOMAIN log : log[i].block \in Nat /\ log[i].block <= msig.lastAction
    BY Numbers DEF MsigInv, BlocksInOrder
  <2>4. msig.lastAction \in Nat /\ block \in Nat /\ Cooldown \in Nat
    BY Numbers DEF MsigInv, MsigTypeOK, MsigRecord
  <2> QED
    BY <2>2, <2>3, <2>4
<1>3. CASE UNCHANGED msig
  BY <1>3
<1>4. \/ \E s \in Submitters, m \in Messages : Execute(s, m)
      \/ Owner \/ UNCHANGED msig
  BY DEF MsigNext, Chain, RunCall, OnActionCallback, RefundArrives, FtOnTransfer, Tick, msigVars
<1> QED
  BY <1>1, <1>2, <1>3, <1>4

\* The key changes by the old key's own rotation, or after a cooldown without
\* any execution.
THEOREM RelayerKeyChangeJustified == Spec => KeyChangeJustified
<1>1. RelayInv /\ [Next]_vars =>
        (msig'.key # msig.key =>
          \/ /\ Len(log') = Len(log) + 1
             /\ log'[Len(log')].msg.action.kind = "rotate"
             /\ log'[Len(log')].msg.key = msig.key
          \/ \A i \in DOMAIN log : block - log[i].block >= Cooldown)
  BY RelayStepInv, KeyChange DEF RelayInv
<1> QED
  BY <1>1, RelayerSound, PTL DEF Spec, KeyChangeJustified
=============================================================================
