------------------------------- MODULE Escrow -------------------------------
(***************************************************************************)
(* The escrow contract of src/lib.rs on the NEAR runtime.                  *)
(*                                                                         *)
(* An agent creates an escrow and funds it with ft_transfer_call; a worker *)
(* claims it, submits a result and thereby creates a yielded promise; the  *)
(* verifiers resume the promise with a signed verdict, or it times out;    *)
(* the callback decides where the tokens go and sends a batch of token     *)
(* transfers; a second callback, run when the batch has executed, settles  *)
(* the escrow.  Any handler may run between those steps.                   *)
(*                                                                         *)
(* A handler is one action.  One that panics changes nothing and has no    *)
(* action.  A yielded promise, a batch of transfers and a deposit that the *)
(* token contract has yet to announce are receipts in flight, kept in      *)
(* `yields', `batches' and `transfers'.  `flow' is a history variable: the *)
(* tokens and stakes moved for each escrow, read by no action.             *)
(***************************************************************************)
EXTENDS Integers, WorkerWallet, VerifierSet

CONSTANTS
    Jobs,            \* job ids
    Terms,           \* parameters given to create_escrow, valid or not
    Workers,         \* NEAR accounts that claim and submit
    Depositors,      \* NEAR accounts that deposit tokens
    Relayers,        \* accounts that relay the messages of internal workers
    FirstOwner,      \* account that deploys the contract
    Payloads,        \* what a verifier may sign: verdicts and garbage
    MaxTimeout,      \* the longest timeout of an escrow, 8760 hours
    SafetyTimeout,   \* VERIFICATION_SAFETY_TIMEOUT_MS
    MaxRetries,      \* MAX_SETTLEMENT_RETRIES
    RetryWrap,       \* retry_count is an u8: 256
    Faults,          \* what goes wrong in this instance, see FaultKinds
    AdminOps,        \* what the owner does in this instance, see AdminKinds
    MaxCreates,      \* bound: escrows created
    MaxYields,       \* bound: results submitted for verification
    MaxBatches,      \* bound: settlements in flight at a time
    MaxDeposits,     \* bound: token deposits made for each job id
    MaxTime          \* bound: the clock

\* overlap: a handler is called for an escrow whose settlement is in flight;
\* partial: one transfer of a batch fails and another one succeeds;
\* lostYield, lostCallback: a callback aborts, for instance out of gas.
FaultKinds == {"overlap", "partial", "lostYield", "lostCallback"}

AdminKinds == {"pause", "token", "owner", "deposit", "stake", "verifiers", "workers"}

\* What create_escrow asserts of its parameters.
IsValid(t) ==
    t.amount > 0 /\ t.timeout <= MaxTimeout /\ t.fee < t.amount /\ t.threshold <= 100

Modes == {"Standard", "Competitive"}

Term == [agent : Accounts, amount : Nat, fee : Nat, timeout : Nat, mode : Modes,
         max : Nat, deadline : Nat, threshold : Nat]

Payload == [kind : {"verdict", "malformed"}, score : Nat, passed : BOOLEAN]

ASSUME EscrowAssumption ==
    /\ NoOne \notin Jobs
    /\ Terms \subseteq Term
    /\ Workers \subseteq Accounts /\ Depositors \subseteq Accounts
    /\ Relayers \subseteq Accounts /\ FirstOwner \in Accounts
    /\ Payloads \subseteq Payload
    /\ SafetyTimeout \in Nat \ {0} /\ MaxTimeout \in Nat
    /\ RetryWrap \in Nat \ {0} /\ MaxRetries \in 0 .. RetryWrap - 1
    /\ Faults \subseteq FaultKinds /\ AdminOps \subseteq AdminKinds
    /\ {MaxCreates, MaxYields, MaxBatches, MaxDeposits, MaxTime} \subseteq Nat

\* A job id is at most MAX_JOB_ID_LEN long, a public key has 32 bytes.
ASSUME FiniteAssumption == IsFiniteSet(Jobs) /\ IsFiniteSet(Pubkeys)

VARIABLES
    escrows,     \* job id -> escrow, NoEscrow when the map has none
    index,       \* data_id_index: data id -> job id
    stats,       \* the cached counters
    config,      \* owner, pause switch, token whitelist, deposit and stake
    yields,      \* the yielded promises, by data id
    batches,     \* settlements in flight
    transfers,   \* token deposits in flight, by the job id of their message
    flow,        \* history: tokens and stakes moved for each escrow
    now          \* block time

vars == <<escrows, index, stats, config, yields, batches, transfers, flow, now,
          wallet, pool, verifiers>>

ValidTerms == {t \in Terms : IsValid(t)}

YieldIds == 1 .. MaxYields
BatchIds == 1 .. MaxBatches

Statuses == {"PendingFunding", "Open", "InProgress", "Verifying", "Claimed",
             "Refunded", "Cancelled", "SettlementFailed"}
Targets == {"None", "Claim", "Refund", "FullRefund"}

Submission == [worker : Accounts, stake : Nat, pubkey : Pubkeys \cup {NoOne}]

\* Option fields: NoOne, 0 or "None" is None.  A verdict that was not given is
\* one that did not pass.
EscrowRecord ==
    [terms : ValidTerms, status : Statuses, target : Targets,
     worker : Accounts \cup {NoOne}, pubkey : Pubkeys \cup {NoOne},
     created : Nat, since : Nat, dataId : 0 .. MaxYields, consumed : BOOLEAN,
     score : 0 .. 255, passed : BOOLEAN, subs : SUBSET Submission,
     stake : Nat, payout : Nat, stakeRefund : Nat, retry : 0 .. RetryWrap - 1]

NoEscrow == [status |-> "Absent"]

NoPayload == [kind |-> "malformed", score |-> 0, passed |-> FALSE]
Yield(j, phase) == [job |-> j, phase |-> phase, payload |-> NoPayload]
YieldRecord == [job : Jobs, phase : {"waiting", "resumed"}, payload : Payload]
                 \cup {Yield(NoOne, phase) : phase \in {"unused", "done", "aborted"}}

NoBatch == [job |-> NoOne, to |-> "agent", amount |-> 0, fee |-> 0, phase |-> "free"]
Batch == [job : Jobs, to : {"agent", "worker"}, amount : Nat, fee : Nat,
          phase : {"sent", "ok", "failed"}] \cup {NoBatch}

NoTransfer(count) == [from |-> NoOne, amount |-> 0, count |-> count]

\* in, agent, worker, owner: tokens deposited and transferred; credit: tokens
\* credited to an internal worker; bond: stake posted, own and relayed: that of
\* the submissions of accounts and of internal workers, bondBack: returned to
\* who posted it, bondGone: paid to someone else; storage: refunds of the
\* storage deposit, where 2 stands for more than one.
Flow == [in : Nat, agent : Nat, worker : Nat, owner : Nat, credit : Nat,
         bond : Nat, own : Nat, relayed : Nat, bondBack : Int, bondGone : Int, storage : 0 .. 2]
NoFlow == [in |-> 0, agent |-> 0, worker |-> 0, owner |-> 0, credit |-> 0,
           bond |-> 0, own |-> 0, relayed |-> 0, bondBack |-> 0, bondGone |-> 0, storage |-> 0]

Config == [owner : Accounts, pending : Accounts \cup {NoOne}, paused : BOOLEAN,
           tokenAllowed : BOOLEAN, storageDeposit : Nat, workerStake : Nat]

TypeOK ==
    /\ escrows \in [Jobs -> EscrowRecord \cup {NoEscrow}]
    /\ index \in [YieldIds -> Jobs \cup {NoOne}]
    /\ stats \in [Statuses \cup {"total"} -> Nat]
    /\ config \in Config
    /\ yields \in [YieldIds -> YieldRecord]
    /\ batches \in [BatchIds -> Batch]
    /\ transfers \in [Jobs -> [from : Accounts \cup {NoOne}, amount : Nat, count : Nat]]
    /\ flow \in [Jobs -> Flow]
    /\ now \in Nat
    /\ WalletTypeOK
    /\ VerifierTypeOK

Init ==
    /\ escrows = [j \in Jobs |-> NoEscrow]
    /\ index = [d \in YieldIds |-> NoOne]
    /\ stats = [s \in Statuses \cup {"total"} |-> 0]
    /\ config = [owner |-> FirstOwner, pending |-> NoOne, paused |-> FALSE,
                 tokenAllowed |-> TRUE, storageDeposit |-> 1, workerStake |-> 1]
    /\ yields = [d \in YieldIds |-> Yield(NoOne, "unused")]
    /\ batches = [b \in BatchIds |-> NoBatch]
    /\ transfers = [j \in Jobs |-> NoTransfer(0)]
    /\ flow = [j \in Jobs |-> NoFlow]
    /\ now = 0
    /\ WalletInit
    /\ VerifierInit

-----------------------------------------------------------------------------
\* transition_stats: both counters saturate.
Moved(st, from, to) ==
    LET left == [st EXCEPT ![from] = IF @ > 0 THEN @ - 1 ELSE 0]
    IN [left EXCEPT ![to] = @ + 1]

StorageBack(f) == [f EXCEPT !.storage = IF @ < 2 THEN @ + 1 ELSE @]
BondBack(f, stake) == [f EXCEPT !.bondBack = @ + stake]
BondGone(f, stake) == [f EXCEPT !.bondGone = @ + stake]

Expired(e) == now > e.created + e.terms.timeout
\* Mutant: no safety timeout.
StuckAtOnce(e) == now >= e.since

Stuck(e) == now >= e.since + SafetyTimeout

\* Mutant: the target is left in place.
SettledKeepsTarget(e) ==
    [e EXCEPT !.status = IF e.target = "Claim" THEN "Claimed" ELSE "Refunded",
              !.stake = 0, !.payout = 0, !.stakeRefund = 0]

\* The escrow after a settlement that went through.
Settled(e) ==
    [e EXCEPT !.status = IF e.target = "Claim" THEN "Claimed" ELSE "Refunded",
              !.target = "None", !.stake = 0, !.payout = 0, !.stakeRefund = 0]

\* The end of a settlement: the worker's credits are applied, its stake and the
\* storage deposit go back.  `st' and `f' are the counters and the history of
\* the escrow as the handler leaves them before it settles.
Finish(j, e, st, f) ==
    /\ escrows' = [escrows EXCEPT ![j] = Settled(e)]
    /\ stats' = Moved(st, e.status, Settled(e).status)
    /\ IF e.pubkey = NoOne
       THEN /\ flow' = [flow EXCEPT ![j] = BondBack(StorageBack(f), e.stake)]
            /\ UNCHANGED wallet
       ELSE /\ flow' = [flow EXCEPT ![j] =
                          [BondBack(StorageBack(f), e.stakeRefund) EXCEPT !.credit = @ + e.payout]]
            /\ wallet' = [wallet EXCEPT ![e.pubkey] = Credited(@, e.payout, e.stakeRefund)]

\* Mutants: the fee is credited to the worker as well as sent to the owner; a
\* worker that was refused is credited.
PreparedWithFee(e) ==
    [e EXCEPT !.payout = IF e.target = "Claim" /\ e.pubkey # NoOne THEN e.terms.amount ELSE 0,
              !.stakeRefund = IF e.pubkey # NoOne THEN e.stake ELSE 0]
PreparedForAnyone(e) ==
    [e EXCEPT !.payout = IF e.pubkey # NoOne THEN e.terms.amount - e.terms.fee ELSE 0,
              !.stakeRefund = IF e.pubkey # NoOne THEN e.stake ELSE 0]

\* The credits of an internal worker wait in the escrow for the callback; what
\* a handler stored there before it settles is overwritten.
Prepared(e) ==
    [e EXCEPT !.payout = IF e.target = "Claim" /\ e.pubkey # NoOne
                         THEN e.terms.amount - e.terms.fee ELSE 0,
              !.stakeRefund = IF e.pubkey # NoOne THEN e.stake ELSE 0]

\* Mutants: an internal worker's payout is transferred too; no fee is sent.
BatchPaysRelayer(j, e) ==
    [job |-> j, phase |-> "sent",
     to |-> IF e.target = "Claim" THEN "worker" ELSE "agent",
     amount |-> IF e.target = "FullRefund" THEN e.terms.amount ELSE e.terms.amount - e.terms.fee,
     fee |-> IF e.target = "FullRefund" THEN 0 ELSE e.terms.fee]
BatchWithoutFee(j, e) == [BatchPaysRelayer(j, e) EXCEPT !.fee = 0]

\* The transfers of a settlement: an internal worker's payout needs none.
BatchFor(j, e) ==
    [job |-> j, phase |-> "sent",
     to |-> IF e.target = "Claim" THEN "worker" ELSE "agent",
     amount |-> CASE e.target = "FullRefund" -> e.terms.amount
                  [] e.target = "Claim" /\ e.pubkey # NoOne -> 0
                  [] OTHER -> e.terms.amount - e.terms.fee,
     fee |-> IF e.target = "FullRefund" THEN 0 ELSE e.terms.fee]

\* _settle_escrow, run by the handlers below on the escrow they have updated.
SettleEscrow(j, e, st, f) ==
    LET p == Prepared(e)
        sent == BatchFor(j, p)
    IN \/ /\ sent.amount + sent.fee = 0
          /\ Finish(j, p, st, f)
          /\ UNCHANGED batches
       \/ /\ sent.amount + sent.fee > 0
          /\ \E b \in BatchIds :
                /\ batches[b].phase = "free"
                /\ \A c \in 1 .. b - 1 : batches[c].phase # "free"
                /\ batches' = [batches EXCEPT ![b] = sent]
          /\ escrows' = [escrows EXCEPT ![j] = p]
          /\ stats' = st
          /\ flow' = [flow EXCEPT ![j] = f]
          /\ UNCHANGED wallet

\* Mutant: the data id is not indexed.
OpenYieldUnindexed(j, d) ==
    /\ yields[d].phase = "unused"
    /\ \A c \in 1 .. d - 1 : yields[c].phase # "unused"
    /\ yields' = [yields EXCEPT ![d] = Yield(j, "waiting")]
    /\ UNCHANGED index

\* promise_yield_create, and the index entry for it.
OpenYield(j, d) ==
    /\ yields[d].phase = "unused"
    /\ \A c \in 1 .. d - 1 : yields[c].phase # "unused"
    /\ yields' = [yields EXCEPT ![d] = Yield(j, "waiting")]
    /\ index' = [index EXCEPT ![d] = j]

\* Mutant: the data id is not stored.
VerifyingNoData(e, d) == [e EXCEPT !.status = "Verifying", !.since = now]

Verifying(e, d) == [e EXCEPT !.status = "Verifying", !.since = now, !.dataId = d]

\* Removes the index entry of the escrow's yield.
Unindexed(e) ==
    IF e.dataId = 0 THEN index ELSE [index EXCEPT ![e.dataId] = NoOne]

-----------------------------------------------------------------------------
\* Creation and funding.

NewEscrow(t) ==
    [terms |-> t, status |-> "PendingFunding", target |-> "None",
     worker |-> NoOne, pubkey |-> NoOne, created |-> now, since |-> 0,
     dataId |-> 0, consumed |-> FALSE, score |-> 0, passed |-> FALSE,
     subs |-> {}, stake |-> 0, payout |-> 0, stakeRefund |-> 0, retry |-> 0]

CreateEscrow(j, t, attached) ==
    /\ ~config.paused
    /\ config.tokenAllowed
    /\ escrows[j].status = "Absent"
    /\ IsValid(t)
    /\ attached >= config.storageDeposit
    /\ stats["total"] < MaxCreates
    /\ escrows' = [escrows EXCEPT ![j] = NewEscrow(t)]
    /\ stats' = [stats EXCEPT !["total"] = @ + 1, !["PendingFunding"] = @ + 1]
    /\ flow' = [flow EXCEPT ![j] = NoFlow]
    /\ UNCHANGED <<index, config, yields, batches, transfers, now, wallet, pool, verifiers>>

\* The token contract moves the tokens before it calls ft_on_transfer.
FtTransferCall(j, from, amount) ==
    /\ transfers[j].from = NoOne
    /\ amount > 0
    /\ transfers[j].count < MaxDeposits
    /\ transfers' = [transfers EXCEPT ![j] = [from |-> from, amount |-> amount, count |-> @.count + 1]]
    /\ pool' = pool + amount
    /\ UNCHANGED <<escrows, index, stats, config, yields, batches, flow, now, wallet, verifiers>>

Accepted(t, e) ==
    /\ config.tokenAllowed
    /\ e.status = "PendingFunding"
    /\ t.from = e.terms.agent
    /\ t.amount = e.terms.amount

FtOnTransferAccept(j) ==
    /\ transfers[j].from # NoOne
    /\ Accepted(transfers[j], escrows[j])
    /\ escrows' = [escrows EXCEPT ![j].status = "Open"]
    /\ stats' = Moved(stats, "PendingFunding", "Open")
    /\ flow' = [flow EXCEPT ![j].in = @ + transfers[j].amount]
    /\ transfers' = [transfers EXCEPT ![j] = NoTransfer(@.count)]
    /\ UNCHANGED <<index, config, yields, batches, now, wallet, pool, verifiers>>

\* The token contract takes back what the escrow contract does not accept, if
\* the contract still has as much.
FtOnTransferReject(j) ==
    /\ transfers[j].from # NoOne
    /\ ~Accepted(transfers[j], escrows[j])
    /\ pool' = IF pool >= transfers[j].amount THEN pool - transfers[j].amount ELSE pool
    /\ transfers' = [transfers EXCEPT ![j] = NoTransfer(@.count)]
    /\ UNCHANGED <<escrows, index, stats, config, yields, batches, flow, now, wallet, verifiers>>

-----------------------------------------------------------------------------
\* Claiming, and submitting results.

Claim(j, w, attached) ==
    LET e == escrows[j] IN
    /\ ~config.paused
    /\ e.status = "Open" /\ e.worker = NoOne
    /\ w # e.terms.agent
    /\ attached >= config.workerStake
    /\ escrows' = [escrows EXCEPT ![j] =
                     [e EXCEPT !.status = "InProgress", !.worker = w, !.stake = attached]]
    /\ stats' = Moved(stats, "Open", "InProgress")
    /\ flow' = [flow EXCEPT ![j].bond = @ + attached]
    /\ UNCHANGED <<index, config, yields, batches, transfers, now, wallet, pool, verifiers>>

\* The relayer, who signs the transaction, becomes the escrow's worker account,
\* "as fallback".
ClaimFor(j, p, r) ==
    LET e == escrows[j]
        stake == config.workerStake
    IN
    /\ ~config.paused
    /\ Known(p)
    /\ e.status = "Open" /\ e.worker = NoOne /\ e.pubkey = NoOne
    /\ p # e.terms.agent
    /\ wallet[p].near >= stake
    /\ escrows' = [escrows EXCEPT ![j] =
                     [e EXCEPT !.status = "InProgress", !.worker = r, !.pubkey = p,
                               !.stake = stake]]
    /\ stats' = Moved(stats, "Open", "InProgress")
    /\ flow' = [flow EXCEPT ![j].bond = @ + stake]
    /\ wallet' = [wallet EXCEPT ![p] = Bumped([wallet[p] EXCEPT !.near = @ - stake])]
    /\ UNCHANGED <<index, config, yields, batches, transfers, now, pool, verifiers>>

\* The counters are not told that the escrow is now Verifying.
SubmitResult(j, w) ==
    LET e == escrows[j] IN
    /\ ~config.paused
    /\ e.status = "InProgress" /\ e.terms.mode = "Standard"
    /\ e.worker = w
    /\ \E d \in YieldIds :
          /\ OpenYield(j, d)
          /\ escrows' = [escrows EXCEPT ![j] = Verifying(e, d)]
    /\ UNCHANGED <<stats, config, batches, transfers, flow, now, wallet, pool, verifiers>>

\* A handler that takes a signed submission registers an unknown worker.
Relayed(p) == Bumped([wallet[p] EXCEPT !.registered = TRUE])

SubmitResultFor(j, p) ==
    LET e == escrows[j] IN
    /\ ~config.paused /\ ~wallet[p].paused
    /\ e.status = "InProgress" /\ e.terms.mode = "Standard"
    /\ e.pubkey = p
    /\ \E d \in YieldIds :
          /\ OpenYield(j, d)
          /\ escrows' = [escrows EXCEPT ![j] = Verifying(e, d)]
    /\ stats' = Moved(stats, "InProgress", "Verifying")
    /\ wallet' = [wallet EXCEPT ![p] = Relayed(p)]
    /\ UNCHANGED <<config, batches, transfers, flow, now, pool, verifiers>>

\* A submission for an escrow that is being verified is answered as a replay;
\* it has used the nonce up.
SubmitResultForReplay(j, p) ==
    LET e == escrows[j] IN
    /\ ~config.paused /\ ~wallet[p].paused
    /\ e.status = "Verifying" /\ e.terms.mode = "Standard"
    /\ e.pubkey = p /\ e.dataId # 0
    /\ wallet' = [wallet EXCEPT ![p] = Relayed(p)]
    /\ UNCHANGED <<escrows, index, stats, config, yields, batches, transfers, flow, now, pool, verifiers>>

TakesSubmissions(e) ==
    /\ e.status = "Open" /\ e.terms.mode = "Competitive"
    /\ now <= e.terms.deadline

WithSubmission(e, w, p) ==
    [e EXCEPT !.subs = @ \cup {[worker |-> w, stake |-> config.workerStake, pubkey |-> p]}]

\* All of the attached stake is kept, the submission records what is required.
\* Whoever has submitted already gets it back: no step.
SubmitCompetitive(j, w, attached) ==
    LET e == escrows[j] IN
    /\ ~config.paused
    /\ TakesSubmissions(e)
    /\ attached >= config.workerStake
    /\ \A s \in e.subs : s.worker # w
    /\ Cardinality(e.subs) < e.terms.max
    /\ escrows' = [escrows EXCEPT ![j] = WithSubmission(e, w, NoOne)]
    /\ flow' = [flow EXCEPT ![j].bond = @ + attached, ![j].own = @ + config.workerStake]
    /\ UNCHANGED <<index, stats, config, yields, batches, transfers, now, wallet, pool, verifiers>>

SubmitCompetitiveFor(j, p, r) ==
    LET e == escrows[j] IN
    /\ ~config.paused /\ ~wallet[p].paused
    /\ TakesSubmissions(e)
    /\ wallet[p].near >= config.workerStake
    /\ \/ /\ \E s \in e.subs : s.pubkey = p
          /\ wallet' = [wallet EXCEPT ![p] = Relayed(p)]
          /\ UNCHANGED <<escrows, flow>>
       \/ /\ \A s \in e.subs : s.pubkey # p
          /\ Cardinality(e.subs) < e.terms.max
          /\ wallet' = [wallet EXCEPT ![p] =
                          [Relayed(p) EXCEPT !.near = @ - config.workerStake]]
          /\ escrows' = [escrows EXCEPT ![j] = WithSubmission(e, r, p)]
          /\ flow' = [flow EXCEPT ![j].bond = @ + config.workerStake,
                                  ![j].relayed = @ + config.workerStake]
    /\ UNCHANGED <<index, stats, config, yields, batches, transfers, now, pool, verifiers>>

\* The stakes of the submissions that lost against s are transferred to the
\* accounts that submitted them: the relayer's for those of internal workers.
LosersRepaid(f, s) ==
    [f EXCEPT !.bondBack = @ + f.own - (IF s.pubkey = NoOne THEN s.stake ELSE 0),
              !.bondGone = @ + f.relayed - (IF s.pubkey = NoOne THEN 0 ELSE s.stake),
              !.own = 0, !.relayed = 0]

\* The winner is paid as an account, whatever key it submitted under.
DesignateWinner(j, caller, s) ==
    LET e == escrows[j] IN
    /\ e.status = "Open" /\ e.terms.mode = "Competitive"
    /\ caller \in {e.terms.agent, config.owner}
    /\ ~Expired(e)
    /\ now <= e.terms.deadline
    /\ s \in e.subs
    /\ \E d \in YieldIds :
          /\ OpenYield(j, d)
          /\ escrows' = [escrows EXCEPT ![j] =
                           [Verifying(e, d) EXCEPT !.worker = s.worker, !.stake = s.stake]]
    /\ stats' = Moved(stats, "Open", "Verifying")
    /\ flow' = [flow EXCEPT ![j] = LosersRepaid(@, s)]
    /\ UNCHANGED <<config, batches, transfers, now, wallet, pool, verifiers>>

-----------------------------------------------------------------------------
\* Verification.

\* promise_yield_resume: the first payload for a waiting promise is the one
\* that its callback will read.
Resume(d, payload) ==
    /\ index[d] # NoOne =>
          /\ escrows[index[d]].status # "Absent"
          /\ ~escrows[index[d]].consumed
    /\ yields[d].phase = "waiting"
    /\ yields' = [yields EXCEPT ![d].phase = "resumed", ![d].payload = payload]
    /\ UNCHANGED <<escrows, index, stats, config, batches, transfers, flow, now, wallet, pool, verifiers>>

\* The verdict is parsed with a score that is an u8.
ResumeVerificationMulti(d, payload, signers) ==
    /\ IsConsensus(signers)
    /\ payload.kind = "verdict" /\ payload.score <= 255
    /\ Resume(d, payload)

\* One active verifier is enough, and its verdict is not parsed.
ResumeVerification(d, payload, v) ==
    /\ v \in verifiers.active
    /\ Resume(d, payload)

Ended(d) == yields' = [yields EXCEPT ![d] = Yield(NoOne, "done")]
Aborted(d) == yields' = [yields EXCEPT ![d] = Yield(NoOne, "aborted")]

\* The runtime runs the callback of a promise that was resumed or timed out.
Live(d) == yields[d].phase \in {"waiting", "resumed"}

\* The callback panics when the escrow is gone; it may also run out of gas.
CallbackAborts(d) ==
    /\ Live(d)
    /\ escrows[yields[d].job].status # "Absent" => "lostYield" \in Faults
    /\ Aborted(d)
    /\ UNCHANGED <<escrows, index, stats, config, batches, transfers, flow, now, wallet, pool, verifiers>>

CallbackStale(d) ==
    /\ Live(d)
    /\ escrows[yields[d].job].status \notin {"Absent", "Verifying"}
    /\ Ended(d)
    /\ UNCHANGED <<escrows, index, stats, config, batches, transfers, flow, now, wallet, pool, verifiers>>

\* Mutant: the verifier's flag is believed.
JudgedByFlag(e, payload) ==
    [e EXCEPT !.score = payload.score % 256, !.passed = payload.passed, !.consumed = TRUE,
              !.dataId = 0, !.target = IF payload.passed THEN "Claim" ELSE "Refund"]

\* `as u8' keeps the low byte of the score.
Judged(e, payload) ==
    LET score == payload.score % 256
        passed == payload.passed /\ score >= e.terms.threshold
    IN [e EXCEPT !.score = score, !.passed = passed, !.consumed = TRUE, !.dataId = 0,
                 !.target = IF passed THEN "Claim" ELSE "Refund"]

CallbackVerdict(d) ==
    LET j == yields[d].job
        e == escrows[j]
    IN
    /\ yields[d].phase = "resumed" /\ yields[d].payload.kind = "verdict"
    /\ e.status = "Verifying"
    /\ index' = Unindexed(e)
    /\ SettleEscrow(j, Judged(e, yields[d].payload), stats, flow[j])
    /\ Ended(d)
    /\ UNCHANGED <<config, transfers, now, pool, verifiers>>

\* Mutant: the stake stays on record.
StakeReturnedAndKept(e) ==
    [e EXCEPT !.stakeRefund = IF e.pubkey # NoOne THEN e.stake ELSE @]

\* The stake of an account is transferred, that of an internal worker is left
\* for the settlement.
StakeReturned(e) ==
    [e EXCEPT !.stake = 0,
              !.stakeRefund = IF e.pubkey # NoOne THEN e.stake ELSE @]
StakeReturnedFlow(e, f) == IF e.pubkey # NoOne THEN f ELSE BondBack(f, e.stake)

\* Mutant: only garbage is handled, not the timeout.
OnlyMalformed(d) == yields[d].phase = "resumed" /\ yields[d].payload.kind = "malformed"

\* Nobody verified, or the verifier sent garbage.
NoVerdict(d) ==
    \/ yields[d].phase = "waiting"
    \/ yields[d].phase = "resumed" /\ yields[d].payload.kind = "malformed"

\* A full refund.
CallbackNoVerdict(d) ==
    LET j == yields[d].job
        e == escrows[j]
    IN
    /\ NoVerdict(d)
    /\ e.status = "Verifying"
    /\ index' = Unindexed(e)
    /\ SettleEscrow(j, [StakeReturned(e) EXCEPT !.score = 0, !.passed = FALSE, !.consumed = TRUE,
                                                !.dataId = 0, !.target = "FullRefund"],
                    stats, StakeReturnedFlow(e, flow[j]))
    /\ Ended(d)
    /\ UNCHANGED <<config, transfers, now, pool, verifiers>>

-----------------------------------------------------------------------------
\* Settlement.

\* The token contract executes the transfers of a batch; each may fail.
FtExecute(b) ==
    LET s == batches[b] IN
    /\ s.phase = "sent"
    /\ \E mainOk, feeOk \in BOOLEAN :
          LET main == IF mainOk THEN s.amount ELSE 0
              fee == IF feeOk THEN s.fee ELSE 0
              j == s.job
          IN
          /\ s.amount = 0 => mainOk
          /\ s.fee = 0 => feeOk
          /\ (s.amount > 0 /\ s.fee > 0 /\ mainOk # feeOk) => "partial" \in Faults
          /\ pool >= main + fee
          /\ pool' = pool - main - fee
          /\ flow' = [flow EXCEPT ![j].agent = IF s.to = "agent" THEN @ + main ELSE @,
                                  ![j].worker = IF s.to = "worker" THEN @ + main ELSE @,
                                  ![j].owner = @ + fee]
          /\ batches' = [batches EXCEPT ![b].phase = IF mainOk /\ feeOk THEN "ok" ELSE "failed"]
    /\ UNCHANGED <<escrows, index, stats, config, yields, transfers, now, wallet, verifiers>>

\* settle_callback, which takes the target of the escrow as it is by then.
SettleCallbackOk(b) ==
    LET j == batches[b].job
        e == escrows[j]
    IN
    /\ batches[b].phase = "ok"
    /\ e.status # "Absent" /\ e.target # "None"
    /\ Finish(j, e, stats, flow[j])
    /\ batches' = [batches EXCEPT ![b] = NoBatch]
    /\ UNCHANGED <<index, config, yields, transfers, now, pool, verifiers>>

SettleCallbackFailed(b) ==
    LET j == batches[b].job
        e == escrows[j]
    IN
    /\ batches[b].phase = "failed"
    /\ e.status # "Absent" /\ e.target # "None"
    /\ escrows' = [escrows EXCEPT ![j].status = "SettlementFailed"]
    /\ stats' = Moved(stats, e.status, "SettlementFailed")
    /\ batches' = [batches EXCEPT ![b] = NoBatch]
    /\ UNCHANGED <<index, config, yields, transfers, flow, now, wallet, pool, verifiers>>

\* It panics when the escrow is gone or has been settled by another batch.
SettleCallbackAborts(b) ==
    LET e == escrows[batches[b].job] IN
    /\ batches[b].phase \in {"ok", "failed"}
    /\ (e.status # "Absent" /\ "lostCallback" \notin Faults) => e.target = "None"
    /\ batches' = [batches EXCEPT ![b] = NoBatch]
    /\ UNCHANGED <<escrows, index, stats, config, yields, transfers, flow, now, wallet, pool, verifiers>>

Retryable(e) ==
    /\ e.status \in {"SettlementFailed", "Verifying", "Cancelled"}
    /\ e.target # "None"

\* Mutant: a retry refunds the agent whatever the verdict was.
RetriedAsRefund(e) == [e EXCEPT !.retry = (@ + 1) % RetryWrap, !.target = "FullRefund"]

\* retry_count += 1 on an u8, without overflow checks in a release build.
Retried(e) == [e EXCEPT !.retry = (@ + 1) % RetryWrap]

RetrySettlement(j, caller) ==
    LET e == escrows[j] IN
    /\ Retryable(e)
    /\ Retried(e).retry <= MaxRetries
    /\ caller # config.owner => Expired(e)
    /\ SettleEscrow(j, Retried(e), stats, flow[j])
    /\ UNCHANGED <<index, config, yields, transfers, now, pool, verifiers>>

\* After too many retries the escrow is cancelled, by whoever calls; it keeps
\* its target.  The counters move as if it had been SettlementFailed.
RetryExhausted(j) ==
    LET e == escrows[j] IN
    /\ Retryable(e)
    /\ Retried(e).retry > MaxRetries
    /\ escrows' = [escrows EXCEPT ![j] = [Retried(e) EXCEPT !.status = "Cancelled"]]
    /\ stats' = Moved(stats, "SettlementFailed", "Cancelled")
    /\ flow' = [flow EXCEPT ![j] = StorageBack(@)]
    /\ UNCHANGED <<index, config, yields, batches, transfers, now, wallet, pool, verifiers>>

IsTerminal(e) == e.status \in {"Claimed", "Refunded", "Cancelled"}

CleanupCompleted(removed) ==
    /\ removed # {}
    /\ \A j \in removed : IsTerminal(escrows[j])
    /\ escrows' = [j \in Jobs |-> IF j \in removed THEN NoEscrow ELSE escrows[j]]
    /\ UNCHANGED <<index, stats, config, yields, batches, transfers, flow, now, wallet, pool, verifiers>>

-----------------------------------------------------------------------------
\* Cancellation and expiry.

\* Common to cancel and refund_expired: no tokens to move.
CancelUnfunded(j) ==
    /\ escrows' = [escrows EXCEPT ![j].status = "Cancelled"]
    /\ stats' = Moved(stats, "PendingFunding", "Cancelled")
    /\ flow' = [flow EXCEPT ![j] = StorageBack(@)]
    /\ UNCHANGED <<index, config, yields, batches, transfers, now, wallet, pool, verifiers>>

\* The agent cancels.  The status of a funded escrow only changes when the
\* refund has been executed.
Cancel(j) ==
    LET e == escrows[j] IN
    \/ /\ e.status = "PendingFunding"
       /\ CancelUnfunded(j)
    \/ /\ e.status = "Open"
       /\ SettleEscrow(j, [e EXCEPT !.target = "FullRefund"], stats, flow[j])
       /\ UNCHANGED <<index, config, yields, transfers, now, pool, verifiers>>

\* The stake goes to the worker's account, which for an internal worker is the
\* relayer's.
ForceCancelVerifying(j) ==
    LET e == escrows[j] IN
    /\ e.status = "Verifying"
    /\ Stuck(e)
    /\ index' = Unindexed(e)
    /\ SettleEscrow(j, [e EXCEPT !.status = "Cancelled", !.target = "FullRefund", !.stake = 0,
                                 !.dataId = 0, !.consumed = FALSE],
                    Moved(stats, "Verifying", "Cancelled"),
                    StorageBack(IF e.pubkey = NoOne THEN BondBack(flow[j], e.stake)
                                                    ELSE BondGone(flow[j], e.stake)))
    /\ UNCHANGED <<config, yields, transfers, now, pool, verifiers>>

\* A worker that claimed and did not submit forfeits its stake to the agent.
RefundUnsubmitted(j) ==
    LET e == escrows[j]
        forfeit == IF e.status = "InProgress" THEN e.stake ELSE 0
    IN
    /\ e.status \in {"Open", "InProgress"}
    /\ SettleEscrow(j, [e EXCEPT !.target = "FullRefund",
                                 !.stake = IF e.status = "InProgress" THEN 0 ELSE @],
                    stats, BondGone(flow[j], forfeit))
    /\ UNCHANGED <<index, config, yields, transfers, now, pool, verifiers>>

\* Mutant: an escrow that is Verifying is rejected, as the comment on
\* refund_expired says.
NoRefundStuck(j) == FALSE

RefundStuck(j) ==
    LET e == escrows[j] IN
    /\ e.status = "Verifying"
    /\ Stuck(e)
    /\ index' = Unindexed(e)
    /\ SettleEscrow(j, [StakeReturned(e) EXCEPT !.dataId = 0, !.consumed = FALSE,
                                                !.target = "FullRefund"],
                    stats, StakeReturnedFlow(e, flow[j]))
    /\ UNCHANGED <<config, yields, transfers, now, pool, verifiers>>

RefundExpired(j) ==
    LET e == escrows[j] IN
    /\ ~config.paused
    /\ e.status # "Absent" /\ Expired(e)
    /\ \/ e.status = "PendingFunding" /\ CancelUnfunded(j)
       \/ RefundUnsubmitted(j)
       \/ RefundStuck(j)
       \/ /\ e.status = "SettlementFailed"
          /\ SettleEscrow(j, e, stats, flow[j])
          /\ UNCHANGED <<index, config, yields, transfers, now, pool, verifiers>>

-----------------------------------------------------------------------------
\* The owner's switches.
SetPaused(paused) == config' = [config EXCEPT !.paused = paused]

\* Whether the escrows' token is on the whitelist; an empty one allows them all.
SetTokenAllowed(allowed) == config' = [config EXCEPT !.tokenAllowed = allowed]

ProposeOwner(account) == config' = [config EXCEPT !.pending = account]

AcceptOwner ==
    /\ config.pending # NoOne
    /\ config' = [config EXCEPT !.owner = config.pending, !.pending = NoOne]

SetStorageDeposit(amount) ==
    /\ amount > 0
    /\ config' = [config EXCEPT !.storageDeposit = amount]

SetWorkerStake(amount) == config' = [config EXCEPT !.workerStake = amount]

ConfigChange ==
    \/ "pause" \in AdminOps /\ \E paused \in BOOLEAN : SetPaused(paused)
    \/ "token" \in AdminOps /\ \E allowed \in BOOLEAN : SetTokenAllowed(allowed)
    \/ "owner" \in AdminOps /\ (AcceptOwner \/ \E a \in Accounts : ProposeOwner(a))
    \/ "deposit" \in AdminOps /\ \E n \in Deposits : SetStorageDeposit(n)
    \/ "stake" \in AdminOps /\ \E n \in Deposits : SetWorkerStake(n)

\* Block time, in units that are long against the 200 blocks after which a
\* yielded promise times out: it does not advance past a live promise.
Tick ==
    /\ now < MaxTime
    /\ \A d \in YieldIds : ~Live(d)
    /\ now' = now + 1
    /\ UNCHANGED <<escrows, index, stats, config, yields, batches, transfers, flow, wallet, pool, verifiers>>

-----------------------------------------------------------------------------
InFlight(j) == \E b \in BatchIds : batches[b].phase # "free" /\ batches[b].job = j

MayCall(j) == InFlight(j) => "overlap" \in Faults

\* What the users of the contract call for an escrow.
UserCall(j) ==
    \/ \E t \in Terms, attached \in Deposits : CreateEscrow(j, t, attached)
    \/ \E w \in Workers, attached \in Deposits : Claim(j, w, attached)
    \/ \E w \in Accounts : SubmitResult(j, w)
    \/ \E w \in Workers, attached \in Deposits : SubmitCompetitive(j, w, attached)
    \/ \E p \in Pubkeys, r \in Relayers : ClaimFor(j, p, r) \/ SubmitCompetitiveFor(j, p, r)
    \/ \E p \in Pubkeys : SubmitResultFor(j, p) \/ SubmitResultForReplay(j, p)
    \/ \E caller \in Accounts :
          /\ escrows[j].status = "Open"
          /\ \E s \in escrows[j].subs : DesignateWinner(j, caller, s)
    \/ \E caller \in Accounts : RetrySettlement(j, caller)
    \/ RetryExhausted(j)
    \/ Cancel(j)
    \/ ForceCancelVerifying(j)
    \/ RefundExpired(j)

Deposit(j) ==
    \E from \in Depositors, t \in Terms : FtTransferCall(j, from, t.amount)

VerifierCall(d) ==
    \E payload \in Payloads :
       \/ \E signers \in SUBSET Verifiers : ResumeVerificationMulti(d, payload, signers)
       \/ \E v \in Verifiers : ResumeVerification(d, payload, v)

\* What the runtime does by itself.
YieldCallback(d) ==
    \/ CallbackAborts(d) \/ CallbackStale(d) \/ CallbackVerdict(d) \/ CallbackNoVerdict(d)
SettleCallback(b) ==
    \/ SettleCallbackOk(b) \/ SettleCallbackFailed(b) \/ SettleCallbackAborts(b)
FtOnTransfer(j) == FtOnTransferAccept(j) \/ FtOnTransferReject(j)

escrowVars == <<escrows, index, stats, config, yields, batches, transfers, flow, now>>

Next ==
    \/ \E j \in Jobs : \/ MayCall(j) /\ UserCall(j)
                       \/ Deposit(j)
                       \/ FtOnTransfer(j)
    \/ \E removed \in SUBSET Jobs : (\A j \in removed : MayCall(j)) /\ CleanupCompleted(removed)
    \/ \E d \in YieldIds : VerifierCall(d) \/ YieldCallback(d)
    \/ \E b \in BatchIds : FtExecute(b) \/ SettleCallback(b)
    \/ Tick
    \/ /\ ConfigChange
       /\ UNCHANGED <<escrows, index, stats, yields, batches, transfers, flow, now, wallet, pool, verifiers>>
    \/ /\ "verifiers" \in AdminOps
       /\ VerifierAdmin
       /\ UNCHANGED <<escrowVars, wallet, pool>>
    \/ /\ \E p \in Pubkeys : RegisterWorker(p) \/ WalletUse(p)
                                \/ ("workers" \in AdminOps /\ WalletAdmin(p))
       /\ UNCHANGED <<escrowVars, verifiers>>

Spec == Init /\ [][Next]_vars
=============================================================================
