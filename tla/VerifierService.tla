--------------------------- MODULE VerifierService ---------------------------
(***************************************************************************)
(* The verifier service verifier-service/src: one process of one verifier. *)
(* A listener task takes events from the Nostr client and sorts them into  *)
(* three bounded channels (nostr.rs); a single loop takes from any of them *)
(* and runs each handler to its end (consensus.rs).  A worker's result is  *)
(* verified, its verdict signed, sent to the escrow contract and posted.   *)
(*                                                                         *)
(* All of the state is in memory, and a restarted service subscribes to    *)
(* what is published from then on.  The escrow contract is kept as far as  *)
(* the service meets it: the data id of the yield that get_escrow shows,   *)
(* and the check of a verdict that comes with one signature, of            *)
(* VerifierSet.                                                            *)
(***************************************************************************)
EXTENDS VerifierSet, Sequences

CONSTANTS
    Me,          \* this verifier
    Jobs,        \* job ids
    DataIds,     \* data ids of yields
    PatchIds,    \* what a worker's result calls a patch
    Hashes,      \* hashes of verify/ directories
    Events,      \* what agents, workers and relayers publish
    Settings,    \* what is explored: the instances of a run
    NotifyCap,   \* capacity of the client's notifications, a broadcast channel
    ChannelCap,  \* capacity of each of the three channels, 256 in the code
    NoOne,       \* None
    Unreadable,  \* the outcome of hashing a directory that cannot be read
    MaxLives     \* bound: times the service is started

Kinds == {"task", "result", "funded"}
Methods == {"tests", "judge", "other"}

\* A worker's patch: its id, which other contents may have as well (a patch that
\* was updated, a result without the tag), and what its checkout contains: the
\* hash of verify/ (NoOne if there is none), whether there is a verify.sh in it,
\* and verify_hash and method of its MANIFEST.json.
Patch == [id : PatchIds, verify : Hashes \cup {NoOne, Unreadable}, script : BOOLEAN,
          manifest : Hashes \cup {NoOne}, method : Methods]

\* events: those that may be published; crash: the service may crash; yields:
\* the contract opens yields and its owner changes the verifiers.
Setting == [events : SUBSET Events, crash : BOOLEAN, yields : BOOLEAN]

\* copy tells events apart that say the same.
Event == [copy : Nat, kind : {"task"}, job : Jobs, hash : Hashes \cup {NoOne}]
         \cup [copy : Nat, kind : {"result"}, job : Jobs, patch : Patch]
         \cup [copy : Nat, kind : {"funded"}, job : Jobs]

ASSUME ServiceAssumption ==
    /\ Me \in Verifiers
    /\ Events \subseteq Event
    /\ \A e \in Events : e.kind = "result" /\ e.patch.script => e.patch.verify # NoOne
    /\ Settings \subseteq Setting
    /\ NoOne \notin Jobs \cup DataIds \cup PatchIds \cup Hashes \cup Events
    /\ Unreadable \notin Hashes \cup {NoOne}
    /\ {NotifyCap, ChannelCap} \subseteq Nat \ {0}
    /\ MaxLives \in Nat \ {0}

VARIABLES
    setting,    \* constant during a behaviour
    service,    \* the process
    published,  \* events published so far
    posted,     \* VERIFIED events (kind 41006) that it posted or tried to, in order
    chain       \* the escrow contract

vars == <<setting, verifiers, service, published, posted, chain>>

\* A verdict.  scope: what is signed before the colon and the verdict.
Verdict == [job : Jobs, patch : Patch, method : {"hash_check", "container", "llm_judge"},
            passed : BOOLEAN]

\* The handler of a worker's result between two awaits: expected is the hash
\* known from TASK events, verdict what it has arrived at, dataId what
\* get_escrow has shown.
Stages == {"idle", "looked_up", "signed", "submit", "post"}
NoWork == [stage |-> "idle"]
WorkRecord ==
    {NoWork}
    \cup [stage : {"looked_up"}, job : Jobs, patch : Patch, expected : Hashes \cup {NoOne}]
    \cup [stage : {"signed", "post"}, verdict : Verdict]
    \cup [stage : {"submit"}, verdict : Verdict, dataId : DataIds]

\* life counts the starts.  notes: the client's notifications not yet received;
\* lagged: the oldest of them has been overwritten; held: what the listener is
\* sending to a channel.  known: jobs in task_repos and task_event_ids, which
\* are written together; hashes: task_verify_hashes.
ServiceRecord ==
    [up : BOOLEAN, life : 1 .. MaxLives, listening : BOOLEAN, notes : Seq(Events),
     lagged : BOOLEAN, held : Events \cup {NoOne}, channel : [Kinds -> Seq(Events)],
     known : SUBSET Jobs, hashes : [Jobs -> Hashes \cup {NoOne}],
     processed : [Jobs -> PatchIds \cup {NoOne}], work : WorkRecord]

Started(life) ==
    [up |-> TRUE, life |-> life, listening |-> TRUE, notes |-> << >>, lagged |-> FALSE,
     held |-> NoOne, channel |-> [k \in Kinds |-> << >>], known |-> {},
     hashes |-> [j \in Jobs |-> NoOne], processed |-> [j \in Jobs |-> NoOne], work |-> NoWork]

\* data: the yield that waits, of each job; used: those ever opened; resumed: those
\* a verdict of the service has resumed.  answered is history: those that waited
\* when a verdict of the service arrived while its signature made a consensus.
ChainRecord ==
    [data : [Jobs -> DataIds \cup {NoOne}], used : SUBSET DataIds,
     answered : SUBSET DataIds, resumed : SUBSET DataIds]

TypeOK ==
    /\ VerifierTypeOK
    /\ setting \in Settings
    /\ service \in ServiceRecord
    /\ Len(service.notes) <= NotifyCap
    /\ \A k \in Kinds : Len(service.channel[k]) <= ChannelCap
    /\ published \in SUBSET Events
    /\ posted \in Seq([verdict : Verdict, life : 1 .. MaxLives])
    /\ chain \in ChainRecord

Init ==
    /\ VerifierInit
    /\ setting \in Settings
    /\ service = Started(1)
    /\ published = {}
    /\ posted = << >>
    /\ chain = [data |-> [j \in Jobs |-> NoOne], used |-> {},
                answered |-> {}, resumed |-> {}]

-----------------------------------------------------------------------------
(* Nostr: the client and the listener task of subscribe.                   *)

Publish(e) ==
    /\ e \in setting.events \ published
    /\ published' = published \cup {e}
    /\ service' =
         IF ~(service.up /\ service.listening) THEN service
         ELSE IF Len(service.notes) < NotifyCap
              THEN [service EXCEPT !.notes = Append(@, e)]
              ELSE [service EXCEPT !.notes = Append(Tail(@), e), !.lagged = TRUE]
    /\ UNCHANGED <<setting, verifiers, posted, chain>>

ListenerFree == service.up /\ service.listening /\ service.held = NoOne

ListenerTakes ==
    /\ ListenerFree /\ ~service.lagged
    /\ service.notes # << >>
    /\ service' = [service EXCEPT !.held = Head(service.notes), !.notes = Tail(@)]
    /\ UNCHANGED <<setting, verifiers, published, posted, chain>>

\* Mutant: does not wait.
ListenerSendsAnyway ==
    /\ service.up /\ service.held # NoOne
    /\ service' = [service EXCEPT !.channel[service.held.kind] = Append(@, service.held),
                                  !.held = NoOne]
    /\ UNCHANGED <<setting, verifiers, published, posted, chain>>

\* send waits for room.
ListenerSends ==
    /\ service.up /\ service.held # NoOne
    /\ Len(service.channel[service.held.kind]) < ChannelCap
    /\ service' = [service EXCEPT !.channel[service.held.kind] = Append(@, service.held),
                                  !.held = NoOne]
    /\ UNCHANGED <<setting, verifiers, published, posted, chain>>

\* recv of a receiver that has lagged is an error, which ends the task and
\* closes the channels.
ListenerEnds ==
    /\ ListenerFree /\ service.lagged
    /\ service' = [service EXCEPT !.listening = FALSE, !.notes = << >>]
    /\ UNCHANGED <<setting, verifiers, published, posted, chain>>

Listener == ListenerTakes \/ ListenerSends \/ ListenerEnds

-----------------------------------------------------------------------------
(* run: the loop over the three channels, in no order.                     *)

Idle == service.up /\ service.work = NoWork

Receives(kind, e) == Idle /\ service.channel[kind] # << >> /\ e = Head(service.channel[kind])

Took(kind) == [service EXCEPT !.channel[kind] = Tail(@)]

\* handle_task_event: a TASK without a hash leaves the one that is known.
Tracked(e) ==
    [Took("task") EXCEPT !.known = @ \cup {e.job},
                         !.hashes[e.job] = IF e.hash = NoOne THEN service.hashes[e.job]
                                           ELSE e.hash]

HandleTaskEvent ==
    /\ \E e \in Events : Receives("task", e) /\ service' = Tracked(e)
    /\ UNCHANGED <<setting, verifiers, published, posted, chain>>

HandleFunded ==
    /\ \E e \in Events : Receives("funded", e) /\ service' = Took("funded")
    /\ UNCHANGED <<setting, verifiers, published, posted, chain>>

\* The start of handle_worker_result.  A result of an unknown job is dropped:
\* the contract, which is asked then, has no repository either.
\* Mutant: the hash is taken out of the map.
LookedUpAndRemoved(e) ==
    [Took("result") EXCEPT
        !.work = [stage |-> "looked_up", job |-> e.job, patch |-> e.patch,
                  expected |-> service.hashes[e.job]],
        !.hashes[e.job] = NoOne]
LookedUp(e) ==
    [Took("result") EXCEPT
        !.work = [stage |-> "looked_up", job |-> e.job, patch |-> e.patch,
                  expected |-> service.hashes[e.job]]]

HandleWorkerResult ==
    /\ \E e \in Events :
          /\ Receives("result", e)
          /\ service' = IF service.processed[e.job] = e.patch.id \/ e.job \notin service.known
                        THEN Took("result") ELSE LookedUp(e)
    /\ UNCHANGED <<setting, verifiers, published, posted, chain>>

\* select! panics when no branch is left: all channels are closed and empty.
\* Mutant: an else branch goes round the loop.
NeverAllDisabled == FALSE
AllBranchesDisabled ==
    ~service.listening /\ \A k \in Kinds : service.channel[k] = << >>

Stops ==
    /\ Idle /\ AllBranchesDisabled
    /\ service' = [service EXCEPT !.up = FALSE]
    /\ UNCHANGED <<setting, verifiers, published, posted, chain>>

-----------------------------------------------------------------------------
(* handle_worker_result after the lookups.                                 *)

\* Mutant: the manifest comes first.
ExpectedOfManifest(w) == IF w.patch.manifest # NoOne THEN w.patch.manifest ELSE w.expected
Expected(w) == IF w.expected # NoOne THEN w.expected ELSE w.patch.manifest

\* verify/ of the checkout is not the expected one, or cannot be read, or none
\* is expected.  Without a verify/ directory nothing is compared.
Tampered(w) == w.patch.verify # NoOne /\ w.patch.verify # Expected(w)

Of(w, method, passed) ==
    [job |-> w.job, patch |-> w.patch, method |-> method, passed |-> passed]

\* post_verified.  Whether the relays take the event makes no difference to the
\* service, which logs a failure and goes on.
Post(verdict) == posted' = Append(posted, [verdict |-> verdict, life |-> service.life])

Done == [service EXCEPT !.work = NoWork]

\* The handler gives up: clone, checkout, container or judge failed, or there
\* is no way to verify.
GiveUp ==
    /\ service.up /\ service.work.stage \in {"looked_up", "signed"}
    /\ service' = Done
    /\ UNCHANGED <<setting, verifiers, published, posted, chain>>

\* The refusal is posted and nothing else is done.
RejectTampered ==
    /\ service.up /\ service.work.stage = "looked_up"
    /\ LET w == service.work IN
       /\ Tampered(w)
       /\ Post(Of(w, "hash_check", FALSE))
    /\ service' = Done
    /\ UNCHANGED <<setting, verifiers, published, chain>>

\* verify.sh runs in a container or a language model judges, and the outcome is
\* signed.
Verify ==
    /\ service.up /\ service.work.stage = "looked_up"
    /\ LET w == service.work IN
       /\ ~Tampered(w)
       /\ \E passed \in BOOLEAN :
             \/ /\ w.patch.method = "tests" /\ w.patch.script
                /\ service' = [service EXCEPT
                     !.work = [stage |-> "signed", verdict |-> Of(w, "container", passed)]]
             \/ /\ w.patch.method = "judge"
                /\ service' = [service EXCEPT
                     !.work = [stage |-> "signed", verdict |-> Of(w, "llm_judge", passed)]]
    /\ UNCHANGED <<setting, verifiers, published, posted, chain>>

\* get_escrow: the data id at this time.
ReadEscrow ==
    /\ service.up /\ service.work.stage = "signed"
    /\ LET w == service.work  d == chain.data[w.verdict.job] IN
       service' = [service EXCEPT
         !.work = IF d = NoOne
                  THEN [stage |-> "post", verdict |-> w.verdict]
                  ELSE [stage |-> "submit", verdict |-> w.verdict, dataId |-> d]]
    /\ UNCHANGED <<setting, verifiers, published, posted, chain>>

\* What the signature is made over, together with the verdict.
Scope(w) == w.verdict.job

\* The yield waits, and the signature of this verifier is enough.
Awaits(w) ==
    /\ \E j \in Jobs : chain.data[j] = w.dataId
    /\ IsConsensus({Me})

\* resume_verification_multi of the contract counts signatures over the data id.
Accepts(w) == Scope(w) = w.dataId

\* The transaction arrives or does not.
SendTransaction(w) ==
    \/ UNCHANGED chain
    \/ chain' = IF Awaits(w)
                THEN [chain EXCEPT !.answered = @ \cup {w.dataId},
                                   !.resumed = IF Accepts(w) THEN @ \cup {w.dataId} ELSE @]
                ELSE chain

\* The handler goes on in either case.
SubmitVerdict ==
    /\ service.up /\ service.work.stage = "submit"
    /\ LET w == service.work IN
       /\ SendTransaction(w)
       /\ service' = [service EXCEPT !.work = [stage |-> "post", verdict |-> w.verdict]]
    /\ UNCHANGED <<setting, verifiers, published, posted>>

\* post_verified and the mark in processed.
\* Mutant: only what passed is marked.
MarkedIfPassed(v) == IF v.passed THEN [Done EXCEPT !.processed[v.job] = v.patch.id] ELSE Done
Marked(v) == [Done EXCEPT !.processed[v.job] = v.patch.id]

PostVerified ==
    /\ service.up /\ service.work.stage = "post"
    /\ LET v == service.work.verdict IN
       /\ Post(v)
       /\ service' = Marked(v)
    /\ UNCHANGED <<setting, verifiers, published, chain>>

Loop ==
    \/ HandleTaskEvent \/ HandleFunded \/ HandleWorkerResult \/ Stops
    \/ GiveUp \/ RejectTampered \/ Verify \/ ReadEscrow \/ SubmitVerdict \/ PostVerified

-----------------------------------------------------------------------------
(* Crashes and restarts, and the contract's other side.                    *)

Crash ==
    /\ setting.crash /\ service.up
    /\ service' = [Started(service.life) EXCEPT !.up = FALSE, !.listening = FALSE]
    /\ UNCHANGED <<setting, verifiers, published, posted, chain>>

Restart ==
    /\ ~service.up /\ service.life < MaxLives
    /\ service' = Started(service.life + 1)
    /\ UNCHANGED <<setting, verifiers, published, posted, chain>>

\* A submission, or the choice of a winner, opens a yield.
YieldOpens(j) ==
    /\ chain.data[j] = NoOne
    /\ \E d \in DataIds \ chain.used :
          chain' = [chain EXCEPT !.data[j] = d, !.used = @ \cup {d}]
    /\ UNCHANGED <<setting, verifiers, service, published, posted>>

\* Its callback has run: a verdict or the timeout.
YieldEnds(j) ==
    /\ chain.data[j] # NoOne
    /\ chain' = [chain EXCEPT !.data[j] = NoOne]
    /\ UNCHANGED <<setting, verifiers, service, published, posted>>

Contract ==
    /\ setting.yields
    /\ \/ \E j \in Jobs : YieldOpens(j) \/ YieldEnds(j)
       \/ VerifierAdmin /\ UNCHANGED <<setting, service, published, posted, chain>>

Next ==
    \/ \E e \in Events : Publish(e)
    \/ Listener
    \/ Loop
    \/ Crash \/ Restart
    \/ Contract

Spec == Init /\ [][Next]_vars

\* The loop goes on: every call that a handler makes returns.
ServiceSpec == Spec /\ WF_vars(Loop)
=============================================================================
