---------------------- MODULE VerifierServiceProperties ----------------------
(* What the verifier service owes the agent, the worker and the contract. *)
EXTENDS VerifierService

TasksOf(j) == {e \in published : e.kind = "task" /\ e.job = j}

\* The integrity check of handle_worker_result (248-282): when every TASK event of
\* a job names a hash, verify.sh passes a result only if the worker's verify/ is
\* one that the agent named, whatever the worker's own MANIFEST.json says, in
\* whatever order events arrive and however often the service restarts.
PassedUntampered ==
    \A i \in DOMAIN posted :
        LET v == posted[i].verdict IN
        v.passed /\ v.method = "container" /\ (\A e \in TasksOf(v.job) : e.hash # NoOne)
            => v.patch.verify \in {e.hash : e \in TasksOf(v.job)}

\* The other direction: a worker that left verify/ as all of the job's TASK events
\* name it is not refused for it.
HonestNotRefused ==
    \A i \in DOMAIN posted :
        LET v == posted[i].verdict IN
        v.method = "hash_check" => \E e \in TasksOf(v.job) : e.hash # v.patch.verify

\* processed keeps the last patch id of a job only, and only in memory (28, 157-164,
\* 484-487): within one life of the service a patch id is judged and announced a
\* second time only if another patch of the job was judged in between, whatever
\* comes twice, fails or is taken from which channel first.
SameJob(i, k) ==
    /\ posted[i].life = posted[k].life /\ posted[i].verdict.job = posted[k].verdict.job
    /\ "hash_check" \notin {posted[i].verdict.method, posted[k].verdict.method}

SamePatch(i, k) == posted[i].verdict.patch.id = posted[k].verdict.patch.id

JudgedAgainForCause ==
    \A i, k \in DOMAIN posted : i < k /\ SameJob(i, k) /\ SamePatch(i, k) =>
        \E n \in DOMAIN posted : i < n /\ n < k /\ SameJob(i, n) /\ ~SamePatch(i, n)


\* A listener that lags ends without a word (nostr.rs:174); the process does not
\* live on deaf: its loop empties the channels and panics, so that whoever
\* supervises it can start it again.
LaggedStops == service.up /\ ~service.listening ~> ~service.up
=============================================================================
