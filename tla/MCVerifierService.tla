-------------------------- MODULE MCVerifierService --------------------------
(* One verifier service, one job, and what may be said about it on Nostr. *)
EXTENDS VerifierServiceProperties

CONSTANTS job, h1, h2, p1, p2

Task(copy, hash) == [copy |-> copy, kind |-> "task", job |-> job, hash |-> hash]
Funded == [copy |-> 1, kind |-> "funded", job |-> job]
Result(copy, patch) == [copy |-> copy, kind |-> "result", job |-> job, patch |-> patch]

Honest == [id |-> p1, verify |-> h1, script |-> TRUE, manifest |-> NoOne, method |-> "tests"]
Changed == [id |-> p1, verify |-> h2, script |-> TRUE, manifest |-> h2, method |-> "tests"]
Judged == [Honest EXCEPT !.id = p2, !.verify = NoOne, !.script = FALSE, !.method = "judge"]

SmallEvents ==
    {Task(1, h1), Task(2, NoOne), Task(2, h1), Task(2, h2), Funded, Result(1, Honest), Result(2, Honest),
     Result(1, Changed), Result(1, Judged)}

Upright(events) == [events |-> events, crash |-> FALSE, yields |-> FALSE]
Crashing(events) == [Upright(events) EXCEPT !.crash = TRUE]
Yielding(events) == [Crashing(events) EXCEPT !.yields = TRUE]

SmallSettings ==
    {Crashing({Task(1, h1), Task(2, NoOne), Result(1, Honest), Result(1, Changed)}),
     Crashing({Task(1, h1), Task(2, h2), Result(1, Honest), Result(1, Changed)}),
     Upright({Task(1, h1), Funded, Result(1, Honest), Result(2, Honest), Result(1, Judged)}),
     Upright({Task(1, h1), Task(2, h1), Result(1, Honest), Result(2, Honest), Result(1, Changed)}),
     Yielding({Task(1, h1), Result(1, Honest), Result(1, Judged)})}
=============================================================================
