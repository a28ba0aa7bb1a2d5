------------------------ MODULE VerifierServiceProofs ------------------------
(***************************************************************************)
(* The verdicts of the service, for all events, capacities, restarts and   *)
(* contracts.  What the service knows of a job in memory was said by one   *)
(* of the job's TASK events, and so was what it compared a verdict's       *)
(* checkout with; a restart forgets, which makes it refuse to judge but    *)
(* never judge by something else.                                          *)
(***************************************************************************)
EXTENDS VerifierServiceProperties, SequenceTheorems, FiniteSetTheorems, TLAPS

\* A TASK event of the job named this hash, or named none.
Named(j, h) == \E e \in TasksOf(j) : e.hash = h

OfKind(k) == {e \in published : e.kind = k}

VerdictSound(v) ==
    /\ v.passed /\ v.method = "container" => Named(v.job, NoOne) \/ Named(v.job, v.patch.verify)
    /\ v.method = "hash_check" => \E e \in TasksOf(v.job) : e.hash # v.patch.verify

WorkSound(w) ==
    /\ w.stage = "looked_up" =>
          /\ Named(w.job, w.expected)
          /\ w.patch.script => w.patch.verify # NoOne
    /\ w.stage \in {"signed", "submit", "post"} =>
          VerdictSound(w.verdict) /\ w.verdict.method # "hash_check"

\* What waits was published, and in the channel of its kind.
QueuesSound(s) ==
    /\ s.notes \in Seq(published) /\ Len(s.notes) <= NotifyCap
    /\ s.held \in published \cup {NoOne}
    /\ \A k \in Kinds : s.channel[k] \in Seq(OfKind(k)) /\ Len(s.channel[k]) <= ChannelCap

MemorySound(s) ==
    \A j \in Jobs : IF j \in s.known THEN Named(j, s.hashes[j]) ELSE s.hashes[j] = NoOne

ServiceSound(s) ==
    s \in ServiceRecord /\ QueuesSound(s) /\ MemorySound(s) /\ WorkSound(s.work)

Entry == [verdict : Verdict, life : 1 .. MaxLives]

PostedSound == posted \in Seq(Entry) /\ \A i \in DOMAIN posted : VerdictSound(posted[i].verdict)

ServiceInv ==
    /\ VerifierTypeOK
    /\ setting \in Settings
    /\ published \in SUBSET Events
    /\ ServiceSound(service)
    /\ PostedSound
    /\ chain \in ChainRecord

-----------------------------------------------------------------------------
LEMMA EventFields ==
    ASSUME NEW e \in Events
    PROVE  /\ e.kind \in Kinds /\ e.job \in Jobs
           /\ e.kind = "task" => e.hash \in Hashes \cup {NoOne}
           /\ e.kind = "result" => e.patch \in Patch /\ (e.patch.script => e.patch.verify # NoOne)
           /\ e # NoOne
<1>1. e \in Event /\ e # NoOne
  BY ServiceAssumption
<1>2. e.kind \in Kinds /\ e.job \in Jobs
  BY <1>1 DEF Event, Kinds
<1>3. e.kind = "task" => e.hash \in Hashes \cup {NoOne}
  BY <1>1 DEF Event
<1>4. e.kind = "result" => e.patch \in Patch
  BY <1>1 DEF Event
<1> QED
  BY <1>1, <1>2, <1>3, <1>4, ServiceAssumption

LEMMA WorkFields ==
    ASSUME NEW w \in WorkRecord
    PROVE  /\ w.stage \in Stages
           /\ w.stage = "looked_up" =>
                 w.job \in Jobs /\ w.patch \in Patch /\ w.expected \in Hashes \cup {NoOne}
           /\ w.stage \in {"signed", "submit", "post"} => w.verdict \in Verdict
           /\ w.stage = "submit" => w.dataId \in DataIds
<1>1. CASE w = NoWork
  BY <1>1 DEF NoWork, Stages
<1>2. CASE w \in [stage : {"looked_up"}, job : Jobs, patch : Patch, expected : Hashes \cup {NoOne}]
  BY <1>2 DEF Stages
<1>3. CASE w \in [stage : {"signed", "post"}, verdict : Verdict]
  BY <1>3 DEF Stages
<1>4. CASE w \in [stage : {"submit"}, verdict : Verdict, dataId : DataIds]
  BY <1>4 DEF Stages
<1> QED
  BY <1>1, <1>2, <1>3, <1>4 DEF WorkRecord

LEMMA ServiceFields ==
    ASSUME NEW s \in ServiceRecord
    PROVE  /\ s.up \in BOOLEAN /\ s.life \in 1 .. MaxLives /\ s.listening \in BOOLEAN
           /\ s.notes \in Seq(Events) /\ s.lagged \in BOOLEAN /\ s.held \in Events \cup {NoOne}
           /\ s.channel \in [Kinds -> Seq(Events)] /\ s.known \in SUBSET Jobs
           /\ s.hashes \in [Jobs -> Hashes \cup {NoOne}]
           /\ s.processed \in [Jobs -> PatchIds \cup {NoOne}] /\ s.work \in WorkRecord
  BY DEF ServiceRecord

LEMMA NoWorkSound == NoWork \in WorkRecord /\ WorkSound(NoWork)
  BY DEF NoWork, WorkRecord, WorkSound

\* A step that publishes nothing keeps what was said of the service.
LEMMA SoundAgain ==
    ASSUME published' = published, ServiceSound(service')
    PROVE  ServiceSound(service)'
  BY DEF ServiceSound, QueuesSound, OfKind, MemorySound, WorkSound, VerdictSound, Named, TasksOf

LEMMA PostedAgain ==
    ASSUME PostedSound, published' = published, posted' = posted
    PROVE  PostedSound'
  BY DEF PostedSound, VerdictSound, Named, TasksOf

-----------------------------------------------------------------------------
(* The parts of a step.                                                    *)

LEMMA WorkReplaced ==
    ASSUME NEW s, ServiceSound(s), NEW w \in WorkRecord, WorkSound(w)
    PROVE  ServiceSound([s EXCEPT !.work = w])
<1> DEFINE r == [s EXCEPT !.work = w]
<1>1. s \in ServiceRecord
  BY DEF ServiceSound
<1>2. /\ r \in ServiceRecord /\ r.work = w
      /\ r.notes = s.notes /\ r.held = s.held /\ r.channel = s.channel
      /\ r.known = s.known /\ r.hashes = s.hashes
  BY <1>1 DEF ServiceRecord
<1> HIDE DEF r
<1>3. QueuesSound(r) /\ MemorySound(r)
  BY <1>2 DEF ServiceSound, QueuesSound, MemorySound
<1>4. ServiceSound(r)
  BY <1>2, <1>3 DEF ServiceSound
<1> QED
  BY <1>4 DEF r

\* Taking an event from a channel: it was published, and it is of the channel's
\* kind.
LEMMA TookSound ==
    ASSUME ServiceSound(service), published \in SUBSET Events, NEW k \in Kinds,
           service.channel[k] # << >>
    PROVE  /\ ServiceSound(Took(k)) /\ Took(k) \in ServiceRecord
           /\ Took(k).hashes = service.hashes /\ Took(k).known = service.known
           /\ Head(service.channel[k]) \in OfKind(k)
<1> DEFINE q == Tail(service.channel[k])
           c == [service.channel EXCEPT ![k] = q]
           r == [service EXCEPT !.channel = c]
<1>1. service \in ServiceRecord /\ service.channel \in [Kinds -> Seq(Events)]
  BY ServiceFields DEF ServiceSound
<1>2. service.channel[k] \in Seq(OfKind(k)) /\ Len(service.channel[k]) <= ChannelCap
  BY DEF ServiceSound, QueuesSound
<1>3. q \in Seq(OfKind(k)) /\ Len(q) = Len(service.channel[k]) - 1
  BY <1>2, HeadTailProperties
<1>4. Len(q) <= ChannelCap
  <2>1. Len(service.channel[k]) \in Nat /\ ChannelCap \in Nat
    BY <1>2, ServiceAssumption
  <2> QED
    BY <1>2, <1>3, <2>1
<1>5. Head(service.channel[k]) \in OfKind(k)
  BY <1>2, HeadTailProperties
<1>6. service.channel[k] \in Seq(Events)
  BY <1>1
<1>7. q \in Seq(Events)
  BY <1>6, HeadTailProperties
<1> HIDE DEF q
<1>8. c \in [Kinds -> Seq(Events)] /\ c[k] = q /\ \A x \in Kinds \ {k} : c[x] = service.channel[x]
  BY <1>1, <1>7
<1>9. Took(k) = r
  BY <1>1 DEF Took, q
<1> HIDE DEF c
<1>10. /\ r \in ServiceRecord /\ r.channel = c
       /\ r.notes = service.notes /\ r.held = service.held /\ r.work = service.work
       /\ r.known = service.known /\ r.hashes = service.hashes
  BY <1>1, <1>8 DEF ServiceRecord
<1> HIDE DEF r
<1>11. QueuesSound(r)
  BY <1>3, <1>4, <1>8, <1>10 DEF ServiceSound, QueuesSound
<1>12. MemorySound(r) /\ WorkSound(r.work)
  BY <1>10 DEF ServiceSound, MemorySound
<1> QED
  BY <1>5, <1>9, <1>10, <1>11, <1>12 DEF ServiceSound

\* The verdict that a step posts is sound with what was published by then.
LEMMA PostSound ==
    ASSUME PostedSound, published' = published, NEW v \in Verdict, VerdictSound(v),
           service \in ServiceRecord, Post(v)
    PROVE  PostedSound'
<1> DEFINE x == [verdict |-> v, life |-> service.life]
<1>1. x \in Entry /\ x.verdict = v
  BY ServiceFields DEF Entry
<1>2. posted \in Seq(Entry) /\ posted' = Append(posted, x)
  BY DEF PostedSound, Post
<1> HIDE DEF x
<1>3. /\ posted' \in Seq(Entry) /\ Len(posted') = Len(posted) + 1 /\ Len(posted) \in Nat
      /\ \A i \in 1 .. Len(posted) : posted'[i] = posted[i]
      /\ posted'[Len(posted) + 1] = x
  BY <1>1, <1>2, AppendProperties
<1>4. DOMAIN posted = 1 .. Len(posted) /\ DOMAIN posted' = 1 .. Len(posted) + 1
  BY <1>2, <1>3
<1>5. ASSUME NEW i \in DOMAIN posted' PROVE VerdictSound(posted'[i].verdict)
  <2>1. CASE i \in DOMAIN posted
    BY <1>3, <1>4, <2>1 DEF PostedSound
  <2>2. CASE i = Len(posted) + 1
    BY <1>1, <1>3, <2>2
  <2> QED
    BY <1>3, <1>4, <2>1, <2>2
<1> QED
  BY <1>3, <1>5 DEF PostedSound, VerdictSound, Named, TasksOf

-----------------------------------------------------------------------------
(* What may be said after more was published.                              *)

LEMMA MorePublished ==
    ASSUME published \subseteq published'
    PROVE  /\ \A j, h : Named(j, h) => Named(j, h)'
           /\ \A v : VerdictSound(v) => VerdictSound(v)'
           /\ \A w : WorkSound(w) => WorkSound(w)'
<1>1. \A j : TasksOf(j) \subseteq TasksOf(j)'
  BY DEF TasksOf
<1>2. \A j, h : Named(j, h) => Named(j, h)'
  BY <1>1 DEF Named
<1>3. \A v : VerdictSound(v) => VerdictSound(v)'
  BY <1>1, <1>2 DEF VerdictSound
<1>4. \A w : WorkSound(w) => WorkSound(w)'
  BY <1>2, <1>3 DEF WorkSound
<1> QED
  BY <1>2, <1>3, <1>4

\* The client's notifications stay within their capacity: the oldest goes.
LEMMA NotesGrow ==
    ASSUME NEW S, NEW q \in Seq(S), Len(q) <= NotifyCap, NEW e \in S
    PROVE  /\ Len(q) < NotifyCap => Append(q, e) \in Seq(S) /\ Len(Append(q, e)) <= NotifyCap
           /\ ~(Len(q) < NotifyCap) =>
                 Append(Tail(q), e) \in Seq(S) /\ Len(Append(Tail(q), e)) <= NotifyCap
<1>1. Len(q) \in Nat /\ NotifyCap \in Nat \ {0}
  BY ServiceAssumption
<1>2. ASSUME Len(q) < NotifyCap
      PROVE  Append(q, e) \in Seq(S) /\ Len(Append(q, e)) <= NotifyCap
  <2>1. Append(q, e) \in Seq(S) /\ Len(Append(q, e)) = Len(q) + 1
    BY AppendProperties
  <2> QED
    BY <1>1, <1>2, <2>1
<1>3. ASSUME ~(Len(q) < NotifyCap)
      PROVE  Append(Tail(q), e) \in Seq(S) /\ Len(Append(Tail(q), e)) <= NotifyCap
  <2>1. q # << >>
    BY <1>1, <1>3
  <2>2. Tail(q) \in Seq(S) /\ Len(Tail(q)) = Len(q) - 1
    BY <2>1, HeadTailProperties
  <2>3. PICK tail \in Seq(S) : tail = Tail(q) /\ Len(tail) = Len(q) - 1
    BY <2>2
  <2>4. Append(tail, e) \in Seq(S) /\ Len(Append(tail, e)) = Len(tail) + 1
    BY AppendProperties
  <2> QED
    BY <1>1, <2>3, <2>4
<1> QED
  BY <1>2, <1>3

LEMMA PublishInv ==
    ASSUME ServiceInv, NEW e \in Events, Publish(e)
    PROVE  ServiceInv'
<1>1. /\ published' \in SUBSET Events /\ published \subseteq published' /\ e \in published'
      /\ setting' = setting /\ verifiers' = verifiers /\ posted' = posted /\ chain' = chain
  BY DEF ServiceInv, Publish
<1>2. service \in ServiceRecord /\ QueuesSound(service) /\ MemorySound(service) /\ WorkSound(service.work)
  BY DEF ServiceInv, ServiceSound
<1>3. service.notes \in Seq(published') /\ Len(service.notes) <= NotifyCap
  BY <1>1, <1>2 DEF QueuesSound
<1>4. PICK q \in Seq(published') :
          /\ Len(q) <= NotifyCap
          /\ \/ service' = service /\ q = service.notes
             \/ service' = [service EXCEPT !.notes = q]
             \/ service' = [service EXCEPT !.notes = q, !.lagged = TRUE]
  <2>1. \/ service' = service
        \/ /\ Len(service.notes) < NotifyCap
           /\ service' = [service EXCEPT !.notes = Append(service.notes, e)]
        \/ /\ ~(Len(service.notes) < NotifyCap)
           /\ service' = [service EXCEPT !.notes = Append(Tail(service.notes), e), !.lagged = TRUE]
    BY DEF Publish
  <2> QED
    BY <1>1, <1>3, <2>1, NotesGrow
<1>5. q \in Seq(Events)
  BY <1>1, <1>4
<1>6. /\ service' \in ServiceRecord /\ service'.notes = q
      /\ service'.held = service.held /\ service'.channel = service.channel
      /\ service'.known = service.known /\ service'.hashes = service.hashes
      /\ service'.work = service.work
  BY <1>2, <1>4, <1>5 DEF ServiceRecord
<1>7. \A k \in Kinds : service.channel[k] \in Seq(OfKind(k)')
  <2>1. ASSUME NEW k \in Kinds PROVE service.channel[k] \in Seq(OfKind(k)')
    <3>1. OfKind(k) \subseteq OfKind(k)' /\ service.channel[k] \in Seq(OfKind(k))
      BY <1>1, <1>2 DEF OfKind, QueuesSound
    <3> QED
      BY <3>1
  <2> QED
    BY <2>1
<1>8. QueuesSound(service)'
  BY <1>1, <1>2, <1>4, <1>6, <1>7 DEF QueuesSound
<1>9. MemorySound(service)' /\ WorkSound(service.work)'
  <2>1. MemorySound(service)'
    BY <1>1, <1>2, <1>6 DEF MemorySound, Named, TasksOf
  <2>2. WorkSound(service.work)'
    BY <1>1, <1>2, <1>6 DEF WorkSound, VerdictSound, Named, TasksOf
  <2> QED
    BY <2>1, <2>2
<1>10. PostedSound'
  BY <1>1, MorePublished DEF ServiceInv, PostedSound
<1> QED
  BY <1>1, <1>6, <1>8, <1>9, <1>10 DEF ServiceInv, ServiceSound, VerifierTypeOK

\* A step of the process that neither posts nor reaches the contract.
LEMMA InnerStep ==
    ASSUME ServiceInv, UNCHANGED <<setting, verifiers, published, posted, chain>>,
           ServiceSound(service')
    PROVE  ServiceInv'
<1>1. ServiceSound(service)'
  BY SoundAgain
<1>2. PostedSound'
  BY PostedAgain DEF ServiceInv
<1> QED
  BY <1>1, <1>2 DEF ServiceInv, VerifierTypeOK

LEMMA ListenerInv ==
    ASSUME ServiceInv, Listener
    PROVE  ServiceInv'
<1>1. /\ service \in ServiceRecord /\ QueuesSound(service) /\ MemorySound(service)
      /\ WorkSound(service.work)
  BY DEF ServiceInv, ServiceSound
<1>2. /\ service.notes \in Seq(published) /\ Len(service.notes) <= NotifyCap
      /\ service.held \in published \cup {NoOne} /\ published \subseteq Events
      /\ service.channel \in [Kinds -> Seq(Events)]
  BY <1>1 DEF QueuesSound, ServiceInv, ServiceRecord
<1>3. CASE ListenerTakes
  <2>1. service.notes # << >>
    BY <1>3 DEF ListenerTakes
  <2>2. PICK x \in published : x = Head(service.notes)
    BY <1>2, <2>1, HeadTailProperties
  <2>3. PICK q \in Seq(published) : q = Tail(service.notes) /\ Len(q) = Len(service.notes) - 1
    BY <1>2, <2>1, HeadTailProperties
  <2>4. Len(q) <= NotifyCap
    <3>1. Len(service.notes) \in Nat /\ NotifyCap \in Nat
      BY <1>2, ServiceAssumption
    <3> QED
      BY <1>2, <2>3, <3>1
  <2>5. q \in Seq(Events)
    BY <1>2, <2>3
  <2>6. service' = [service EXCEPT !.held = x, !.notes = q]
    BY <1>3, <2>2, <2>3 DEF ListenerTakes
  <2>7. /\ service' \in ServiceRecord /\ service'.notes = q /\ service'.held = x
        /\ service'.channel = service.channel /\ service'.known = service.known
        /\ service'.hashes = service.hashes /\ service'.work = service.work
    BY <1>1, <1>2, <2>2, <2>5, <2>6 DEF ServiceRecord
  <2>8. QueuesSound(service')
    BY <1>1, <2>2, <2>3, <2>4, <2>7 DEF QueuesSound
  <2>9. ServiceSound(service')
    BY <1>1, <2>7, <2>8 DEF ServiceSound, MemorySound
  <2> QED
    BY <1>3, <2>9, InnerStep DEF ListenerTakes
<1>4. CASE ListenerSends
  <2>1. PICK x \in published : x = service.held /\ x \in Events /\ x.kind \in Kinds
    BY <1>2, <1>4, EventFields DEF ListenerSends
  <2>2. x \in OfKind(x.kind)
    BY <2>1 DEF OfKind
  <2>3. PICK old \in Seq(OfKind(x.kind)) : old = service.channel[x.kind] /\ old \in Seq(Events)
    BY <1>1, <1>2, <2>1 DEF QueuesSound
  <2>4. PICK q \in Seq(OfKind(x.kind)) : q = Append(old, x) /\ Len(q) = Len(old) + 1
    BY <2>2, AppendProperties
  <2>5. q \in Seq(Events)
    BY <2>1, <2>3, <2>4, AppendProperties
  <2>6. Len(q) <= ChannelCap
    <3>1. Len(old) < ChannelCap
      BY <1>4, <2>1, <2>3 DEF ListenerSends
    <3>2. Len(old) \in Nat /\ ChannelCap \in Nat
      BY <2>3, ServiceAssumption
    <3> QED
      BY <2>4, <3>1, <3>2
  <2> DEFINE c == [service.channel EXCEPT ![x.kind] = q]
  <2>7. c \in [Kinds -> Seq(Events)] /\ c[x.kind] = q /\ \A k \in Kinds \ {x.kind} : c[k] = service.channel[k]
    BY <1>2, <2>1, <2>5
  <2>8. service' = [service EXCEPT !.channel = c, !.held = NoOne]
    BY <1>4, <2>1, <2>3, <2>4 DEF ListenerSends
  <2> HIDE DEF c
  <2>9. /\ service' \in ServiceRecord /\ service'.notes = service.notes /\ service'.held = NoOne
        /\ service'.channel = c /\ service'.known = service.known
        /\ service'.hashes = service.hashes /\ service'.work = service.work
    BY <1>1, <2>7, <2>8 DEF ServiceRecord
  <2>10. QueuesSound(service')
    BY <1>1, <2>4, <2>6, <2>7, <2>9 DEF QueuesSound
  <2>11. ServiceSound(service')
    BY <1>1, <2>9, <2>10 DEF ServiceSound, MemorySound
  <2> QED
    BY <1>4, <2>11, InnerStep DEF ListenerSends
<1>5. CASE ListenerEnds
  <2>1. << >> \in Seq(Events) /\ << >> \in Seq(published) /\ Len(<< >>) <= NotifyCap
    BY ServiceAssumption
  <2>2. /\ service' \in ServiceRecord /\ service'.notes = << >> /\ service'.held = service.held
        /\ service'.channel = service.channel /\ service'.known = service.known
        /\ service'.hashes = service.hashes /\ service'.work = service.work
    BY <1>1, <1>5, <2>1 DEF ListenerEnds, ServiceRecord
  <2>3. QueuesSound(service')
    BY <1>1, <2>1, <2>2 DEF QueuesSound
  <2>4. ServiceSound(service')
    BY <1>1, <2>2, <2>3 DEF ServiceSound, MemorySound
  <2> QED
    BY <1>5, <2>4, InnerStep DEF ListenerEnds
<1> QED
  BY <1>3, <1>4, <1>5 DEF Listener

\* A service that has just been started, or has crashed, knows nothing.
LEMMA StartedSound ==
    ASSUME NEW life \in 1 .. MaxLives, NEW s,
           s = Started(life) \/ s = [Started(life) EXCEPT !.up = FALSE, !.listening = FALSE]
    PROVE  ServiceSound(s)
<1>1. /\ << >> \in Seq(Events) /\ << >> \in Seq(published) /\ Len(<< >>) = 0
      /\ \A k \in Kinds : << >> \in Seq(OfKind(k))
      /\ NotifyCap \in Nat /\ ChannelCap \in Nat
  BY ServiceAssumption
<1> DEFINE ch == [k \in Kinds |-> << >>]
           hs == [j \in Jobs |-> NoOne]
<1>2. PICK up \in BOOLEAN, listening \in BOOLEAN :
          s = [up |-> up, life |-> life, listening |-> listening, notes |-> << >>, lagged |-> FALSE,
               held |-> NoOne, channel |-> ch, known |-> {}, hashes |-> hs, processed |-> hs,
               work |-> NoWork]
  <2>1. CASE s = Started(life)
    BY <2>1 DEF Started
  <2>2. CASE s = [Started(life) EXCEPT !.up = FALSE, !.listening = FALSE]
    <3>1. s = [up |-> FALSE, life |-> life, listening |-> FALSE, notes |-> << >>, lagged |-> FALSE,
               held |-> NoOne, channel |-> ch, known |-> {}, hashes |-> hs, processed |-> hs,
               work |-> NoWork]
      BY <2>2 DEF Started
    <3> QED
      BY <3>1
  <2> QED
    BY <2>1, <2>2
<1>3. /\ ch \in [Kinds -> Seq(Events)] /\ \A k \in Kinds : ch[k] = << >>
      /\ hs \in [Jobs -> Hashes \cup {NoOne}] /\ hs \in [Jobs -> PatchIds \cup {NoOne}]
      /\ \A j \in Jobs : hs[j] = NoOne
  BY <1>1
<1> HIDE DEF ch, hs
<1>6. s \in ServiceRecord
  BY <1>1, <1>2, <1>3, NoWorkSound DEF ServiceRecord
<1>7. /\ s.notes = << >> /\ s.held = NoOne /\ s.channel = ch /\ s.known = {} /\ s.hashes = hs
      /\ s.work = NoWork
  BY <1>2
<1>4. QueuesSound(s)
  BY <1>1, <1>3, <1>7 DEF QueuesSound
<1>5. MemorySound(s) /\ WorkSound(s.work)
  BY <1>3, <1>7, NoWorkSound DEF MemorySound
<1> QED
  BY <1>4, <1>5, <1>6 DEF ServiceSound

\* What the loop takes from a channel.
LEMMA Received ==
    ASSUME ServiceInv, NEW k \in Kinds, NEW e \in Events, Receives(k, e)
    PROVE  /\ e \in published /\ e.kind = k
           /\ ServiceSound(Took(k)) /\ Took(k) \in ServiceRecord
           /\ Took(k).hashes = service.hashes /\ Took(k).known = service.known
  BY TookSound DEF ServiceInv, Receives, OfKind

LEMMA HandleTaskEventInv ==
    ASSUME ServiceInv, HandleTaskEvent
    PROVE  ServiceInv'
<1>1. PICK e \in Events : Receives("task", e) /\ service' = Tracked(e)
  BY DEF HandleTaskEvent
<1>2. "task" \in Kinds
  BY DEF Kinds
<1>3. PICK s \in ServiceRecord : s = Took("task") /\ ServiceSound(s)
  BY <1>1, <1>2, Received
<1>4. /\ e \in published /\ e.kind = "task" /\ e.job \in Jobs /\ e.hash \in Hashes \cup {NoOne}
      /\ s.hashes = service.hashes /\ s.known = service.known
  BY <1>1, <1>2, <1>3, Received, EventFields
<1>5. PICK h \in Hashes \cup {NoOne} :
          /\ h = IF e.hash = NoOne THEN s.hashes[e.job] ELSE e.hash
  BY <1>3, <1>4, ServiceFields
<1> DEFINE g == [s.hashes EXCEPT ![e.job] = h]
           n == s.known \cup {e.job}
<1>6. /\ g \in [Jobs -> Hashes \cup {NoOne}] /\ g[e.job] = h
      /\ \A j \in Jobs \ {e.job} : g[j] = s.hashes[j]
      /\ n \in SUBSET Jobs
  BY <1>3, <1>4, ServiceFields
<1>7. service' = [s EXCEPT !.known = n, !.hashes = g]
  BY <1>1, <1>3, <1>4, <1>5 DEF Tracked
<1>8. n = s.known \cup {e.job}
  OBVIOUS
<1> HIDE DEF g, n
<1>9. /\ service' \in ServiceRecord /\ service'.known = n /\ service'.hashes = g
      /\ service'.notes = s.notes /\ service'.held = s.held /\ service'.channel = s.channel
      /\ service'.work = s.work
  BY <1>3, <1>6, <1>7 DEF ServiceRecord
<1>10. Named(e.job, e.hash)
  BY <1>4 DEF Named, TasksOf
<1>11. Named(e.job, h)
  <2>1. CASE e.hash = NoOne
    <3>1. IF e.job \in s.known THEN Named(e.job, s.hashes[e.job]) ELSE s.hashes[e.job] = NoOne
      BY <1>3, <1>4 DEF ServiceSound, MemorySound
    <3>2. CASE e.job \in s.known
      BY <1>5, <2>1, <3>1, <3>2
    <3>3. CASE e.job \notin s.known
      <4>1. h = e.hash
        BY <1>5, <2>1, <3>1, <3>3
      <4> QED
        BY <1>10, <4>1
    <3> QED
      BY <3>2, <3>3
  <2>2. CASE e.hash # NoOne
    BY <1>5, <1>10, <2>2
  <2> QED
    BY <2>1, <2>2
<1>12. MemorySound(service')
  <2>1. ASSUME NEW j \in Jobs
        PROVE  IF j \in service'.known THEN Named(j, service'.hashes[j]) ELSE service'.hashes[j] = NoOne
    <3>1. CASE j = e.job
      BY <1>6, <1>8, <1>9, <1>11, <3>1
    <3>2. CASE j # e.job
      <4>1. IF j \in s.known THEN Named(j, s.hashes[j]) ELSE s.hashes[j] = NoOne
        BY <1>3 DEF ServiceSound, MemorySound
      <4>2. service'.hashes[j] = s.hashes[j] /\ (j \in service'.known <=> j \in s.known)
        BY <1>6, <1>8, <1>9, <3>2
      <4> QED
        BY <4>1, <4>2
    <3> QED
      BY <3>1, <3>2
  <2> QED
    BY <2>1 DEF MemorySound
<1>13. ServiceSound(service')
  BY <1>3, <1>9, <1>12 DEF ServiceSound, QueuesSound
<1> QED
  BY <1>13, InnerStep DEF HandleTaskEvent

\* The hash that the verdict will be compared with is taken now.
LEMMA HandleWorkerResultInv ==
    ASSUME ServiceInv, HandleWorkerResult
    PROVE  ServiceInv'
<1>1. PICK e \in Events : /\ Receives("result", e)
                          /\ service' = IF service.processed[e.job] = e.patch.id \/ e.job \notin service.known
                                        THEN Took("result") ELSE LookedUp(e)
  BY DEF HandleWorkerResult
<1>2. "result" \in Kinds
  BY DEF Kinds
<1>3. PICK s \in ServiceRecord : s = Took("result") /\ ServiceSound(s)
  BY <1>1, <1>2, Received
<1>4. e.kind = "result" /\ e.job \in Jobs /\ e.patch \in Patch /\ (e.patch.script => e.patch.verify # NoOne)
  BY <1>1, <1>2, Received, EventFields
<1>5. PICK h \in Hashes \cup {NoOne} : h = service.hashes[e.job]
  BY <1>4, ServiceFields DEF ServiceInv, ServiceSound
<1> DEFINE w == [stage |-> "looked_up", job |-> e.job, patch |-> e.patch, expected |-> h]
<1>6. w \in WorkRecord
  <2>1. e.job \in Jobs /\ e.patch \in Patch
    BY <1>4
  <2>2. w \in [stage : {"looked_up"}, job : Jobs, patch : Patch, expected : Hashes \cup {NoOne}]
    BY <1>5, <2>1
  <2> QED
    BY <2>2, Zenon DEF WorkRecord
<1>7. /\ w.stage = "looked_up" /\ w.job = e.job /\ w.patch = e.patch /\ w.expected = h
  OBVIOUS
<1>8. \/ service' = s
      \/ e.job \in service.known /\ service' = [s EXCEPT !.work = w]
  <2>1. LookedUp(e) = [s EXCEPT !.work = w]
    BY <1>3, <1>5 DEF LookedUp
  <2>2. \/ service' = Took("result")
        \/ e.job \in service.known /\ service' = LookedUp(e)
    BY <1>1
  <2> QED
    BY <1>3, <2>1, <2>2
<1> HIDE DEF w
<1>9. ServiceSound(service')
  <2>1. CASE service' = s
    BY <1>3, <2>1
  <2>2. CASE e.job \in service.known /\ service' = [s EXCEPT !.work = w]
    <3>1. Named(e.job, h)
      BY <1>4, <1>5, <2>2 DEF ServiceInv, ServiceSound, MemorySound
    <3>2. WorkSound(w)
      BY <1>4, <1>7, <3>1 DEF WorkSound
    <3> QED
      BY <1>3, <1>6, <2>2, <3>2, WorkReplaced
  <2> QED
    BY <1>8, <2>1, <2>2
<1> QED
  BY <1>9, InnerStep DEF HandleWorkerResult

LEMMA SmallStepsInv ==
    ASSUME ServiceInv, HandleFunded \/ Stops \/ GiveUp \/ Crash \/ Restart
    PROVE  ServiceInv'
<1>1. CASE HandleFunded
  <2>1. "funded" \in Kinds
    BY DEF Kinds
  <2>2. ServiceSound(service')
    BY <1>1, <2>1, Received DEF HandleFunded
  <2> QED
    BY <1>1, <2>2, InnerStep DEF HandleFunded
<1>2. CASE GiveUp
  <2>1. ServiceSound(service')
    BY <1>2, NoWorkSound, WorkReplaced DEF GiveUp, Done, ServiceInv
  <2> QED
    BY <1>2, <2>1, InnerStep DEF GiveUp
<1>3. CASE Stops
  <2>1. /\ service' \in ServiceRecord /\ service'.known = service.known /\ service'.hashes = service.hashes
        /\ service'.notes = service.notes /\ service'.held = service.held
        /\ service'.channel = service.channel /\ service'.work = service.work
    BY <1>3 DEF Stops, ServiceInv, ServiceSound, ServiceRecord
  <2>2. ServiceSound(service')
    BY <2>1 DEF ServiceInv, ServiceSound, QueuesSound, MemorySound
  <2> QED
    BY <1>3, <2>2, InnerStep DEF Stops
<1>4. ASSUME NEW life \in 1 .. MaxLives, NEW s,
             s = Started(life) \/ s = [Started(life) EXCEPT !.up = FALSE, !.listening = FALSE]
      PROVE  ServiceSound(s)
  BY <1>4, StartedSound
<1>5. CASE Crash
  <2>1. service.life \in 1 .. MaxLives
    BY ServiceFields DEF ServiceInv, ServiceSound
  <2> QED
    BY <1>4, <1>5, <2>1, InnerStep DEF Crash
<1>6. CASE Restart
  <2>1. service.life + 1 \in 1 .. MaxLives
    BY <1>6, ServiceAssumption, ServiceFields DEF ServiceInv, ServiceSound, Restart
  <2> QED
    BY <1>4, <1>6, <2>1, InnerStep DEF Restart
<1> QED
  BY <1>1, <1>2, <1>3, <1>5, <1>6

-----------------------------------------------------------------------------
(* Verdicts.                                                               *)

\* A refusal: something else than the named hash, or no hash, was expected.
LEMMA RefusalSound ==
    ASSUME NEW w \in WorkRecord, w.stage = "looked_up", WorkSound(w), Tampered(w)
    PROVE  Of(w, "hash_check", FALSE) \in Verdict /\ VerdictSound(Of(w, "hash_check", FALSE))
<1> DEFINE v == Of(w, "hash_check", FALSE)
<1>1. w.job \in Jobs /\ w.patch \in Patch /\ Named(w.job, w.expected)
  BY WorkFields DEF WorkSound
<1>2. /\ v \in Verdict /\ v.job = w.job /\ v.patch = w.patch /\ v.passed = FALSE
      /\ v.method = "hash_check"
  BY <1>1 DEF Of, Verdict
<1>3. w.patch.verify # w.expected
  BY DEF Tampered, Expected
<1> HIDE DEF v
<1>4. \E e \in TasksOf(w.job) : e.hash # w.patch.verify
  BY <1>1, <1>3 DEF Named
<1>5. VerdictSound(v)
  BY <1>2, <1>4 DEF VerdictSound
<1> QED
  BY <1>2, <1>5 DEF v

\* A pass of verify.sh: verify/ is there, so it was compared.
LEMMA VerdictIsSound ==
    ASSUME NEW w \in WorkRecord, w.stage = "looked_up", WorkSound(w), ~Tampered(w),
           NEW passed \in BOOLEAN, NEW method \in {"container", "llm_judge"},
           method = "container" => w.patch.script
    PROVE  /\ Of(w, method, passed) \in Verdict /\ VerdictSound(Of(w, method, passed))
           /\ Of(w, method, passed).method # "hash_check"
<1> DEFINE v == Of(w, method, passed)
<1>1. /\ w.job \in Jobs /\ w.patch \in Patch /\ Named(w.job, w.expected)
      /\ w.patch.script => w.patch.verify # NoOne
  BY WorkFields DEF WorkSound
<1>2. v \in Verdict /\ v.job = w.job /\ v.patch = w.patch /\ v.method = method
  BY <1>1 DEF Of, Verdict
<1> HIDE DEF v
<1>3. method = "container" => Named(w.job, NoOne) \/ Named(w.job, w.patch.verify)
  BY <1>1 DEF Tampered, Expected
<1>4. VerdictSound(v)
  BY <1>2, <1>3 DEF VerdictSound
<1> QED
  BY <1>2, <1>4 DEF v

LEMMA RejectTamperedInv ==
    ASSUME ServiceInv, RejectTampered
    PROVE  ServiceInv'
<1>1. ServiceSound(service) /\ service \in ServiceRecord /\ PostedSound
  BY DEF ServiceInv, ServiceSound
<1>2. PICK w \in WorkRecord : w = service.work
  BY <1>1, ServiceFields
<1>3. /\ w.stage = "looked_up" /\ WorkSound(w) /\ Tampered(w)
      /\ Post(Of(w, "hash_check", FALSE))
      /\ service' = Done /\ UNCHANGED <<setting, verifiers, published, chain>>
  BY <1>1, <1>2 DEF RejectTampered, ServiceSound
<1>4. Of(w, "hash_check", FALSE) \in Verdict /\ VerdictSound(Of(w, "hash_check", FALSE))
  BY <1>3, RefusalSound
<1>5. PostedSound'
  BY <1>1, <1>3, <1>4, PostSound
<1>6. ServiceSound(service)'
  BY <1>1, <1>3, NoWorkSound, WorkReplaced, SoundAgain DEF Done
<1> QED
  BY <1>3, <1>5, <1>6 DEF ServiceInv, VerifierTypeOK

LEMMA VerifyInv ==
    ASSUME ServiceInv, Verify
    PROVE  ServiceInv'
<1>1. ServiceSound(service) /\ service \in ServiceRecord
  BY DEF ServiceInv, ServiceSound
<1>2. PICK w \in WorkRecord : w = service.work
  BY <1>1, ServiceFields
<1>3. w.stage = "looked_up" /\ WorkSound(w) /\ ~Tampered(w)
  BY <1>1, <1>2 DEF Verify, ServiceSound
<1>4. PICK passed \in BOOLEAN, method \in {"container", "llm_judge"} :
          /\ method = "container" => w.patch.script
          /\ service' = [service EXCEPT !.work = [stage |-> "signed", verdict |-> Of(w, method, passed)]]
  BY <1>2 DEF Verify
<1>5. /\ Of(w, method, passed) \in Verdict /\ VerdictSound(Of(w, method, passed))
      /\ Of(w, method, passed).method # "hash_check"
  BY <1>3, <1>4, VerdictIsSound
<1>6. PICK v \in Verdict : v = Of(w, method, passed) /\ VerdictSound(v) /\ v.method # "hash_check"
  BY <1>5
<1> DEFINE x == [stage |-> "signed", verdict |-> v]
<1>7. x \in WorkRecord /\ x.stage = "signed" /\ x.verdict = v
  <2>1. x \in [stage : {"signed", "post"}, verdict : Verdict]
    OBVIOUS
  <2> QED
    BY <2>1, Zenon DEF WorkRecord
<1>8. service' = [service EXCEPT !.work = x]
  BY <1>4, <1>6
<1> HIDE DEF x
<1>9. WorkSound(x)
  BY <1>6, <1>7 DEF WorkSound
<1>10. ServiceSound(service')
  BY <1>1, <1>7, <1>8, <1>9, WorkReplaced
<1> QED
  BY <1>10, InnerStep DEF Verify

\* What follows the signing carries the verdict along.
LEMMA NextStage ==
    ASSUME NEW w \in WorkRecord, w.stage \in {"signed", "submit", "post"}, WorkSound(w)
    PROVE  /\ w.verdict \in Verdict /\ VerdictSound(w.verdict) /\ w.verdict.method # "hash_check"
           /\ LET x == [stage |-> "post", verdict |-> w.verdict] IN x \in WorkRecord /\ WorkSound(x)
           /\ \A d \in DataIds :
                 LET x == [stage |-> "submit", verdict |-> w.verdict, dataId |-> d] IN
                 x \in WorkRecord /\ WorkSound(x)
<1>1. PICK v \in Verdict : v = w.verdict /\ VerdictSound(v) /\ v.method # "hash_check"
  BY WorkFields DEF WorkSound
<1> DEFINE x == [stage |-> "post", verdict |-> v]
<1>2. x \in WorkRecord /\ x.stage = "post" /\ x.verdict = v
  <2>1. x \in [stage : {"signed", "post"}, verdict : Verdict]
    OBVIOUS
  <2> QED
    BY <2>1, Zenon DEF WorkRecord
<1>3. WorkSound(x)
  <2> HIDE DEF x
  <2> QED
    BY <1>1, <1>2 DEF WorkSound
<1>4. ASSUME NEW d \in DataIds
      PROVE  LET y == [stage |-> "submit", verdict |-> v, dataId |-> d] IN y \in WorkRecord /\ WorkSound(y)
  <2> DEFINE y == [stage |-> "submit", verdict |-> v, dataId |-> d]
  <2>1. y \in [stage : {"submit"}, verdict : Verdict, dataId : DataIds]
    OBVIOUS
  <2>2. y \in WorkRecord /\ y.stage = "submit" /\ y.verdict = v
    BY <2>1, Zenon DEF WorkRecord
  <2> HIDE DEF y
  <2>3. WorkSound(y)
    BY <1>1, <2>2 DEF WorkSound
  <2>4. y \in WorkRecord /\ WorkSound(y)
    BY <2>2, <2>3
  <2> QED
    BY <2>4 DEF y
<1> QED
  BY <1>1, <1>2, <1>3, <1>4

LEMMA ReadEscrowInv ==
    ASSUME ServiceInv, ReadEscrow
    PROVE  ServiceInv'
<1>1. ServiceSound(service) /\ service \in ServiceRecord
  BY DEF ServiceInv, ServiceSound
<1>2. PICK w \in WorkRecord : w = service.work
  BY <1>1, ServiceFields
<1>3. w.stage \in {"signed", "submit", "post"} /\ WorkSound(w)
  BY <1>1, <1>2 DEF ReadEscrow, ServiceSound
<1>4. w.verdict.job \in Jobs
  BY <1>3, NextStage DEF Verdict
<1>5. PICK d \in DataIds \cup {NoOne} : d = chain.data[w.verdict.job]
  BY <1>4 DEF ServiceInv, ChainRecord
<1>6. PICK x \in WorkRecord : WorkSound(x) /\ service' = [service EXCEPT !.work = x]
  <2>1. CASE d = NoOne
    <3>1. service' = [service EXCEPT !.work = [stage |-> "post", verdict |-> w.verdict]]
      BY <1>2, <1>5, <2>1 DEF ReadEscrow
    <3> QED
      BY <1>3, <3>1, NextStage
  <2>2. CASE d # NoOne
    <3>1. service' = [service EXCEPT !.work = [stage |-> "submit", verdict |-> w.verdict, dataId |-> d]]
      BY <1>2, <1>5, <2>2 DEF ReadEscrow
    <3>2. d \in DataIds
      BY <2>2
    <3> QED
      BY <1>3, <3>1, <3>2, NextStage
  <2> QED
    BY <2>1, <2>2
<1>7. ServiceSound(service')
  BY <1>1, <1>6, WorkReplaced
<1> QED
  BY <1>7, InnerStep DEF ReadEscrow

\* The handler goes on whatever the contract makes of the transaction.
LEMMA SubmitVerdictInv ==
    ASSUME ServiceInv, SubmitVerdict
    PROVE  ServiceInv'
<1>1. ServiceSound(service) /\ service \in ServiceRecord
  BY DEF ServiceInv, ServiceSound
<1>2. PICK w \in WorkRecord : w = service.work
  BY <1>1, ServiceFields
<1>3. w.stage = "submit" /\ WorkSound(w) /\ SendTransaction(w)
  BY <1>1, <1>2 DEF SubmitVerdict, ServiceSound
<1>4. w.dataId \in DataIds
  BY <1>3, WorkFields
<1>5. chain' \in ChainRecord
  <2>1. chain \in ChainRecord
    BY DEF ServiceInv
  <2>2. PICK a \in SUBSET DataIds, r \in SUBSET DataIds :
            chain' = chain \/ chain' = [chain EXCEPT !.answered = a, !.resumed = r]
    <3>1. /\ chain.answered \cup {w.dataId} \in SUBSET DataIds
          /\ chain.resumed \in SUBSET DataIds /\ chain.resumed \cup {w.dataId} \in SUBSET DataIds
      BY <1>4, <2>1 DEF ChainRecord
    <3> QED
      BY <1>3, <3>1 DEF SendTransaction
  <2> QED
    BY <2>1, <2>2 DEF ChainRecord
<1>6. /\ service' = [service EXCEPT !.work = [stage |-> "post", verdict |-> w.verdict]]
      /\ UNCHANGED <<setting, verifiers, published, posted>>
  BY <1>2 DEF SubmitVerdict
<1>7. ServiceSound(service)' /\ PostedSound'
  BY <1>1, <1>3, <1>6, NextStage, WorkReplaced, SoundAgain, PostedAgain DEF ServiceInv
<1> QED
  BY <1>5, <1>6, <1>7 DEF ServiceInv, VerifierTypeOK

LEMMA PostVerifiedInv ==
    ASSUME ServiceInv, PostVerified
    PROVE  ServiceInv'
<1>1. ServiceSound(service) /\ service \in ServiceRecord /\ PostedSound
  BY DEF ServiceInv, ServiceSound
<1>2. PICK w \in WorkRecord : w = service.work
  BY <1>1, ServiceFields
<1>3. w.stage = "post" /\ WorkSound(w)
  BY <1>1, <1>2 DEF PostVerified, ServiceSound
<1>4. PICK v \in Verdict : v = w.verdict /\ VerdictSound(v)
  BY <1>3, NextStage
<1>5. /\ Post(v)
      /\ service' = Marked(v) /\ UNCHANGED <<setting, verifiers, published, chain>>
  BY <1>2, <1>4 DEF PostVerified
<1>6. PostedSound'
  BY <1>1, <1>4, <1>5, PostSound
<1>7. PICK s \in ServiceRecord : s = Done /\ ServiceSound(s)
  BY <1>1, NoWorkSound, WorkReplaced DEF Done, ServiceSound
<1> DEFINE p == [s.processed EXCEPT ![v.job] = v.patch.id]
<1>8. p \in [Jobs -> PatchIds \cup {NoOne}]
  BY <1>7, ServiceFields DEF Verdict, Patch
<1>9. service' = [s EXCEPT !.processed = p]
  BY <1>5, <1>7 DEF Marked
<1> HIDE DEF p
<1>10. /\ service' \in ServiceRecord /\ service'.known = s.known /\ service'.hashes = s.hashes
       /\ service'.notes = s.notes /\ service'.held = s.held /\ service'.channel = s.channel
       /\ service'.work = s.work
  BY <1>7, <1>8, <1>9 DEF ServiceRecord
<1>11. ServiceSound(service')
  BY <1>7, <1>10 DEF ServiceSound, QueuesSound, MemorySound
<1>12. ServiceSound(service)'
  BY <1>5, <1>11, SoundAgain
<1> QED
  BY <1>5, <1>6, <1>12 DEF ServiceInv, VerifierTypeOK

\* Yields and verifiers come and go; the service and what it said stay.
LEMMA ContractInv ==
    ASSUME ServiceInv, Contract
    PROVE  ServiceInv'
<1>1. UNCHANGED <<setting, service, published, posted>>
  BY DEF Contract, YieldOpens, YieldEnds
<1>2. ServiceSound(service)' /\ PostedSound'
  BY <1>1, SoundAgain, PostedAgain DEF ServiceInv
<1>3. VerifierTypeOK' /\ chain' \in ChainRecord
  <2>1. CASE VerifierAdmin /\ UNCHANGED chain
    <3>1. ASSUME NEW v \in Verifiers, AddVerifier(v) PROVE VerifierTypeOK'
      BY <3>1 DEF AddVerifier, ServiceInv, VerifierTypeOK
    <3>2. ASSUME NEW v \in Verifiers, DeactivateVerifier(v) PROVE VerifierTypeOK'
      BY <3>2 DEF DeactivateVerifier, ServiceInv, VerifierTypeOK
    <3>3. ASSUME NEW n \in 1 .. Cardinality(Verifiers), SetConsensusThreshold(n) PROVE VerifierTypeOK'
      <4>1. Cardinality(Verifiers) \in Nat
        BY VerifierAssumption, FS_CardinalityType
      <4>2. n \in Nat
        BY <4>1
      <4> QED
        BY <3>3, <4>2 DEF SetConsensusThreshold, ServiceInv, VerifierTypeOK
    <3> QED
      BY <2>1, <3>1, <3>2, <3>3 DEF VerifierAdmin, ServiceInv
  <2>2. CASE \E j \in Jobs : YieldOpens(j) \/ YieldEnds(j)
    <3>1. PICK j \in Jobs : YieldOpens(j) \/ YieldEnds(j)
      BY <2>2
    <3>2. verifiers' = verifiers
      BY <3>1 DEF YieldOpens, YieldEnds
    <3>3. chain \in ChainRecord
      BY DEF ServiceInv
    <3>4. ASSUME YieldOpens(j) PROVE chain' \in ChainRecord
      <4>1. PICK d \in DataIds : chain' = [chain EXCEPT !.data[j] = d, !.used = @ \cup {d}]
        BY <3>4 DEF YieldOpens
      <4> DEFINE y == [chain.data EXCEPT ![j] = d]
                 u == chain.used \cup {d}
      <4>2. chain' = [chain EXCEPT !.data = y, !.used = u]
        BY <4>1
      <4>3. y \in [Jobs -> DataIds \cup {NoOne}] /\ u \in SUBSET DataIds
        BY <3>3 DEF ChainRecord
      <4> HIDE DEF y, u
      <4> QED
        BY <3>3, <4>2, <4>3 DEF ChainRecord
    <3>5. ASSUME YieldEnds(j) PROVE chain' \in ChainRecord
      BY <3>3, <3>5 DEF YieldEnds, ChainRecord
    <3> QED
      BY <3>1, <3>2, <3>4, <3>5 DEF ServiceInv, VerifierTypeOK
  <2> QED
    BY <2>1, <2>2 DEF Contract
<1> QED
  BY <1>1, <1>2, <1>3 DEF ServiceInv

LEMMA ServiceStepInv ==
    ASSUME ServiceInv, [Next]_vars
    PROVE  ServiceInv'
<1>1. CASE UNCHANGED vars
  <2>1. UNCHANGED <<setting, verifiers, service, published, posted, chain>>
    BY <1>1 DEF vars
  <2>2. ServiceSound(service)' /\ PostedSound'
    BY <2>1, SoundAgain, PostedAgain DEF ServiceInv
  <2> QED
    BY <2>1, <2>2 DEF ServiceInv, VerifierTypeOK
<1>2. CASE Loop
  BY <1>2, HandleTaskEventInv, HandleWorkerResultInv, SmallStepsInv, RejectTamperedInv,
     VerifyInv, ReadEscrowInv, SubmitVerdictInv, PostVerifiedInv DEF Loop
<1>3. CASE Crash \/ Restart
  BY <1>3, SmallStepsInv
<1> QED
  BY <1>1, <1>2, <1>3, PublishInv, ListenerInv, ContractInv DEF Next

LEMMA ServiceInitInv ==
    ASSUME Init
    PROVE  ServiceInv
<1>1. ServiceSound(service)
  <2>1. 1 \in 1 .. MaxLives
    BY ServiceAssumption
  <2> QED
    BY <2>1, StartedSound DEF Init
<1>2. VerifierTypeOK
  <2>1. Cardinality(InitialVerifiers) \in Nat
    BY VerifierAssumption, FS_Subset, FS_CardinalityType
  <2>2. InitialThreshold \in Nat
    BY <2>1, VerifierAssumption
  <2> QED
    BY <2>2, VerifierAssumption DEF Init, VerifierInit, VerifierTypeOK
<1>3. PostedSound
  BY DEF Init, PostedSound
<1>4. chain \in ChainRecord
  BY DEF Init, ChainRecord
<1> QED
  BY <1>1, <1>2, <1>3, <1>4 DEF Init, ServiceInv

-----------------------------------------------------------------------------
\* Everything above: a reachable state of the service satisfies the invariant.
THEOREM ServiceHolds == Spec => []ServiceInv
<1>1. Init => ServiceInv
  BY ServiceInitInv
<1>2. ServiceInv /\ [Next]_vars => ServiceInv'
  BY ServiceStepInv
<1> QED
  BY <1>1, <1>2, PTL DEF Spec

\* The channels keep within their capacity (nostr.rs) and nothing is ever in the
\* channel of another kind.
THEOREM ServiceTypeOK == Spec => []TypeOK
<1>1. ServiceInv => TypeOK
  <2> SUFFICES ASSUME ServiceInv PROVE TypeOK
    OBVIOUS
  <2>1. posted \in Seq([verdict : Verdict, life : 1 .. MaxLives])
    BY DEF ServiceInv, PostedSound, Entry
  <2> QED
    BY <2>1 DEF ServiceInv, ServiceSound, QueuesSound, TypeOK
<1> QED
  BY <1>1, ServiceHolds, PTL

\* The integrity check of handle_worker_result (248-282) holds against every
\* order of events, every manifest and every restart.
THEOREM PassedAreUntampered == Spec => []PassedUntampered
<1>1. ServiceInv => PassedUntampered
  <2> SUFFICES ASSUME ServiceInv, NEW i \in DOMAIN posted,
                      posted[i].verdict.passed, posted[i].verdict.method = "container",
                      \A e \in TasksOf(posted[i].verdict.job) : e.hash # NoOne
               PROVE  posted[i].verdict.patch.verify \in {e.hash : e \in TasksOf(posted[i].verdict.job)}
    BY DEF PassedUntampered
  <2>1. VerdictSound(posted[i].verdict)
    BY DEF ServiceInv, PostedSound
  <2> QED
    BY <2>1 DEF VerdictSound, Named
<1> QED
  BY <1>1, ServiceHolds, PTL

\* No refusal of an untouched verify/ (254-341), whatever the service has missed
\* or forgotten.
THEOREM HonestAreNotRefused == Spec => []HonestNotRefused
<1>1. ServiceInv => HonestNotRefused
  BY DEF ServiceInv, PostedSound, VerdictSound, HonestNotRefused
<1> QED
  BY <1>1, ServiceHolds, PTL

-----------------------------------------------------------------------------
(* Judged again for cause.  What is judged in this life is remembered by   *)
(* its patch id, or another patch of the job has been judged since; what   *)
(* the handler is at work on was not remembered when it was taken.         *)

\* An entry of posted that the handler has marked in processed.
JudgedIn(x, life, j) == x.life = life /\ x.verdict.job = j /\ x.verdict.method # "hash_check"

\* After entry i another patch of its job was judged in the same life.
AnotherSince(i) == \E n \in DOMAIN posted : i < n /\ SameJob(i, n) /\ ~SamePatch(i, n)

\* What a handler that is not idle is about.
JobOf(w) == IF w.stage = "looked_up" THEN w.job ELSE w.verdict.job
PatchOf(w) == IF w.stage = "looked_up" THEN w.patch ELSE w.verdict.patch

\* A crashed service has forgotten, and says nothing more in this life.
Remembered(s) ==
    s.up => \A j \in Jobs : \A i \in DOMAIN posted : JudgedIn(posted[i], s.life, j) =>
        s.processed[j] = posted[i].verdict.patch.id \/ AnotherSince(i)

Caused(w, life) ==
    w.stage # "idle" =>
        \A i \in DOMAIN posted :
            JudgedIn(posted[i], life, JobOf(w)) /\ posted[i].verdict.patch.id = PatchOf(w).id
                => AnotherSince(i)

CauseInv ==
    /\ \A i \in DOMAIN posted : posted[i].life <= service.life
    /\ Remembered(service)
    /\ Caused(service.work, service.life)
    /\ JudgedAgainForCause

LEMMA IdleCaused == \A life : Caused(NoWork, life)
  BY DEF Caused, NoWork

\* A step that posts nothing, within one life, and takes up nothing without cause.
LEMMA CauseKept ==
    ASSUME CauseInv, posted' = posted,
           service'.life = service.life, service'.processed = service.processed,
           service'.up => service.up, Caused(service'.work, service.life)
    PROVE  CauseInv'
<1>1. \A i \in DOMAIN posted' : posted'[i].life <= service'.life
  BY DEF CauseInv
<1>2. Remembered(service)'
  BY DEF CauseInv, Remembered, JudgedIn, AnotherSince, SameJob, SamePatch
<1>3. Caused(service.work, service.life)'
  <2>1. PICK w : w = service'.work
    OBVIOUS
  <2>2. Caused(w, service.life)
    BY <2>1
  <2>3. Caused(w, service.life)'
    BY <2>2, <2>1 DEF Caused, JobOf, PatchOf, JudgedIn, AnotherSince, SameJob, SamePatch
  <2> QED
    BY <2>1, <2>3
<1>4. JudgedAgainForCause'
  BY DEF CauseInv, JudgedAgainForCause, SameJob, SamePatch
<1> QED
  BY <1>1, <1>2, <1>3, <1>4 DEF CauseInv

LEMMA EntryFields ==
    ASSUME PostedSound, NEW i \in DOMAIN posted
    PROVE  posted[i].verdict \in Verdict /\ posted[i].verdict.job \in Jobs /\ posted[i].life \in Nat
<1>1. posted[i] \in Entry
  BY DEF PostedSound
<1>2. posted[i].verdict \in Verdict /\ posted[i].life \in 1 .. MaxLives
  BY <1>1 DEF Entry
<1> QED
  BY <1>2 DEF Verdict

\* The entry that a step posts comes after all others, and what was said of them
\* stays true.
LEMMA OneMorePosted ==
    ASSUME PostedSound, NEW v \in Verdict, service \in ServiceRecord, Post(v)
    PROVE  \E n \in Nat :
              /\ DOMAIN posted' = DOMAIN posted \cup {n}
              /\ \A i \in DOMAIN posted : i \in Nat /\ i < n /\ posted'[i] = posted[i]
              /\ posted'[n].verdict = v /\ posted'[n].life = service.life
              /\ \A i, k \in DOMAIN posted :
                    (SameJob(i, k)' <=> SameJob(i, k)) /\ (SamePatch(i, k)' <=> SamePatch(i, k))
              /\ \A i \in DOMAIN posted : AnotherSince(i) => AnotherSince(i)'
<1> DEFINE x == [verdict |-> v, life |-> service.life]
<1>1. x \in Entry /\ x.verdict = v /\ x.life = service.life
  BY ServiceFields DEF Entry
<1>2. posted \in Seq(Entry) /\ posted' = Append(posted, x)
  BY DEF PostedSound, Post
<1> HIDE DEF x
<1>3. /\ posted' \in Seq(Entry) /\ Len(posted') = Len(posted) + 1 /\ Len(posted) \in Nat
      /\ \A i \in 1 .. Len(posted) : posted'[i] = posted[i]
      /\ posted'[Len(posted) + 1] = x
  BY <1>1, <1>2, AppendProperties
<1>4. DOMAIN posted = 1 .. Len(posted) /\ DOMAIN posted' = 1 .. Len(posted) + 1
  BY <1>2, <1>3
<1>5. PICK n \in Nat :
          /\ DOMAIN posted' = DOMAIN posted \cup {n}
          /\ \A i \in DOMAIN posted : i \in Nat /\ i < n /\ posted'[i] = posted[i]
          /\ posted'[n].verdict = v /\ posted'[n].life = service.life
  BY <1>1, <1>3, <1>4
<1>6. \A i, k \in DOMAIN posted :
          (SameJob(i, k)' <=> SameJob(i, k)) /\ (SamePatch(i, k)' <=> SamePatch(i, k))
  BY <1>5 DEF SameJob, SamePatch
<1>7. \A i \in DOMAIN posted : AnotherSince(i) => AnotherSince(i)'
  BY <1>5, <1>6 DEF AnotherSince
<1> QED
  BY <1>5, <1>6, <1>7

\* The handler takes up a patch that is not the one it remembers.
LEMMA TakenForCause ==
    ASSUME ServiceInv, CauseInv, HandleWorkerResult
    PROVE  CauseInv'
<1>1. PICK e \in Events : /\ Receives("result", e)
                          /\ service' = IF service.processed[e.job] = e.patch.id \/ e.job \notin service.known
                                        THEN Took("result") ELSE LookedUp(e)
  BY DEF HandleWorkerResult
<1>2. "result" \in Kinds /\ posted' = posted
  BY DEF Kinds, HandleWorkerResult
<1>3. service.up /\ e.job \in Jobs
  BY <1>1, EventFields DEF Receives, Idle
<1>4. service \in ServiceRecord
  BY DEF ServiceInv, ServiceSound
<1>5. CASE service' = Took("result")
  <2>1. /\ service'.life = service.life /\ service'.processed = service.processed
        /\ service'.up = service.up /\ service'.work = service.work
    BY <1>4, <1>5 DEF Took, ServiceRecord
  <2> QED
    BY <1>2, <2>1, CauseKept DEF CauseInv
<1>6. CASE service' = LookedUp(e) /\ service.processed[e.job] # e.patch.id
  <2> DEFINE w == [stage |-> "looked_up", job |-> e.job, patch |-> e.patch,
                   expected |-> service.hashes[e.job]]
  <2>1. /\ service'.life = service.life /\ service'.processed = service.processed
        /\ service'.up = service.up /\ service'.work = w
    BY <1>4, <1>6 DEF LookedUp, Took, ServiceRecord
  <2>2. JobOf(w) = e.job /\ PatchOf(w) = e.patch
    BY DEF JobOf, PatchOf
  <2> HIDE DEF w
  <2>3. ASSUME NEW i \in DOMAIN posted, JudgedIn(posted[i], service.life, e.job),
               posted[i].verdict.patch.id = e.patch.id
        PROVE  AnotherSince(i)
    BY <1>3, <1>6, <2>3 DEF CauseInv, Remembered
  <2>4. Caused(w, service.life)
    BY <2>2, <2>3 DEF Caused
  <2> QED
    BY <1>2, <2>1, <2>4, CauseKept
<1> QED
  BY <1>1, <1>5, <1>6

\* The verdict is about what was looked up, and stays so until it is posted.
LEMMA VerifiedForCause ==
    ASSUME ServiceInv, CauseInv, Verify \/ ReadEscrow \/ SubmitVerdict
    PROVE  CauseInv'
<1>1. service \in ServiceRecord /\ posted' = posted
  BY DEF ServiceInv, ServiceSound, Verify, ReadEscrow, SubmitVerdict
<1>2. PICK w \in WorkRecord : w = service.work
  BY <1>1, ServiceFields
<1>3. PICK x :
          /\ service' = [service EXCEPT !.work = x]
          /\ w.stage # "idle" /\ JobOf(x) = JobOf(w) /\ PatchOf(x) = PatchOf(w)
  <2>1. CASE Verify
    <3>1. w.stage = "looked_up"
      BY <1>2, <2>1 DEF Verify
    <3>2. PICK passed, method :
              service' = [service EXCEPT !.work = [stage |-> "signed", verdict |-> Of(w, method, passed)]]
      BY <1>2, <2>1 DEF Verify
    <3> DEFINE x == [stage |-> "signed", verdict |-> Of(w, method, passed)]
    <3>3. JobOf(x) = JobOf(w) /\ PatchOf(x) = PatchOf(w)
      BY <3>1 DEF JobOf, PatchOf, Of
    <3> QED
      BY <3>1, <3>2, <3>3
  <2>2. CASE ReadEscrow
    <3>1. w.stage = "signed"
      BY <1>2, <2>2 DEF ReadEscrow
    <3> DEFINE x == [stage |-> "post", verdict |-> w.verdict]
               y == [stage |-> "submit", verdict |-> w.verdict, dataId |-> chain.data[w.verdict.job]]
    <3>2. service' = [service EXCEPT !.work = x] \/ service' = [service EXCEPT !.work = y]
      BY <1>2, <2>2 DEF ReadEscrow
    <3>3. /\ JobOf(x) = JobOf(w) /\ PatchOf(x) = PatchOf(w)
          /\ JobOf(y) = JobOf(w) /\ PatchOf(y) = PatchOf(w)
      BY <3>1 DEF JobOf, PatchOf
    <3> HIDE DEF x, y
    <3> QED
      BY <3>1, <3>2, <3>3
  <2>3. CASE SubmitVerdict
    <3>1. w.stage = "submit"
      BY <1>2, <2>3 DEF SubmitVerdict
    <3> DEFINE x == [stage |-> "post", verdict |-> w.verdict]
    <3>2. service' = [service EXCEPT !.work = x]
      BY <1>2, <2>3 DEF SubmitVerdict
    <3>3. JobOf(x) = JobOf(w) /\ PatchOf(x) = PatchOf(w)
      BY <3>1 DEF JobOf, PatchOf
    <3> HIDE DEF x
    <3> QED
      BY <3>1, <3>2, <3>3
  <2> QED
    BY <2>1, <2>2, <2>3
<1>4. Caused(x, service.life)
  BY <1>2, <1>3 DEF CauseInv, Caused
<1>5. /\ service'.life = service.life /\ service'.processed = service.processed
      /\ service'.up = service.up /\ service'.work = x
  BY <1>1, <1>3 DEF ServiceRecord
<1> QED
  BY <1>1, <1>4, <1>5, CauseKept

\* A refusal is no judgement, and is not remembered.
LEMMA RefusedForCause ==
    ASSUME ServiceInv, CauseInv, RejectTampered
    PROVE  CauseInv'
<1>1. service \in ServiceRecord /\ PostedSound
  BY DEF ServiceInv, ServiceSound
<1>2. PICK w \in WorkRecord : w = service.work
  BY <1>1, ServiceFields
<1>3. /\ w.stage = "looked_up" /\ WorkSound(w) /\ Tampered(w)
      /\ Post(Of(w, "hash_check", FALSE)) /\ service' = Done
  BY <1>2 DEF RejectTampered, ServiceInv, ServiceSound
<1>4. /\ service'.life = service.life /\ service'.processed = service.processed
      /\ service'.up = service.up /\ service'.work = NoWork
  BY <1>1, <1>3 DEF Done, ServiceRecord
<1>5. PICK v \in Verdict : v = Of(w, "hash_check", FALSE)
  BY <1>3, RefusalSound
<1>6. v.method = "hash_check"
  BY <1>5 DEF Of
<1>7. PICK n \in Nat :
          /\ DOMAIN posted' = DOMAIN posted \cup {n}
          /\ \A i \in DOMAIN posted : i \in Nat /\ i < n /\ posted'[i] = posted[i]
          /\ posted'[n].verdict = v /\ posted'[n].life = service.life
          /\ \A i, k \in DOMAIN posted :
                (SameJob(i, k)' <=> SameJob(i, k)) /\ (SamePatch(i, k)' <=> SamePatch(i, k))
          /\ \A i \in DOMAIN posted : AnotherSince(i) => AnotherSince(i)'
  BY <1>1, <1>3, <1>5, OneMorePosted
<1>8. \A i \in DOMAIN posted' : posted'[i].life <= service'.life
  <2>1. service.life \in Nat
    BY <1>1, ServiceFields
  <2> QED
    BY <1>4, <1>7, <2>1 DEF CauseInv
<1>9. Remembered(service)'
  <2>1. ASSUME service'.up, NEW j \in Jobs, NEW i \in DOMAIN posted', JudgedIn(posted'[i], service'.life, j)
        PROVE  service'.processed[j] = posted'[i].verdict.patch.id \/ AnotherSince(i)'
    <3>1. i \in DOMAIN posted /\ posted'[i] = posted[i]
      BY <1>6, <1>7, <2>1 DEF JudgedIn
    <3>2. service.processed[j] = posted[i].verdict.patch.id \/ AnotherSince(i)
      BY <1>4, <2>1, <3>1 DEF CauseInv, Remembered
    <3> QED
      BY <1>4, <1>7, <3>1, <3>2
  <2> QED
    BY <2>1 DEF Remembered, JudgedIn
<1>10. Caused(service.work, service.life)'
  BY <1>4 DEF Caused, NoWork
<1>11. JudgedAgainForCause'
  <2>1. ASSUME NEW i \in DOMAIN posted', NEW k \in DOMAIN posted', i < k, SameJob(i, k)', SamePatch(i, k)'
        PROVE  \E m \in DOMAIN posted' : i < m /\ m < k /\ SameJob(i, m)' /\ ~SamePatch(i, m)'
    <3>1. i \in DOMAIN posted /\ k \in DOMAIN posted
      BY <1>6, <1>7, <2>1 DEF SameJob
    <3>2. PICK m \in DOMAIN posted : i < m /\ m < k /\ SameJob(i, m) /\ ~SamePatch(i, m)
      BY <1>7, <2>1, <3>1 DEF CauseInv, JudgedAgainForCause
    <3> QED
      BY <1>7, <3>1, <3>2
  <2> QED
    BY <2>1 DEF JudgedAgainForCause
<1> QED
  BY <1>8, <1>9, <1>10, <1>11 DEF CauseInv

\* What is judged is remembered; what was remembered instead of it has another
\* patch id, and the entry made now is the one in between.
LEMMA PostedForCause ==
    ASSUME ServiceInv, CauseInv, PostVerified
    PROVE  CauseInv'
<1>1. service \in ServiceRecord /\ PostedSound
  BY DEF ServiceInv, ServiceSound
<1>2. PICK w \in WorkRecord : w = service.work
  BY <1>1, ServiceFields
<1>3. w.stage = "post" /\ WorkSound(w)
  BY <1>1, <1>2 DEF PostVerified, ServiceInv, ServiceSound
<1>4. PICK v \in Verdict : v = w.verdict /\ v.method # "hash_check"
  BY <1>3, NextStage
<1>5. Post(v) /\ service' = Marked(v) /\ service.up
  BY <1>2, <1>4 DEF PostVerified
<1>6. v.job \in Jobs /\ JobOf(w) = v.job /\ PatchOf(w) = v.patch
  BY <1>3, <1>4 DEF Verdict, JobOf, PatchOf
<1>7. /\ service'.life = service.life /\ service'.up = service.up /\ service'.work = NoWork
      /\ service'.processed = [service.processed EXCEPT ![v.job] = v.patch.id]
  BY <1>1, <1>5 DEF Marked, Done, ServiceRecord
<1>8. service.processed \in [Jobs -> PatchIds \cup {NoOne}] /\ service.life \in Nat
  BY <1>1, ServiceFields
<1>9. PICK n \in Nat :
          /\ DOMAIN posted' = DOMAIN posted \cup {n}
          /\ \A i \in DOMAIN posted : i \in Nat /\ i < n /\ posted'[i] = posted[i]
          /\ posted'[n].verdict = v /\ posted'[n].life = service.life
          /\ \A i, k \in DOMAIN posted :
                (SameJob(i, k)' <=> SameJob(i, k)) /\ (SamePatch(i, k)' <=> SamePatch(i, k))
          /\ \A i \in DOMAIN posted : AnotherSince(i) => AnotherSince(i)'
  BY <1>1, <1>4, <1>5, OneMorePosted
<1>10. \A i \in DOMAIN posted :
           JudgedIn(posted[i], service.life, v.job) /\ posted[i].verdict.patch.id = v.patch.id
               => AnotherSince(i)
  BY <1>2, <1>3, <1>6 DEF CauseInv, Caused
<1>11. \A i \in DOMAIN posted' : posted'[i].life <= service'.life
  BY <1>7, <1>8, <1>9 DEF CauseInv
<1>12. Remembered(service)'
  <2>1. ASSUME service'.up, NEW j \in Jobs, NEW i \in DOMAIN posted', JudgedIn(posted'[i], service'.life, j)
        PROVE  service'.processed[j] = posted'[i].verdict.patch.id \/ AnotherSince(i)'
    <3>1. CASE i = n
      BY <1>6, <1>7, <1>8, <1>9, <2>1, <3>1 DEF JudgedIn
    <3>2. CASE i \in DOMAIN posted /\ j # v.job
      <4>1. service.processed[j] = posted[i].verdict.patch.id \/ AnotherSince(i)
        BY <1>5, <1>7, <1>9, <2>1, <3>2 DEF CauseInv, Remembered
      <4>2. service'.processed[j] = service.processed[j]
        BY <1>7, <1>8, <3>2
      <4> QED
        BY <1>9, <3>2, <4>1, <4>2
    <3>3. CASE i \in DOMAIN posted /\ j = v.job /\ posted[i].verdict.patch.id = v.patch.id
      <4>1. JudgedIn(posted[i], service.life, v.job)
        BY <1>7, <1>9, <2>1, <3>3
      <4> QED
        BY <1>9, <1>10, <3>3, <4>1
    <3>4. CASE i \in DOMAIN posted /\ j = v.job /\ posted[i].verdict.patch.id # v.patch.id
      <4>1. i < n /\ SameJob(i, n)' /\ ~SamePatch(i, n)'
        BY <1>4, <1>7, <1>9, <2>1, <3>4 DEF JudgedIn, SameJob, SamePatch
      <4> QED
        BY <1>9, <4>1 DEF AnotherSince
    <3> QED
      BY <1>9, <3>1, <3>2, <3>3, <3>4
  <2> QED
    BY <2>1 DEF Remembered, JudgedIn
<1>13. Caused(service.work, service.life)'
  BY <1>7 DEF Caused, NoWork
<1>14. JudgedAgainForCause'
  <2>1. ASSUME NEW i \in DOMAIN posted', NEW k \in DOMAIN posted', i < k, SameJob(i, k)', SamePatch(i, k)'
        PROVE  \E m \in DOMAIN posted' : i < m /\ m < k /\ SameJob(i, m)' /\ ~SamePatch(i, m)'
    <3>1. i \in DOMAIN posted /\ posted'[i] = posted[i]
      BY <1>9, <2>1
    <3>2. CASE k \in DOMAIN posted
      <4>1. PICK m \in DOMAIN posted : i < m /\ m < k /\ SameJob(i, m) /\ ~SamePatch(i, m)
        BY <1>9, <2>1, <3>1, <3>2 DEF CauseInv, JudgedAgainForCause
      <4> QED
        BY <1>9, <3>1, <4>1
    <3>3. CASE k = n
      <4>1. JudgedIn(posted[i], service.life, v.job) /\ posted[i].verdict.patch.id = v.patch.id
        BY <1>9, <2>1, <3>1, <3>3 DEF SameJob, SamePatch, JudgedIn
      <4>2. PICK m \in DOMAIN posted : i < m /\ SameJob(i, m) /\ ~SamePatch(i, m)
        BY <1>10, <3>1, <4>1 DEF AnotherSince
      <4> QED
        BY <1>9, <3>1, <3>3, <4>2
    <3> QED
      BY <1>9, <3>2, <3>3
  <2> QED
    BY <2>1 DEF JudgedAgainForCause
<1> QED
  BY <1>11, <1>12, <1>13, <1>14 DEF CauseInv

\* A crash forgets and a restart begins a life of which nothing is posted.
LEMMA RestartedForCause ==
    ASSUME ServiceInv, CauseInv, Crash \/ Restart
    PROVE  CauseInv'
<1>1. /\ service \in ServiceRecord /\ service.life \in Nat
      /\ posted' = posted
  BY ServiceFields DEF ServiceInv, ServiceSound, Crash, Restart
<1>2. JudgedAgainForCause'
  BY <1>1 DEF CauseInv, JudgedAgainForCause, SameJob, SamePatch
<1>3. service'.work = NoWork
  <2>1. \A life : Started(life).work = NoWork
    BY DEF Started
  <2>2. \A life : [Started(life) EXCEPT !.up = FALSE, !.listening = FALSE].work = NoWork
    BY DEF Started
  <2> QED
    BY <2>1, <2>2 DEF Crash, Restart
<1>4. Caused(service.work, service.life)'
  BY <1>3 DEF Caused, NoWork
<1>5. CASE Crash
  <2>1. ~service'.up /\ service'.life = service.life
    BY <1>5 DEF Crash, Started
  <2> QED
    BY <1>1, <1>2, <1>4, <2>1 DEF CauseInv, Remembered
<1>6. CASE Restart
  <2>1. service'.life = service.life + 1
    BY <1>6 DEF Restart, Started
  <2>2. \A i \in DOMAIN posted : posted[i].life <= service'.life /\ posted[i].life # service'.life
    <3>1. \A i \in DOMAIN posted : posted[i].life \in Nat
      BY EntryFields DEF ServiceInv
    <3> QED
      BY <1>1, <2>1, <3>1 DEF CauseInv
  <2>3. Remembered(service)'
    BY <1>1, <2>2 DEF Remembered, JudgedIn
  <2> QED
    BY <1>1, <1>2, <1>4, <2>2, <2>3 DEF CauseInv
<1> QED
  BY <1>5, <1>6

\* Every other step leaves what was judged, and what is at work or nothing.
LEMMA OthersForCause ==
    ASSUME ServiceInv, CauseInv,
           \/ \E e \in Events : Publish(e)
           \/ Listener \/ HandleTaskEvent \/ HandleFunded \/ Stops \/ GiveUp \/ Contract
           \/ UNCHANGED vars
    PROVE  CauseInv'
<1>1. service \in ServiceRecord
  BY DEF ServiceInv, ServiceSound
<1>2. Caused(service.work, service.life)
  BY DEF CauseInv
<1>3. CASE \E e \in Events : Publish(e)
  <2>1. /\ service'.life = service.life /\ service'.processed = service.processed
        /\ service'.up = service.up /\ service'.work = service.work
        /\ posted' = posted
    BY <1>1, <1>3 DEF Publish, ServiceRecord
  <2> QED
    BY <1>2, <2>1, CauseKept
<1>4. CASE Listener
  <2>1. /\ service'.life = service.life /\ service'.processed = service.processed
        /\ service'.up = service.up /\ service'.work = service.work
        /\ posted' = posted
    BY <1>1, <1>4 DEF Listener, ListenerTakes, ListenerSends, ListenerEnds, ServiceRecord
  <2> QED
    BY <1>2, <2>1, CauseKept
<1>5. CASE HandleTaskEvent \/ HandleFunded
  <2>1. /\ service'.life = service.life /\ service'.processed = service.processed
        /\ service'.up = service.up /\ service'.work = service.work
        /\ posted' = posted
    BY <1>1, <1>5 DEF HandleTaskEvent, HandleFunded, Tracked, Took, ServiceRecord
  <2> QED
    BY <1>2, <2>1, CauseKept
<1>6. CASE Stops
  <2>1. /\ service'.life = service.life /\ service'.processed = service.processed
        /\ service'.up = FALSE /\ service'.work = service.work
        /\ posted' = posted
    BY <1>1, <1>6 DEF Stops, ServiceRecord
  <2> QED
    BY <1>2, <2>1, CauseKept
<1>7. CASE GiveUp
  <2>1. /\ service'.life = service.life /\ service'.processed = service.processed
        /\ service'.up = service.up /\ service'.work = NoWork
        /\ posted' = posted
    BY <1>1, <1>7 DEF GiveUp, Done, ServiceRecord
  <2> QED
    BY <2>1, CauseKept, IdleCaused
<1>8. CASE Contract \/ UNCHANGED vars
  <2>1. UNCHANGED <<service, posted>>
    BY <1>8 DEF Contract, YieldOpens, YieldEnds, vars
  <2> QED
    BY <1>2, <2>1, CauseKept
<1> QED
  BY <1>3, <1>4, <1>5, <1>6, <1>7, <1>8

LEMMA CauseStep ==
    ASSUME ServiceInv, CauseInv, [Next]_vars
    PROVE  CauseInv'
  BY TakenForCause, VerifiedForCause, RefusedForCause, PostedForCause, RestartedForCause,
     OthersForCause DEF Next, Loop

LEMMA CauseInit ==
    ASSUME Init
    PROVE  CauseInv
<1>1. posted = << >> /\ service.work = NoWork
  BY DEF Init, Started
<1>2. Caused(service.work, service.life)
  BY <1>1, IdleCaused
<1> QED
  BY <1>1, <1>2 DEF CauseInv, Remembered, JudgedAgainForCause

\* processed (28, 157-164, 484-487) is enough, for all events, channels and crashes:
\* a patch id is judged again in one life of the service only after another patch
\* of the job was judged in between.
THEOREM JudgedForCause == Spec => []JudgedAgainForCause
<1>1. Init => ServiceInv /\ CauseInv
  BY ServiceInitInv, CauseInit
<1>2. (ServiceInv /\ CauseInv) /\ [Next]_vars => (ServiceInv /\ CauseInv)'
  BY ServiceStepInv, CauseStep
<1>3. ServiceInv /\ CauseInv => JudgedAgainForCause
  BY DEF CauseInv
<1> QED
  BY <1>1, <1>2, <1>3, PTL DEF Spec
=============================================================================
