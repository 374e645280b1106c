------------------------- MODULE AndroidVideoProofs -------------------------
(* Theorems about AndroidVideo: whatever agents, decoder and viewers do, in   *)
(* every order of the blocks on the server queue, a running capture has a     *)
(* source of pictures; the decoder's policy counts what is being decoded; and *)
(* no frame is taken up for a session unless the one it depends on was.       *)
EXTENDS AndroidVideo, FiniteSetTheorems, TLAPS

Units == [agent : Nat, n : Nat, key : BOOLEAN]

Kinds == {"configuration", "frame", "agentFailed", "decodeFailed", "decoded", "recover"}

Tasks == [kind : Kinds, generation : Nat, unit : Units]

Readers == [state : {"streams", "orphaned", "off"}, generation : Nat,
            configurations : Nat, due : BOOLEAN, sent : Nat]

Jobs == [what : {"submit", "invalidate"}, unit : Units, generation : Nat]

Sources == [active : BOOLEAN, generation : Nat, agent : Nat, restarts : 0..1,
            adb : {"off", "compatible", "full"}, failures : Nat, triggered : BOOLEAN]

Decoders == [count : Nat, generation : Nat, waiting : BOOLEAN, format : BOOLEAN,
             session : BOOLEAN, owner : Nat, offered : Units, previous : Units]

TypesInv ==
    /\ source \in Sources /\ jpegViewer \in BOOLEAN
    /\ readers \in Seq(Readers) /\ tasks \in Seq(Tasks)
    /\ decoder \in Decoders /\ work \in Seq(Jobs)
    /\ units \in Nat

\* A failure of the current source waits on the server queue.
FailureQueued(queue, generation) ==
    \E i \in DOMAIN queue : queue[i].kind = "agentFailed" /\ queue[i].generation = generation

\* CaptureHasSource does not say why the agent that streams belongs to this capture,
\* which is why its failure will not be ignored, nor that an agent needs no
\* screenshots, which the last MJPEG viewer takes with it.
AgentInv(s, rs, queue) ==
    s.active =>
        IF s.agent = 0 THEN s.adb = "full"
        ELSE /\ s.agent \in DOMAIN rs
             /\ rs[s.agent].generation = s.generation
             /\ rs[s.agent].state = "streams" \/ FailureQueued(queue, s.generation)

SourceInv == TypesInv /\ AgentInv(source, readers, tasks)

-----------------------------------------------------------------------------
(* The queue of the server.                                                *)

\* A block that is not served stays on the queue.
LEMMA TailKeeps ==
    ASSUME NEW queue \in Seq(Tasks), queue # <<>>, NEW generation,
           FailureQueued(queue, generation),
           ~(Head(queue).kind = "agentFailed" /\ Head(queue).generation = generation)
    PROVE  FailureQueued(Tail(queue), generation)
<1>1. PICK i \in DOMAIN queue : queue[i].kind = "agentFailed" /\ queue[i].generation = generation
  BY DEF FailureQueued
<1>2. i # 1 /\ i \in 1..Len(queue) /\ Len(queue) \in Nat
  BY <1>1
<1>3. i - 1 \in DOMAIN Tail(queue) /\ Tail(queue)[i - 1] = queue[i]
  BY <1>2
<1> QED
  BY <1>1, <1>3 DEF FailureQueued

LEMMA AppendKeeps ==
    ASSUME NEW queue \in Seq(Tasks), NEW t \in Tasks, NEW generation,
           FailureQueued(queue, generation)
    PROVE  FailureQueued(Append(queue, t), generation)
<1>1. PICK i \in DOMAIN queue : queue[i].kind = "agentFailed" /\ queue[i].generation = generation
  BY DEF FailureQueued
<1>2. i \in DOMAIN Append(queue, t) /\ Append(queue, t)[i] = queue[i]
  BY <1>1
<1> QED
  BY <1>1, <1>2 DEF FailureQueued

LEMMA AppendQueues ==
    ASSUME NEW queue \in Seq(Tasks), NEW t \in Tasks, t.kind = "agentFailed"
    PROVE  FailureQueued(Append(queue, t), t.generation)
<1>1. Len(queue) + 1 \in DOMAIN Append(queue, t) /\ Append(queue, t)[Len(queue) + 1] = t
  OBVIOUS
<1> QED
  BY <1>1 DEF FailureQueued

-----------------------------------------------------------------------------
(* The operators of the server.                                            *)

\* A new task is one.
LEMMA TaskType ==
    ASSUME NEW kind \in Kinds, NEW generation \in Nat, NEW unit \in Units
    PROVE  Task(kind, generation, unit) \in Tasks
BY DEF Task, Tasks

LEMMA NoUnitType == NoUnit \in Units
BY DEF NoUnit, Units

LEMMA StoppedType ==
    ASSUME decoder \in Decoders PROVE StoppedDecoder(decoder) \in Decoders
<1>1. decoder.generation + 1 \in Nat
  BY DEF Decoders
<1>2. NoDecoder \in Decoders
  BY NoUnitType DEF NoDecoder, Decoders
<1>3. ASSUME NEW d \in Decoders, NEW n \in Nat PROVE [d EXCEPT !.generation = n] \in Decoders
  BY DEF Decoders
<1> QED
  BY <1>1, <1>2, <1>3 DEF StoppedDecoder

\* Closing the connection of an agent changes the state of its reader alone.
LEMMA SilencedType ==
    ASSUME NEW rs \in Seq(Readers), NEW a
    PROVE  /\ Silenced(rs, a) \in Seq(Readers) /\ Len(Silenced(rs, a)) = Len(rs)
           /\ \A b \in DOMAIN rs : Silenced(rs, a)[b].generation = rs[b].generation
           /\ \A b \in DOMAIN rs : b # a => Silenced(rs, a)[b] = rs[b]
<1>0. ASSUME NEW r \in Readers PROVE [r EXCEPT !.state = "off"] \in Readers
  BY DEF Readers
<1>1. \A b \in DOMAIN rs : Silenced(rs, a)[b] \in Readers
  BY <1>0 DEF Silenced
<1>2. DOMAIN Silenced(rs, a) = 1..Len(rs) /\ Len(rs) \in Nat
  BY DEF Silenced
<1>3. Silenced(rs, a) \in Seq(Readers) /\ Len(Silenced(rs, a)) = Len(rs)
  BY <1>1, <1>2 DEF Silenced
<1>4. \A b \in DOMAIN rs : rs[b] \in Readers
  OBVIOUS
<1> QED
  BY <1>3, <1>4 DEF Silenced, Readers

\* An agent that is started becomes the last reader, and streams if it is kept.
LEMMA BegunType ==
    ASSUME NEW start \in AgentStarts, NEW rs \in Seq(Readers), NEW generation \in Nat
    PROVE  /\ Begun(start, rs, generation) \in Seq(Readers)
           /\ Streams(start) =>
                 /\ Len(rs) + 1 \in DOMAIN Begun(start, rs, generation)
                 /\ Begun(start, rs, generation)[Len(rs) + 1] = Reader("streams", generation)
<1> DEFINE new == [i \in DOMAIN start |-> Reader(start[i], generation)]
<1>1. \A state \in {"streams", "orphaned"} : Reader(state, generation) \in Readers
  BY DEF Reader, Readers
<1>2. CASE start = <<>>
  <2>1. new = <<>> /\ ~Streams(start)
    BY <1>2 DEF Streams
  <2> QED
    BY <2>1 DEF Begun
<1>3. ASSUME NEW state \in {"streams", "orphaned"}, start = <<state>>
      PROVE  /\ new \in Seq(Readers) /\ Len(new) = 1 /\ new[1] = Reader(state, generation)
  <2>1. DOMAIN start = 1..1 /\ start[1] = state
    BY <1>3
  <2>2. new \in [1..1 -> Readers] /\ new[1] = Reader(state, generation)
    BY <1>1, <2>1
  <2> QED
    BY <2>2
<1>4. CASE start # <<>>
  <2>1. PICK state \in {"streams", "orphaned"} : start = <<state>>
    BY <1>4 DEF AgentStarts
  <2>2. Streams(start) => state = "streams"
    BY <2>1 DEF Streams
  <2> HIDE DEF new
  <2>3. new \in Seq(Readers) /\ Len(new) = 1 /\ new[1] = Reader(state, generation)
    BY <1>3, <2>1
  <2> QED
    BY <2>2, <2>3 DEF Begun, new
<1> QED
  BY <1>2, <1>4

\* Whether an agent streams or screenshots begin, the capture has a source.
LEMMA StartedHasSource ==
    ASSUME TypesInv, NEW s \in Sources, NEW start \in AgentStarts,
           Streams(start) \/ s.agent = 0,
           NEW rs \in Seq(Readers), Len(rs) = Len(readers)
    PROVE  /\ AgentOrScreenshots(s, start) \in Sources
           /\ AgentOrScreenshots(s, start).generation = s.generation
           /\ \A queue : AgentInv(AgentOrScreenshots(s, start), Begun(start, rs, s.generation), queue)
<1>1. Compatible(s.adb) \in {"off", "compatible", "full"}
  BY DEF Compatible, Sources
<1>2. Len(readers) + 1 \in Nat /\ Len(readers) + 1 # 0 /\ s.generation \in Nat
  BY DEF TypesInv, Sources
<1>3. CASE Streams(start)
  <2> DEFINE t == [s EXCEPT !.agent = Len(readers) + 1, !.adb = Compatible(@)]
  <2>1. AgentOrScreenshots(s, start) = t
    BY <1>3 DEF AgentOrScreenshots
  <2>2. t \in Sources /\ t.generation = s.generation /\ t.agent = Len(readers) + 1
    BY <1>1, <1>2 DEF Sources
  <2> HIDE DEF t
  <2>3. /\ t.agent \in DOMAIN Begun(start, rs, s.generation)
        /\ Begun(start, rs, s.generation)[t.agent] = Reader("streams", s.generation)
    <3>1. /\ Len(rs) + 1 \in DOMAIN Begun(start, rs, s.generation)
          /\ Begun(start, rs, s.generation)[Len(rs) + 1] = Reader("streams", s.generation)
      BY <1>2, <1>3, BegunType
    <3> QED
      BY <2>2, <3>1
  <2>4. \A queue : AgentInv(t, Begun(start, rs, s.generation), queue)
    BY <1>2, <2>2, <2>3 DEF AgentInv, Reader
  <2> QED
    BY <2>1, <2>2, <2>4
<1>4. CASE ~Streams(start)
  <2> DEFINE t == [s EXCEPT !.adb = "full"]
  <2>1. AgentOrScreenshots(s, start) = t
    BY <1>4 DEF AgentOrScreenshots
  <2>2. t \in Sources /\ t.generation = s.generation /\ t.agent = 0 /\ t.adb = "full"
    BY <1>4 DEF Sources
  <2> HIDE DEF t
  <2> QED
    BY <2>1, <2>2 DEF AgentInv
<1> QED
  BY <1>3, <1>4

\* handleAndroidAgentFailure leaves a capture with a source, whatever is queued.
LEMMA ReplaceHasSource ==
    ASSUME TypesInv, NEW s \in Sources, ReplaceAgent(s)
    PROVE  /\ source' \in Sources /\ readers' \in Seq(Readers) /\ decoder' \in Decoders
           /\ \A queue : AgentInv(source', readers', queue)
<1>1. decoder' \in Decoders
  BY StoppedType DEF ReplaceAgent, TypesInv
<1>2. /\ Silenced(readers, source.agent) \in Seq(Readers)
      /\ Len(Silenced(readers, source.agent)) = Len(readers)
  BY SilencedType DEF TypesInv
<1>3. CASE s.restarts < 1
  <2>1. PICK start \in AgentStarts :
          /\ source' = AgentOrScreenshots(
                IF Streams(start)
                THEN [s EXCEPT !.restarts = @ + 1, !.failures = 0, !.triggered = FALSE]
                ELSE [s EXCEPT !.restarts = @ + 1, !.agent = 0], start)
          /\ readers' = Begun(start, Silenced(readers, source.agent), s.generation)
    BY <1>3 DEF ReplaceAgent
  <2>2. s.restarts + 1 \in 0..1 /\ s.generation \in Nat
    BY <1>3 DEF Sources
  <2>3. readers' \in Seq(Readers)
    BY <1>2, <2>1, <2>2, BegunType
  <2>4. CASE Streams(start)
    <3> DEFINE t == [s EXCEPT !.restarts = @ + 1, !.failures = 0, !.triggered = FALSE]
    <3>1. t \in Sources /\ t.generation = s.generation
      BY <2>2 DEF Sources
    <3>2. source' = AgentOrScreenshots(t, start)
      BY <2>1, <2>4
    <3> HIDE DEF t
    <3> QED
      BY <1>1, <1>2, <2>1, <2>3, <2>4, <3>1, <3>2, StartedHasSource
  <2>5. CASE ~Streams(start)
    <3> DEFINE t == [s EXCEPT !.restarts = @ + 1, !.agent = 0]
    <3>1. t \in Sources /\ t.generation = s.generation /\ t.agent = 0
      BY <2>2 DEF Sources
    <3>2. source' = AgentOrScreenshots(t, start)
      BY <2>1, <2>5
    <3> HIDE DEF t
    <3> QED
      BY <1>1, <1>2, <2>1, <2>3, <3>1, <3>2, StartedHasSource
  <2> QED
    BY <2>4, <2>5
<1>4. CASE ~(s.restarts < 1)
  <2>1. source' = [s EXCEPT !.agent = 0, !.adb = "full"] /\ readers' = Silenced(readers, source.agent)
    BY <1>4 DEF ReplaceAgent
  <2>2. source' \in Sources /\ source'.agent = 0 /\ source'.adb = "full"
    BY <2>1 DEF Sources
  <2> QED
    BY <1>1, <1>2, <2>1, <2>2 DEF AgentInv
<1> QED
  BY <1>3, <1>4

\* So does handleAndroidDecoderFailure, or it leaves agent and screenshots alone.
LEMMA DecoderFailureHasSource ==
    ASSUME TypesInv, DecoderFailure
    PROVE  /\ source' \in Sources /\ readers' \in Seq(Readers) /\ decoder' \in Decoders
           /\ \A queue : AgentInv(source, readers, queue) => AgentInv(source', readers', queue)
<1>1. CASE source.triggered
  BY <1>1 DEF DecoderFailure, TypesInv
<1>2. CASE ~source.triggered
  <2> DEFINE counted == [source EXCEPT !.failures = @ + 1]
  <2>1. /\ counted \in Sources /\ counted.active = source.active /\ counted.agent = source.agent
        /\ counted.generation = source.generation /\ counted.adb = source.adb
    <3>1. source \in Sources
      BY DEF TypesInv
    <3> QED
      BY <3>1 DEF Sources
  <2>2. [counted EXCEPT !.triggered = TRUE] \in Sources
    BY <2>1 DEF Sources
  <2>3. \/ source' = counted /\ UNCHANGED <<readers, decoder>>
        \/ ReplaceAgent([counted EXCEPT !.triggered = TRUE])
    BY <1>2 DEF DecoderFailure
  <2> HIDE DEF counted
  <2>4. CASE source' = counted /\ UNCHANGED <<readers, decoder>>
    BY <2>1, <2>4 DEF TypesInv, AgentInv
  <2>5. CASE ReplaceAgent([counted EXCEPT !.triggered = TRUE])
    BY <2>2, <2>5, ReplaceHasSource
  <2> QED
    BY <2>3, <2>4, <2>5
<1> QED
  BY <1>1, <1>2

-----------------------------------------------------------------------------
(* The steps.  What each does to the types and to the source.              *)

\* A block that is no failure of the current source is taken from the queue.
LEMMA ServedHasSource ==
    ASSUME SourceInv, tasks # <<>>,
           Head(tasks).kind # "agentFailed" \/ ~Current(Head(tasks))
    PROVE  Tail(tasks) \in Seq(Tasks) /\ AgentInv(source, readers, Tail(tasks))
<1>1. tasks \in Seq(Tasks) /\ AgentInv(source, readers, tasks)
  BY DEF SourceInv, TypesInv
<1>2. Tail(tasks) \in Seq(Tasks)
  BY <1>1
<1>3. CASE ~source.active
  BY <1>2, <1>3 DEF AgentInv
<1>4. CASE source.active
  <2>1. ~(Head(tasks).kind = "agentFailed" /\ Head(tasks).generation = source.generation)
    BY <1>4 DEF Current
  <2> QED
    BY <1>1, <1>2, <2>1, TailKeeps DEF AgentInv
<1> QED
  BY <1>3, <1>4

LEMMA QueuedHasSource ==
    ASSUME NEW s, NEW rs, NEW queue \in Seq(Tasks), NEW t \in Tasks, AgentInv(s, rs, queue)
    PROVE  Append(queue, t) \in Seq(Tasks) /\ AgentInv(s, rs, Append(queue, t))
<1>1. Append(queue, t) \in Seq(Tasks)
  OBVIOUS
<1> QED
  BY <1>1, AppendKeeps DEF AgentInv

LEMMA HeadType ==
    ASSUME TypesInv
    PROVE  /\ tasks # <<>> => Head(tasks) \in Tasks /\ Tail(tasks) \in Seq(Tasks)
           /\ work # <<>> => Head(work) \in Jobs /\ Tail(work) \in Seq(Jobs)
BY DEF TypesInv

LEMMA NoSourceType == NoSource \in Sources /\ NoSource.agent = 0 /\ ~NoSource.active
BY DEF NoSource, Sources

\* The policies keep a decoder a decoder.
LEMMA DecoderTypes ==
    ASSUME NEW d \in Decoders, NEW generation, NEW key, NEW unit \in Units, NEW before \in Units
    PROVE  /\ Completed(d, generation) \in Decoders
           /\ Received(d, key) \in Decoders
           /\ [d EXCEPT !.session = TRUE, !.offered = unit, !.previous = before] \in Decoders
           /\ [d EXCEPT !.session = FALSE, !.offered = unit, !.previous = before] \in Decoders
<1>1. d.count + 1 \in Nat /\ d.generation + 1 \in Nat /\ d.count \in Nat /\ (d.count > 0 => d.count - 1 \in Nat)
  BY DEF Decoders
<1>2. Completed(d, generation) \in Decoders
  BY <1>1 DEF Completed, Decoders
<1>3. /\ [d EXCEPT !.generation = @ + 1, !.count = 1, !.waiting = FALSE] \in Decoders
      /\ [d EXCEPT !.generation = @ + 1, !.count = 0, !.waiting = TRUE] \in Decoders
      /\ [d EXCEPT !.count = @ + 1] \in Decoders
  <2>1. ASSUME NEW g \in Nat, NEW n \in Nat, NEW w \in BOOLEAN
        PROVE  [d EXCEPT !.generation = g, !.count = n, !.waiting = w] \in Decoders
    BY DEF Decoders
  <2>2. ASSUME NEW n \in Nat PROVE [d EXCEPT !.count = n] \in Decoders
    BY DEF Decoders
  <2> QED
    BY <1>1, <2>1, <2>2
<1>4. Received(d, key) \in Decoders
  <2>1. CASE Resumes(d, key)
    BY <1>3, <2>1 DEF Received, Resumes, Overflows
  <2>2. CASE Overflows(d, key)
    BY <1>3, <2>2 DEF Received, Resumes, Overflows
  <2>3. CASE ~Resumes(d, key) /\ ~Overflows(d, key)
    BY <1>3, <2>3 DEF Received
  <2> QED
    BY <2>1, <2>2, <2>3
<1>5. /\ [d EXCEPT !.session = TRUE, !.offered = unit, !.previous = before] \in Decoders
      /\ [d EXCEPT !.session = FALSE, !.offered = unit, !.previous = before] \in Decoders
  BY DEF Decoders
<1> QED
  BY <1>2, <1>4, <1>5

LEMMA StartCaptureKeeps == SourceInv /\ StartCapture => SourceInv'
<1> SUFFICES ASSUME SourceInv, StartCapture PROVE SourceInv'
  OBVIOUS
<1> DEFINE s == [NoSource EXCEPT !.active = TRUE, !.generation = source.generation + 1]
<1>1. TypesInv /\ source.generation + 1 \in Nat
  BY DEF SourceInv, TypesInv, Sources
<1>2. s \in Sources /\ s.agent = 0 /\ s.generation = source.generation + 1
  BY <1>1, NoSourceType DEF Sources
<1>3. PICK start \in AgentStarts :
        /\ source' = AgentOrScreenshots(s, start)
        /\ readers' = Begun(start, readers, source'.generation)
  BY DEF StartCapture
<1> HIDE DEF s
<1>4. readers \in Seq(Readers)
  BY <1>1 DEF TypesInv
<1>5. /\ source' \in Sources /\ source'.generation = s.generation
      /\ \A queue : AgentInv(source', Begun(start, readers, s.generation), queue)
  BY <1>1, <1>2, <1>3, <1>4, StartedHasSource
<1>6. readers' \in Seq(Readers) /\ \A queue : AgentInv(source', readers', queue)
  BY <1>1, <1>2, <1>3, <1>4, <1>5, BegunType
<1>7. decoder' \in Decoders /\ UNCHANGED <<jpegViewer, tasks, work, units>>
  BY <1>1, StoppedType DEF StartCapture, TypesInv
<1> QED
  BY <1>1, <1>5, <1>6, <1>7 DEF SourceInv, TypesInv

LEMMA StopCaptureKeeps == SourceInv /\ StopCapture => SourceInv'
<1> SUFFICES ASSUME SourceInv, StopCapture PROVE SourceInv'
  OBVIOUS
<1>1. TypesInv /\ source.generation + 1 \in Nat
  BY DEF SourceInv, TypesInv, Sources
<1>2. source' \in Sources /\ ~source'.active
  <2>1. source' = [NoSource EXCEPT !.generation = source.generation + 1]
    BY DEF StopCapture
  <2> QED
    BY <1>1, <2>1, NoSourceType DEF Sources
<1>3. readers' \in Seq(Readers)
  BY <1>1, SilencedType DEF StopCapture, TypesInv
<1>4. decoder' \in Decoders /\ UNCHANGED <<jpegViewer, tasks, work, units>>
  BY <1>1, StoppedType DEF StopCapture, TypesInv
<1> QED
  BY <1>1, <1>2, <1>3, <1>4 DEF SourceInv, TypesInv, AgentInv

\* The last MJPEG viewer takes screenshots with it only where an agent streams.
LEMMA ViewersKeep ==
    SourceInv /\ (JpegViewerOpens \/ JpegViewerPauses \/ JpegViewerLeaves) => SourceInv'
<1> SUFFICES ASSUME SourceInv, JpegViewerOpens \/ JpegViewerPauses \/ JpegViewerLeaves
             PROVE  SourceInv'
  OBVIOUS
<1>1. source \in Sources /\ ViewerGone(source) \in Sources
  BY DEF SourceInv, TypesInv, ViewerGone, Sources
<1>2. AgentInv(ViewerGone(source), readers, tasks)
  BY <1>1 DEF SourceInv, AgentInv, ViewerGone, Sources
<1>3. /\ source' = source \/ source' = ViewerGone(source)
      /\ jpegViewer' \in BOOLEAN /\ UNCHANGED <<readers, tasks, decoder, work, units>>
  BY DEF JpegViewerOpens, JpegViewerPauses, JpegViewerLeaves
<1> QED
  BY <1>1, <1>2, <1>3 DEF SourceInv, TypesInv

\* The reader thread of an agent queues what it reads, and its own failure before it ends.
LEMMA ReaderKeeps ==
    ASSUME SourceInv, NEW a \in DOMAIN readers,
           ReadConfiguration(a) \/ ReadFrame(a) \/ ReaderFails(a)
    PROVE  SourceInv'
<1>1. /\ TypesInv /\ AgentInv(source, readers, tasks) /\ readers \in Seq(Readers)
      /\ readers[a] \in Readers /\ tasks \in Seq(Tasks) /\ units + 1 \in Nat /\ a \in Nat
  BY DEF SourceInv, TypesInv
<1>2. readers[a].generation \in Nat /\ readers[a].sent + 1 \in Nat /\ readers[a].configurations + 1 \in Nat
  BY <1>1 DEF Readers
<1>3. CASE ReadConfiguration(a)
  <2> DEFINE r == [readers[a] EXCEPT !.configurations = @ + 1, !.due = TRUE]
             t == Task("configuration", readers[a].generation, NoUnit)
  <2>1. r \in Readers /\ r.generation = readers[a].generation /\ r.state = readers[a].state
    BY <1>1, <1>2 DEF Readers
  <2>2. t \in Tasks
    BY <1>2, NoUnitType, TaskType DEF Kinds
  <2>3. /\ readers' = [readers EXCEPT ![a] = r] /\ tasks' = Append(tasks, t)
        /\ UNCHANGED <<source, jpegViewer, decoder, work, units>>
    BY <1>3 DEF ReadConfiguration
  <2> HIDE DEF r, t
  <2>4. readers' \in Seq(Readers) /\ AgentInv(source', readers', tasks)
    BY <1>1, <2>1, <2>3 DEF AgentInv
  <2>5. tasks' \in Seq(Tasks) /\ AgentInv(source', readers', tasks')
    BY <1>1, <2>2, <2>3, <2>4, QueuedHasSource
  <2> QED
    BY <1>1, <2>3, <2>4, <2>5 DEF SourceInv, TypesInv
<1>4. CASE ReadFrame(a)
  <2> DEFINE r == [readers[a] EXCEPT !.due = FALSE, !.sent = @ + 1]
             u(key) == [agent |-> a, n |-> readers[a].sent + 1, key |-> key]
             t(key) == Task("frame", readers[a].generation, u(key))
  <2>1. r \in Readers /\ r.generation = readers[a].generation /\ r.state = readers[a].state
    BY <1>1, <1>2 DEF Readers
  <2>2. \A key \in BOOLEAN : u(key) \in Units
    BY <1>1, <1>2 DEF Units
  <2>3. \A key \in BOOLEAN : t(key) \in Tasks
    <3> HIDE DEF u
    <3> QED
      BY <1>2, <2>2, TaskType DEF Kinds
  <2>4. readers[a].due \in BOOLEAN
    BY <1>1 DEF Readers
  <2>5. /\ readers' = [readers EXCEPT ![a] = r] /\ \E key \in BOOLEAN : tasks' = Append(tasks, t(key))
        /\ units' = units + 1 /\ UNCHANGED <<source, jpegViewer, decoder, work>>
    BY <1>4, <2>4 DEF ReadFrame
  <2> HIDE DEF r, t
  <2>6. readers' \in Seq(Readers) /\ AgentInv(source', readers', tasks)
    BY <1>1, <2>1, <2>5 DEF AgentInv
  <2>7. tasks' \in Seq(Tasks) /\ AgentInv(source', readers', tasks')
    BY <1>1, <2>3, <2>5, <2>6, QueuedHasSource
  <2> QED
    BY <1>1, <2>5, <2>6, <2>7 DEF SourceInv, TypesInv
<1>5. CASE ReaderFails(a)
  <2> DEFINE t == Task("agentFailed", readers[a].generation, NoUnit)
  <2>1. t \in Tasks
    BY <1>2, NoUnitType, TaskType DEF Kinds
  <2>2. t.kind = "agentFailed" /\ t.generation = readers[a].generation
    BY DEF Task
  <2>3. /\ readers' = Silenced(readers, a) /\ tasks' = Append(tasks, t)
        /\ UNCHANGED <<source, jpegViewer, decoder, work, units>>
    BY <1>5 DEF ReaderFails
  <2> HIDE DEF t
  <2>4. /\ readers' \in Seq(Readers) /\ DOMAIN readers' = DOMAIN readers
        /\ \A b \in DOMAIN readers : readers'[b].generation = readers[b].generation
        /\ \A b \in DOMAIN readers : b # a => readers'[b] = readers[b]
    BY <1>1, <2>3, SilencedType
  <2>5. /\ tasks' \in Seq(Tasks) /\ AgentInv(source, readers, tasks')
        /\ FailureQueued(tasks', readers[a].generation)
    BY <1>1, <2>1, <2>2, <2>3, QueuedHasSource, AppendQueues
  <2>6. AgentInv(source', readers', tasks')
    <3>1. CASE source.agent = a
      BY <2>3, <2>4, <2>5, <3>1 DEF AgentInv
    <3>2. CASE source.agent # a
      BY <2>3, <2>4, <2>5, <3>2 DEF AgentInv
    <3> QED
      BY <3>1, <3>2
  <2> QED
    BY <1>1, <2>3, <2>4, <2>5, <2>6 DEF SourceInv, TypesInv
<1> QED
  BY <1>3, <1>4, <1>5

-----------------------------------------------------------------------------
(* The server queue.                                                       *)

\* A block of an earlier capture does nothing.
LEMMA IgnoredKeeps ==
    ASSUME SourceInv, tasks # <<>>, Ignored(Head(tasks)), UNCHANGED <<jpegViewer, work, units>>
    PROVE  SourceInv'
<1>1. Tail(tasks) \in Seq(Tasks) /\ AgentInv(source, readers, Tail(tasks))
  BY ServedHasSource DEF Ignored
<1>2. tasks' = Tail(tasks) /\ UNCHANGED <<source, readers, decoder>>
  BY DEF Ignored
<1> QED
  BY <1>1, <1>2 DEF SourceInv, TypesInv

\* A block that replaces the source leaves one.
LEMMA ReplacedKeeps ==
    ASSUME SourceInv, tasks # <<>>, tasks' = Tail(tasks), UNCHANGED <<jpegViewer, work, units>>,
           \/ ReplaceAgent(source)
           \/ DecoderFailure /\ Head(tasks).kind # "agentFailed"
    PROVE  SourceInv'
<1>1. TypesInv /\ source \in Sources /\ tasks' \in Seq(Tasks)
  BY HeadType DEF SourceInv, TypesInv
<1>2. CASE ReplaceAgent(source)
  BY <1>1, <1>2, ReplaceHasSource DEF SourceInv, TypesInv
<1>3. CASE DecoderFailure /\ Head(tasks).kind # "agentFailed"
  <2>1. AgentInv(source, readers, tasks')
    BY <1>3, ServedHasSource
  <2> QED
    BY <1>1, <1>3, <2>1, DecoderFailureHasSource DEF SourceInv, TypesInv
<1> QED
  BY <1>2, <1>3

LEMMA ServeConfigurationKeeps == SourceInv /\ ServeConfiguration => SourceInv'
<1> SUFFICES ASSUME SourceInv, ServeConfiguration PROVE SourceInv'
  OBVIOUS
<1>1. tasks # <<>> /\ Head(tasks).kind = "configuration" /\ UNCHANGED <<jpegViewer, work, units>>
  BY DEF ServeConfiguration, Serves
<1>2. CASE Ignored(Head(tasks))
  BY <1>1, <1>2, IgnoredKeeps
<1>3. ASSUME tasks' = Tail(tasks), ReplaceAgent(source) PROVE SourceInv'
  BY <1>1, <1>3, ReplacedKeeps
<1>4. ASSUME tasks' = Tail(tasks), UNCHANGED <<source, readers>>,
             decoder' = [StoppedDecoder(decoder) EXCEPT
                            !.format = TRUE, !.session = TRUE, !.owner = source.generation]
      PROVE  SourceInv'
  <2>1. Tail(tasks) \in Seq(Tasks) /\ AgentInv(source, readers, Tail(tasks))
    BY <1>1, ServedHasSource
  <2>2. decoder' \in Decoders
    <3>1. StoppedDecoder(decoder) \in Decoders /\ source.generation \in Nat
      BY StoppedType DEF SourceInv, TypesInv, Sources
    <3>2. ASSUME NEW d \in Decoders, NEW g \in Nat
          PROVE  [d EXCEPT !.format = TRUE, !.session = TRUE, !.owner = g] \in Decoders
      BY DEF Decoders
    <3> QED
      BY <1>4, <3>1, <3>2
  <2> QED
    BY <1>1, <1>4, <2>1, <2>2 DEF SourceInv, TypesInv
<1> QED
  BY <1>2, <1>3, <1>4 DEF ServeConfiguration

LEMMA ServeFrameKeeps == SourceInv /\ ServeFrame => SourceInv'
<1> SUFFICES ASSUME SourceInv, ServeFrame PROVE SourceInv'
  OBVIOUS
<1> DEFINE t == Head(tasks)
<1>1. tasks # <<>> /\ t.kind = "frame" /\ UNCHANGED <<jpegViewer, units>>
  BY DEF ServeFrame, Serves
<1>2. CASE Ignored(t) /\ UNCHANGED work
  BY <1>1, <1>2, IgnoredKeeps
<1>3. CASE ~(Ignored(t) /\ UNCHANGED work)
  <2>1. /\ tasks \in Seq(Tasks) /\ work \in Seq(Jobs) /\ decoder \in Decoders
        /\ t \in Tasks /\ Tail(tasks) \in Seq(Tasks) /\ AgentInv(source, readers, Tail(tasks))
    BY <1>1, HeadType, ServedHasSource DEF SourceInv, TypesInv
  <2>2. decoder' = Received(decoder, t.unit.key) /\ UNCHANGED <<source, readers>>
    BY <1>3 DEF ServeFrame
  <2>3. t.unit \in Units /\ decoder.owner \in Nat
    BY <2>1 DEF Tasks, Decoders
  <2>4. decoder' \in Decoders
    BY <2>1, <2>2, NoUnitType, DecoderTypes
  <2>5. decoder'.generation \in Nat
    BY <2>4 DEF Decoders
  <2>6. /\ [what |-> "invalidate", unit |-> NoUnit, generation |-> 0] \in Jobs
        /\ [what |-> "submit", unit |-> t.unit, generation |-> decoder'.generation] \in Jobs
    BY <2>3, <2>5, NoUnitType DEF Jobs
  <2>7. Task("recover", decoder.owner, NoUnit) \in Tasks
    BY <2>3, NoUnitType, TaskType DEF Kinds
  <2>8. work' \in Seq(Jobs) /\ (tasks' = Tail(tasks)
                                \/ tasks' = Append(Tail(tasks), Task("recover", decoder.owner, NoUnit)))
    <3> DEFINE invalidate == [what |-> "invalidate", unit |-> NoUnit, generation |-> 0]
               submit == [what |-> "submit", unit |-> t.unit, generation |-> decoder'.generation]
    <3>1. CASE Overflows(decoder, t.unit.key)
      <4>1. /\ work' = Append(work, invalidate)
            /\ tasks' = IF decoder.owner = 0 THEN Tail(tasks)
                        ELSE Append(Tail(tasks), Task("recover", decoder.owner, NoUnit))
        BY <1>3, <3>1 DEF ServeFrame
      <4> HIDE DEF invalidate, t
      <4> QED
        BY <2>1, <2>6, <4>1 DEF invalidate
    <3>2. CASE decoder'.waiting /\ ~Overflows(decoder, t.unit.key)
      BY <1>3, <2>1, <3>2 DEF ServeFrame
    <3>3. CASE ~decoder'.waiting /\ ~Overflows(decoder, t.unit.key)
      <4>1. work' = Append(work, submit) /\ tasks' = Tail(tasks)
        BY <1>3, <3>3 DEF ServeFrame
      <4> HIDE DEF submit, t
      <4> QED
        BY <2>1, <2>6, <4>1 DEF submit
    <3> QED
      BY <3>1, <3>2, <3>3
  <2>9. tasks' \in Seq(Tasks) /\ AgentInv(source, readers, tasks')
    BY <2>1, <2>7, <2>8, QueuedHasSource
  <2> QED
    BY <1>1, <2>2, <2>4, <2>8, <2>9 DEF SourceInv, TypesInv
<1> QED
  BY <1>2, <1>3

LEMMA ServeAgentFailedKeeps == SourceInv /\ ServeAgentFailed => SourceInv'
<1> SUFFICES ASSUME SourceInv, ServeAgentFailed PROVE SourceInv'
  OBVIOUS
<1>1. tasks # <<>> /\ UNCHANGED <<jpegViewer, work, units>>
  BY DEF ServeAgentFailed, Serves
<1>2. \/ Ignored(Head(tasks))
      \/ tasks' = Tail(tasks) /\ ReplaceAgent(source)
  BY DEF ServeAgentFailed
<1> QED
  BY <1>1, <1>2, IgnoredKeeps, ReplacedKeeps

LEMMA ServeDecodeFailedKeeps == SourceInv /\ ServeDecodeFailed => SourceInv'
<1> SUFFICES ASSUME SourceInv, ServeDecodeFailed PROVE SourceInv'
  OBVIOUS
<1>1. /\ tasks # <<>> /\ Head(tasks).kind # "agentFailed"
      /\ UNCHANGED <<jpegViewer, work, units>>
  BY DEF ServeDecodeFailed, Serves
<1>2. \/ Ignored(Head(tasks))
      \/ tasks' = Tail(tasks) /\ DecoderFailure
  BY DEF ServeDecodeFailed
<1> QED
  BY <1>1, <1>2, IgnoredKeeps, ReplacedKeeps

LEMMA ServeDecodedKeeps == SourceInv /\ ServeDecoded => SourceInv'
<1> SUFFICES ASSUME SourceInv, ServeDecoded PROVE SourceInv'
  OBVIOUS
<1>1. /\ tasks # <<>> /\ Head(tasks).kind # "agentFailed" /\ tasks' = Tail(tasks)
      /\ source' = [source EXCEPT !.failures = 0]
      /\ UNCHANGED <<jpegViewer, readers, decoder, work, units>>
  BY DEF ServeDecoded, Serves
<1>2. Tail(tasks) \in Seq(Tasks) /\ AgentInv(source, readers, Tail(tasks)) /\ source \in Sources
  BY <1>1, ServedHasSource DEF SourceInv, TypesInv
<1>3. source' \in Sources /\ AgentInv(source', readers, Tail(tasks))
  BY <1>1, <1>2 DEF Sources, AgentInv
<1> QED
  BY <1>1, <1>2, <1>3 DEF SourceInv, TypesInv

\* Asking the agent for a keyframe leaves it streaming, or counts as a failure to decode.
LEMMA ServeRecoverKeeps == SourceInv /\ ServeRecover => SourceInv'
<1> SUFFICES ASSUME SourceInv, ServeRecover PROVE SourceInv'
  OBVIOUS
<1> DEFINE a == source.agent
<1>1. /\ tasks # <<>> /\ Head(tasks).kind # "agentFailed"
      /\ UNCHANGED <<jpegViewer, work, units>>
  BY DEF ServeRecover, Serves
<1>2. \/ Ignored(Head(tasks))
      \/ tasks' = Tail(tasks) /\ UNCHANGED <<source, readers, decoder>>
      \/ /\ tasks' = Tail(tasks) /\ readers' = [readers EXCEPT ![a].due = TRUE]
         /\ UNCHANGED <<source, decoder>>
      \/ tasks' = Tail(tasks) /\ DecoderFailure
  BY DEF ServeRecover
<1>3. CASE Ignored(Head(tasks))
  BY <1>1, <1>3, IgnoredKeeps
<1>4. CASE tasks' = Tail(tasks) /\ DecoderFailure
  BY <1>1, <1>4, ReplacedKeeps
<1>5. Tail(tasks) \in Seq(Tasks) /\ AgentInv(source, readers, Tail(tasks))
  BY <1>1, ServedHasSource
<1>6. CASE tasks' = Tail(tasks) /\ UNCHANGED <<source, readers, decoder>>
  BY <1>1, <1>5, <1>6 DEF SourceInv, TypesInv
<1>7. CASE /\ tasks' = Tail(tasks) /\ readers' = [readers EXCEPT ![a].due = TRUE]
           /\ UNCHANGED <<source, decoder>>
  <2>1. readers \in Seq(Readers)
    BY DEF SourceInv, TypesInv
  <2>2. ASSUME NEW r \in Readers
        PROVE  /\ [r EXCEPT !.due = TRUE] \in Readers
               /\ [r EXCEPT !.due = TRUE].generation = r.generation
               /\ [r EXCEPT !.due = TRUE].state = r.state
    BY DEF Readers
  <2>3. CASE a \notin DOMAIN readers
    <3>1. readers' = readers
      BY <1>7, <2>1, <2>3
    <3> QED
      BY <1>1, <1>5, <1>7, <3>1 DEF SourceInv, TypesInv
  <2>4. CASE a \in DOMAIN readers
    <3> DEFINE r == [readers[a] EXCEPT !.due = TRUE]
    <3>1. r \in Readers /\ r.generation = readers[a].generation /\ r.state = readers[a].state
      BY <2>1, <2>2, <2>4
    <3>2. readers' = [readers EXCEPT ![a] = r]
      BY <1>7
    <3> HIDE DEF r
    <3>3. readers' \in Seq(Readers) /\ AgentInv(source, readers', Tail(tasks))
      BY <1>5, <2>1, <2>4, <3>1, <3>2 DEF AgentInv
    <3> QED
      BY <1>1, <1>5, <1>7, <3>3 DEF SourceInv, TypesInv
  <2> QED
    BY <2>3, <2>4
<1> QED
  BY <1>2, <1>3, <1>4, <1>6, <1>7

-----------------------------------------------------------------------------
(* The decoder queue and the framework report, they change no source.      *)

\* A failure is reported to the capture whose handlers the decoder has.
LEMMA FailsKeeps ==
    ASSUME SourceInv, NEW d \in Decoders, NEW job, Fails(d, job)
    PROVE  decoder' \in Decoders /\ tasks' \in Seq(Tasks) /\ AgentInv(source, readers, tasks')
<1>1. tasks \in Seq(Tasks) /\ AgentInv(source, readers, tasks) /\ d.owner \in Nat
  BY DEF SourceInv, TypesInv, Decoders
<1>2. Task("decodeFailed", d.owner, NoUnit) \in Tasks
  BY <1>1, NoUnitType, TaskType DEF Kinds
<1>3. tasks' = tasks \/ tasks' = Append(tasks, Task("decodeFailed", d.owner, NoUnit))
  BY DEF Fails
<1>4. decoder' \in Decoders
  BY NoUnitType, DecoderTypes DEF Fails
<1> QED
  BY <1>1, <1>2, <1>3, <1>4, QueuedHasSource

LEMMA SubmitKeeps == SourceInv /\ Submit => SourceInv'
<1> SUFFICES ASSUME SourceInv, Submit PROVE SourceInv'
  OBVIOUS
<1> DEFINE job == Head(work)
<1>1. /\ work # <<>> /\ work' = Tail(work)
      /\ UNCHANGED <<source, jpegViewer, readers, units>>
  BY DEF Submit
<1>2. job \in Jobs /\ work' \in Seq(Jobs)
  BY <1>1, HeadType DEF SourceInv
<1>3. Offered(job) \in Decoders /\ decoder \in Decoders
  <2>1. decoder \in Decoders /\ job.unit \in Units /\ decoder.offered \in Units
    BY <1>2 DEF SourceInv, TypesInv, Jobs, Decoders
  <2>2. (IF decoder.session THEN decoder.offered ELSE NoUnit) \in Units
    BY <2>1, NoUnitType
  <2> QED
    BY <2>1, <2>2, DecoderTypes DEF Offered
<1>4. \/ Fails(decoder, job) \/ Fails(Offered(job), job)
      \/ decoder' = Offered(job) /\ tasks' = tasks
  BY DEF Submit
<1> HIDE DEF job
<1>5. decoder' \in Decoders /\ tasks' \in Seq(Tasks) /\ AgentInv(source, readers, tasks')
  <2>1. CASE Fails(decoder, job)
    BY <1>3, <2>1, FailsKeeps
  <2>2. CASE Fails(Offered(job), job)
    BY <1>3, <2>2, FailsKeeps
  <2>3. CASE decoder' = Offered(job) /\ tasks' = tasks
    BY <1>3, <2>3 DEF SourceInv, TypesInv
  <2> QED
    BY <1>4, <2>1, <2>2, <2>3
<1> QED
  BY <1>1, <1>2, <1>5 DEF SourceInv, TypesInv

LEMMA InvalidateKeeps == SourceInv /\ Invalidate => SourceInv'
<1> SUFFICES ASSUME SourceInv, Invalidate PROVE SourceInv'
  OBVIOUS
<1>1. /\ work # <<>> /\ work' = Tail(work)
      /\ decoder' = [decoder EXCEPT !.session = FALSE, !.offered = NoUnit, !.previous = NoUnit]
      /\ UNCHANGED <<source, jpegViewer, readers, tasks, units>>
  BY DEF Invalidate
<1>2. work' \in Seq(Jobs) /\ decoder \in Decoders
  BY <1>1, HeadType DEF SourceInv, TypesInv
<1>3. decoder' \in Decoders
  BY <1>1, <1>2, NoUnitType, DecoderTypes
<1> QED
  BY <1>1, <1>2, <1>3 DEF SourceInv, TypesInv

LEMMA CallbackKeeps == SourceInv /\ Callback => SourceInv'
<1> SUFFICES ASSUME SourceInv, Callback PROVE SourceInv'
  OBVIOUS
<1>1. UNCHANGED <<source, jpegViewer, readers, work, units>>
  BY DEF Callback
<1>2. PICK i \in DOMAIN inFlight :
        \/ /\ decoder' = Completed(decoder, inFlight[i].generation)
           /\ tasks' = Append(tasks, Task("decoded", 0, NoUnit))
        \/ Fails(decoder, inFlight[i])
  BY DEF Callback
<1>3. decoder \in Decoders /\ tasks \in Seq(Tasks) /\ AgentInv(source, readers, tasks)
  BY DEF SourceInv, TypesInv
<1>4. decoder' \in Decoders /\ tasks' \in Seq(Tasks) /\ AgentInv(source, readers, tasks')
  <2>1. CASE Fails(decoder, inFlight[i])
    BY <1>3, <2>1, FailsKeeps
  <2>2. CASE /\ decoder' = Completed(decoder, inFlight[i].generation)
             /\ tasks' = Append(tasks, Task("decoded", 0, NoUnit))
    <3>1. Task("decoded", 0, NoUnit) \in Tasks
      BY NoUnitType, TaskType DEF Kinds
    <3>2. decoder' \in Decoders
      BY <1>3, <2>2, NoUnitType, DecoderTypes
    <3> QED
      BY <1>3, <2>2, <3>1, <3>2, QueuedHasSource
  <2> QED
    BY <1>2, <2>1, <2>2
<1> QED
  BY <1>1, <1>3, <1>4 DEF SourceInv, TypesInv

-----------------------------------------------------------------------------
LEMMA SourceInit == AndroidInit => SourceInv
<1> SUFFICES ASSUME AndroidInit PROVE SourceInv
  OBVIOUS
<1>1. NoDecoder \in Decoders
  BY NoUnitType DEF NoDecoder, Decoders
<1>2. readers \in Seq(Readers) /\ tasks \in Seq(Tasks) /\ work \in Seq(Jobs)
  BY DEF AndroidInit
<1>3. source \in Sources /\ decoder \in Decoders /\ jpegViewer \in BOOLEAN /\ units \in Nat
  BY <1>1, NoSourceType DEF AndroidInit
<1>4. ~source.active
  BY NoSourceType DEF AndroidInit
<1> QED
  BY <1>2, <1>3, <1>4 DEF SourceInv, TypesInv, AgentInv

LEMMA SourceStep == SourceInv /\ [AndroidNext]_androidVars => SourceInv'
<1> SUFFICES ASSUME SourceInv, [AndroidNext]_androidVars PROVE SourceInv'
  OBVIOUS
<1>1. CASE StartCapture \/ StopCapture
  BY <1>1, StartCaptureKeeps, StopCaptureKeeps
<1>2. CASE JpegViewerOpens \/ JpegViewerPauses \/ JpegViewerLeaves
  BY <1>2, ViewersKeep
<1>3. CASE \E a \in DOMAIN readers : ReadConfiguration(a) \/ ReadFrame(a) \/ ReaderFails(a)
  BY <1>3, ReaderKeeps
<1>4. CASE ServeConfiguration \/ ServeFrame \/ ServeAgentFailed
  BY <1>4, ServeConfigurationKeeps, ServeFrameKeeps, ServeAgentFailedKeeps
<1>5. CASE ServeDecodeFailed \/ ServeDecoded \/ ServeRecover
  BY <1>5, ServeDecodeFailedKeeps, ServeDecodedKeeps, ServeRecoverKeeps
<1>6. CASE Submit \/ Invalidate \/ Callback
  BY <1>6, SubmitKeeps, InvalidateKeeps, CallbackKeeps
<1>7. CASE UNCHANGED androidVars
  BY <1>7 DEF androidVars, SourceInv, TypesInv, AgentInv
<1> QED
  BY <1>1, <1>2, <1>3, <1>4, <1>5, <1>6, <1>7 DEF AndroidNext

\* What the invariant says of a running capture is what its clients see of it.
LEMMA SourceInvImplies == SourceInv => CaptureHasSource
BY DEF SourceInv, TypesInv, AgentInv, CaptureHasSource, FailureQueued, Current, Sources, Tasks

\* While a capture of an Android device runs (captureActive), it is fed by the adb
\* screenshots, or by an agent that streams or whose failure the server queue has yet
\* to handle: handleAndroidAgentFailure never leaves the clients without pictures.
THEOREM AlwaysHasSource == AndroidSpec => []CaptureHasSource
<1>1. AndroidInit => SourceInv
  BY SourceInit
<1>2. SourceInv /\ [AndroidNext]_androidVars => SourceInv'
  BY SourceStep
<1>3. SourceInv => CaptureHasSource
  BY SourceInvImplies
<1> QED
  BY <1>1, <1>2, <1>3, PTL DEF AndroidSpec
-----------------------------------------------------------------------------
(* The decoder.  The policy's count is a cardinality, which each step of the   *)
(* queues changes by one at most.  That no gap is offered to a session needs   *)
(* the whole way of a frame: the reader numbers what it sends, the server      *)
(* queue and the decoder queue keep the order, and wherever a frame is left    *)
(* out on the way, the next to be taken up is a keyframe.                      *)
Counted(queue, g) ==
    {i \in DOMAIN queue : queue[i].what = "submit" /\ queue[i].generation = g}

Balanced(d, jobs, flights) ==
    /\ flights \in Seq(Jobs) /\ \A i \in DOMAIN flights : flights[i].what = "submit"
    /\ \A i \in DOMAIN jobs : jobs[i].generation <= d.generation
    /\ \A i \in DOMAIN flights : flights[i].generation <= d.generation
    /\ d.count = Cardinality(Counted(jobs, d.generation)) + Cardinality(Counted(flights, d.generation))

CountInv == Balanced(decoder, work, inFlight)

Follows(u, v) == u.agent = v.agent /\ u.n = v.n + 1

\* A frame that can only be decoded after the one before it.
Depends(t) == t.kind = "frame" /\ ~t.unit.key

\* What the server will do something with, of what the readers have queued.
Relevant(s, t) ==
    t.kind \in {"configuration", "frame"} /\ s.active /\ t.generation = s.generation

NoneIn(s, queue) == \A i \in DOMAIN queue : ~Relevant(s, queue[i])

FirstIn(s, queue, i) ==
    Relevant(s, queue[i]) /\ \A j \in DOMAIN queue : j < i => ~Relevant(s, queue[j])

LastIn(s, queue, i) ==
    Relevant(s, queue[i]) /\ \A j \in DOMAIN queue : i < j => ~Relevant(s, queue[j])

Adjacent(s, queue, i, j) ==
    /\ i < j /\ Relevant(s, queue[i]) /\ Relevant(s, queue[j])
    /\ \A k \in DOMAIN queue : i < k /\ k < j => ~Relevant(s, queue[k])

\* On the server queue a dependent frame comes right after the one before it.
ChainInv(s, queue) ==
    \A i, j \in DOMAIN queue : Adjacent(s, queue, i, j) /\ Depends(queue[j]) =>
        queue[i].kind = "frame" /\ Follows(queue[j].unit, queue[i].unit)

\* On the decoder queue as well, and the first after what was taken up for the session last.
LinksInv(d, jobs) ==
    d.format =>
        /\ \A i, j \in DOMAIN jobs :
              j = i + 1 /\ jobs[j].what = "submit" /\ ~jobs[j].unit.key =>
                  Follows(jobs[j].unit, jobs[i].unit)
        /\ jobs # <<>> /\ jobs[1].what = "submit" /\ ~jobs[1].unit.key /\ d.session =>
              Follows(jobs[1].unit, d.offered)

\* Where the decoder takes frames, the next one to be served comes after the last taken.
Decodes(d) == d.format /\ ~d.waiting

MayFollow(d, jobs, u) ==
    IF jobs # <<>> THEN Follows(u, jobs[Len(jobs)].unit) ELSE d.session => Follows(u, d.offered)

FrontInv(s, queue, d, jobs) ==
    Decodes(d) => \A i \in DOMAIN queue : FirstIn(s, queue, i) /\ Depends(queue[i]) =>
                     MayFollow(d, jobs, queue[i].unit)

\* The next dependent frame of a reader comes after the last that is queued, or taken.
Sends(r) == r.state = "streams" /\ r.configurations > 0 /\ ~r.due

NextUnit(rs, a) == [agent |-> a, n |-> rs[a].sent + 1, key |-> FALSE]

BackInv(s, queue, rs) ==
    \A a \in DOMAIN rs : Sends(rs[a]) =>
        \A i \in DOMAIN queue : LastIn(s, queue, i) =>
            queue[i].kind = "frame" /\ Follows(NextUnit(rs, a), queue[i].unit)

IdleInv(s, queue, rs, d, jobs) ==
    Decodes(d) /\ NoneIn(s, queue) =>
        \A a \in DOMAIN rs : Sends(rs[a]) => MayFollow(d, jobs, NextUnit(rs, a))

\* Only the agent of the capture streams.
ReadersInv(s, rs) ==
    \A a \in DOMAIN rs : rs[a].state = "streams" =>
        a = s.agent /\ s.active /\ rs[a].generation = s.generation

AgesInv(s, queue) ==
    \A i \in DOMAIN queue : queue[i].kind \in {"configuration", "frame"} =>
        queue[i].generation <= s.generation

OrderInv(s, queue, rs, d, jobs) ==
    /\ ChainInv(s, queue) /\ FrontInv(s, queue, d, jobs)
    /\ BackInv(s, queue, rs) /\ IdleInv(s, queue, rs, d, jobs)

StreamInv(s, queue, rs, d, jobs) ==
    /\ ReadersInv(s, rs) /\ AgesInv(s, queue) /\ LinksInv(d, jobs)
    /\ OrderInv(s, queue, rs, d, jobs)

-----------------------------------------------------------------------------
(* The policy's count.                                                     *)
Counts(job, g) == job.what = "submit" /\ job.generation = g

LEMMA CountedFinite ==
    ASSUME NEW queue \in Seq(Jobs), NEW g
    PROVE  /\ IsFiniteSet(Counted(queue, g)) /\ Cardinality(Counted(queue, g)) \in Nat
           /\ (\A i \in DOMAIN queue : ~Counts(queue[i], g)) => Cardinality(Counted(queue, g)) = 0
<1>1. Len(queue) \in Nat /\ DOMAIN queue = 1..Len(queue) /\ Len(queue) \in Int /\ 1 \in Int
  OBVIOUS
<1>2. IsFiniteSet(1..Len(queue))
  BY <1>1, FS_Interval
<1>3. Counted(queue, g) \in SUBSET (1..Len(queue))
  BY <1>1 DEF Counted
<1>4. IsFiniteSet(Counted(queue, g))
  BY <1>2, <1>3, FS_Subset
<1>5. Cardinality(Counted(queue, g)) \in Nat
  BY <1>4, FS_CardinalityType
<1>6. ASSUME \A i \in DOMAIN queue : ~Counts(queue[i], g) PROVE Cardinality(Counted(queue, g)) = 0
  <2>1. Counted(queue, g) = {}
    BY <1>6 DEF Counted, Counts
  <2> QED
    BY <2>1, FS_EmptySet
<1> QED
  BY <1>4, <1>5, <1>6

LEMMA CountedAppend ==
    ASSUME NEW queue \in Seq(Jobs), NEW job \in Jobs, NEW g
    PROVE  Cardinality(Counted(Append(queue, job), g)) =
              Cardinality(Counted(queue, g)) + (IF Counts(job, g) THEN 1 ELSE 0)
<1> DEFINE n == Len(queue) + 1
           longer == Append(queue, job)
<1>1. /\ Len(queue) \in Nat /\ DOMAIN queue = 1..Len(queue) /\ DOMAIN longer = 1..n
      /\ longer[n] = job /\ \A i \in 1..Len(queue) : longer[i] = queue[i]
  OBVIOUS
<1>2. IsFiniteSet(Counted(queue, g)) /\ Cardinality(Counted(queue, g)) \in Nat
  BY CountedFinite
<1> HIDE DEF longer
<1>3. CASE Counts(job, g)
  <2>1. Counted(longer, g) = Counted(queue, g) \cup {n} /\ n \notin Counted(queue, g)
    BY <1>1, <1>3 DEF Counted, Counts
  <2>2. Cardinality(Counted(queue, g) \cup {n}) = Cardinality(Counted(queue, g)) + 1
    BY <1>2, <2>1, FS_AddElement
  <2> QED
    BY <1>3, <2>1, <2>2 DEF longer
<1>4. CASE ~Counts(job, g)
  <2>1. Counted(longer, g) = Counted(queue, g)
    BY <1>1, <1>4 DEF Counted, Counts
  <2> QED
    BY <1>2, <1>4, <2>1 DEF longer
<1> QED
  BY <1>3, <1>4

\* A queue without the i-th of its jobs.
Without(shorter, queue, i) ==
    /\ Len(shorter) = Len(queue) - 1
    /\ \A k \in DOMAIN shorter : shorter[k] = queue[IF k < i THEN k ELSE k + 1]

LEMMA CountedWithout ==
    ASSUME NEW queue \in Seq(Jobs), NEW shorter \in Seq(Jobs), NEW i \in DOMAIN queue, NEW g,
           Without(shorter, queue, i)
    PROVE  Cardinality(Counted(queue, g)) =
              Cardinality(Counted(shorter, g)) + (IF Counts(queue[i], g) THEN 1 ELSE 0)
<1> DEFINE S == Counted(shorter, g)
           T == Counted(queue, g) \ {i}
           f == [k \in S |-> IF k < i THEN k ELSE k + 1]
<1>1. /\ Len(queue) \in Nat /\ DOMAIN queue = 1..Len(queue) /\ i \in 1..Len(queue)
      /\ Len(shorter) \in Nat /\ DOMAIN shorter = 1..Len(shorter) /\ Len(shorter) = Len(queue) - 1
  BY DEF Without
<1>2. \A k \in 1..Len(shorter) : shorter[k] = queue[IF k < i THEN k ELSE k + 1]
  BY <1>1 DEF Without
<1>3. \A k \in S : k \in 1..Len(shorter) /\ Counts(shorter[k], g)
  BY <1>1 DEF Counted, Counts
<1>4. \A m : m \in T <=> m \in 1..Len(queue) /\ m # i /\ Counts(queue[m], g)
  BY <1>1 DEF Counted, Counts
<1>5. \A k \in 1..Len(shorter) : Counts(shorter[k], g) => k \in S
  BY <1>1 DEF Counted, Counts
<1>6. IsFiniteSet(S) /\ Cardinality(S) \in Nat
  BY CountedFinite
<1>7. IsFiniteSet(Counted(queue, g)) /\ Cardinality(Counted(queue, g)) \in Nat
  BY CountedFinite
<1>8. i \in Counted(queue, g) <=> Counts(queue[i], g)
  BY DEF Counted, Counts
<1>9. Cardinality(T) =
         IF i \in Counted(queue, g) THEN Cardinality(Counted(queue, g)) - 1
         ELSE Cardinality(Counted(queue, g))
  BY <1>7, FS_RemoveElement
<1> HIDE DEF S, T
<1>10. f \in [S -> T]
  <2> SUFFICES ASSUME NEW k \in S PROVE (IF k < i THEN k ELSE k + 1) \in T
    OBVIOUS
  <2>1. k \in 1..Len(shorter) /\ Counts(shorter[k], g)
    BY <1>3
  <2>2. CASE k < i
    <3>1. shorter[k] = queue[k] /\ k \in 1..Len(queue) /\ k # i
      BY <1>1, <1>2, <2>1, <2>2
    <3> QED
      BY <1>4, <2>1, <2>2, <3>1
  <2>3. CASE ~(k < i)
    <3>1. shorter[k] = queue[k + 1] /\ k + 1 \in 1..Len(queue) /\ k + 1 # i
      BY <1>1, <1>2, <2>1, <2>3
    <3> QED
      BY <1>4, <2>1, <2>3, <3>1
  <2> QED
    BY <2>2, <2>3
<1>11. ASSUME NEW k \in S, NEW l \in S, f[k] = f[l] PROVE k = l
  <2>1. k \in Nat /\ l \in Nat
    BY <1>1, <1>3
  <2>2. (IF k < i THEN k ELSE k + 1) = (IF l < i THEN l ELSE l + 1)
    BY <1>11
  <2> QED
    BY <1>1, <2>1, <2>2
<1>12. ASSUME NEW m \in T PROVE \E k \in S : f[k] = m
  <2>1. m \in 1..Len(queue) /\ m # i /\ Counts(queue[m], g)
    BY <1>4
  <2>2. CASE m < i
    <3>1. m \in 1..Len(shorter) /\ shorter[m] = queue[m]
      BY <1>1, <1>2, <2>1, <2>2
    <3>2. m \in S
      BY <1>5, <2>1, <3>1
    <3> QED
      BY <2>2, <3>2
  <2>3. CASE ~(m < i)
    <3> DEFINE k == m - 1
    <3>1. k \in 1..Len(shorter) /\ ~(k < i) /\ k + 1 = m
      BY <1>1, <2>1, <2>3
    <3> HIDE DEF k
    <3>2. shorter[k] = queue[m]
      BY <1>2, <3>1
    <3>3. k \in S
      BY <1>5, <2>1, <3>1, <3>2
    <3>4. f[k] = m
      BY <3>1, <3>3
    <3> QED
      BY <3>3, <3>4
  <2> QED
    BY <2>2, <2>3
<1>13. f \in Bijection(S, T)
  <2> HIDE DEF f
  <2>1. f \in Injection(S, T)
    BY <1>10, <1>11 DEF Injection, IsInjective
  <2>2. f \in Surjection(S, T)
    BY <1>10, <1>12 DEF Surjection
  <2> QED
    BY <2>1, <2>2 DEF Bijection
<1>14. Cardinality(T) = Cardinality(S)
  <2>1. ExistsBijection(S, T)
    BY <1>13 DEF ExistsBijection
  <2> QED
    BY <1>6, <2>1, FS_Bijection
<1> QED
  BY <1>6, <1>7, <1>8, <1>9, <1>14 DEF S

LEMMA TailWithout ==
    ASSUME NEW queue \in Seq(Jobs), queue # <<>>
    PROVE  1 \in DOMAIN queue /\ queue[1] = Head(queue) /\ Tail(queue) \in Seq(Jobs)
           /\ Without(Tail(queue), queue, 1)
BY DEF Without

LEMMA RemovedWithout ==
    ASSUME NEW queue \in Seq(Jobs), NEW i \in DOMAIN queue
    PROVE  RemoveAt(queue, i) \in Seq(Jobs) /\ Without(RemoveAt(queue, i), queue, i)
<1> DEFINE p == SubSeq(queue, 1, i - 1)
           q == SubSeq(queue, i + 1, Len(queue))
<1>1. i \in 1..Len(queue) /\ Len(queue) \in Nat /\ i - 1 \in 0..Len(queue)
  OBVIOUS
<1>2. p \in Seq(Jobs) /\ Len(p) = i - 1 /\ \A k \in 1..(i - 1) : p[k] = queue[k]
  BY <1>1
<1>3. q \in Seq(Jobs) /\ Len(q) = Len(queue) - i /\ \A k \in 1..(Len(queue) - i) : q[k] = queue[i + k]
  BY <1>1
<1>4. RemoveAt(queue, i) = p \o q
  BY DEF RemoveAt
<1> HIDE DEF p, q
<1>5. /\ p \o q \in Seq(Jobs) /\ Len(p \o q) = Len(queue) - 1
      /\ \A k \in 1..Len(p) : (p \o q)[k] = p[k]
      /\ \A k \in (Len(p) + 1)..(Len(p) + Len(q)) : (p \o q)[k] = q[k - Len(p)]
  <2>1. Len(p) \in Nat /\ Len(q) \in Nat /\ p \in Seq(Jobs) /\ q \in Seq(Jobs)
    BY <1>2, <1>3
  <2>2. p \o q \in Seq(Jobs) /\ Len(p \o q) = Len(p) + Len(q)
    BY <2>1
  <2>3. \A k \in 1..(Len(p) + Len(q)) : (p \o q)[k] = IF k <= Len(p) THEN p[k] ELSE q[k - Len(p)]
    BY <2>1
  <2>4. Len(p \o q) = Len(queue) - 1
    BY <1>1, <1>2, <1>3, <2>2
  <2>5. \A k \in 1..Len(p) : (p \o q)[k] = p[k]
    BY <2>1, <2>3
  <2>6. \A k \in (Len(p) + 1)..(Len(p) + Len(q)) : (p \o q)[k] = q[k - Len(p)]
    BY <2>1, <2>3
  <2> QED
    BY <2>2, <2>4, <2>5, <2>6
<1>6. ASSUME NEW k \in DOMAIN (p \o q) PROVE (p \o q)[k] = queue[IF k < i THEN k ELSE k + 1]
  <2>1. k \in 1..(Len(queue) - 1)
    BY <1>5
  <2>2. CASE k < i
    BY <1>1, <1>2, <1>5, <2>1, <2>2
  <2>3. CASE ~(k < i)
    <3>1. k \in (Len(p) + 1)..(Len(p) + Len(q)) /\ k - Len(p) \in 1..(Len(queue) - i)
          /\ i + (k - Len(p)) = k + 1
      <4>1. Len(p) = i - 1 /\ Len(q) = Len(queue) - i
        BY <1>2, <1>3
      <4>2. i \in Nat /\ k \in Nat /\ k >= i /\ k <= Len(queue) - 1 /\ Len(queue) \in Nat
        BY <1>1, <2>1, <2>3
      <4>3. ASSUME NEW x \in Nat, NEW y \in Nat, NEW n \in Nat, y >= x, y <= n - 1
            PROVE  /\ y \in ((x - 1) + 1)..((x - 1) + (n - x)) /\ y - (x - 1) \in 1..(n - x)
                   /\ x + (y - (x - 1)) = y + 1
        BY <4>3
      <4> QED
        BY <4>1, <4>2, <4>3, Zenon
    <3> QED
      BY <1>3, <1>5, <2>3, <3>1
  <2> QED
    BY <2>2, <2>3
<1> QED
  BY <1>4, <1>5, <1>6 DEF Without

-----------------------------------------------------------------------------
(* The operators of the policy.                                            *)
\* What of the decoder the policy leaves alone.
SameSession(d, e) ==
    /\ d.format = e.format /\ d.session = e.session /\ d.offered = e.offered /\ d.previous = e.previous
    /\ d.owner = e.owner

LEMMA CompletedFacts ==
    ASSUME NEW d \in Decoders, NEW g
    PROVE  /\ Completed(d, g).generation = d.generation /\ Completed(d, g).waiting = d.waiting
           /\ SameSession(Completed(d, g), d)
           /\ Completed(d, g).count = IF g = d.generation /\ d.count > 0 THEN d.count - 1 ELSE d.count
<1> DEFINE n == d.count - 1
<1>1. d.count > 0 => n \in Nat
  BY DEF Decoders
<1>2. Completed(d, g) = IF g = d.generation /\ d.count > 0 THEN [d EXCEPT !.count = n] ELSE d
  BY DEF Completed
<1>3. n = d.count - 1
  OBVIOUS
<1> HIDE DEF n
<1> QED
  BY <1>1, <1>2, <1>3 DEF Decoders, SameSession

LEMMA ReceivedFacts ==
    ASSUME NEW d \in Decoders, NEW key \in BOOLEAN
    PROVE  /\ SameSession(Received(d, key), d)
           /\ Resumes(d, key) =>
                 /\ ~Overflows(d, key) /\ ~Received(d, key).waiting
                 /\ Received(d, key).generation = d.generation + 1 /\ Received(d, key).count = 1
           /\ Overflows(d, key) =>
                 /\ Received(d, key).waiting
                 /\ Received(d, key).generation = d.generation + 1 /\ Received(d, key).count = 0
           /\ ~d.waiting /\ ~Overflows(d, key) =>
                 /\ ~Received(d, key).waiting
                 /\ Received(d, key).generation = d.generation
                 /\ Received(d, key).count = d.count + 1
           /\ d.waiting /\ ~key => Received(d, key) = d /\ ~Overflows(d, key)
<1> DEFINE g == d.generation + 1
           n == d.count + 1
<1>1. g \in Nat /\ n \in Nat
  BY DEF Decoders
<1>2. Received(d, key) =
         CASE Resumes(d, key) -> [d EXCEPT !.generation = g, !.count = 1, !.waiting = FALSE]
           [] Overflows(d, key) -> [d EXCEPT !.generation = g, !.count = 0, !.waiting = TRUE]
           [] ~d.waiting /\ ~Overflows(d, key) -> [d EXCEPT !.count = n]
           [] OTHER -> d
  BY DEF Received
<1>3. g = d.generation + 1 /\ n = d.count + 1
  OBVIOUS
<1> HIDE DEF g, n
<1>4. CASE Resumes(d, key)
  <2>1. ~Overflows(d, key) /\ d.waiting /\ key
    BY <1>4 DEF Resumes, Overflows
  <2>2. Received(d, key) = [d EXCEPT !.generation = g, !.count = 1, !.waiting = FALSE]
    BY <1>2, <1>4, <2>1
  <2> QED
    BY <1>1, <1>3, <2>1, <2>2 DEF Decoders, SameSession
<1>5. CASE Overflows(d, key)
  <2>1. ~Resumes(d, key) /\ ~d.waiting
    BY <1>5 DEF Resumes, Overflows
  <2>2. Received(d, key) = [d EXCEPT !.generation = g, !.count = 0, !.waiting = TRUE]
    BY <1>2, <1>5, <2>1
  <2> QED
    BY <1>1, <1>3, <1>5, <2>1, <2>2 DEF Decoders, SameSession
<1>6. CASE ~d.waiting /\ ~Overflows(d, key)
  <2>1. ~Resumes(d, key)
    BY <1>6 DEF Resumes
  <2>2. Received(d, key) = [d EXCEPT !.count = n]
    BY <1>2, <1>6, <2>1
  <2> QED
    BY <1>1, <1>3, <1>6, <2>1, <2>2 DEF Decoders, SameSession
<1>7. CASE d.waiting /\ ~key
  <2>1. ~Resumes(d, key) /\ ~Overflows(d, key)
    BY <1>7 DEF Resumes, Overflows
  <2>2. Received(d, key) = d
    BY <1>2, <1>7, <2>1
  <2> QED
    BY <1>7, <2>1, <2>2 DEF SameSession
<1>8. d.waiting /\ key => Resumes(d, key)
  BY DEF Resumes
<1> QED
  BY <1>4, <1>5, <1>6, <1>7, <1>8

LEMMA StoppedFacts ==
    ASSUME NEW d \in Decoders
    PROVE  /\ StoppedDecoder(d).count = 0 /\ StoppedDecoder(d).generation = d.generation + 1
           /\ ~StoppedDecoder(d).format /\ ~StoppedDecoder(d).session /\ ~StoppedDecoder(d).waiting
           /\ StoppedDecoder(d).offered = NoUnit /\ StoppedDecoder(d).previous = NoUnit
BY DEF StoppedDecoder, NoDecoder

LEMMA OfferedFacts ==
    ASSUME NEW job \in Jobs, decoder \in Decoders
    PROVE  /\ Offered(job) \in Decoders
           /\ Offered(job).count = decoder.count /\ Offered(job).generation = decoder.generation
           /\ Offered(job).waiting = decoder.waiting /\ Offered(job).format = decoder.format
           /\ Offered(job).session /\ Offered(job).offered = job.unit /\ Offered(job).owner = decoder.owner
           /\ Offered(job).previous = IF decoder.session THEN decoder.offered ELSE NoUnit
<1> DEFINE before == IF decoder.session THEN decoder.offered ELSE NoUnit
<1>1. before \in Units /\ job.unit \in Units
  BY NoUnitType DEF Decoders, Jobs
<1>2. Offered(job) = [decoder EXCEPT !.session = TRUE, !.offered = job.unit, !.previous = before]
  BY DEF Offered
<1>3. before = IF decoder.session THEN decoder.offered ELSE NoUnit
  OBVIOUS
<1> HIDE DEF before
<1> QED
  BY <1>1, <1>2, <1>3 DEF Decoders

-----------------------------------------------------------------------------
(* The count is in balance with the queues.                                *)
LEMMA EmptyBalance ==
    ASSUME NEW d \in Decoders, d.count = 0
    PROVE  Balanced(d, <<>>, <<>>)
<1>1. <<>> \in Seq(Jobs) /\ DOMAIN <<>> = {}
  OBVIOUS
<1>2. Cardinality(Counted(<<>>, d.generation)) = 0
  BY <1>1, CountedFinite
<1> QED
  BY <1>1, <1>2 DEF Balanced

LEMMA SameBalance ==
    ASSUME NEW d, NEW e, NEW jobs, NEW flights, Balanced(d, jobs, flights),
           e.count = d.count, e.generation = d.generation
    PROVE  Balanced(e, jobs, flights)
BY DEF Balanced

\* A job of the present generation is added, with the count.
LEMMA TakenBalance ==
    ASSUME NEW d \in Decoders, NEW e, NEW jobs \in Seq(Jobs), NEW flights, NEW job \in Jobs,
           Balanced(d, jobs, flights), e.generation = d.generation, e.count = d.count + 1,
           job.what = "submit", job.generation = d.generation
    PROVE  Balanced(e, Append(jobs, job), flights)
<1>1. Cardinality(Counted(Append(jobs, job), d.generation)) = Cardinality(Counted(jobs, d.generation)) + 1
  BY CountedAppend DEF Counts
<1>2. /\ Cardinality(Counted(jobs, d.generation)) \in Nat
      /\ Cardinality(Counted(flights, d.generation)) \in Nat
  BY CountedFinite DEF Balanced
<1>3. \A i \in DOMAIN Append(jobs, job) : Append(jobs, job)[i].generation <= d.generation
  <2>1. d.generation \in Nat
    BY DEF Decoders
  <2> QED
    BY <2>1 DEF Balanced
<1>4. e.count = Cardinality(Counted(Append(jobs, job), d.generation))
                  + Cardinality(Counted(flights, d.generation))
  <2>1. d.count = Cardinality(Counted(jobs, d.generation)) + Cardinality(Counted(flights, d.generation))
    BY DEF Balanced
  <2> QED
    BY <1>1, <1>2, <2>1
<1> QED
  BY <1>3, <1>4 DEF Balanced

\* With a new generation nothing that was queued before is counted.
LEMMA RenewedBalance ==
    ASSUME NEW d \in Decoders, NEW e, NEW jobs \in Seq(Jobs), NEW flights, NEW job \in Jobs,
           Balanced(d, jobs, flights), e.generation = d.generation + 1,
           job.generation <= e.generation,
           e.count = IF Counts(job, e.generation) THEN 1 ELSE 0
    PROVE  Balanced(e, Append(jobs, job), flights)
<1>1. d.generation \in Nat /\ e.generation \in Nat /\ d.generation < e.generation
      /\ flights \in Seq(Jobs)
  BY DEF Decoders, Balanced
<1>2. ASSUME NEW queue \in Seq(Jobs), \A i \in DOMAIN queue : queue[i].generation <= d.generation
      PROVE  Cardinality(Counted(queue, e.generation)) = 0
  <2>1. ASSUME NEW i \in DOMAIN queue PROVE ~Counts(queue[i], e.generation)
    <3>1. queue[i] \in Jobs
      OBVIOUS
    <3>2. queue[i].generation \in Nat
      BY <3>1 DEF Jobs
    <3> QED
      BY <1>1, <1>2, <3>2 DEF Counts
  <2> QED
    BY <2>1, CountedFinite
<1>3. /\ Cardinality(Counted(jobs, e.generation)) = 0
      /\ Cardinality(Counted(flights, e.generation)) = 0
  BY <1>1, <1>2 DEF Balanced
<1>4. Cardinality(Counted(Append(jobs, job), e.generation)) = e.count
  <2>1. Cardinality(Counted(Append(jobs, job), e.generation)) =
           0 + (IF Counts(job, e.generation) THEN 1 ELSE 0)
    BY <1>3, CountedAppend
  <2> QED
    BY <2>1
<1>5. ASSUME NEW queue \in Seq(Jobs), \A i \in DOMAIN queue : queue[i].generation <= d.generation
      PROVE  \A i \in DOMAIN queue : queue[i].generation <= e.generation
  <2> SUFFICES ASSUME NEW i \in DOMAIN queue PROVE queue[i].generation <= e.generation
    OBVIOUS
  <2>1. queue[i] \in Jobs
    OBVIOUS
  <2>2. queue[i].generation \in Nat
    BY <2>1 DEF Jobs
  <2> QED
    BY <1>1, <1>5, <2>2
<1>6. \A i \in DOMAIN Append(jobs, job) : Append(jobs, job)[i].generation <= e.generation
  <2>1. \A i \in DOMAIN jobs : jobs[i].generation <= e.generation
    BY <1>5 DEF Balanced
  <2> QED
    BY <2>1
<1>7. \A i \in DOMAIN flights : flights[i].generation <= e.generation
  BY <1>1, <1>5 DEF Balanced
<1>8. e.count \in Nat /\ e.count = e.count + 0
  OBVIOUS
<1> QED
  BY <1>1, <1>3, <1>4, <1>6, <1>7, <1>8 DEF Balanced

\* A job leaves the decoder queue: for good, which is counted, or for the framework.
LEMMA LeftBalance ==
    ASSUME NEW d \in Decoders, NEW jobs \in Seq(Jobs), NEW flights, jobs # <<>>,
           Balanced(d, jobs, flights)
    PROVE  /\ jobs[1].what = "submit" =>
                 /\ Balanced(Completed(d, jobs[1].generation), Tail(jobs), flights)
                 /\ Balanced(d, Tail(jobs), Append(flights, jobs[1]))
           /\ jobs[1].what # "submit" => Balanced(d, Tail(jobs), flights)
<1> DEFINE g == d.generation
           rest == Tail(jobs)
           job == jobs[1]
<1>1. /\ 1 \in DOMAIN jobs /\ rest \in Seq(Jobs) /\ Without(rest, jobs, 1) /\ flights \in Seq(Jobs)
  BY TailWithout DEF Balanced
<1>2. /\ Cardinality(Counted(jobs, g)) =
            Cardinality(Counted(rest, g)) + (IF Counts(job, g) THEN 1 ELSE 0)
      /\ Cardinality(Counted(rest, g)) \in Nat /\ Cardinality(Counted(flights, g)) \in Nat
  <2> HIDE DEF rest
  <2> QED
    BY <1>1, CountedWithout, CountedFinite
<1>3. \A i \in DOMAIN rest : rest[i].generation <= g
  BY <1>1 DEF Balanced
<1>4. job \in Jobs /\ job.generation <= g
  BY <1>1 DEF Balanced
<1>5. d.count = Cardinality(Counted(jobs, g)) + Cardinality(Counted(flights, g))
  BY DEF Balanced
<1>6. ASSUME job.what = "submit" PROVE Balanced(Completed(d, job.generation), rest, flights)
  <2> DEFINE e == Completed(d, job.generation)
  <2>1. /\ e.generation = g
        /\ e.count = IF job.generation = g /\ d.count > 0 THEN d.count - 1 ELSE d.count
    BY CompletedFacts
  <2>2. Counts(job, g) <=> job.generation = g
    BY <1>6 DEF Counts
  <2>3. e.count = Cardinality(Counted(rest, g)) + Cardinality(Counted(flights, g))
    <3> HIDE DEF g, rest, job, e
    <3> QED
      BY <1>2, <1>5, <2>1, <2>2
  <2> HIDE DEF e, rest, job
  <2> QED
    BY <1>3, <2>1, <2>3 DEF Balanced, e
<1>7. ASSUME job.what = "submit" PROVE Balanced(d, rest, Append(flights, job))
  <2>1. Cardinality(Counted(Append(flights, job), g)) =
           Cardinality(Counted(flights, g)) + (IF Counts(job, g) THEN 1 ELSE 0)
    BY <1>1, <1>4, CountedAppend
  <2>2. d.count = Cardinality(Counted(rest, g)) + Cardinality(Counted(Append(flights, job), g))
    <3> HIDE DEF g, rest, job
    <3> QED
      BY <1>2, <1>5, <2>1
  <2>3. /\ Append(flights, job) \in Seq(Jobs)
        /\ \A i \in DOMAIN Append(flights, job) :
              Append(flights, job)[i].what = "submit" /\ Append(flights, job)[i].generation <= g
    <3>1. \A i \in DOMAIN flights : flights[i].what = "submit" /\ flights[i].generation <= g
      BY DEF Balanced
    <3> HIDE DEF g, job
    <3> QED
      BY <1>1, <1>4, <1>7, <3>1
  <2> HIDE DEF rest, job
  <2> QED
    BY <1>3, <2>2, <2>3 DEF Balanced
<1>8. ASSUME job.what # "submit" PROVE Balanced(d, rest, flights)
  <2>1. ~Counts(job, g)
    BY <1>8 DEF Counts
  <2>2. d.count = Cardinality(Counted(rest, g)) + Cardinality(Counted(flights, g))
    <3> HIDE DEF g, rest, job
    <3> QED
      BY <1>2, <1>5, <2>1
  <2> HIDE DEF rest, job
  <2> QED
    BY <1>3, <2>2 DEF Balanced
<1> QED
  BY <1>6, <1>7, <1>8

\* The framework calls back for one of the units it holds.
LEMMA ReturnedBalance ==
    ASSUME NEW d \in Decoders, NEW jobs \in Seq(Jobs), NEW flights,
           Balanced(d, jobs, flights), NEW i \in DOMAIN flights
    PROVE  Balanced(Completed(d, flights[i].generation), jobs, RemoveAt(flights, i))
<1> DEFINE g == d.generation
           rest == RemoveAt(flights, i)
           job == flights[i]
           e == Completed(d, job.generation)
<1>1. flights \in Seq(Jobs)
  BY DEF Balanced
<1>2. rest \in Seq(Jobs) /\ Without(rest, flights, i)
  BY <1>1, RemovedWithout
<1>3. /\ Cardinality(Counted(flights, g)) =
            Cardinality(Counted(rest, g)) + (IF Counts(job, g) THEN 1 ELSE 0)
      /\ Cardinality(Counted(rest, g)) \in Nat /\ Cardinality(Counted(jobs, g)) \in Nat
  <2> HIDE DEF rest
  <2> QED
    BY <1>1, <1>2, CountedWithout, CountedFinite
<1>4. \A k \in DOMAIN rest : rest[k].what = "submit" /\ rest[k].generation <= g
  <2> HIDE DEF rest
  <2> SUFFICES ASSUME NEW k \in DOMAIN rest PROVE rest[k].what = "submit" /\ rest[k].generation <= g
    OBVIOUS
  <2>1. PICK m \in DOMAIN flights : rest[k] = flights[m]
    <3>1. rest[k] = flights[IF k < i THEN k ELSE k + 1] /\ k \in 1..(Len(flights) - 1)
      BY <1>1, <1>2 DEF Without
    <3>2. (IF k < i THEN k ELSE k + 1) \in DOMAIN flights
      BY <1>1, <3>1
    <3> QED
      BY <3>1, <3>2
  <2> QED
    BY <2>1 DEF Balanced
<1>5. d.count = Cardinality(Counted(jobs, g)) + Cardinality(Counted(flights, g))
  BY DEF Balanced
<1>6. /\ e.generation = g
      /\ e.count = IF job.generation = g /\ d.count > 0 THEN d.count - 1 ELSE d.count
  BY CompletedFacts
<1>7. Counts(job, g) <=> job.generation = g
  BY DEF Counts, Balanced
<1>8. e.count = Cardinality(Counted(jobs, g)) + Cardinality(Counted(rest, g))
  <2> HIDE DEF g, rest, job, e
  <2> QED
    BY <1>3, <1>5, <1>6, <1>7
<1> HIDE DEF e, rest
<1> QED
  BY <1>2, <1>4, <1>6, <1>8 DEF Balanced, e, rest

-----------------------------------------------------------------------------
(* The steps of the count.                                                 *)
Submitted(unit, g) == [what |-> "submit", unit |-> unit, generation |-> g]
Invalidation == [what |-> "invalidate", unit |-> NoUnit, generation |-> 0]

\* A frame is ignored, dropped, dropped with all that wait, or handed to the decoder queue.
LEMMA FrameCases ==
    ASSUME SourceInv, ServeFrame
    PROVE  LET t == Head(tasks) IN
           /\ tasks # <<>> /\ t \in Tasks /\ t.kind = "frame"
           /\ UNCHANGED <<inFlight, source, readers>>
           /\ \/ ~Current(t) /\ tasks' = Tail(tasks) /\ UNCHANGED <<decoder, work>>
              \/ /\ Current(t) /\ Overflows(decoder, t.unit.key)
                 /\ decoder' = Received(decoder, t.unit.key)
                 /\ work' = Append(work, Invalidation)
                 /\ \/ tasks' = Tail(tasks)
                    \/ tasks' = Append(Tail(tasks), Task("recover", decoder.owner, NoUnit))
              \/ /\ Current(t) /\ decoder.waiting /\ ~t.unit.key
                 /\ UNCHANGED <<decoder, work>> /\ tasks' = Tail(tasks)
              \/ /\ Current(t)
                 /\ \/ Resumes(decoder, t.unit.key)
                    \/ ~decoder.waiting /\ ~Overflows(decoder, t.unit.key)
                 /\ decoder' = Received(decoder, t.unit.key)
                 /\ work' = Append(work, Submitted(t.unit, decoder'.generation))
                 /\ tasks' = Tail(tasks)
<1> DEFINE t == Head(tasks)
           key == t.unit.key
<1>1. /\ tasks # <<>> /\ t.kind = "frame" /\ t \in Tasks
      /\ UNCHANGED <<inFlight, source, readers>> /\ decoder \in Decoders
  BY HeadType DEF ServeFrame, Serves, SourceInv, TypesInv, Ignored
<1>2. key \in BOOLEAN /\ decoder.waiting \in BOOLEAN
  BY <1>1 DEF Tasks, Units, Decoders
<1>3. CASE Ignored(t) /\ UNCHANGED work
  BY <1>1, <1>3 DEF Ignored
<1>4. CASE ~(Ignored(t) /\ UNCHANGED work)
  <2>1. Current(t) /\ decoder' = Received(decoder, key)
    BY <1>4 DEF ServeFrame
  <2>2. CASE Overflows(decoder, key)
    <3>1. /\ work' = Append(work, Invalidation)
          /\ tasks' = IF decoder.owner = 0 THEN Tail(tasks)
                      ELSE Append(Tail(tasks), Task("recover", decoder.owner, NoUnit))
      BY <1>4, <2>2 DEF ServeFrame, Invalidation
    <3> QED
      BY <1>1, <2>1, <2>2, <3>1
  <2>3. CASE decoder'.waiting /\ ~Overflows(decoder, key)
    <3>1. UNCHANGED work /\ tasks' = Tail(tasks)
      BY <1>4, <2>3 DEF ServeFrame
    <3>2. decoder.waiting /\ ~key /\ decoder' = decoder
      <4> HIDE DEF t, key
      <4>1. ~Resumes(decoder, key) /\ ~(~decoder.waiting /\ ~Overflows(decoder, key))
        BY <1>1, <1>2, <2>1, <2>3, ReceivedFacts
      <4> QED
        BY <1>1, <1>2, <2>1, <2>3, <4>1, ReceivedFacts DEF Resumes
    <3> QED
      BY <1>1, <2>1, <3>1, <3>2
  <2>4. CASE ~decoder'.waiting /\ ~Overflows(decoder, key)
    <3>1. work' = Append(work, Submitted(t.unit, decoder'.generation)) /\ tasks' = Tail(tasks)
      BY <1>4, <2>4 DEF ServeFrame, Submitted
    <3>2. Resumes(decoder, key) \/ ~decoder.waiting
      <4> HIDE DEF t, key
      <4> QED
        BY <1>1, <1>2, <2>1, <2>4, ReceivedFacts DEF Resumes
    <3> QED
      BY <1>1, <2>1, <2>4, <3>1, <3>2
  <2> QED
    BY <2>2, <2>3, <2>4
<1> QED
  BY <1>3, <1>4

LEMMA JobTypes ==
    /\ Invalidation \in Jobs
    /\ \A unit \in Units, g \in Nat : Submitted(unit, g) \in Jobs
BY NoUnitType DEF Invalidation, Submitted, Jobs

\* Where the decoder starts anew, both queues have been drained.
LEMMA DrainedCount ==
    ASSUME SourceInv', CountInv, Drained, UNCHANGED <<work, inFlight>>, decoder'.count = 0
    PROVE  CountInv'
BY EmptyBalance DEF Drained, CountInv, SourceInv, TypesInv

\* What the server queue does beside serving frames.
LEMMA ServerCases ==
    ASSUME SourceInv,
           \/ StartCapture \/ StopCapture \/ ServeConfiguration \/ ServeAgentFailed
           \/ ServeDecodeFailed \/ ServeRecover
    PROVE  /\ UNCHANGED <<work, inFlight>>
           /\ decoder' = decoder \/ (Drained /\ decoder'.count = 0)
<1>0. decoder \in Decoders /\ StoppedDecoder(decoder) \in Decoders /\ StoppedDecoder(decoder).count = 0
  BY StoppedType, StoppedFacts DEF SourceInv, TypesInv
<1>1. ASSUME NEW s, ReplaceAgent(s) PROVE Drained /\ decoder'.count = 0
  BY <1>0, <1>1 DEF ReplaceAgent
<1>2. DecoderFailure => decoder' = decoder \/ (Drained /\ decoder'.count = 0)
  BY <1>1 DEF DecoderFailure
<1>3. CASE StartCapture \/ StopCapture
  BY <1>0, <1>3 DEF StartCapture, StopCapture
<1>4. CASE ServeConfiguration
  <2>1. ASSUME NEW g PROVE [StoppedDecoder(decoder) EXCEPT !.format = TRUE, !.session = TRUE, !.owner = g].count = 0
    BY <1>0 DEF Decoders
  <2> QED
    BY <1>1, <1>4, <2>1 DEF ServeConfiguration, Ignored
<1>5. CASE ServeAgentFailed
  BY <1>1, <1>5 DEF ServeAgentFailed, Ignored
<1>6. CASE ServeDecodeFailed
  BY <1>2, <1>6 DEF ServeDecodeFailed, Ignored
<1>7. CASE ServeRecover
  BY <1>2, <1>7 DEF ServeRecover, Ignored
<1> QED
  BY <1>3, <1>4, <1>5, <1>6, <1>7

LEMMA FrameCount == ASSUME SourceInv, CountInv, ServeFrame PROVE CountInv'
<1> DEFINE t == Head(tasks)
           key == t.unit.key
<1>1. /\ t \in Tasks /\ UNCHANGED inFlight /\ decoder \in Decoders /\ work \in Seq(Jobs)
      /\ Balanced(decoder, work, inFlight)
  BY FrameCases DEF SourceInv, TypesInv, CountInv
<1>2. t.unit \in Units /\ key \in BOOLEAN /\ decoder.generation \in Nat
  BY <1>1 DEF Tasks, Units, Decoders
<1>3. \/ UNCHANGED <<decoder, work>>
      \/ /\ Overflows(decoder, key) /\ decoder' = Received(decoder, key)
         /\ work' = Append(work, Invalidation)
      \/ /\ \/ Resumes(decoder, key)
            \/ ~decoder.waiting /\ ~Overflows(decoder, key)
         /\ decoder' = Received(decoder, key)
         /\ work' = Append(work, Submitted(t.unit, decoder'.generation))
  BY FrameCases
<1> DEFINE unit == t.unit
<1>4. unit \in Units
  BY <1>2
<1> HIDE DEF t, key
<1>5. CASE UNCHANGED <<decoder, work>>
  BY <1>1, <1>5 DEF CountInv
<1>6. CASE /\ Overflows(decoder, key) /\ decoder' = Received(decoder, key)
           /\ work' = Append(work, Invalidation)
  <2> DEFINE e == Received(decoder, key)
  <2>1. e.generation = decoder.generation + 1 /\ e.count = 0
    BY <1>1, <1>2, <1>6, ReceivedFacts
  <2>2. /\ Invalidation \in Jobs /\ Invalidation.generation <= e.generation
        /\ ~Counts(Invalidation, e.generation)
    BY <1>2, <2>1, JobTypes DEF Invalidation, Counts
  <2> HIDE DEF e
  <2>3. Balanced(e, Append(work, Invalidation), inFlight)
    BY <1>1, <2>1, <2>2, RenewedBalance
  <2> QED
    BY <1>1, <1>6, <2>3 DEF CountInv, e
<1>7. CASE /\ Resumes(decoder, key) /\ decoder' = Received(decoder, key)
           /\ work' = Append(work, Submitted(t.unit, decoder'.generation))
  <2> DEFINE e == Received(decoder, key)
             job == Submitted(t.unit, e.generation)
  <2>1. e.generation = decoder.generation + 1 /\ e.count = 1
    BY <1>1, <1>2, <1>7, ReceivedFacts
  <2>2. job \in Jobs /\ job.generation <= e.generation /\ Counts(job, e.generation)
    BY <1>2, <2>1, JobTypes DEF Submitted, Counts
  <2>3. work' = Append(work, job) /\ decoder' = e
    BY <1>7
  <2> HIDE DEF e, job
  <2>4. Balanced(e, Append(work, job), inFlight)
    BY <1>1, <2>1, <2>2, RenewedBalance
  <2> QED
    BY <1>1, <2>3, <2>4 DEF CountInv
<1>8. CASE /\ ~decoder.waiting /\ ~Overflows(decoder, key) /\ decoder' = Received(decoder, key)
           /\ work' = Append(work, Submitted(t.unit, decoder'.generation))
  <2> DEFINE e == Received(decoder, key)
             job == Submitted(t.unit, e.generation)
  <2>1. e.generation = decoder.generation /\ e.count = decoder.count + 1
    BY <1>1, <1>2, <1>8, ReceivedFacts
  <2>2. job \in Jobs /\ job.generation = decoder.generation /\ job.what = "submit"
    BY <1>2, <2>1, JobTypes DEF Submitted
  <2>3. work' = Append(work, job) /\ decoder' = e
    BY <1>8
  <2> HIDE DEF e, job
  <2>4. Balanced(e, Append(work, job), inFlight)
    BY <1>1, <2>1, <2>2, TakenBalance
  <2> QED
    BY <1>1, <2>3, <2>4 DEF CountInv
<1> QED
  BY <1>3, <1>5, <1>6, <1>7, <1>8

LEMMA SubmitCount == ASSUME SourceInv, CountInv, Submit PROVE CountInv'
<1> DEFINE job == Head(work)
<1>1. /\ work # <<>> /\ work' = Tail(work) /\ work \in Seq(Jobs) /\ decoder \in Decoders
      /\ Balanced(decoder, work, inFlight)
  BY DEF Submit, SourceInv, TypesInv, CountInv
<1>2. job = work[1] /\ job \in Jobs /\ job.what = "submit"
  BY <1>1 DEF Submit
<1>3. \/ Fails(decoder, job) /\ UNCHANGED inFlight
      \/ Fails(Offered(job), job) /\ UNCHANGED inFlight
      \/ decoder' = Offered(job) /\ inFlight' = Append(inFlight, job)
  BY DEF Submit
<1> HIDE DEF job
<1>4. /\ Offered(job) \in Decoders /\ Offered(job).count = decoder.count
      /\ Offered(job).generation = decoder.generation
  BY <1>1, <1>2, OfferedFacts
<1>5. Balanced(Offered(job), work, inFlight)
  BY <1>1, <1>4, SameBalance
<1>6. CASE Fails(decoder, job) /\ UNCHANGED inFlight
  <2>1. Balanced(Completed(decoder, job.generation), Tail(work), inFlight)
    BY <1>1, <1>2, LeftBalance
  <2> QED
    BY <1>1, <1>6, <2>1 DEF Fails, CountInv
<1>7. CASE Fails(Offered(job), job) /\ UNCHANGED inFlight
  <2>1. Balanced(Completed(Offered(job), job.generation), Tail(work), inFlight)
    BY <1>1, <1>2, <1>4, <1>5, LeftBalance
  <2> QED
    BY <1>1, <1>7, <2>1 DEF Fails, CountInv
<1>8. CASE decoder' = Offered(job) /\ inFlight' = Append(inFlight, job)
  <2>1. Balanced(Offered(job), Tail(work), Append(inFlight, job))
    BY <1>1, <1>2, <1>4, <1>5, LeftBalance
  <2> QED
    BY <1>1, <1>8, <2>1 DEF CountInv
<1> QED
  BY <1>3, <1>6, <1>7, <1>8

LEMMA CallbackCount == ASSUME SourceInv, CountInv, Callback PROVE CountInv'
<1>1. work' = work /\ work \in Seq(Jobs) /\ decoder \in Decoders /\ Balanced(decoder, work, inFlight)
  BY DEF Callback, SourceInv, TypesInv, CountInv
<1>2. PICK i \in DOMAIN inFlight :
        /\ inFlight' = RemoveAt(inFlight, i)
        /\ decoder' = Completed(decoder, inFlight[i].generation)
  BY DEF Callback, Fails
<1>3. Balanced(Completed(decoder, inFlight[i].generation), work, RemoveAt(inFlight, i))
  BY <1>1, ReturnedBalance
<1> QED
  BY <1>1, <1>2, <1>3 DEF CountInv

LEMMA InvalidateCount == ASSUME SourceInv, CountInv, Invalidate PROVE CountInv'
<1>1. /\ work # <<>> /\ work' = Tail(work) /\ inFlight = <<>> /\ UNCHANGED inFlight
      /\ decoder' = [decoder EXCEPT !.session = FALSE, !.offered = NoUnit, !.previous = NoUnit]
      /\ work \in Seq(Jobs) /\ decoder \in Decoders /\ Balanced(decoder, work, inFlight)
      /\ work[1].what # "submit"
  BY DEF Invalidate, SourceInv, TypesInv, CountInv
<1>2. Balanced(decoder, Tail(work), inFlight)
  BY <1>1, LeftBalance
<1>3. decoder'.count = decoder.count /\ decoder'.generation = decoder.generation
  BY <1>1 DEF Decoders
<1> QED
  BY <1>1, <1>2, <1>3 DEF CountInv, Balanced

LEMMA CountStep ==
    ASSUME SourceInv, SourceInv', CountInv, [AndroidNext]_androidVars PROVE CountInv'
<1>1. CASE UNCHANGED <<decoder, work, inFlight>>
  BY <1>1 DEF CountInv
<1>2. CASE \/ StartCapture \/ StopCapture \/ ServeConfiguration \/ ServeAgentFailed
           \/ ServeDecodeFailed \/ ServeRecover
  <2>1. /\ UNCHANGED <<work, inFlight>>
        /\ decoder' = decoder \/ (Drained /\ decoder'.count = 0)
    BY <1>2, ServerCases
  <2> QED
    BY <1>1, <2>1, DrainedCount
<1>3. CASE JpegViewerOpens \/ JpegViewerPauses \/ JpegViewerLeaves \/ ServeDecoded
  BY <1>1, <1>3 DEF JpegViewerOpens, JpegViewerPauses, JpegViewerLeaves, ServeDecoded
<1>4. CASE \E a \in DOMAIN readers : ReadConfiguration(a) \/ ReadFrame(a) \/ ReaderFails(a)
  BY <1>1, <1>4 DEF ReadConfiguration, ReadFrame, ReaderFails
<1>5. CASE ServeFrame \/ Submit \/ Invalidate \/ Callback
  BY <1>5, FrameCount, SubmitCount, InvalidateCount, CallbackCount
<1>6. CASE UNCHANGED androidVars
  BY <1>1, <1>6 DEF androidVars
<1> QED
  BY <1>2, <1>3, <1>4, <1>5, <1>6 DEF AndroidNext

LEMMA CountInit == ASSUME SourceInv, AndroidInit PROVE CountInv
<1>1. decoder \in Decoders /\ decoder.count = 0 /\ work = <<>> /\ inFlight = <<>>
  BY DEF AndroidInit, SourceInv, TypesInv, NoDecoder
<1> QED
  BY <1>1, EmptyBalance DEF CountInv

\* The set of the property is the one counted here.
LEMMA CountIsKept == CountInv => CountIsOutstanding
<1> SUFFICES ASSUME CountInv PROVE CountIsOutstanding
  OBVIOUS
<1>1. Outstanding = Counted(work, decoder.generation)
  BY DEF Outstanding, Counted
<1>2. {i \in DOMAIN inFlight : inFlight[i].generation = decoder.generation}
        = Counted(inFlight, decoder.generation)
  BY DEF CountInv, Balanced, Counted
<1> QED
  BY <1>1, <1>2 DEF CountInv, Balanced, CountIsOutstanding

-----------------------------------------------------------------------------
(* The way of a frame: what the steps do to the order on the queues.        *)

\* The same relevant tasks, in the same order, k places further.
SameRelevant(s, new, old, k) ==
    /\ \A i \in DOMAIN new : Relevant(s, new[i]) => i + k \in DOMAIN old /\ old[i + k] = new[i]
    /\ \A i \in DOMAIN old : Relevant(s, old[i]) => i - k \in DOMAIN new /\ new[i - k] = old[i]

\* So the first, the last and neighbours are the same ones.
SamePlaces(s, new, old, k) ==
    /\ NoneIn(s, new) => NoneIn(s, old)
    /\ \A i \in DOMAIN new : FirstIn(s, new, i) =>
          i + k \in DOMAIN old /\ FirstIn(s, old, i + k) /\ old[i + k] = new[i]
    /\ \A i \in DOMAIN new : LastIn(s, new, i) =>
          i + k \in DOMAIN old /\ LastIn(s, old, i + k) /\ old[i + k] = new[i]
    /\ \A i, j \in DOMAIN new : Adjacent(s, new, i, j) =>
          /\ {i + k, j + k} \subseteq DOMAIN old /\ Adjacent(s, old, i + k, j + k)
          /\ old[i + k] = new[i] /\ old[j + k] = new[j]

LEMMA SameOrder ==
    ASSUME NEW s, NEW old \in Seq(Tasks), NEW new \in Seq(Tasks), NEW k \in 0..1,
           SameRelevant(s, new, old, k)
    PROVE  SamePlaces(s, new, old, k)
<1>1. k \in Nat /\ (\A i \in DOMAIN new : i \in Nat) /\ (\A i \in DOMAIN old : i \in Nat)
  OBVIOUS
<1>2. NoneIn(s, new) => NoneIn(s, old)
  BY DEF NoneIn, SameRelevant
<1>3. ASSUME NEW i \in DOMAIN new, Relevant(s, new[i])
      PROVE  /\ i + k \in DOMAIN old /\ old[i + k] = new[i] /\ Relevant(s, old[i + k])
  BY <1>3 DEF SameRelevant
<1>4. ASSUME NEW m \in DOMAIN old, Relevant(s, old[m])
      PROVE  /\ m - k \in DOMAIN new /\ Relevant(s, new[m - k])
  BY <1>4 DEF SameRelevant
<1>5. ASSUME NEW i \in DOMAIN new, FirstIn(s, new, i) PROVE FirstIn(s, old, i + k)
  <2>1. ASSUME NEW m \in DOMAIN old, m < i + k, Relevant(s, old[m]) PROVE FALSE
    <3>1. m - k \in DOMAIN new /\ Relevant(s, new[m - k]) /\ m - k < i
      BY <1>1, <1>4, <2>1
    <3> QED
      BY <1>5, <3>1 DEF FirstIn
  <2> QED
    BY <1>3, <1>5, <2>1 DEF FirstIn
<1>6. ASSUME NEW i \in DOMAIN new, LastIn(s, new, i) PROVE LastIn(s, old, i + k)
  <2>1. ASSUME NEW m \in DOMAIN old, i + k < m, Relevant(s, old[m]) PROVE FALSE
    <3>1. m - k \in DOMAIN new /\ Relevant(s, new[m - k]) /\ i < m - k
      BY <1>1, <1>4, <2>1
    <3> QED
      BY <1>6, <3>1 DEF LastIn
  <2> QED
    BY <1>3, <1>6, <2>1 DEF LastIn
<1>7. ASSUME NEW i \in DOMAIN new, NEW j \in DOMAIN new, Adjacent(s, new, i, j)
      PROVE  Adjacent(s, old, i + k, j + k)
  <2>1. ASSUME NEW m \in DOMAIN old, i + k < m, m < j + k, Relevant(s, old[m]) PROVE FALSE
    <3>1. m - k \in DOMAIN new /\ Relevant(s, new[m - k]) /\ i < m - k /\ m - k < j
      BY <1>1, <1>4, <2>1
    <3> QED
      BY <1>7, <3>1 DEF Adjacent
  <2>2. i + k < j + k
    BY <1>1, <1>7 DEF Adjacent
  <2> QED
    BY <1>3, <1>7, <2>1, <2>2 DEF Adjacent
<1> QED
  BY <1>2, <1>3, <1>5, <1>6, <1>7 DEF SamePlaces, FirstIn, LastIn, Adjacent

\* What the handlers put on the server queue is neither configuration nor frame.
LEMMA AppendSame ==
    ASSUME NEW s, NEW queue \in Seq(Tasks), NEW t \in Tasks, ~Relevant(s, t)
    PROVE  SameRelevant(s, Append(queue, t), queue, 0)
<1> DEFINE longer == Append(queue, t)
<1>1. /\ Len(queue) \in Nat /\ DOMAIN queue = 1..Len(queue) /\ DOMAIN longer = 1..(Len(queue) + 1)
      /\ longer[Len(queue) + 1] = t /\ \A i \in 1..Len(queue) : longer[i] = queue[i]
  OBVIOUS
<1> HIDE DEF longer
<1>2. SameRelevant(s, longer, queue, 0)
  BY <1>1 DEF SameRelevant
<1> QED
  BY <1>2 DEF longer

LEMMA TailFacts ==
    ASSUME NEW queue \in Seq(Tasks), queue # <<>>
    PROVE  /\ Tail(queue) \in Seq(Tasks) /\ 1 \in DOMAIN queue /\ Head(queue) = queue[1]
           /\ \A i \in DOMAIN Tail(queue) : i + 1 \in DOMAIN queue /\ Tail(queue)[i] = queue[i + 1]
           /\ \A i \in DOMAIN queue : i # 1 => i - 1 \in DOMAIN Tail(queue) /\ Tail(queue)[i - 1] = queue[i]
OBVIOUS

LEMMA TailSame ==
    ASSUME NEW s, NEW queue \in Seq(Tasks), queue # <<>>, ~Relevant(s, Head(queue))
    PROVE  SameRelevant(s, Tail(queue), queue, 1)
BY TailFacts DEF SameRelevant

\* Once the head is served, what was next to it comes first.
LEMMA TailOrder ==
    ASSUME NEW s, NEW queue \in Seq(Tasks), queue # <<>>, Relevant(s, Head(queue))
    PROVE  /\ FirstIn(s, queue, 1)
           /\ NoneIn(s, Tail(queue)) => LastIn(s, queue, 1)
           /\ \A i \in DOMAIN Tail(queue) : FirstIn(s, Tail(queue), i) => Adjacent(s, queue, 1, i + 1)
<1> DEFINE rest == Tail(queue)
<1>1. /\ 1 \in DOMAIN queue /\ Head(queue) = queue[1]
      /\ \A i \in DOMAIN rest : i \in Nat /\ i > 0 /\ i + 1 \in DOMAIN queue /\ rest[i] = queue[i + 1]
      /\ \A i \in DOMAIN queue : i \in Nat /\ i >= 1
      /\ \A i \in DOMAIN queue : i # 1 => i - 1 \in DOMAIN rest /\ rest[i - 1] = queue[i]
  BY TailFacts
<1> HIDE DEF rest
<1>2. FirstIn(s, queue, 1)
  BY <1>1 DEF FirstIn
<1>3. ASSUME NoneIn(s, rest) PROVE LastIn(s, queue, 1)
  <2>1. ASSUME NEW j \in DOMAIN queue, 1 < j PROVE ~Relevant(s, queue[j])
    <3>1. j - 1 \in DOMAIN rest /\ rest[j - 1] = queue[j]
      BY <1>1, <2>1
    <3> QED
      BY <1>3, <3>1 DEF NoneIn
  <2> QED
    BY <1>1, <2>1 DEF LastIn
<1>4. ASSUME NEW i \in DOMAIN rest, FirstIn(s, rest, i) PROVE Adjacent(s, queue, 1, i + 1)
  <2>1. 1 < i + 1 /\ Relevant(s, queue[i + 1])
    BY <1>1, <1>4 DEF FirstIn
  <2>2. ASSUME NEW m \in DOMAIN queue, 1 < m, m < i + 1 PROVE ~Relevant(s, queue[m])
    <3>1. m - 1 \in DOMAIN rest /\ rest[m - 1] = queue[m] /\ m - 1 < i
      BY <1>1, <2>2
    <3> QED
      BY <1>4, <3>1 DEF FirstIn
  <2> QED
    BY <1>1, <2>1, <2>2 DEF Adjacent
<1> QED
  BY <1>2, <1>3, <1>4 DEF rest

\* What holds of neighbours and of the last holds of them without the head.
LEMMA TailKeepsOrder ==
    ASSUME NEW s, NEW queue \in Seq(Tasks), queue # <<>>, NEW rs
    PROVE  /\ ChainInv(s, queue) => ChainInv(s, Tail(queue))
           /\ BackInv(s, queue, rs) => BackInv(s, Tail(queue), rs)
           /\ AgesInv(s, queue) => AgesInv(s, Tail(queue))
<1> DEFINE rest == Tail(queue)
<1>1. /\ \A i \in DOMAIN rest : i \in Nat /\ i > 0 /\ i + 1 \in DOMAIN queue /\ rest[i] = queue[i + 1]
      /\ \A i \in DOMAIN queue : i \in Nat /\ i >= 1
      /\ \A i \in DOMAIN queue : i # 1 => i - 1 \in DOMAIN rest /\ rest[i - 1] = queue[i]
  BY TailFacts
<1> HIDE DEF rest
<1>2. ASSUME NEW i \in DOMAIN rest, LastIn(s, rest, i) PROVE LastIn(s, queue, i + 1)
  <2>1. ASSUME NEW m \in DOMAIN queue, i + 1 < m PROVE ~Relevant(s, queue[m])
    <3>1. m - 1 \in DOMAIN rest /\ rest[m - 1] = queue[m] /\ i < m - 1
      BY <1>1, <2>1
    <3> QED
      BY <1>2, <3>1 DEF LastIn
  <2> QED
    BY <1>1, <1>2, <2>1 DEF LastIn
<1>3. ASSUME NEW i \in DOMAIN rest, NEW j \in DOMAIN rest, Adjacent(s, rest, i, j)
      PROVE  Adjacent(s, queue, i + 1, j + 1)
  <2>1. ASSUME NEW m \in DOMAIN queue, i + 1 < m, m < j + 1 PROVE ~Relevant(s, queue[m])
    <3>1. m - 1 \in DOMAIN rest /\ rest[m - 1] = queue[m] /\ i < m - 1 /\ m - 1 < j
      BY <1>1, <2>1
    <3> QED
      BY <1>3, <3>1 DEF Adjacent
  <2> QED
    BY <1>1, <1>3, <2>1 DEF Adjacent
<1>4. ChainInv(s, queue) => ChainInv(s, rest)
  BY <1>1, <1>3 DEF ChainInv
<1>5. BackInv(s, queue, rs) => BackInv(s, rest, rs)
  BY <1>1, <1>2 DEF BackInv
<1>6. AgesInv(s, queue) => AgesInv(s, rest)
  BY <1>1 DEF AgesInv
<1> QED
  BY <1>4, <1>5, <1>6 DEF rest

\* Of the readers only those that sent before may send, at the same place.
FewerSend(new, old) ==
    \A a \in DOMAIN new : Sends(new[a]) => a \in DOMAIN old /\ Sends(old[a]) /\ new[a].sent = old[a].sent

\* What was next to be taken up still is, or nothing is.
StillNext(e, newJobs, d, jobs) ==
    Decodes(e) => Decodes(d) /\ \A u : MayFollow(d, jobs, u) => MayFollow(e, newJobs, u)

LEMMA OrderKept ==
    ASSUME NEW s, NEW old \in Seq(Tasks), NEW new \in Seq(Tasks), NEW k \in 0..1,
           NEW rs, NEW newReaders, NEW d, NEW e, NEW jobs, NEW newJobs,
           SameRelevant(s, new, old, k), FewerSend(newReaders, rs), StillNext(e, newJobs, d, jobs),
           OrderInv(s, old, rs, d, jobs)
    PROVE  OrderInv(s, new, newReaders, e, newJobs)
<1>1. SamePlaces(s, new, old, k)
  BY SameOrder
<1>2. ChainInv(s, new)
  <2>1. ChainInv(s, old)
    BY DEF OrderInv
  <2> QED
    BY <1>1, <2>1 DEF SamePlaces, ChainInv
<1>3. FrontInv(s, new, e, newJobs)
  <2>1. FrontInv(s, old, d, jobs)
    BY DEF OrderInv
  <2> QED
    BY <1>1, <2>1 DEF SamePlaces, FrontInv, StillNext
<1>4. ASSUME NEW a \in DOMAIN newReaders, Sends(newReaders[a])
      PROVE  /\ a \in DOMAIN rs /\ Sends(rs[a]) /\ NextUnit(newReaders, a) = NextUnit(rs, a)
  BY <1>4 DEF FewerSend, NextUnit
<1>5. BackInv(s, new, newReaders)
  <2>1. BackInv(s, old, rs)
    BY DEF OrderInv
  <2> QED
    BY <1>1, <1>4, <2>1 DEF SamePlaces, BackInv
<1>6. IdleInv(s, new, newReaders, e, newJobs)
  <2>1. IdleInv(s, old, rs, d, jobs)
    BY DEF OrderInv
  <2> QED
    BY <1>1, <1>4, <2>1 DEF SamePlaces, IdleInv, StillNext
<1> QED
  BY <1>2, <1>3, <1>5, <1>6 DEF OrderInv

-----------------------------------------------------------------------------
(* One thing at a time: the queue, the readers, the decoder, the capture.   *)
LEMMA SameReaders == \A rs : FewerSend(rs, rs)
BY DEF FewerSend

LEMMA SameNext == \A d, jobs : StillNext(d, jobs, d, jobs)
BY DEF StillNext

\* A task that is neither configuration nor frame joins the queue.
LEMMA QueuedKeepsStream ==
    ASSUME NEW s, NEW queue \in Seq(Tasks), NEW rs, NEW d, NEW jobs, NEW t \in Tasks,
           t.kind \notin {"configuration", "frame"}, StreamInv(s, queue, rs, d, jobs)
    PROVE  StreamInv(s, Append(queue, t), rs, d, jobs)
<1> DEFINE longer == Append(queue, t)
<1>1. ~Relevant(s, t) /\ longer \in Seq(Tasks)
  BY DEF Relevant
<1>2. SameRelevant(s, longer, queue, 0)
  BY <1>1, AppendSame
<1>3. AgesInv(s, longer)
  <2>1. AgesInv(s, queue)
    BY DEF StreamInv
  <2>2. \A i \in DOMAIN longer : longer[i] = t \/ (i \in DOMAIN queue /\ longer[i] = queue[i])
    OBVIOUS
  <2> HIDE DEF longer
  <2> QED
    BY <2>1, <2>2 DEF AgesInv
<1> HIDE DEF longer
<1>4. OrderInv(s, longer, rs, d, jobs)
  <2>1. OrderInv(s, queue, rs, d, jobs) /\ 0 \in 0..1
    BY DEF StreamInv
  <2> QED
    BY <1>1, <1>2, <2>1, SameReaders, SameNext, OrderKept
<1>5. StreamInv(s, longer, rs, d, jobs)
  BY <1>3, <1>4 DEF StreamInv
<1> QED
  BY <1>5 DEF longer

\* A task that nothing is done with is taken from it.
LEMMA ServedKeepsStream ==
    ASSUME NEW s, NEW queue \in Seq(Tasks), queue # <<>>, NEW rs, NEW d, NEW jobs,
           ~Relevant(s, Head(queue)), StreamInv(s, queue, rs, d, jobs)
    PROVE  StreamInv(s, Tail(queue), rs, d, jobs)
<1>1. SameRelevant(s, Tail(queue), queue, 1) /\ Tail(queue) \in Seq(Tasks)
  BY TailSame, TailFacts
<1>2. OrderInv(s, queue, rs, d, jobs) /\ AgesInv(s, queue) /\ 1 \in 0..1
  BY DEF StreamInv
<1>3. OrderInv(s, Tail(queue), rs, d, jobs)
  BY <1>1, <1>2, SameReaders, SameNext, OrderKept
<1>4. AgesInv(s, Tail(queue))
  BY <1>2, TailKeepsOrder
<1> QED
  BY <1>3, <1>4 DEF StreamInv

LEMMA Unmoved ==
    ASSUME NEW s, NEW queue \in Seq(Tasks) PROVE SameRelevant(s, queue, queue, 0)
BY DEF SameRelevant

LEMMA ReadersKeepStream ==
    ASSUME NEW s, NEW queue \in Seq(Tasks), NEW rs, NEW newReaders, NEW d, NEW jobs,
           ReadersInv(s, newReaders), FewerSend(newReaders, rs), StreamInv(s, queue, rs, d, jobs)
    PROVE  StreamInv(s, queue, newReaders, d, jobs)
<1>1. OrderInv(s, queue, rs, d, jobs) /\ SameRelevant(s, queue, queue, 0) /\ 0 \in 0..1
  BY Unmoved DEF StreamInv
<1>2. OrderInv(s, queue, newReaders, d, jobs)
  BY <1>1, SameNext, OrderKept
<1> QED
  BY <1>2 DEF StreamInv

LEMMA DecoderKeepsStream ==
    ASSUME NEW s, NEW queue \in Seq(Tasks), NEW rs, NEW d, NEW jobs, NEW e, NEW newJobs,
           LinksInv(e, newJobs), StillNext(e, newJobs, d, jobs), StreamInv(s, queue, rs, d, jobs)
    PROVE  StreamInv(s, queue, rs, e, newJobs)
<1>1. OrderInv(s, queue, rs, d, jobs) /\ SameRelevant(s, queue, queue, 0) /\ 0 \in 0..1
  BY Unmoved DEF StreamInv
<1>2. OrderInv(s, queue, rs, e, newJobs)
  BY <1>1, SameReaders, OrderKept
<1> QED
  BY <1>2 DEF StreamInv

LEMMA ChainOfCapture ==
    ASSUME NEW s, NEW r, r.active = s.active, r.generation = s.generation,
           NEW queue, ChainInv(s, queue)
    PROVE  ChainInv(r, queue)
BY DEF ChainInv, Adjacent, Relevant

LEMMA CaptureKeepsStream ==
    ASSUME NEW s, NEW r, r.active = s.active, r.generation = s.generation, r.agent = s.agent,
           NEW queue, NEW rs, NEW d, NEW jobs, StreamInv(s, queue, rs, d, jobs)
    PROVE  StreamInv(r, queue, rs, d, jobs)
<1>1. \A t : Relevant(r, t) <=> Relevant(s, t)
  BY DEF Relevant
<1>2. /\ NoneIn(r, queue) <=> NoneIn(s, queue)
      /\ \A i : FirstIn(r, queue, i) <=> FirstIn(s, queue, i)
      /\ \A i : LastIn(r, queue, i) <=> LastIn(s, queue, i)
  BY <1>1 DEF NoneIn, FirstIn, LastIn
<1>3. ChainInv(r, queue)
  BY ChainOfCapture DEF StreamInv, OrderInv
<1>4. FrontInv(r, queue, d, jobs)
  BY <1>2 DEF StreamInv, OrderInv, FrontInv
<1>5. BackInv(r, queue, rs)
  BY <1>2 DEF StreamInv, OrderInv, BackInv
<1>6. IdleInv(r, queue, rs, d, jobs)
  BY <1>2 DEF StreamInv, OrderInv, IdleInv
<1>7. ReadersInv(r, rs) /\ AgesInv(r, queue) /\ LinksInv(d, jobs)
  BY DEF StreamInv, ReadersInv, AgesInv
<1> QED
  BY <1>3, <1>4, <1>5, <1>6, <1>7 DEF StreamInv, OrderInv

\* Without a format nothing is taken up, and an agent that has just begun has nothing to
\* send before its first configuration.
LEMMA RestartedStream ==
    ASSUME NEW s, NEW queue, NEW rs, NEW e, NEW jobs, ~e.format,
           \A a \in DOMAIN rs : ~Sends(rs[a]),
           ReadersInv(s, rs), AgesInv(s, queue), ChainInv(s, queue)
    PROVE  StreamInv(s, queue, rs, e, jobs)
<1>1. LinksInv(e, jobs) /\ FrontInv(s, queue, e, jobs) /\ IdleInv(s, queue, rs, e, jobs)
  BY DEF LinksInv, FrontInv, IdleInv, Decodes
<1>2. BackInv(s, queue, rs)
  BY DEF BackInv
<1> QED
  BY <1>1, <1>2 DEF StreamInv, OrderInv

LEMMA BegunFacts ==
    ASSUME NEW start \in AgentStarts, NEW rs \in Seq(Readers), NEW g \in Nat,
           \A a \in DOMAIN rs : rs[a].state # "streams"
    PROVE  \A a \in DOMAIN Begun(start, rs, g) :
              /\ ~Sends(Begun(start, rs, g)[a])
              /\ Begun(start, rs, g)[a].state = "streams" =>
                    /\ Streams(start) /\ a = Len(rs) + 1
                    /\ Begun(start, rs, g)[a].generation = g
<1> DEFINE new == [i \in DOMAIN start |-> Reader(start[i], g)]
           all == Begun(start, rs, g)
<1>1. start \in Seq({"streams", "orphaned"}) /\ Len(start) \in 0..1
  <2>1. \/ start = <<>>
        \/ \E state \in {"streams", "orphaned"} : start = <<state>>
    BY DEF AgentStarts
  <2>2. CASE start = <<>>
    BY <2>2
  <2>3. ASSUME NEW state \in {"streams", "orphaned"}, start = <<state>>
        PROVE  start \in Seq({"streams", "orphaned"}) /\ Len(start) = 1
    BY <2>3
  <2> QED
    BY <2>1, <2>2, <2>3
<1>2. Streams(start) <=> Len(start) = 1 /\ start[1] = "streams"
  BY DEF Streams, AgentStarts
<1>3. new \in Seq(Readers) /\ Len(new) = Len(start)
  <2>1. \A i \in DOMAIN start : Reader(start[i], g) \in Readers
    BY <1>1 DEF Reader, Readers
  <2>2. DOMAIN start = 1..Len(start)
    BY <1>1
  <2> QED
    BY <1>1, <2>1, <2>2
<1>4. \A i \in DOMAIN new : i \in DOMAIN start /\ new[i] = Reader(start[i], g)
  OBVIOUS
<1> HIDE DEF new
<1>5. all = rs \o new
  BY DEF Begun, new
<1> HIDE DEF all
<1>6. SUFFICES ASSUME NEW a \in DOMAIN all
      PROVE  ~Sends(all[a]) /\ (all[a].state = "streams" =>
                Streams(start) /\ a = Len(rs) + 1 /\ all[a].generation = g)
  BY <1>6 DEF all
<1>7. /\ Len(rs) \in Nat /\ Len(new) \in 0..1 /\ a \in 1..(Len(rs) + Len(new))
      /\ all[a] = IF a <= Len(rs) THEN rs[a] ELSE new[a - Len(rs)]
  <2>1. Len(rs) \in Nat /\ Len(new) \in 0..1
    BY <1>1, <1>3
  <2>2. DOMAIN (rs \o new) = 1..(Len(rs) + Len(new))
    BY <1>3
  <2>3. \A i \in 1..(Len(rs) + Len(new)) :
           (rs \o new)[i] = IF i <= Len(rs) THEN rs[i] ELSE new[i - Len(rs)]
    BY <1>3
  <2> QED
    BY <1>5, <2>1, <2>2, <2>3, Zenon
<1>8. CASE a <= Len(rs)
  BY <1>7, <1>8 DEF Sends
<1>9. CASE ~(a <= Len(rs))
  <2>1. a = Len(rs) + 1 /\ Len(new) = 1 /\ a - Len(rs) = 1
    <3>1. ASSUME NEW x \in Nat, NEW y \in 0..1, NEW z \in 1..(x + y), ~(z <= x)
          PROVE  z = x + 1 /\ y = 1 /\ z - x = 1
      BY <3>1
    <3> QED
      BY <1>7, <1>9, <3>1, Zenon
  <2>2. all[a] = Reader(start[1], g)
    BY <1>3, <1>4, <1>7, <1>9, <2>1
  <2> QED
    BY <1>2, <1>3, <2>1, <2>2 DEF Reader, Sends
<1> QED
  BY <1>8, <1>9

-----------------------------------------------------------------------------
(* What the reader thread of an agent adds.                                *)

\* A configuration or frame of the capture is the last, and the first where there was none.
Added(s, longer, queue, n) ==
    /\ n \in DOMAIN longer /\ Relevant(s, longer[n])
    /\ \A i \in DOMAIN longer : LastIn(s, longer, i) => i = n
    /\ \A i \in DOMAIN longer : FirstIn(s, longer, i) =>
          \/ i \in DOMAIN queue /\ longer[i] = queue[i] /\ FirstIn(s, queue, i)
          \/ i = n /\ NoneIn(s, queue)
    /\ \A i, j \in DOMAIN longer : Adjacent(s, longer, i, j) =>
          /\ i \in DOMAIN queue /\ longer[i] = queue[i]
          /\ \/ j \in DOMAIN queue /\ longer[j] = queue[j] /\ Adjacent(s, queue, i, j)
             \/ j = n /\ LastIn(s, queue, i)

LEMMA AppendAdds ==
    ASSUME NEW s, NEW queue \in Seq(Tasks), NEW t \in Tasks, Relevant(s, t)
    PROVE  Added(s, Append(queue, t), queue, Len(queue) + 1)
<1> DEFINE longer == Append(queue, t)
           n == Len(queue) + 1
<1>1. /\ Len(queue) \in Nat /\ n \in DOMAIN longer /\ longer[n] = t
      /\ \A i \in DOMAIN longer : i \in Nat /\ i <= n
      /\ \A i \in DOMAIN longer : i # n => i \in DOMAIN queue
      /\ \A i \in DOMAIN queue : i \in DOMAIN longer /\ i \in Nat /\ i < n /\ longer[i] = queue[i]
  OBVIOUS
<1>2. n \in Nat
  BY <1>1
<1> HIDE DEF longer, n
<1>3. ASSUME NEW i \in DOMAIN longer, LastIn(s, longer, i) PROVE i = n
  BY <1>1, <1>2, <1>3 DEF LastIn
<1>4. ASSUME NEW i \in DOMAIN longer, FirstIn(s, longer, i)
      PROVE  \/ i \in DOMAIN queue /\ longer[i] = queue[i] /\ FirstIn(s, queue, i)
             \/ i = n /\ NoneIn(s, queue)
  <2>1. CASE i = n
    BY <1>1, <1>4, <2>1 DEF FirstIn, NoneIn
  <2>2. CASE i # n
    BY <1>1, <1>4, <2>2 DEF FirstIn
  <2> QED
    BY <2>1, <2>2
<1>5. ASSUME NEW i \in DOMAIN longer, NEW j \in DOMAIN longer, Adjacent(s, longer, i, j)
      PROVE  /\ i \in DOMAIN queue /\ longer[i] = queue[i]
             /\ \/ j \in DOMAIN queue /\ longer[j] = queue[j] /\ Adjacent(s, queue, i, j)
                \/ j = n /\ LastIn(s, queue, i)
  <2>1. i # n /\ i \in DOMAIN queue /\ longer[i] = queue[i]
    BY <1>1, <1>2, <1>5 DEF Adjacent
  <2>2. CASE j = n
    <3>1. LastIn(s, queue, i)
      BY <1>1, <1>5, <2>1, <2>2 DEF Adjacent, LastIn
    <3> QED
      BY <2>1, <2>2, <3>1
  <2>3. CASE j # n
    <3>1. j \in DOMAIN queue /\ longer[j] = queue[j]
      BY <1>1, <2>3
    <3>2. Adjacent(s, queue, i, j)
      BY <1>1, <1>5, <2>1, <3>1 DEF Adjacent
    <3> QED
      BY <2>1, <3>1, <3>2
  <2> QED
    BY <2>2, <2>3
<1>6. Added(s, longer, queue, n)
  BY <1>1, <1>3, <1>4, <1>5 DEF Added
<1> QED
  BY <1>6 DEF longer, n

LEMMA AddedKeepsOrder ==
    ASSUME NEW s, NEW queue, NEW longer, NEW n, NEW rs, NEW newReaders, NEW d, NEW jobs,
           Added(s, longer, queue, n), OrderInv(s, queue, rs, d, jobs),
           \A a \in DOMAIN newReaders : Sends(newReaders[a]) =>
               longer[n].kind = "frame" /\ Follows(NextUnit(newReaders, a), longer[n].unit),
           Depends(longer[n]) =>
               \E a \in DOMAIN rs : Sends(rs[a]) /\ longer[n].unit = NextUnit(rs, a)
    PROVE  OrderInv(s, longer, newReaders, d, jobs)
<1>1. /\ ChainInv(s, queue) /\ FrontInv(s, queue, d, jobs)
      /\ BackInv(s, queue, rs) /\ IdleInv(s, queue, rs, d, jobs)
  BY DEF OrderInv
<1>2. ChainInv(s, longer)
  <2> SUFFICES ASSUME NEW i \in DOMAIN longer, NEW j \in DOMAIN longer,
                      Adjacent(s, longer, i, j), Depends(longer[j])
               PROVE  longer[i].kind = "frame" /\ Follows(longer[j].unit, longer[i].unit)
    BY DEF ChainInv
  <2>1. /\ i \in DOMAIN queue /\ longer[i] = queue[i]
        /\ \/ j \in DOMAIN queue /\ longer[j] = queue[j] /\ Adjacent(s, queue, i, j)
           \/ j = n /\ LastIn(s, queue, i)
    BY DEF Added
  <2>2. CASE j \in DOMAIN queue /\ longer[j] = queue[j] /\ Adjacent(s, queue, i, j)
    BY <1>1, <2>1, <2>2 DEF ChainInv
  <2>3. CASE j = n /\ LastIn(s, queue, i)
    BY <1>1, <2>1, <2>3 DEF BackInv
  <2> QED
    BY <2>1, <2>2, <2>3
<1>3. FrontInv(s, longer, d, jobs)
  <2> SUFFICES ASSUME Decodes(d), NEW i \in DOMAIN longer, FirstIn(s, longer, i), Depends(longer[i])
               PROVE  MayFollow(d, jobs, longer[i].unit)
    BY DEF FrontInv
  <2>1. \/ i \in DOMAIN queue /\ longer[i] = queue[i] /\ FirstIn(s, queue, i)
        \/ i = n /\ NoneIn(s, queue)
    BY DEF Added
  <2>2. CASE i \in DOMAIN queue /\ longer[i] = queue[i] /\ FirstIn(s, queue, i)
    BY <1>1, <2>2 DEF FrontInv
  <2>3. CASE i = n /\ NoneIn(s, queue)
    BY <1>1, <2>3 DEF IdleInv
  <2> QED
    BY <2>1, <2>2, <2>3
<1>4. BackInv(s, longer, newReaders)
  BY DEF BackInv, Added
<1>5. IdleInv(s, longer, newReaders, d, jobs)
  BY DEF IdleInv, NoneIn, Added
<1> QED
  BY <1>2, <1>3, <1>4, <1>5 DEF OrderInv

LEMMA AddedAges ==
    ASSUME NEW s, NEW queue \in Seq(Tasks), NEW t \in Tasks, t.generation = s.generation,
           s.generation \in Nat, AgesInv(s, queue)
    PROVE  AgesInv(s, Append(queue, t))
<1>1. \A i \in DOMAIN Append(queue, t) :
         \/ Append(queue, t)[i] = t
         \/ i \in DOMAIN queue /\ Append(queue, t)[i] = queue[i]
  OBVIOUS
<1> QED
  BY <1>1 DEF AgesInv

-----------------------------------------------------------------------------
(* The steps of the stream.                                                *)
InStep == StreamInv(source, tasks, readers, decoder, work) /\ OfferedWithoutGap

\* Without a change of the decoder there is no gap.
LEMMA SameSessionNoGap ==
    ASSUME OfferedWithoutGap, decoder'.offered = decoder.offered, decoder'.previous = decoder.previous
    PROVE  OfferedWithoutGap'
BY DEF OfferedWithoutGap

LEMMA ViewersInStep ==
    ASSUME SourceInv, InStep, JpegViewerOpens \/ JpegViewerPauses \/ JpegViewerLeaves
    PROVE  InStep'
<1>1. /\ source' = source \/ source' = ViewerGone(source)
      /\ UNCHANGED <<readers, tasks, decoder, work>>
  BY DEF JpegViewerOpens, JpegViewerPauses, JpegViewerLeaves
<1>2. /\ source'.active = source.active /\ source'.generation = source.generation
      /\ source'.agent = source.agent
  BY <1>1 DEF SourceInv, TypesInv, Sources, ViewerGone
<1>3. PICK r : r = source'
  OBVIOUS
<1>4. StreamInv(r, tasks, readers, decoder, work)
  BY <1>2, <1>3, CaptureKeepsStream DEF InStep
<1> QED
  BY <1>1, <1>3, <1>4, SameSessionNoGap DEF InStep

LEMMA ServeDecodedInStep == ASSUME SourceInv, InStep, ServeDecoded PROVE InStep'
<1>1. /\ tasks # <<>> /\ tasks \in Seq(Tasks) /\ Head(tasks).kind = "decoded" /\ tasks' = Tail(tasks)
      /\ source' = [source EXCEPT !.failures = 0] /\ UNCHANGED <<readers, decoder, work>>
  BY DEF ServeDecoded, Serves, SourceInv, TypesInv
<1>2. StreamInv(source, Tail(tasks), readers, decoder, work)
  BY <1>1, ServedKeepsStream DEF InStep, Relevant
<1>3. /\ source'.active = source.active /\ source'.generation = source.generation
      /\ source'.agent = source.agent
  BY <1>1 DEF SourceInv, TypesInv, Sources
<1>4. PICK r : r = source'
  OBVIOUS
<1>5. StreamInv(r, Tail(tasks), readers, decoder, work)
  BY <1>2, <1>3, <1>4, CaptureKeepsStream
<1> QED
  BY <1>1, <1>4, <1>5, SameSessionNoGap DEF InStep

LEMMA ReaderTypes ==
    ASSUME SourceInv, NEW a \in DOMAIN readers
    PROVE  /\ readers \in Seq(Readers) /\ tasks \in Seq(Tasks) /\ a \in Nat
           /\ readers[a] \in Readers /\ readers[a].generation \in Nat /\ readers[a].due \in BOOLEAN
           /\ readers[a].sent \in Nat /\ readers[a].sent + 1 \in Nat /\ source.generation \in Nat
<1>1. readers \in Seq(Readers) /\ tasks \in Seq(Tasks) /\ source \in Sources
  BY DEF SourceInv, TypesInv
<1>2. a \in Nat /\ readers[a] \in Readers
  BY <1>1
<1> QED
  BY <1>1, <1>2 DEF Readers, Sources

LEMMA ReadConfigurationInStep ==
    ASSUME SourceInv, InStep, NEW a \in DOMAIN readers, ReadConfiguration(a) PROVE InStep'
<1> DEFINE t == Task("configuration", readers[a].generation, NoUnit)
<1>1. /\ readers \in Seq(Readers) /\ readers[a] \in Readers /\ tasks \in Seq(Tasks)
      /\ source.generation \in Nat /\ readers[a].generation \in Nat
  BY ReaderTypes
<1>2. /\ readers[a].state = "streams" /\ a = source.agent /\ source.active
      /\ readers[a].generation = source.generation
      /\ \A b \in DOMAIN readers : b # a => readers[b].state # "streams"
  BY DEF ReadConfiguration, InStep, StreamInv, ReadersInv
<1>3. /\ t \in Tasks /\ t.kind = "configuration" /\ t.generation = source.generation
  <2>1. t \in Tasks
    BY <1>1, NoUnitType, TaskType DEF Kinds
  <2> QED
    BY <1>2, <2>1 DEF Task
<1>4. /\ tasks' = Append(tasks, t) /\ UNCHANGED <<source, decoder, work>>
      /\ DOMAIN readers' = DOMAIN readers /\ \A b \in DOMAIN readers : b # a => readers'[b] = readers[b]
      /\ readers'[a].state = readers[a].state /\ readers'[a].generation = readers[a].generation
      /\ readers'[a].due
  BY <1>1 DEF ReadConfiguration, Readers
<1> HIDE DEF t
<1>5. PICK rs : rs = readers'
  OBVIOUS
<1>6. \A b \in DOMAIN rs : ~Sends(rs[b])
  BY <1>2, <1>4, <1>5 DEF Sends
<1>7. ReadersInv(source, rs)
  BY <1>2, <1>4, <1>5 DEF InStep, StreamInv, ReadersInv
<1>8. PICK longer : longer = Append(tasks, t)
  OBVIOUS
<1>9. /\ Added(source, longer, tasks, Len(tasks) + 1) /\ longer[Len(tasks) + 1] = t
      /\ AgesInv(source, longer)
  <2>1. Relevant(source, t)
    BY <1>2, <1>3 DEF Relevant
  <2>2. Added(source, longer, tasks, Len(tasks) + 1)
    BY <1>1, <1>3, <1>8, <2>1, AppendAdds
  <2>3. AgesInv(source, longer)
    BY <1>1, <1>3, <1>8, AddedAges DEF InStep, StreamInv
  <2> QED
    BY <1>1, <1>3, <1>8, <2>2, <2>3
<1>10. OrderInv(source, longer, rs, decoder, work)
  <2>1. ~Depends(t)
    BY <1>3 DEF Depends
  <2> QED
    BY <1>6, <1>9, <2>1, AddedKeepsOrder DEF InStep, StreamInv
<1>11. StreamInv(source, longer, rs, decoder, work)
  BY <1>7, <1>9, <1>10 DEF InStep, StreamInv
<1> QED
  BY <1>4, <1>5, <1>8, <1>11, SameSessionNoGap DEF InStep

LEMMA ReadFrameInStep ==
    ASSUME SourceInv, InStep, NEW a \in DOMAIN readers, ReadFrame(a) PROVE InStep'
<1>1. /\ readers \in Seq(Readers) /\ readers[a] \in Readers /\ tasks \in Seq(Tasks) /\ a \in Nat
      /\ source.generation \in Nat /\ readers[a].generation \in Nat /\ readers[a].sent \in Nat
      /\ readers[a].due \in BOOLEAN /\ readers[a].sent + 1 \in Nat
  BY ReaderTypes
<1>2. /\ readers[a].state = "streams" /\ a = source.agent /\ source.active
      /\ readers[a].generation = source.generation /\ readers[a].configurations > 0
      /\ \A b \in DOMAIN readers : b # a => readers[b].state # "streams"
  BY DEF ReadFrame, InStep, StreamInv, ReadersInv
<1>3. PICK key \in {TRUE, readers[a].due} :
        tasks' = Append(tasks, Task("frame", readers[a].generation,
                                    [agent |-> a, n |-> readers[a].sent + 1, key |-> key]))
  BY DEF ReadFrame
<1> DEFINE u == [agent |-> a, n |-> readers[a].sent + 1, key |-> key]
           t == Task("frame", readers[a].generation, u)
<1>4. u \in Units
  BY <1>1, <1>3 DEF Units
<1>5. /\ t \in Tasks /\ t.kind = "frame" /\ t.generation = source.generation /\ t.unit = u
  <2>1. t \in Tasks
    <3> HIDE DEF u
    <3> QED
      BY <1>1, <1>4, TaskType DEF Kinds
  <2> QED
    BY <1>2, <2>1 DEF Task
<1>6. u.agent = a /\ u.n = readers[a].sent + 1 /\ u.key = key
  OBVIOUS
<1>7. Depends(t) => Sends(readers[a]) /\ u = NextUnit(readers, a)
  <2> SUFFICES ASSUME Depends(t) PROVE Sends(readers[a]) /\ u = NextUnit(readers, a)
    OBVIOUS
  <2>1. key = FALSE
    <3>1. ~key
      BY <1>5 DEF Depends
    <3> QED
      BY <1>1, <1>3, <3>1
  <2>2. ~readers[a].due
    BY <1>3, <2>1
  <2> HIDE DEF t
  <2> QED
    BY <1>2, <2>1, <2>2 DEF Sends, NextUnit
<1>8. /\ tasks' = Append(tasks, t) /\ UNCHANGED <<source, decoder, work>>
      /\ DOMAIN readers' = DOMAIN readers /\ \A b \in DOMAIN readers : b # a => readers'[b] = readers[b]
      /\ readers'[a].state = readers[a].state /\ readers'[a].generation = readers[a].generation
      /\ readers'[a].sent = readers[a].sent + 1
  BY <1>1, <1>3 DEF ReadFrame, Readers
<1> HIDE DEF t, u
<1>9. PICK rs : rs = readers'
  OBVIOUS
<1>10. ASSUME NEW b \in DOMAIN rs, Sends(rs[b]) PROVE Follows(NextUnit(rs, b), u)
  <2>1. b = a
    BY <1>2, <1>8, <1>9, <1>10 DEF Sends
  <2> QED
    BY <1>1, <1>6, <1>8, <1>9, <2>1 DEF NextUnit, Follows
<1>11. ReadersInv(source, rs)
  BY <1>2, <1>8, <1>9 DEF InStep, StreamInv, ReadersInv
<1>12. PICK longer : longer = Append(tasks, t)
  OBVIOUS
<1>13. /\ Added(source, longer, tasks, Len(tasks) + 1) /\ longer[Len(tasks) + 1] = t
       /\ AgesInv(source, longer)
  <2>1. Relevant(source, t)
    BY <1>2, <1>5 DEF Relevant
  <2>2. Added(source, longer, tasks, Len(tasks) + 1)
    BY <1>1, <1>5, <1>12, <2>1, AppendAdds
  <2>3. AgesInv(source, longer)
    BY <1>1, <1>5, <1>12, AddedAges DEF InStep, StreamInv
  <2> QED
    BY <1>1, <1>5, <1>12, <2>2, <2>3
<1>14. OrderInv(source, longer, rs, decoder, work)
  BY <1>5, <1>7, <1>10, <1>13, AddedKeepsOrder DEF InStep, StreamInv
<1>15. StreamInv(source, longer, rs, decoder, work)
  BY <1>11, <1>13, <1>14 DEF InStep, StreamInv
<1> QED
  BY <1>8, <1>9, <1>12, <1>15, SameSessionNoGap DEF InStep

LEMMA ReaderFailsInStep ==
    ASSUME SourceInv, InStep, NEW a \in DOMAIN readers, ReaderFails(a) PROVE InStep'
<1> DEFINE t == Task("agentFailed", readers[a].generation, NoUnit)
<1>1. readers \in Seq(Readers) /\ readers[a].generation \in Nat /\ tasks \in Seq(Tasks)
  BY ReaderTypes
<1>2. t \in Tasks /\ t.kind = "agentFailed"
  <2>1. t \in Tasks
    BY <1>1, NoUnitType, TaskType DEF Kinds
  <2> QED
    BY <2>1 DEF Task
<1>3. /\ tasks' = Append(tasks, t) /\ readers' = Silenced(readers, a)
      /\ UNCHANGED <<source, decoder, work>>
  BY DEF ReaderFails
<1> HIDE DEF t
<1>4. PICK rs : rs = readers'
  OBVIOUS
<1>5. /\ DOMAIN rs = DOMAIN readers
      /\ \A b \in DOMAIN rs : rs[b].state = "streams" => rs[b] = readers[b]
  BY <1>1, <1>3, <1>4 DEF Silenced, Readers
<1>6. ReadersInv(source, rs) /\ FewerSend(rs, readers)
  BY <1>5 DEF InStep, StreamInv, ReadersInv, FewerSend, Sends
<1>7. StreamInv(source, tasks, rs, decoder, work)
  BY <1>1, <1>6, ReadersKeepStream DEF InStep
<1>8. StreamInv(source, Append(tasks, t), rs, decoder, work)
  BY <1>1, <1>2, <1>7, QueuedKeepsStream
<1> QED
  BY <1>3, <1>4, <1>8, SameSessionNoGap DEF InStep

-----------------------------------------------------------------------------
(* Starting, stopping and replacing the agent.                             *)
LEMMA ChosenFacts ==
    ASSUME NEW s \in Sources, NEW start, Len(readers) \in Nat
    PROVE  /\ AgentOrScreenshots(s, start).active = s.active
           /\ AgentOrScreenshots(s, start).generation = s.generation
           /\ Streams(start) => AgentOrScreenshots(s, start).agent = Len(readers) + 1
<1> DEFINE adb == Compatible(s.adb)
           n == Len(readers) + 1
<1>1. AgentOrScreenshots(s, start) =
         IF Streams(start) THEN [s EXCEPT !.agent = n, !.adb = adb] ELSE [s EXCEPT !.adb = "full"]
  BY DEF AgentOrScreenshots
<1>2. n = Len(readers) + 1
  OBVIOUS
<1> HIDE DEF adb, n
<1> QED
  BY <1>1, <1>2 DEF Sources

LEMMA SilencedAll ==
    ASSUME SourceInv, InStep
    PROVE  /\ Silenced(readers, source.agent) \in Seq(Readers)
           /\ Len(Silenced(readers, source.agent)) = Len(readers) /\ Len(readers) \in Nat
           /\ \A b \in DOMAIN Silenced(readers, source.agent) :
                 Silenced(readers, source.agent)[b].state # "streams"
<1>1. readers \in Seq(Readers) /\ \A b \in DOMAIN readers : readers[b] \in Readers
  BY DEF SourceInv, TypesInv
<1>2. /\ Silenced(readers, source.agent) \in Seq(Readers)
      /\ Len(Silenced(readers, source.agent)) = Len(readers) /\ Len(readers) \in Nat
  BY <1>1, SilencedType
<1>3. \A b \in DOMAIN readers : b # source.agent => readers[b].state # "streams"
  BY DEF InStep, StreamInv, ReadersInv
<1>4. /\ DOMAIN Silenced(readers, source.agent) = DOMAIN readers
      /\ \A b \in DOMAIN readers : Silenced(readers, source.agent)[b].state # "streams"
  BY <1>1, <1>3 DEF Silenced, Readers
<1> QED
  BY <1>2, <1>4

LEMMA BegunReaders ==
    ASSUME NEW s \in Sources, s.active, NEW start \in AgentStarts,
           NEW rs \in Seq(Readers), Len(rs) = Len(readers), Len(readers) \in Nat,
           \A b \in DOMAIN rs : rs[b].state # "streams"
    PROVE  /\ \A b \in DOMAIN Begun(start, rs, s.generation) :
                 ~Sends(Begun(start, rs, s.generation)[b])
           /\ ReadersInv(AgentOrScreenshots(s, start), Begun(start, rs, s.generation))
<1> DEFINE all == Begun(start, rs, s.generation)
           r == AgentOrScreenshots(s, start)
<1>1. \A b \in DOMAIN all :
         ~Sends(all[b]) /\ (all[b].state = "streams" =>
                               Streams(start) /\ b = Len(rs) + 1 /\ all[b].generation = s.generation)
  <2>1. s.generation \in Nat
    BY DEF Sources
  <2> QED
    BY <2>1, BegunFacts
<1>2. /\ r.active /\ r.generation = s.generation /\ (Streams(start) => r.agent = Len(readers) + 1)
  BY ChosenFacts
<1> HIDE DEF all, r
<1>3. (\A b \in DOMAIN all : ~Sends(all[b])) /\ ReadersInv(r, all)
  BY <1>1, <1>2 DEF ReadersInv
<1> QED
  BY <1>3 DEF all, r

LEMMA StartCaptureInStep == ASSUME SourceInv, InStep, StartCapture PROVE InStep'
<1> DEFINE s == [NoSource EXCEPT !.active = TRUE, !.generation = source.generation + 1]
<1>1. /\ ~source.active /\ readers \in Seq(Readers) /\ Len(readers) \in Nat /\ tasks \in Seq(Tasks)
      /\ source.generation \in Nat /\ source.generation + 1 \in Nat /\ decoder \in Decoders
  BY DEF StartCapture, SourceInv, TypesInv, Sources
<1>2. s \in Sources /\ s.active /\ s.generation = source.generation + 1
  BY <1>1, NoSourceType DEF Sources
<1>3. PICK start \in AgentStarts :
        /\ source' = AgentOrScreenshots(s, start)
        /\ readers' = Begun(start, readers, source'.generation)
  BY DEF StartCapture
<1>4. decoder' = StoppedDecoder(decoder) /\ UNCHANGED <<tasks, work>>
  BY DEF StartCapture
<1> HIDE DEF s
<1>5. PICK r, rs, e : r = source' /\ rs = readers' /\ e = decoder'
  OBVIOUS
<1>6. /\ r = AgentOrScreenshots(s, start) /\ r.active /\ r.generation = s.generation
      /\ rs = Begun(start, readers, s.generation)
  BY <1>1, <1>2, <1>3, <1>5, ChosenFacts
<1>7. \A b \in DOMAIN readers : readers[b].state # "streams"
  BY <1>1 DEF InStep, StreamInv, ReadersInv
<1>8. (\A b \in DOMAIN rs : ~Sends(rs[b])) /\ ReadersInv(r, rs)
  BY <1>1, <1>2, <1>6, <1>7, BegunReaders
<1>9. ASSUME NEW i \in DOMAIN tasks, tasks[i].kind \in {"configuration", "frame"}
      PROVE  tasks[i].generation <= r.generation /\ tasks[i].generation # r.generation
  <2>1. tasks[i].generation <= source.generation /\ tasks[i] \in Tasks
    BY <1>1, <1>9 DEF InStep, StreamInv, AgesInv
  <2>2. tasks[i].generation \in Nat
    BY <2>1 DEF Tasks
  <2> QED
    BY <1>1, <1>2, <1>6, <2>1, <2>2
<1>10. AgesInv(r, tasks) /\ ChainInv(r, tasks)
  BY <1>9 DEF AgesInv, ChainInv, Adjacent, Relevant
<1>11. ~e.format /\ e.offered = NoUnit
  BY <1>1, <1>4, <1>5, StoppedFacts
<1>12. StreamInv(r, tasks, rs, e, work)
  BY <1>8, <1>10, <1>11, RestartedStream
<1> QED
  BY <1>4, <1>5, <1>11, <1>12 DEF InStep, OfferedWithoutGap

LEMMA StopCaptureInStep == ASSUME SourceInv, InStep, StopCapture PROVE InStep'
<1>1. /\ source.generation \in Nat /\ decoder \in Decoders /\ tasks \in Seq(Tasks)
      /\ source' = [NoSource EXCEPT !.generation = source.generation + 1]
      /\ readers' = Silenced(readers, source.agent) /\ decoder' = StoppedDecoder(decoder)
      /\ UNCHANGED <<tasks, work>>
  BY DEF StopCapture, SourceInv, TypesInv, Sources
<1>2. PICK r, rs, e : r = source' /\ rs = readers' /\ e = decoder'
  OBVIOUS
<1>3. ~r.active /\ r.generation = source.generation + 1
  BY <1>1, <1>2 DEF NoSource
<1>4. \A b \in DOMAIN rs : rs[b].state # "streams"
  BY <1>1, <1>2, SilencedAll
<1>5. ReadersInv(r, rs) /\ \A b \in DOMAIN rs : ~Sends(rs[b])
  BY <1>4 DEF ReadersInv, Sends
<1>6. ASSUME NEW i \in DOMAIN tasks, tasks[i].kind \in {"configuration", "frame"}
      PROVE  tasks[i].generation <= r.generation
  <2>1. tasks[i].generation <= source.generation /\ tasks[i] \in Tasks
    BY <1>1, <1>6 DEF InStep, StreamInv, AgesInv
  <2>2. tasks[i].generation \in Nat
    BY <2>1 DEF Tasks
  <2> QED
    BY <1>1, <1>3, <2>1, <2>2
<1>7. AgesInv(r, tasks) /\ ChainInv(r, tasks)
  BY <1>3, <1>6 DEF AgesInv, ChainInv, Adjacent, Relevant
<1>8. ~e.format /\ e.offered = NoUnit
  BY <1>1, <1>2, StoppedFacts
<1>9. StreamInv(r, tasks, rs, e, work)
  BY <1>5, <1>7, <1>8, RestartedStream
<1> QED
  BY <1>1, <1>2, <1>8, <1>9 DEF InStep, OfferedWithoutGap

\* A replaced agent, whose capture goes on, has nothing to send yet.
LEMMA ReplaceFacts ==
    ASSUME SourceInv, InStep, NEW s \in Sources, s.active, ReplaceAgent(s)
    PROVE  /\ source'.active /\ source'.generation = s.generation
           /\ ReadersInv(source, readers)' /\ \A b \in DOMAIN readers' : ~Sends(readers'[b])
           /\ ~decoder'.format /\ decoder'.offered = NoUnit
<1> DEFINE quiet == Silenced(readers, source.agent)
<1>1. ~decoder'.format /\ decoder'.offered = NoUnit
  BY StoppedFacts DEF ReplaceAgent, SourceInv, TypesInv
<1>2. /\ quiet \in Seq(Readers) /\ Len(quiet) = Len(readers) /\ Len(readers) \in Nat
      /\ \A b \in DOMAIN quiet : quiet[b].state # "streams"
  BY SilencedAll
<1>3. CASE s.restarts < 1
  <2>1. PICK start \in AgentStarts :
          /\ source' = AgentOrScreenshots(
                IF Streams(start)
                THEN [s EXCEPT !.restarts = @ + 1, !.failures = 0, !.triggered = FALSE]
                ELSE [s EXCEPT !.restarts = @ + 1, !.agent = 0], start)
          /\ readers' = Begun(start, quiet, s.generation)
    BY <1>3 DEF ReplaceAgent
  <2> DEFINE n == s.restarts + 1
             r == IF Streams(start)
                  THEN [s EXCEPT !.restarts = n, !.failures = 0, !.triggered = FALSE]
                  ELSE [s EXCEPT !.restarts = n, !.agent = 0]
  <2>2. n \in 0..1
    BY <1>3 DEF Sources
  <2>3. source' = AgentOrScreenshots(r, start)
    BY <2>1
  <2> HIDE DEF n
  <2>4. r \in Sources /\ r.active /\ r.generation = s.generation
    BY <2>2 DEF Sources
  <2> HIDE DEF r, quiet
  <2>5. /\ source'.active /\ source'.generation = s.generation
    BY <1>2, <2>3, <2>4, ChosenFacts
  <2>6. /\ \A b \in DOMAIN Begun(start, quiet, r.generation) : ~Sends(Begun(start, quiet, r.generation)[b])
        /\ ReadersInv(AgentOrScreenshots(r, start), Begun(start, quiet, r.generation))
    BY <1>2, <2>4, BegunReaders
  <2> QED
    BY <1>1, <2>1, <2>3, <2>4, <2>5, <2>6
<1>4. CASE ~(s.restarts < 1)
  <2>1. source' = [s EXCEPT !.agent = 0, !.adb = "full"] /\ readers' = quiet
    BY <1>4 DEF ReplaceAgent
  <2>2. source'.active /\ source'.generation = s.generation
    BY <2>1 DEF Sources
  <2> HIDE DEF quiet
  <2>3. ReadersInv(source, readers)' /\ \A b \in DOMAIN readers' : ~Sends(readers'[b])
    BY <1>2, <2>1 DEF ReadersInv, Sends
  <2> QED
    BY <1>1, <2>2, <2>3
<1> QED
  BY <1>3, <1>4

LEMMA ReplacedInStep ==
    ASSUME SourceInv, InStep, tasks # <<>>, tasks' = Tail(tasks), UNCHANGED work,
           source.active, NEW s \in Sources, s.active, s.generation = source.generation,
           ReplaceAgent(s)
    PROVE  InStep'
<1>1. PICK r, rs, e : r = source' /\ rs = readers' /\ e = decoder'
  OBVIOUS
<1>2. /\ r.active /\ r.generation = source.generation
      /\ ReadersInv(r, rs) /\ (\A b \in DOMAIN rs : ~Sends(rs[b]))
      /\ ~e.format /\ e.offered = NoUnit
  BY <1>1, ReplaceFacts
<1>3. tasks \in Seq(Tasks) /\ AgesInv(source, tasks) /\ ChainInv(source, tasks)
      /\ r.active = source.active
  BY <1>2 DEF SourceInv, TypesInv, InStep, StreamInv, OrderInv, Sources
<1>4. AgesInv(source, Tail(tasks)) /\ ChainInv(source, Tail(tasks))
  BY <1>3, TailKeepsOrder
<1>5. AgesInv(r, Tail(tasks)) /\ ChainInv(r, Tail(tasks))
  BY <1>2, <1>3, <1>4, ChainOfCapture DEF AgesInv
<1>6. StreamInv(r, Tail(tasks), rs, e, work)
  BY <1>2, <1>5, RestartedStream
<1> QED
  BY <1>1, <1>2, <1>6 DEF InStep, OfferedWithoutGap

-----------------------------------------------------------------------------
(* What the server queue does.                                             *)
LEMMA IgnoredInStep ==
    ASSUME SourceInv, InStep, tasks # <<>>, Ignored(Head(tasks)), UNCHANGED work
    PROVE  InStep'
<1>1. /\ tasks \in Seq(Tasks) /\ tasks' = Tail(tasks) /\ UNCHANGED <<source, readers, decoder>>
      /\ ~Relevant(source, Head(tasks))
  BY DEF Ignored, Current, Relevant, SourceInv, TypesInv
<1>2. StreamInv(source, Tail(tasks), readers, decoder, work)
  BY <1>1, ServedKeepsStream DEF InStep
<1> QED
  BY <1>1, <1>2, SameSessionNoGap DEF InStep

LEMMA UnheardInStep ==
    ASSUME SourceInv, InStep, tasks # <<>>, Head(tasks).kind \notin {"configuration", "frame"}
    PROVE  tasks \in Seq(Tasks) /\ StreamInv(source, Tail(tasks), readers, decoder, work)
<1>1. tasks \in Seq(Tasks) /\ ~Relevant(source, Head(tasks))
  BY DEF Relevant, SourceInv, TypesInv
<1> QED
  BY <1>1, ServedKeepsStream DEF InStep

LEMMA DecoderFailureInStep ==
    ASSUME SourceInv, InStep, tasks # <<>>, Head(tasks).kind \notin {"configuration", "frame"},
           tasks' = Tail(tasks), UNCHANGED work, source.active, DecoderFailure
    PROVE  InStep'
<1>1. StreamInv(source, Tail(tasks), readers, decoder, work)
  BY UnheardInStep
<1> DEFINE n == source.failures + 1
           counted == [source EXCEPT !.failures = n]
           failed == [counted EXCEPT !.triggered = TRUE]
<1>2. source \in Sources /\ n \in Nat
  BY DEF SourceInv, TypesInv, Sources
<1>3. \/ UNCHANGED <<source, readers, decoder>>
      \/ source' = counted /\ UNCHANGED <<readers, decoder>>
      \/ ReplaceAgent(failed)
  BY DEF DecoderFailure
<1> HIDE DEF n
<1>4. /\ counted.active = source.active /\ counted.generation = source.generation
      /\ counted.agent = source.agent
      /\ failed \in Sources /\ failed.active = source.active /\ failed.generation = source.generation
  BY <1>2 DEF Sources
<1> HIDE DEF counted, failed
<1>5. CASE UNCHANGED <<source, readers, decoder>>
  BY <1>1, <1>5, SameSessionNoGap DEF InStep
<1>6. CASE source' = counted /\ UNCHANGED <<readers, decoder>>
  <2>1. StreamInv(counted, Tail(tasks), readers, decoder, work)
    BY <1>1, <1>4, CaptureKeepsStream
  <2> QED
    BY <1>6, <2>1, SameSessionNoGap DEF InStep
<1>7. CASE ReplaceAgent(failed)
  BY <1>4, <1>7, ReplacedInStep
<1> QED
  BY <1>3, <1>5, <1>6, <1>7

LEMMA ServeAgentFailedInStep == ASSUME SourceInv, InStep, ServeAgentFailed PROVE InStep'
<1>1. tasks # <<>> /\ UNCHANGED work /\ source \in Sources
  BY DEF ServeAgentFailed, Serves, SourceInv, TypesInv
<1>2. \/ Ignored(Head(tasks))
      \/ source.active /\ tasks' = Tail(tasks) /\ ReplaceAgent(source)
  BY DEF ServeAgentFailed, Current
<1> QED
  BY <1>1, <1>2, IgnoredInStep, ReplacedInStep

LEMMA ServeDecodeFailedInStep == ASSUME SourceInv, InStep, ServeDecodeFailed PROVE InStep'
<1>1. /\ tasks # <<>> /\ UNCHANGED work /\ Head(tasks).kind \notin {"configuration", "frame"}
  BY DEF ServeDecodeFailed, Serves
<1>2. \/ Ignored(Head(tasks))
      \/ source.active /\ tasks' = Tail(tasks) /\ DecoderFailure
  BY DEF ServeDecodeFailed, Current
<1> QED
  BY <1>1, <1>2, IgnoredInStep, DecoderFailureInStep

\* Asked for a keyframe, the agent sends nothing that depends on what was lost.
LEMMA ServeRecoverInStep == ASSUME SourceInv, InStep, ServeRecover PROVE InStep'
<1> DEFINE a == source.agent
<1>1. /\ tasks # <<>> /\ UNCHANGED work /\ Head(tasks).kind \notin {"configuration", "frame"}
  BY DEF ServeRecover, Serves
<1>2. \/ Ignored(Head(tasks))
      \/ tasks' = Tail(tasks) /\ UNCHANGED <<source, readers, decoder>>
      \/ /\ tasks' = Tail(tasks) /\ readers' = [readers EXCEPT ![a].due = TRUE]
         /\ UNCHANGED <<source, decoder>>
      \/ source.active /\ tasks' = Tail(tasks) /\ DecoderFailure
  BY DEF ServeRecover, Current
<1>3. tasks \in Seq(Tasks) /\ StreamInv(source, Tail(tasks), readers, decoder, work)
  BY <1>1, UnheardInStep
<1>4. CASE Ignored(Head(tasks))
  BY <1>1, <1>4, IgnoredInStep
<1>5. CASE source.active /\ tasks' = Tail(tasks) /\ DecoderFailure
  BY <1>1, <1>5, DecoderFailureInStep
<1>6. CASE tasks' = Tail(tasks) /\ UNCHANGED <<source, readers, decoder>>
  BY <1>1, <1>3, <1>6, SameSessionNoGap DEF InStep
<1>7. CASE /\ tasks' = Tail(tasks) /\ readers' = [readers EXCEPT ![a].due = TRUE]
           /\ UNCHANGED <<source, decoder>>
  <2>1. PICK rs : rs = readers'
    OBVIOUS
  <2>2. \A b \in DOMAIN readers : readers[b] \in Readers
    BY DEF SourceInv, TypesInv
  <2>3. /\ DOMAIN rs = DOMAIN readers
        /\ \A b \in DOMAIN rs :
              /\ rs[b].state = readers[b].state /\ rs[b].generation = readers[b].generation
              /\ Sends(rs[b]) => rs[b] = readers[b]
    BY <1>7, <2>1, <2>2 DEF Readers, Sends
  <2>4. ReadersInv(source, rs) /\ FewerSend(rs, readers)
    BY <2>3 DEF InStep, StreamInv, ReadersInv, FewerSend
  <2>5. Tail(tasks) \in Seq(Tasks)
    BY <1>1, <1>3
  <2>6. StreamInv(source, Tail(tasks), rs, decoder, work)
    BY <1>3, <2>4, <2>5, ReadersKeepStream
  <2> QED
    BY <1>1, <1>7, <2>1, <2>6, SameSessionNoGap DEF InStep
<1> QED
  BY <1>2, <1>4, <1>5, <1>6, <1>7

\* What remains in place when a configuration or a frame is taken from the queue.
LEMMA TakenOrder ==
    ASSUME SourceInv, InStep, tasks # <<>>, Relevant(source, Head(tasks))
    PROVE  /\ tasks \in Seq(Tasks) /\ 1 \in DOMAIN tasks /\ Head(tasks) = tasks[1]
           /\ Tail(tasks) \in Seq(Tasks) /\ ReadersInv(source, readers)
           /\ AgesInv(source, Tail(tasks)) /\ ChainInv(source, Tail(tasks))
           /\ BackInv(source, Tail(tasks), readers)
           /\ FirstIn(source, tasks, 1)
           /\ \A i \in DOMAIN Tail(tasks) :
                 FirstIn(source, Tail(tasks), i) /\ Depends(Tail(tasks)[i]) =>
                     tasks[1].kind = "frame" /\ Follows(Tail(tasks)[i].unit, tasks[1].unit)
           /\ NoneIn(source, Tail(tasks)) =>
                 \A a \in DOMAIN readers : Sends(readers[a]) =>
                     tasks[1].kind = "frame" /\ Follows(NextUnit(readers, a), tasks[1].unit)
<1>1. tasks \in Seq(Tasks)
  BY DEF SourceInv, TypesInv
<1>2. /\ ReadersInv(source, readers) /\ AgesInv(source, tasks)
      /\ ChainInv(source, tasks) /\ BackInv(source, tasks, readers)
  BY DEF InStep, StreamInv, OrderInv
<1>3. /\ AgesInv(source, Tail(tasks)) /\ ChainInv(source, Tail(tasks))
      /\ BackInv(source, Tail(tasks), readers)
  BY <1>1, <1>2, TailKeepsOrder
<1>4. PICK rest : rest = Tail(tasks)
  OBVIOUS
<1>5. /\ rest \in Seq(Tasks) /\ 1 \in DOMAIN tasks /\ Head(tasks) = tasks[1]
      /\ \A i \in DOMAIN rest : i + 1 \in DOMAIN tasks /\ rest[i] = tasks[i + 1]
  BY <1>1, <1>4, TailFacts
<1>6. /\ FirstIn(source, tasks, 1)
      /\ NoneIn(source, rest) => LastIn(source, tasks, 1)
      /\ \A i \in DOMAIN rest : FirstIn(source, rest, i) => Adjacent(source, tasks, 1, i + 1)
  BY <1>1, <1>4, TailOrder
<1>7. ASSUME NEW i \in DOMAIN rest, FirstIn(source, rest, i), Depends(rest[i])
      PROVE  tasks[1].kind = "frame" /\ Follows(rest[i].unit, tasks[1].unit)
  BY <1>2, <1>5, <1>6, <1>7 DEF ChainInv
<1>8. ASSUME NoneIn(source, rest), NEW a \in DOMAIN readers, Sends(readers[a])
      PROVE  tasks[1].kind = "frame" /\ Follows(NextUnit(readers, a), tasks[1].unit)
  BY <1>2, <1>5, <1>6, <1>8 DEF BackInv
<1> QED
  BY <1>1, <1>2, <1>3, <1>4, <1>5, <1>6, <1>7, <1>8

\* What comes after a configuration begins with a keyframe.
LEMMA ServeConfigurationInStep == ASSUME SourceInv, InStep, ServeConfiguration PROVE InStep'
<1>1. tasks # <<>> /\ Head(tasks).kind = "configuration" /\ UNCHANGED work /\ source \in Sources
  BY DEF ServeConfiguration, Serves, SourceInv, TypesInv
<1>2. \/ Ignored(Head(tasks))
      \/ /\ Current(Head(tasks)) /\ tasks' = Tail(tasks) /\ ReplaceAgent(source)
      \/ /\ Current(Head(tasks)) /\ tasks' = Tail(tasks) /\ Drained /\ UNCHANGED <<source, readers>>
         /\ decoder' = [StoppedDecoder(decoder) EXCEPT
                           !.format = TRUE, !.session = TRUE, !.owner = source.generation]
  BY DEF ServeConfiguration
<1>3. CASE Ignored(Head(tasks))
  BY <1>1, <1>3, IgnoredInStep
<1>4. CASE Current(Head(tasks)) /\ tasks' = Tail(tasks) /\ ReplaceAgent(source)
  BY <1>1, <1>4, ReplacedInStep DEF Current
<1>5. CASE /\ Current(Head(tasks)) /\ tasks' = Tail(tasks) /\ Drained /\ UNCHANGED <<source, readers>>
           /\ decoder' = [StoppedDecoder(decoder) EXCEPT
                             !.format = TRUE, !.session = TRUE, !.owner = source.generation]
  <2>1. PICK e : e = decoder'
    OBVIOUS
  <2>2. e.offered = NoUnit
    <3>1. StoppedDecoder(decoder) \in Decoders /\ StoppedDecoder(decoder).offered = NoUnit
      BY StoppedType, StoppedFacts DEF SourceInv, TypesInv
    <3> QED
      BY <1>5, <2>1, <3>1 DEF Decoders
  <2>3. Relevant(source, Head(tasks))
    BY <1>1, <1>5 DEF Relevant, Current
  <2>4. /\ ReadersInv(source, readers) /\ AgesInv(source, Tail(tasks))
        /\ ChainInv(source, Tail(tasks)) /\ BackInv(source, Tail(tasks), readers)
    BY <1>1, <2>3, TakenOrder
  <2>5. LinksInv(e, <<>>)
    BY DEF LinksInv
  <2>6. FrontInv(source, Tail(tasks), e, <<>>)
    <3>1. ASSUME NEW i \in DOMAIN Tail(tasks), FirstIn(source, Tail(tasks), i), Depends(Tail(tasks)[i])
          PROVE  FALSE
      BY <1>1, <2>3, <3>1, TakenOrder
    <3> QED
      BY <3>1 DEF FrontInv
  <2>7. IdleInv(source, Tail(tasks), readers, e, <<>>)
    <3>1. ASSUME NoneIn(source, Tail(tasks)), NEW a \in DOMAIN readers, Sends(readers[a])
          PROVE  FALSE
      BY <1>1, <2>3, <3>1, TakenOrder
    <3> QED
      BY <3>1 DEF IdleInv
  <2>8. StreamInv(source, Tail(tasks), readers, e, <<>>)
    BY <2>4, <2>5, <2>6, <2>7 DEF StreamInv, OrderInv
  <2> QED
    BY <1>1, <1>5, <2>1, <2>2, <2>8 DEF InStep, OfferedWithoutGap, Drained
<1> QED
  BY <1>2, <1>3, <1>4, <1>5

\* A job joins the decoder queue: it may follow the last, or need not.
LEMMA AppendLinks ==
    ASSUME NEW d, NEW e, NEW jobs \in Seq(Jobs), NEW job \in Jobs, LinksInv(d, jobs),
           e.format = d.format, e.session = d.session, e.offered = d.offered,
           d.format /\ job.what = "submit" /\ ~job.unit.key => MayFollow(d, jobs, job.unit)
    PROVE  LinksInv(e, Append(jobs, job))
<1> DEFINE longer == Append(jobs, job)
           n == Len(jobs) + 1
<1>1. /\ Len(jobs) \in Nat /\ DOMAIN jobs = 1..Len(jobs) /\ DOMAIN longer = 1..n
      /\ longer[n] = job /\ longer # <<>> /\ \A i \in 1..Len(jobs) : longer[i] = jobs[i]
      /\ jobs = <<>> <=> Len(jobs) = 0
  OBVIOUS
<1> HIDE DEF longer
<1> SUFFICES ASSUME e.format
             PROVE  /\ \A i, j \in DOMAIN longer :
                          j = i + 1 /\ longer[j].what = "submit" /\ ~longer[j].unit.key =>
                              Follows(longer[j].unit, longer[i].unit)
                    /\ longer[1].what = "submit" /\ ~longer[1].unit.key /\ e.session =>
                          Follows(longer[1].unit, e.offered)
  BY <1>1 DEF LinksInv, longer
<1>2. ASSUME NEW i \in DOMAIN longer, NEW j \in DOMAIN longer, j = i + 1,
             longer[j].what = "submit", ~longer[j].unit.key
      PROVE  Follows(longer[j].unit, longer[i].unit)
  <2>1. CASE j = n
    <3>1. i = Len(jobs) /\ jobs # <<>> /\ longer[i] = jobs[Len(jobs)]
      BY <1>1, <1>2, <2>1
    <3> QED
      BY <1>1, <1>2, <2>1, <3>1 DEF MayFollow
  <2>2. CASE j # n
    <3>1. {i, j} \subseteq DOMAIN jobs /\ longer[i] = jobs[i] /\ longer[j] = jobs[j]
      BY <1>1, <1>2, <2>2
    <3> QED
      BY <1>2, <3>1 DEF LinksInv
  <2> QED
    BY <2>1, <2>2
<1>3. ASSUME longer[1].what = "submit", ~longer[1].unit.key, e.session
      PROVE  Follows(longer[1].unit, e.offered)
  <2>1. CASE jobs = <<>>
    <3>1. longer[1] = job
      BY <1>1, <2>1
    <3> QED
      BY <1>3, <2>1, <3>1 DEF MayFollow
  <2>2. CASE jobs # <<>>
    <3>1. longer[1] = jobs[1]
      BY <1>1, <2>2
    <3> QED
      BY <1>3, <2>2, <3>1 DEF LinksInv
  <2> QED
    BY <2>1, <2>2
<1> QED
  BY <1>2, <1>3

\* The decoder keeps the order of the queue, and after a frame was left out it waits.
LEMMA ServeFrameInStep == ASSUME SourceInv, InStep, ServeFrame PROVE InStep'
<1> DEFINE t == Head(tasks)
           key == t.unit.key
<1>1. /\ tasks # <<>> /\ t \in Tasks /\ t.kind = "frame" /\ UNCHANGED <<source, readers>>
      /\ tasks \in Seq(Tasks) /\ work \in Seq(Jobs) /\ decoder \in Decoders
  BY FrameCases DEF SourceInv, TypesInv
<1>2. t.unit \in Units /\ key \in BOOLEAN /\ decoder.owner \in Nat /\ decoder.generation \in Nat
      /\ LinksInv(decoder, work)
  BY <1>1 DEF Tasks, Units, Decoders, InStep, StreamInv
<1>3. \/ ~Current(t) /\ tasks' = Tail(tasks) /\ UNCHANGED <<decoder, work>>
      \/ /\ Current(t) /\ Overflows(decoder, key)
         /\ decoder' = Received(decoder, key) /\ work' = Append(work, Invalidation)
         /\ \/ tasks' = Tail(tasks)
            \/ tasks' = Append(Tail(tasks), Task("recover", decoder.owner, NoUnit))
      \/ /\ Current(t) /\ decoder.waiting /\ ~key
         /\ UNCHANGED <<decoder, work>> /\ tasks' = Tail(tasks)
      \/ /\ Current(t)
         /\ \/ Resumes(decoder, key)
            \/ ~decoder.waiting /\ ~Overflows(decoder, key)
         /\ decoder' = Received(decoder, key)
         /\ work' = Append(work, Submitted(t.unit, decoder'.generation))
         /\ tasks' = Tail(tasks)
  BY FrameCases
<1>4. CASE ~Current(t) /\ tasks' = Tail(tasks) /\ UNCHANGED <<decoder, work>>
  <2>1. StreamInv(source, Tail(tasks), readers, decoder, work)
    BY <1>1, <1>4, ServedKeepsStream DEF InStep, Current, Relevant
  <2> QED
    BY <1>1, <1>4, <2>1, SameSessionNoGap DEF InStep
<1> DEFINE rest == Tail(tasks)
<1>5. ASSUME Current(t)
      PROVE  /\ rest \in Seq(Tasks) /\ ReadersInv(source, readers) /\ AgesInv(source, rest)
             /\ ChainInv(source, rest) /\ BackInv(source, rest, readers)
             /\ 1 \in DOMAIN tasks /\ t = tasks[1] /\ FirstIn(source, tasks, 1)
             /\ \A i \in DOMAIN rest : FirstIn(source, rest, i) /\ Depends(rest[i]) =>
                   Follows(rest[i].unit, t.unit)
             /\ NoneIn(source, rest) =>
                   \A a \in DOMAIN readers : Sends(readers[a]) => Follows(NextUnit(readers, a), t.unit)
  <2>1. Relevant(source, t)
    BY <1>1, <1>5 DEF Relevant, Current
  <2> QED
    BY <1>1, <2>1, TakenOrder
<1>6. ASSUME Current(t), NEW e, NEW jobs, LinksInv(e, jobs), ~Decodes(e)
      PROVE  StreamInv(source, rest, readers, e, jobs)
  BY <1>5, <1>6 DEF StreamInv, OrderInv, FrontInv, IdleInv
<1>7. SameSession(Received(decoder, key), decoder)
  BY <1>1, <1>2, ReceivedFacts
<1>8. CASE /\ Current(t) /\ Overflows(decoder, key)
           /\ decoder' = Received(decoder, key) /\ work' = Append(work, Invalidation)
           /\ \/ tasks' = rest
              \/ tasks' = Append(rest, Task("recover", decoder.owner, NoUnit))
  <2>1. PICK e, jobs : e = Received(decoder, key) /\ jobs = Append(work, Invalidation)
    OBVIOUS
  <2>2. e.waiting /\ e.format = decoder.format /\ e.session = decoder.session
        /\ e.offered = decoder.offered /\ e.previous = decoder.previous
    BY <1>1, <1>2, <1>7, <1>8, <2>1, ReceivedFacts DEF SameSession
  <2>3. LinksInv(e, jobs)
    <3>1. Invalidation \in Jobs /\ Invalidation.what # "submit"
      BY JobTypes DEF Invalidation
    <3> QED
      BY <1>1, <1>2, <2>1, <2>2, <3>1, AppendLinks
  <2>4. StreamInv(source, rest, readers, e, jobs)
    BY <1>6, <1>8, <2>2, <2>3 DEF Decodes
  <2>5. StreamInv(source, tasks', readers, e, jobs)
    <3> DEFINE asked == Task("recover", decoder.owner, NoUnit)
    <3>1. asked \in Tasks /\ asked.kind = "recover"
      <4>1. asked \in Tasks
        BY <1>2, NoUnitType, TaskType DEF Kinds
      <4> QED
        BY <4>1 DEF Task
    <3> HIDE DEF asked, rest
    <3>2. StreamInv(source, Append(rest, asked), readers, e, jobs)
      BY <1>5, <1>8, <2>4, <3>1, QueuedKeepsStream
    <3> QED
      BY <1>8, <2>4, <3>2 DEF asked
  <2> QED
    BY <1>1, <1>8, <2>1, <2>2, <2>5, SameSessionNoGap DEF InStep
<1>9. CASE /\ Current(t) /\ decoder.waiting /\ ~key
           /\ UNCHANGED <<decoder, work>> /\ tasks' = rest
  <2>1. StreamInv(source, rest, readers, decoder, work)
    BY <1>2, <1>6, <1>9 DEF Decodes
  <2> QED
    BY <1>1, <1>9, <2>1, SameSessionNoGap DEF InStep
<1>10. CASE /\ Current(t)
            /\ \/ Resumes(decoder, key)
               \/ ~decoder.waiting /\ ~Overflows(decoder, key)
            /\ decoder' = Received(decoder, key)
            /\ work' = Append(work, Submitted(t.unit, decoder'.generation))
            /\ tasks' = rest
  <2>1. PICK e : e = decoder'
    OBVIOUS
  <2>2. /\ e.format = decoder.format /\ e.session = decoder.session
        /\ e.offered = decoder.offered /\ e.previous = decoder.previous /\ e.generation \in Nat
    <3>1. Received(decoder, key) \in Decoders
      BY <1>1, NoUnitType, DecoderTypes
    <3> QED
      BY <1>7, <1>10, <2>1, <3>1 DEF SameSession, Decoders
  <2>3. PICK job : job = Submitted(t.unit, e.generation)
    OBVIOUS
  <2>4. job \in Jobs /\ job.unit = t.unit /\ work' = Append(work, job)
    BY <1>2, <1>10, <2>1, <2>2, <2>3, JobTypes DEF Submitted
  <2>5. PICK jobs : jobs = Append(work, job)
    OBVIOUS
  <2>6. jobs # <<>> /\ jobs[Len(jobs)].unit = t.unit
    BY <1>1, <2>4, <2>5
  <2>7. decoder.format /\ ~job.unit.key => MayFollow(decoder, work, job.unit)
    <3> SUFFICES ASSUME decoder.format, ~key PROVE MayFollow(decoder, work, t.unit)
      BY <2>4
    <3>1. Decodes(decoder) /\ Depends(t)
      BY <1>1, <1>10 DEF Decodes, Depends, Resumes
    <3> HIDE DEF t
    <3> QED
      BY <1>5, <1>10, <3>1 DEF InStep, StreamInv, OrderInv, FrontInv
  <2>8. LinksInv(e, jobs)
    BY <1>1, <1>2, <2>2, <2>4, <2>5, <2>7, AppendLinks
  <2>9. FrontInv(source, rest, e, jobs)
    BY <1>5, <1>10, <2>6 DEF FrontInv, MayFollow
  <2>10. IdleInv(source, rest, readers, e, jobs)
    BY <1>5, <1>10, <2>6 DEF IdleInv, MayFollow
  <2>11. StreamInv(source, rest, readers, e, jobs)
    BY <1>5, <1>10, <2>8, <2>9, <2>10 DEF StreamInv, OrderInv
  <2> QED
    BY <1>1, <1>10, <2>1, <2>2, <2>4, <2>5, <2>11, SameSessionNoGap DEF InStep
<1> QED
  BY <1>3, <1>4, <1>8, <1>9, <1>10

-----------------------------------------------------------------------------
(* The decoder queue and the framework.                                    *)

\* A job leaves the decoder queue: it was taken up for the session, or there is none.
LEMMA TailLinks ==
    ASSUME NEW d, NEW e, NEW jobs \in Seq(Jobs), jobs # <<>>, LinksInv(d, jobs),
           e.format = d.format, e.waiting = d.waiting,
           e.format /\ e.session => e.offered = jobs[1].unit
    PROVE  LinksInv(e, Tail(jobs)) /\ StillNext(e, Tail(jobs), d, jobs)
<1> DEFINE rest == Tail(jobs)
<1>1. /\ Len(jobs) \in Nat /\ DOMAIN jobs = 1..Len(jobs) /\ Len(jobs) > 0
      /\ \A i \in DOMAIN rest : i \in Nat /\ i + 1 \in DOMAIN jobs /\ rest[i] = jobs[i + 1]
      /\ rest # <<>> => 1 \in DOMAIN rest /\ Len(rest) \in DOMAIN rest /\ rest[Len(rest)] = jobs[Len(jobs)]
      /\ rest = <<>> => Len(jobs) = 1
  <2>1. /\ Len(jobs) \in Nat /\ DOMAIN jobs = 1..Len(jobs) /\ Len(jobs) > 0 /\ rest \in Seq(Jobs)
        /\ Len(rest) = Len(jobs) - 1 /\ DOMAIN rest = 1..(Len(jobs) - 1)
    OBVIOUS
  <2>2. \A i \in 1..(Len(jobs) - 1) : rest[i] = jobs[i + 1]
    OBVIOUS
  <2> HIDE DEF rest
  <2>3. rest = <<>> <=> Len(jobs) = 1
    <3>1. ASSUME NEW q \in Seq(Jobs) PROVE q = <<>> <=> Len(q) = 0
      OBVIOUS
    <3>2. rest \in Seq(Jobs)
      BY <2>1
    <3>3. rest = <<>> <=> Len(rest) = 0
      BY <3>1, <3>2, Zenon
    <3>4. Len(rest) = Len(jobs) - 1 /\ Len(jobs) \in Nat
      BY <2>1
    <3> QED
      BY <3>3, <3>4
  <2> QED
    BY <2>1, <2>2, <2>3
<1> HIDE DEF rest
<1>2. LinksInv(e, rest)
  <2> SUFFICES ASSUME e.format
               PROVE  /\ \A i, j \in DOMAIN rest :
                            j = i + 1 /\ rest[j].what = "submit" /\ ~rest[j].unit.key =>
                                Follows(rest[j].unit, rest[i].unit)
                      /\ rest # <<>> /\ rest[1].what = "submit" /\ ~rest[1].unit.key /\ e.session =>
                            Follows(rest[1].unit, e.offered)
    BY DEF LinksInv
  <2>1. \A i, j \in DOMAIN jobs :
           j = i + 1 /\ jobs[j].what = "submit" /\ ~jobs[j].unit.key =>
               Follows(jobs[j].unit, jobs[i].unit)
    BY DEF LinksInv
  <2>2. ASSUME NEW i \in DOMAIN rest, NEW j \in DOMAIN rest, j = i + 1,
               rest[j].what = "submit", ~rest[j].unit.key
        PROVE  Follows(rest[j].unit, rest[i].unit)
    <3>1. /\ i + 1 \in DOMAIN jobs /\ j + 1 \in DOMAIN jobs /\ j + 1 = (i + 1) + 1
          /\ rest[i] = jobs[i + 1] /\ rest[j] = jobs[j + 1]
      BY <1>1, <2>2
    <3>2. PICK m, n : m = i + 1 /\ n = j + 1
      OBVIOUS
    <3>3. m \in DOMAIN jobs /\ n \in DOMAIN jobs /\ n = m + 1
      BY <3>1, <3>2
    <3> QED
      BY <2>1, <2>2, <3>1, <3>2, <3>3, Zenon
  <2>3. ASSUME rest # <<>>, rest[1].what = "submit", ~rest[1].unit.key, e.session
        PROVE  Follows(rest[1].unit, e.offered)
    <3>1. 1 \in DOMAIN jobs /\ 2 \in DOMAIN jobs /\ 2 = 1 + 1 /\ rest[1] = jobs[2]
      BY <1>1, <2>3
    <3> QED
      BY <2>1, <2>3, <3>1
  <2> QED
    BY <2>2, <2>3
<1>3. StillNext(e, rest, d, jobs)
  <2> SUFFICES ASSUME Decodes(e), NEW u, MayFollow(d, jobs, u) PROVE MayFollow(e, rest, u)
    BY DEF StillNext, Decodes
  <2>1. Follows(u, jobs[Len(jobs)].unit)
    BY DEF MayFollow
  <2>2. CASE rest # <<>>
    BY <1>1, <2>1, <2>2 DEF MayFollow
  <2>3. CASE rest = <<>>
    BY <1>1, <2>1, <2>3 DEF MayFollow, Decodes
  <2> QED
    BY <2>2, <2>3
<1> QED
  BY <1>2, <1>3 DEF rest

LEMMA FailsInStep ==
    ASSUME SourceInv, NEW d, d.owner \in Nat, NEW job, Fails(d, job), NEW e, NEW jobs,
           StreamInv(source, tasks, readers, e, jobs)
    PROVE  StreamInv(source, tasks', readers, e, jobs)
<1> DEFINE t == Task("decodeFailed", d.owner, NoUnit)
<1>1. t \in Tasks /\ t.kind = "decodeFailed" /\ tasks \in Seq(Tasks)
  <2>1. t \in Tasks
    BY NoUnitType, TaskType DEF Kinds
  <2> QED
    BY <2>1 DEF Task, SourceInv, TypesInv
<1>2. tasks' = tasks \/ tasks' = Append(tasks, t)
  BY DEF Fails
<1> HIDE DEF t
<1>3. StreamInv(source, Append(tasks, t), readers, e, jobs)
  BY <1>1, QueuedKeepsStream
<1> QED
  BY <1>2, <1>3

LEMMA SubmitInStep == ASSUME SourceInv, InStep, Submit PROVE InStep'
<1>1. /\ work # <<>> /\ work \in Seq(Jobs) /\ work' = Tail(work) /\ decoder \in Decoders
      /\ tasks \in Seq(Tasks) /\ LinksInv(decoder, work) /\ UNCHANGED <<source, readers>>
      /\ StreamInv(source, tasks, readers, decoder, work)
  BY DEF Submit, SourceInv, TypesInv, InStep, StreamInv
<1>2. PICK job \in Jobs : job = work[1] /\ job = Head(work) /\ job.what = "submit"
  BY <1>1 DEF Submit
<1>3. /\ Offered(job) \in Decoders /\ Offered(job).waiting = decoder.waiting
      /\ Offered(job).format = decoder.format /\ Offered(job).session /\ Offered(job).offered = job.unit
      /\ Offered(job).owner = decoder.owner
      /\ Offered(job).previous = IF decoder.session THEN decoder.offered ELSE NoUnit
  BY <1>1, <1>2, OfferedFacts
<1>4. decoder.owner \in Nat
  BY <1>1 DEF Decoders
\* Whatever the decoder is left as, it is one of these.
<1>5. \/ Fails(decoder, job) /\ ~(decoder.format /\ decoder.session)
      \/ HasSession(job) /\ Fails(Offered(job), job)
      \/ HasSession(job) /\ decoder' = Offered(job) /\ tasks' = tasks
  BY <1>2 DEF Submit, HasSession
<1>6. ASSUME NEW e, e = decoder', e.format = decoder.format, e.waiting = decoder.waiting,
             e.format /\ e.session => e.offered = job.unit
      PROVE  StreamInv(source, tasks, readers, e, Tail(work))
  <2>1. LinksInv(e, Tail(work)) /\ StillNext(e, Tail(work), decoder, work)
    BY <1>1, <1>2, <1>6, TailLinks
  <2> QED
    BY <1>1, <2>1, DecoderKeepsStream
<1>7. ASSUME HasSession(job), decoder'.offered = job.unit,
             decoder'.previous = IF decoder.session THEN decoder.offered ELSE NoUnit
      PROVE  OfferedWithoutGap'
  <2>1. CASE job.unit.key
    BY <1>7, <2>1 DEF OfferedWithoutGap
  <2>2. CASE ~job.unit.key
    <3>1. decoder.format /\ decoder.session
      BY <1>7, <2>2 DEF HasSession
    <3>2. Follows(job.unit, decoder.offered)
      BY <1>1, <1>2, <2>2, <3>1 DEF LinksInv
    <3> QED
      BY <1>7, <3>1, <3>2 DEF OfferedWithoutGap, Follows
  <2> QED
    BY <2>1, <2>2
<1>8. PICK e : e = decoder'
  OBVIOUS
<1>9. CASE Fails(decoder, job) /\ ~(decoder.format /\ decoder.session)
  <2>1. e = Completed(decoder, job.generation)
    BY <1>8, <1>9 DEF Fails
  <2>2. e.waiting = decoder.waiting /\ SameSession(e, decoder)
    BY <1>1, <2>1, CompletedFacts
  <2>3. StreamInv(source, tasks, readers, e, Tail(work))
    BY <1>6, <1>8, <1>9, <2>2 DEF SameSession
  <2>4. StreamInv(source, tasks', readers, e, Tail(work))
    BY <1>4, <1>9, <2>3, FailsInStep
  <2>5. OfferedWithoutGap'
    BY <1>8, <2>2, SameSessionNoGap DEF SameSession, InStep
  <2> QED
    BY <1>1, <1>8, <2>4, <2>5 DEF InStep
<1>10. CASE HasSession(job) /\ Fails(Offered(job), job)
  <2>1. e = Completed(Offered(job), job.generation)
    BY <1>8, <1>10 DEF Fails
  <2>2. e.waiting = Offered(job).waiting /\ SameSession(e, Offered(job))
    BY <1>3, <2>1, CompletedFacts
  <2>3. StreamInv(source, tasks, readers, e, Tail(work))
    BY <1>3, <1>6, <1>8, <2>2 DEF SameSession
  <2>4. StreamInv(source, tasks', readers, e, Tail(work))
    BY <1>3, <1>4, <1>10, <2>3, FailsInStep
  <2>5. OfferedWithoutGap'
    BY <1>3, <1>7, <1>8, <1>10, <2>2 DEF SameSession
  <2> QED
    BY <1>1, <1>8, <2>4, <2>5 DEF InStep
<1>11. CASE HasSession(job) /\ decoder' = Offered(job) /\ tasks' = tasks
  <2>1. StreamInv(source, tasks, readers, e, Tail(work))
    BY <1>3, <1>6, <1>8, <1>11
  <2>2. OfferedWithoutGap'
    BY <1>3, <1>7, <1>11
  <2> QED
    BY <1>1, <1>8, <1>11, <2>1, <2>2 DEF InStep
<1> QED
  BY <1>5, <1>9, <1>10, <1>11

\* Without a session only a keyframe is taken up next.
LEMMA InvalidateInStep == ASSUME SourceInv, InStep, Invalidate PROVE InStep'
<1>1. /\ work # <<>> /\ work \in Seq(Jobs) /\ work' = Tail(work) /\ decoder \in Decoders
      /\ tasks \in Seq(Tasks) /\ UNCHANGED <<source, readers, tasks>>
      /\ decoder' = [decoder EXCEPT !.session = FALSE, !.offered = NoUnit, !.previous = NoUnit]
  BY DEF Invalidate, SourceInv, TypesInv
<1>2. PICK e : e = decoder'
  OBVIOUS
<1>3. /\ e.format = decoder.format /\ e.waiting = decoder.waiting /\ ~e.session /\ e.offered = NoUnit
  BY <1>1, <1>2 DEF Decoders
<1>4. LinksInv(e, Tail(work)) /\ StillNext(e, Tail(work), decoder, work)
  BY <1>1, <1>3, TailLinks DEF InStep, StreamInv
<1>5. StreamInv(source, tasks, readers, e, Tail(work))
  BY <1>1, <1>4, DecoderKeepsStream DEF InStep
<1> QED
  BY <1>1, <1>2, <1>3, <1>5 DEF InStep, OfferedWithoutGap

LEMMA CallbackInStep == ASSUME SourceInv, InStep, Callback PROVE InStep'
<1>1. /\ UNCHANGED <<source, readers, work>> /\ decoder \in Decoders /\ decoder.owner \in Nat
      /\ tasks \in Seq(Tasks)
  BY DEF Callback, SourceInv, TypesInv, Decoders
<1>2. PICK i \in DOMAIN inFlight :
        /\ decoder' = Completed(decoder, inFlight[i].generation)
        /\ tasks' = Append(tasks, Task("decoded", 0, NoUnit)) \/ Fails(decoder, inFlight[i])
  BY DEF Callback, Fails
<1>3. PICK e : e = decoder'
  OBVIOUS
<1>4. e.waiting = decoder.waiting /\ SameSession(e, decoder)
  BY <1>1, <1>2, <1>3, CompletedFacts
<1>5. StreamInv(source, tasks, readers, e, work)
  <2>1. LinksInv(e, work) /\ StillNext(e, work, decoder, work)
    BY <1>4 DEF InStep, StreamInv, LinksInv, StillNext, Decodes, MayFollow, SameSession
  <2> QED
    BY <1>1, <2>1, DecoderKeepsStream DEF InStep
<1>6. StreamInv(source, tasks', readers, e, work)
  <2> DEFINE t == Task("decoded", 0, NoUnit)
  <2>1. t \in Tasks /\ t.kind = "decoded"
    <3>1. t \in Tasks
      BY NoUnitType, TaskType DEF Kinds
    <3> QED
      BY <3>1 DEF Task
  <2> HIDE DEF t
  <2>2. StreamInv(source, Append(tasks, t), readers, e, work)
    BY <1>1, <1>5, <2>1, QueuedKeepsStream
  <2>3. Fails(decoder, inFlight[i]) => StreamInv(source, tasks', readers, e, work)
    BY <1>1, <1>5, FailsInStep
  <2> QED
    BY <1>2, <2>2, <2>3 DEF t
<1> QED
  BY <1>1, <1>3, <1>4, <1>6, SameSessionNoGap DEF InStep, SameSession

-----------------------------------------------------------------------------
LEMMA StreamInit == ASSUME AndroidInit PROVE InStep
<1>1. /\ readers = <<>> /\ tasks = <<>> /\ ~decoder.format /\ decoder.offered = NoUnit
  BY DEF AndroidInit, NoDecoder
<1>2. /\ \A a \in DOMAIN readers : ~Sends(readers[a])
      /\ ReadersInv(source, readers) /\ AgesInv(source, tasks) /\ ChainInv(source, tasks)
  BY <1>1 DEF ReadersInv, AgesInv, ChainInv
<1> QED
  BY <1>1, <1>2, RestartedStream DEF InStep, OfferedWithoutGap

LEMMA StreamStep == ASSUME SourceInv, InStep, [AndroidNext]_androidVars PROVE InStep'
<1>1. CASE StartCapture \/ StopCapture
  BY <1>1, StartCaptureInStep, StopCaptureInStep
<1>2. CASE JpegViewerOpens \/ JpegViewerPauses \/ JpegViewerLeaves
  BY <1>2, ViewersInStep
<1>3. CASE \E a \in DOMAIN readers : ReadConfiguration(a) \/ ReadFrame(a) \/ ReaderFails(a)
  BY <1>3, ReadConfigurationInStep, ReadFrameInStep, ReaderFailsInStep
<1>4. CASE ServeConfiguration \/ ServeFrame \/ ServeAgentFailed
  BY <1>4, ServeConfigurationInStep, ServeFrameInStep, ServeAgentFailedInStep
<1>5. CASE ServeDecodeFailed \/ ServeDecoded \/ ServeRecover
  BY <1>5, ServeDecodeFailedInStep, ServeDecodedInStep, ServeRecoverInStep
<1>6. CASE Submit \/ Invalidate \/ Callback
  BY <1>6, SubmitInStep, InvalidateInStep, CallbackInStep
<1>7. CASE UNCHANGED androidVars
  BY <1>7 DEF androidVars, InStep, OfferedWithoutGap
<1> QED
  BY <1>1, <1>2, <1>3, <1>4, <1>5, <1>6, <1>7 DEF AndroidNext

\* The policy counts what is being decoded and nothing else, so that it neither drops a
\* frame the decoder could take nor takes more than it may; and between two frames taken
\* up for one session none was left out, unless the later is a keyframe, whatever was
\* ignored, dropped or replaced on the way from the reader through the server queue to
\* the decoder queue.  Whether the framework accepts what it is offered is another matter.
THEOREM DecoderKeepsStep == AndroidSpec => []DecoderIsInStep
<1> DEFINE Inv == SourceInv /\ CountInv /\ InStep
<1>1. AndroidInit => Inv
  BY SourceInit, CountInit, StreamInit
<1>2. Inv /\ [AndroidNext]_androidVars => Inv'
  BY SourceStep, CountStep, StreamStep
<1>3. Inv => DecoderIsInStep
  BY CountIsKept DEF DecoderIsInStep, InStep
<1> QED
  BY <1>1, <1>2, <1>3, PTL DEF AndroidSpec
=============================================================================
