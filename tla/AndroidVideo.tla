---------------------------- MODULE AndroidVideo ----------------------------
(***************************************************************************)
(* Video of an Android device on the core: the agent that encodes it, the  *)
(* reader thread of its connection, the server queue, the decoder queue    *)
(* and the callbacks of the framework that decodes frames for observation, *)
(* and adb screenshots as the fallback (SimViewCore/Server.swift,          *)
(* Encoding/H264Decoder.swift and H264DecodeSchedulingPolicy.swift).       *)
(*                                                                         *)
(* The server queue serves "tasks" in order, one handler per action.  Two  *)
(* of its handlers wait for the decoder queue (queue.sync), which in turn  *)
(* waits for the framework: they are enabled when both are drained.        *)
(* Stopping the agent's process, adb itself and parameter sets are left    *)
(* out: an agent starts or does not, a configuration is usable or not.     *)
(***************************************************************************)
EXTENDS Naturals, Sequences, SequencesExt

CONSTANTS
    MaxWork,            \* defaultMaximumWorkCount, 4 in the code
    MaxConsecutive,     \* maximumConsecutiveFailures, 3 in the code
    MaxCaptures,        \* bound: times the capture is started
    MaxUnits,           \* bound: access units the agents send, all told
    MaxConfigurations,  \* bound: times one agent starts its encoder
    MaxFaults           \* bound: failures of the framework and of keyframe requests

\* What is assumed of the constants; the TLC module asserts it.
AndroidAssumption ==
    /\ {MaxWork, MaxConsecutive} \subseteq Nat \ {0}
    /\ {MaxCaptures, MaxUnits, MaxConfigurations, MaxFaults} \subseteq Nat

VARIABLES
    source,             \* the capture and where its pictures come from, see NoSource
    jpegViewer,         \* whether some client previews as MJPEG
    readers,            \* one per agent that was reached, see Reader
    tasks,              \* blocks on the server queue
    decoder,            \* H264Decoder and its policy, see NoDecoder
    work,               \* the decoder queue: units to submit, and "invalidate"
    inFlight,           \* units the framework has not called back for
    units, faults       \* counters of what is bounded

androidVars == <<source, jpegViewer, readers, tasks, decoder, work, inFlight, units, faults>>

\* An access unit: the agent that sent it, its number there, whether it is a keyframe.
NoUnit == [agent |-> 0, n |-> 0, key |-> FALSE]

\* captureActive, captureGeneration, androidAgent (0 nil), androidAgentRestartAttempts,
\* the handler androidCapture runs with, and the H264DecodeFailurePolicy.
NoSource == [active |-> FALSE, generation |-> 0, agent |-> 0, restarts |-> 0,
             adb |-> "off", failures |-> 0, triggered |-> FALSE]

\* The H264DecodeSchedulingPolicy; formatDescription, session and the capture whose
\* handlers are set (0 none); the last unit taken up for the session and the one before.
NoDecoder == [count |-> 0, generation |-> 0, waiting |-> FALSE,
              format |-> FALSE, session |-> FALSE, owner |-> 0,
              offered |-> NoUnit, previous |-> NoUnit]

AndroidInit ==
    /\ source = NoSource /\ jpegViewer = FALSE
    /\ readers = <<>> /\ tasks = <<>>
    /\ decoder = NoDecoder /\ work = <<>> /\ inFlight = <<>>
    /\ units = 0 /\ faults = 0

-----------------------------------------------------------------------------
(* H264DecodeSchedulingPolicy, H264DecodeFailurePolicy and H264Decoder.stop. *)
Task(kind, generation, unit) == [kind |-> kind, generation |-> generation, unit |-> unit]

Overflows(d, key) == ~d.waiting /\ d.count >= MaxWork

Resumes(d, key) == d.waiting /\ key

Received(d, key) ==
    CASE Resumes(d, key) -> [d EXCEPT !.generation = @ + 1, !.count = 1, !.waiting = FALSE]
      [] Overflows(d, key) -> [d EXCEPT !.generation = @ + 1, !.count = 0, !.waiting = TRUE]
      [] ~d.waiting /\ ~Overflows(d, key) -> [d EXCEPT !.count = @ + 1]
      [] OTHER -> d

\* Mutant: work of an earlier generation is taken off the count of this one.
MutantCompletesAny(d, generation) == IF d.count > 0 THEN [d EXCEPT !.count = @ - 1] ELSE d

Completed(d, generation) ==
    IF generation = d.generation /\ d.count > 0 THEN [d EXCEPT !.count = @ - 1] ELSE d

StoppedDecoder(d) == [NoDecoder EXCEPT !.generation = d.generation + 1]

Drained == work = <<>> /\ inFlight = <<>>

-----------------------------------------------------------------------------
(* Starting and replacing the agent.                                       *)
Reader(state, generation) ==
    [state |-> state, generation |-> generation, configurations |-> 0, due |-> FALSE, sent |-> 0]

\* tryStartAndroidAgent: the agent streams; or it cannot be started; or it refuses to
\* capture after its reader has begun, which nobody stops.
AgentStarts == {<<"streams">>, <<>>, <<"orphaned">>}

Streams(start) == start = <<"streams">>
Begun(start, rs, generation) == rs \o [i \in DOMAIN start |-> Reader(start[i], generation)]

\* ensureAndroidMJPEGCapture, if some client previews as MJPEG.
Compatible(now) == IF jpegViewer THEN "compatible" ELSE now

\* Mutant: a failed replacement is not followed by screenshots.
MutantGivesUp(s, start) ==
    IF Streams(start) THEN [s EXCEPT !.agent = Len(readers) + 1, !.adb = Compatible(@)] ELSE s

AgentOrScreenshots(s, start) ==
    IF Streams(start) THEN [s EXCEPT !.agent = Len(readers) + 1, !.adb = Compatible(@)]
    ELSE [s EXCEPT !.adb = "full"]

Silenced(rs, agent) ==
    [a \in DOMAIN rs |-> IF a = agent THEN [rs[a] EXCEPT !.state = "off"] ELSE rs[a]]

\* startCapture of an Android device.
StartCapture ==
    /\ ~source.active /\ source.generation < 2 * MaxCaptures /\ Drained
    /\ \E start \in AgentStarts :
          /\ source' = AgentOrScreenshots([NoSource EXCEPT !.active = TRUE,
                                              !.generation = source.generation + 1], start)
          /\ readers' = Begun(start, readers, source'.generation)
    /\ decoder' = StoppedDecoder(decoder)
    /\ UNCHANGED <<jpegViewer, tasks, work, inFlight, units, faults>>

StopCapture ==
    /\ source.active /\ Drained
    /\ source' = [NoSource EXCEPT !.generation = source.generation + 1]
    /\ readers' = Silenced(readers, source.agent)
    /\ decoder' = StoppedDecoder(decoder)
    /\ UNCHANGED <<jpegViewer, tasks, work, inFlight, units, faults>>

\* capture.preview of an MJPEG client while the capture runs.
JpegViewerOpens ==
    /\ source.active /\ ~jpegViewer /\ jpegViewer' = TRUE
    /\ UNCHANGED <<source, readers, tasks, decoder, work, inFlight, units, faults>>

ViewerGone(s) == IF s.agent # 0 THEN [s EXCEPT !.adb = "off"] ELSE s

\* Turning the preview off leaves the screenshots running.
JpegViewerPauses ==
    /\ jpegViewer /\ jpegViewer' = FALSE
    /\ UNCHANGED <<source, readers, tasks, decoder, work, inFlight, units, faults>>

\* An MJPEG client disconnects and no other previews.
JpegViewerLeaves ==
    /\ jpegViewer' = FALSE
    /\ source' = ViewerGone(source)
    /\ UNCHANGED <<readers, tasks, decoder, work, inFlight, units, faults>>

-----------------------------------------------------------------------------
(* The reader thread of an agent's connection.  The closures it was given   *)
(* carry the generation of the capture that started the agent.              *)
ReadConfiguration(a) ==
    /\ readers[a].state = "streams" /\ readers[a].configurations < MaxConfigurations
    /\ readers' = [readers EXCEPT ![a].configurations = @ + 1, ![a].due = TRUE]
    /\ tasks' = Append(tasks, Task("configuration", readers[a].generation, NoUnit))
    /\ UNCHANGED <<source, jpegViewer, decoder, work, inFlight, units, faults>>

\* An encoder begins with a keyframe, sends the ones asked for and some of its own.
ReadFrame(a) ==
    /\ readers[a].state = "streams" /\ readers[a].configurations > 0 /\ units < MaxUnits
    /\ \E key \in {TRUE, readers[a].due} :
          tasks' = Append(tasks, Task("frame", readers[a].generation,
                              [agent |-> a, n |-> readers[a].sent + 1, key |-> key]))
    /\ readers' = [readers EXCEPT ![a].due = FALSE, ![a].sent = @ + 1]
    /\ units' = units + 1
    /\ UNCHANGED <<source, jpegViewer, decoder, work, inFlight, faults>>

ReaderFails(a) ==
    /\ readers[a].state # "off"
    /\ readers' = Silenced(readers, a)
    /\ tasks' = Append(tasks, Task("agentFailed", readers[a].generation, NoUnit))
    /\ UNCHANGED <<source, jpegViewer, decoder, work, inFlight, units, faults>>

-----------------------------------------------------------------------------
(* The server queue.                                                       *)
Current(t) == source.active /\ t.generation = source.generation

\* The task at the head is served; it may leave another at the end.
Serves(kind) == tasks # <<>> /\ Head(tasks).kind = kind

\* handleAndroidAgentFailure.
ReplaceAgent(s) ==
    /\ Drained
    /\ decoder' = StoppedDecoder(decoder)
    /\ IF s.restarts < 1
       THEN \E start \in AgentStarts :
              /\ source' = AgentOrScreenshots(
                    IF Streams(start)
                    THEN [s EXCEPT !.restarts = @ + 1, !.failures = 0, !.triggered = FALSE]
                    ELSE [s EXCEPT !.restarts = @ + 1, !.agent = 0], start)
              /\ readers' = Begun(start, Silenced(readers, source.agent), s.generation)
       ELSE /\ source' = [s EXCEPT !.agent = 0, !.adb = "full"]
            /\ readers' = Silenced(readers, source.agent)

\* handleAndroidDecoderFailure: the last of MaxConsecutive, once.
DecoderFailure ==
    LET counted == [source EXCEPT !.failures = @ + 1] IN
    IF source.triggered
    THEN UNCHANGED <<source, readers, decoder>>
    ELSE IF counted.failures < MaxConsecutive
    THEN source' = counted /\ UNCHANGED <<readers, decoder>>
    ELSE ReplaceAgent([counted EXCEPT !.triggered = TRUE])

Ignored(t) == ~Current(t) /\ tasks' = Tail(tasks) /\ UNCHANGED <<source, readers, decoder, faults>>

ServeConfiguration ==
    /\ Serves("configuration")
    /\ \/ Ignored(Head(tasks))
       \/ /\ Current(Head(tasks)) /\ tasks' = Tail(tasks) /\ Drained
          /\ \/ /\ decoder' = [StoppedDecoder(decoder) EXCEPT
                                  !.format = TRUE, !.session = TRUE, !.owner = source.generation]
                /\ UNCHANGED <<source, readers, faults>>
             \/ faults < MaxFaults /\ faults' = faults + 1 /\ ReplaceAgent(source)
    /\ UNCHANGED <<jpegViewer, work, inFlight, units>>

\* The frame is broadcast, and offered to the decoder.
ServeFrame ==
    /\ Serves("frame")
    /\ LET t == Head(tasks) IN
       \/ Ignored(t) /\ UNCHANGED work
       \/ /\ Current(t)
          /\ decoder' = Received(decoder, t.unit.key)
          /\ CASE Overflows(decoder, t.unit.key) ->
                    /\ work' = Append(work, [what |-> "invalidate", unit |-> NoUnit, generation |-> 0])
                    /\ tasks' = IF decoder.owner = 0 THEN Tail(tasks)
                                ELSE Append(Tail(tasks), Task("recover", decoder.owner, NoUnit))
               [] decoder'.waiting /\ ~Overflows(decoder, t.unit.key) ->
                    UNCHANGED work /\ tasks' = Tail(tasks)
               [] OTHER ->
                    /\ work' = Append(work, [what |-> "submit", unit |-> t.unit,
                                             generation |-> decoder'.generation])
                    /\ tasks' = Tail(tasks)
          /\ UNCHANGED <<source, readers, faults>>
    /\ UNCHANGED <<jpegViewer, inFlight, units>>

ServeAgentFailed ==
    /\ Serves("agentFailed")
    /\ \/ Ignored(Head(tasks))
       \/ Current(Head(tasks)) /\ tasks' = Tail(tasks) /\ ReplaceAgent(source) /\ UNCHANGED faults
    /\ UNCHANGED <<jpegViewer, work, inFlight, units>>

ServeDecodeFailed ==
    /\ Serves("decodeFailed")
    /\ \/ Ignored(Head(tasks))
       \/ Current(Head(tasks)) /\ tasks' = Tail(tasks) /\ DecoderFailure /\ UNCHANGED faults
    /\ UNCHANGED <<jpegViewer, work, inFlight, units>>

ServeDecoded ==
    /\ Serves("decoded") /\ tasks' = Tail(tasks)
    /\ source' = [source EXCEPT !.failures = 0]
    /\ UNCHANGED <<jpegViewer, readers, decoder, work, inFlight, units, faults>>

\* The agent of the moment is asked for a keyframe; a dead one does not answer.
ServeRecover ==
    /\ Serves("recover")
    /\ LET a == source.agent
           alive == a # 0 /\ readers[a].state = "streams" IN
       \/ Ignored(Head(tasks))
       \/ /\ Current(Head(tasks)) /\ tasks' = Tail(tasks)
          /\ \/ a = 0 /\ UNCHANGED <<source, readers, decoder, faults>>
             \/ alive /\ readers' = [readers EXCEPT ![a].due = TRUE]
                /\ UNCHANGED <<source, decoder, faults>>
             \/ a # 0 /\ ~alive /\ DecoderFailure /\ UNCHANGED faults
             \/ alive /\ faults < MaxFaults /\ faults' = faults + 1 /\ DecoderFailure
    /\ UNCHANGED <<jpegViewer, work, inFlight, units>>

-----------------------------------------------------------------------------
(* The decoder queue and the framework.                                    *)
Fails(d, job) ==
    /\ decoder' = Completed(d, job.generation)
    /\ tasks' = IF d.owner = 0 THEN tasks ELSE Append(tasks, Task("decodeFailed", d.owner, NoUnit))

\* Whether there is a session to decode the unit with: a keyframe makes one.
HasSession(job) == decoder.format /\ (decoder.session \/ job.unit.key)

\* The unit is taken up for the session, which is made if there is none.
Offered(job) ==
    [decoder EXCEPT !.session = TRUE, !.offered = job.unit,
                    !.previous = IF decoder.session THEN decoder.offered ELSE NoUnit]

\* The framework accepts the unit, or: there is no session and none can be made; the
\* sample cannot be made, or the framework refuses it, and the session stays without.
Submit ==
    /\ work # <<>> /\ Head(work).what = "submit"
    /\ LET job == Head(work) IN
       \/ /\ ~HasSession(job) /\ Fails(decoder, job) /\ UNCHANGED <<inFlight, faults>>
       \/ /\ HasSession(job) /\ decoder' = Offered(job)
          /\ inFlight' = Append(inFlight, job) /\ UNCHANGED <<tasks, faults>>
       \/ /\ HasSession(job) /\ faults < MaxFaults /\ faults' = faults + 1
          /\ \/ ~decoder.session /\ Fails(decoder, job)
             \/ Fails(Offered(job), job)
          /\ UNCHANGED inFlight
    /\ work' = Tail(work)
    /\ UNCHANGED <<source, jpegViewer, readers, units>>

\* Invalidating a session waits for the units it was given.
Invalidate ==
    /\ work # <<>> /\ Head(work).what = "invalidate" /\ inFlight = <<>>
    /\ decoder' = [decoder EXCEPT !.session = FALSE, !.offered = NoUnit, !.previous = NoUnit]
    /\ work' = Tail(work)
    /\ UNCHANGED <<source, jpegViewer, readers, tasks, inFlight, units, faults>>

\* The framework may call back out of order.
Callback ==
    /\ \E i \in DOMAIN inFlight :
          /\ inFlight' = RemoveAt(inFlight, i)
          /\ \/ /\ decoder' = Completed(decoder, inFlight[i].generation)
                /\ tasks' = Append(tasks, Task("decoded", 0, NoUnit)) /\ UNCHANGED faults
             \/ /\ faults < MaxFaults /\ faults' = faults + 1 /\ Fails(decoder, inFlight[i])
    /\ UNCHANGED <<source, jpegViewer, readers, work, units>>

AndroidNext ==
    \/ StartCapture \/ StopCapture \/ JpegViewerOpens \/ JpegViewerPauses \/ JpegViewerLeaves
    \/ \E a \in DOMAIN readers : ReadConfiguration(a) \/ ReadFrame(a) \/ ReaderFails(a)
    \/ ServeConfiguration \/ ServeFrame \/ ServeAgentFailed
    \/ ServeDecodeFailed \/ ServeDecoded \/ ServeRecover
    \/ Submit \/ Invalidate \/ Callback

AndroidSpec == AndroidInit /\ [][AndroidNext]_androidVars

-----------------------------------------------------------------------------
AndroidTypeOK ==
    /\ source \in [active : BOOLEAN, generation : Nat, agent : 0..Len(readers), restarts : 0..1,
                   adb : {"off", "compatible", "full"}, failures : 0..MaxConsecutive,
                   triggered : BOOLEAN]
    /\ jpegViewer \in BOOLEAN
    /\ \A a \in DOMAIN readers : readers[a].state \in {"streams", "orphaned", "off"}
    /\ decoder.count \in 0..MaxWork /\ decoder.owner \in 0..source.generation

\* While a capture runs, something delivers its pictures: an agent that streams, or
\* whose failure is still to be handled, or else the screenshots that all clients and
\* the observation are fed from; whatever agents, decoder and viewers do meanwhile.
CaptureHasSource ==
    source.active =>
        \/ source.adb = "full"
        \/ /\ source.agent # 0
           /\ \/ readers[source.agent].state = "streams"
              \/ \E i \in DOMAIN tasks : tasks[i].kind = "agentFailed" /\ Current(tasks[i])

\* What the policy counts is what is being decoded for the present generation: were
\* late work of another counted, the decoder would drop frames it could take, or take
\* more than it may.
Outstanding ==
    {i \in DOMAIN work : work[i].what = "submit" /\ work[i].generation = decoder.generation}
CountIsOutstanding ==
    decoder.count = Cardinality(Outstanding)
        + Cardinality({i \in DOMAIN inFlight : inFlight[i].generation = decoder.generation})

\* Between two units taken up for one session none was left out, unless the later is a
\* keyframe, and the first of a session is one: what is ignored, dropped or replaced on
\* the way from the reader's thread leaves no gap.  Of what submit takes up, a unit that
\* fails is discarded while the session stays, and nothing is said of that gap.
OfferedWithoutGap ==
    LET d == decoder IN
    \/ d.offered = NoUnit \/ d.offered.key
    \/ d.offered.agent = d.previous.agent /\ d.offered.n = d.previous.n + 1

DecoderIsInStep == CountIsOutstanding /\ OfferedWithoutGap
=============================================================================
