---------------------------- MODULE CaptureServer ----------------------------
(***************************************************************************)
(* Connections, capture demand and screenshots of the native server        *)
(* (native/SimViewCore/Sources/SimViewCore/Server.swift) on an iOS         *)
(* Simulator.                                                              *)
(*                                                                         *)
(* Everything here runs on the server's serial queue, so each handler is   *)
(* one action; what interleaves are the blocks that other queues hand      *)
(* back to it: captured frames, encoded screenshots, timeouts and failed   *)
(* writes.  Capture starts and stops with the demand of all clients and    *)
(* bumps captureGeneration each time, and a screenshot must still get its  *)
(* one answer.  Handlers that change several things in order are written   *)
(* as operators on the record "cap", applied one after the other.          *)
(***************************************************************************)
EXTENDS Naturals, Sequences, FiniteSets

CONSTANTS
    Connections,        \* sockets that may be accepted
    Screenshots,           \* capture.screenshot requests that may be made
    MaxCalls,           \* bound: the other client requests
    MaxWaiting,          \* bound: captured frames that wait on the server queue
    MayFail,            \* the connections a write may fail on
    IdleShutdown,       \* idleTimeout <= 0, as in a shared backend
    None

\* What is assumed of the constants; the TLC module asserts it.
CaptureAssumption ==
    /\ None \notin Connections \union Screenshots \union Nat
    /\ MayFail \subseteq Connections
    /\ MaxCalls \in Nat /\ MaxWaiting \in Nat
    /\ IdleShutdown \in BOOLEAN

VARIABLES
    connections,        \* the set of the same name
    authenticated, preview, hybrid,     \* connections with that flag or mode
    writeFailed,        \* connection -> its failed write: "none", "queued", "handled"
    accepted,           \* connections ever accepted
    cap,                \* the capture state, see Cap
    frames,             \* generations of the frames that wait on the server queue
    encoding,           \* request -> generation of the frame screenshotQueue encodes
    requester,          \* request -> the connection that made it
    shuttingDown,
    calls

clients == <<connections, authenticated, preview, hybrid, writeFailed, accepted>>
pipeline == <<frames, encoding>>
captureVars == <<clients, cap, pipeline, requester, shuttingDown, calls>>

NoShot == [connection |-> None, generation |-> 0, timer |-> FALSE, encoding |-> FALSE]

\* captureActive, captureGeneration, whether selectedDevice is set,
\* screenshotCaptures, and the answers each screenshot request has been sent.
Cap == [active |-> FALSE, generation |-> 0, selected |-> FALSE,
        shots |-> [r \in Screenshots |-> NoShot],
        answers |-> [r \in Screenshots |-> <<>>]]

CaptureInit ==
    /\ connections = {} /\ accepted = {}
    /\ authenticated = {} /\ preview = {} /\ hybrid = {}
    /\ writeFailed = [c \in Connections |-> "none"]
    /\ cap = Cap
    /\ frames = <<>>
    /\ encoding = [r \in Screenshots |-> None]
    /\ requester = [r \in Screenshots |-> None]
    /\ shuttingDown = FALSE
    /\ calls = 0

-----------------------------------------------------------------------------
(* The capture state.                                                      *)
Pending(k) == {r \in Screenshots : k.shots[r] # NoShot}

Answered(k, rs, answer) ==
    [k EXCEPT !.answers = [r \in Screenshots |-> IF r \in rs THEN Append(@[r], answer) ELSE @[r]]]

Removed(k, rs) ==
    [k EXCEPT !.shots = [r \in Screenshots |-> IF r \in rs THEN NoShot ELSE @[r]]]

\* cancelScreenshots(): every pending request is told that capture stopped.
CancelScreenshots(k) == Answered(Removed(k, Pending(k)), Pending(k), "cancelled")

\* cancelScreenshots(for: c): its own requests are dropped without an answer.
CancelScreenshotsFor(k, c) == Removed(k, {r \in Pending(k) : k.shots[r].connection = c})

\* stopCapture()
Stopped(k) ==
    [CancelScreenshots(k) EXCEPT !.generation = @ + 1, !.active = FALSE]

\* startCapture() has the outcomes [cap, ok]: it throws when the device cannot be
\* captured, after undoing what it began.
Started(k) ==
    [CancelScreenshots(k) EXCEPT !.generation = @ + 1, !.active = TRUE, !.selected = TRUE]

StartOutcomes(k) ==
    IF k.active THEN {[cap |-> k, ok |-> TRUE]}
    ELSE {[cap |-> Started(k), ok |-> TRUE], [cap |-> Stopped(Started(k)), ok |-> FALSE]}

\* What asks for capture: a hybrid or a previewing client, or a screenshot.
Demand(conns, prev, hyb, k) == (conns \intersect (prev \union hyb)) # {} \/ Pending(k) # {}

\* reconcileCaptureDemand(for:), for the clients in conns.
Reconcile(conns, prev, hyb, k) ==
    IF Demand(conns, prev, hyb, k) THEN StartOutcomes(k)
    ELSE {[cap |-> IF k.active THEN [Stopped(k) EXCEPT !.selected = TRUE]
                   ELSE [k EXCEPT !.selected = TRUE],
           ok |-> TRUE]}

\* The handlers that reconcile once a device has been selected, ignoring errors.
ReconcileSelected(conns, prev, hyb, k) ==
    IF k.selected THEN {o.cap : o \in Reconcile(conns, prev, hyb, k)} ELSE {k}

Clients == connections \intersect authenticated
Call == calls < MaxCalls /\ calls' = calls + 1

-----------------------------------------------------------------------------
(* Connections.                                                            *)
AcceptConnection(c) ==
    /\ ~shuttingDown
    /\ c \notin accepted
    /\ accepted' = accepted \union {c}
    /\ connections' = connections \union {c}
    /\ UNCHANGED <<authenticated, preview, hybrid, writeFailed, cap, pipeline, requester, shuttingDown,
                   calls>>

Hello(c) ==
    /\ ~shuttingDown
    /\ c \in connections \ authenticated
    /\ authenticated' = authenticated \union {c}
    /\ UNCHANGED <<connections, accepted, preview, hybrid, writeFailed, cap, pipeline,
                   requester, shuttingDown, calls>>

\* Mutant: the demand is counted before the connection is removed.
MutantCountsItself(c) ==
    /\ connections' = connections \ {c}
    /\ cap' \in IF c \notin authenticated THEN {CancelScreenshotsFor(cap, c)}
                ELSE ReconcileSelected(Clients, preview, hybrid, CancelScreenshotsFor(cap, c))
    /\ UNCHANGED <<authenticated, preview, hybrid, accepted, pipeline, requester, shuttingDown,
                   calls>>

\* disconnect(c), also of a connection that was disconnected before: the last
\* client to go stops capture, the others' demand is counted again.
Disconnect(c) ==
    LET left == CancelScreenshotsFor(cap, c)
        others == Clients \ {c}
        last == c \in authenticated /\ others = {}
    IN  /\ connections' = connections \ {c}
        /\ cap' \in IF c \notin authenticated THEN {left}
                    ELSE IF last THEN {Stopped(left)}
                    ELSE ReconcileSelected(others, preview, hybrid, left)
        /\ shuttingDown' = (shuttingDown \/ (last /\ IdleShutdown))
        /\ UNCHANGED <<authenticated, preview, hybrid, accepted, pipeline, requester, calls>>

\* The peer closes its end, or does not authenticate in time: the read source
\* of a connection that is not closed notices.
PeerCloses(c) ==
    /\ ~shuttingDown
    /\ c \in connections
    /\ Disconnect(c)
    /\ UNCHANGED writeFailed

\* A send on the connection's write queue fails: its peer is gone, it stalled
\* for a second, or the descriptor was closed under it.
WriteFails(c) ==
    /\ c \in authenticated \intersect MayFail /\ writeFailed[c] = "none"
    /\ writeFailed' = [writeFailed EXCEPT ![c] = "queued"]
    /\ UNCHANGED <<connections, authenticated, preview, hybrid, accepted, cap, pipeline,
                   requester, shuttingDown, calls>>

ConnectionWriteFailed(c) ==
    /\ writeFailed[c] = "queued"
    /\ writeFailed' = [writeFailed EXCEPT ![c] = "handled"]
    /\ Disconnect(c)

-----------------------------------------------------------------------------
\* Mutant: requests are served before the handshake.
MutantNoHandshake(c) == ~shuttingDown /\ c \in connections

(* Screenshots of an authenticated client.                                    *)
Receives(c) == ~shuttingDown /\ c \in Clients

DeviceDescribe(c) ==
    /\ Receives(c) /\ Call
    /\ cap' = [cap EXCEPT !.selected = TRUE]
    /\ UNCHANGED <<clients, pipeline, requester, shuttingDown>>

CaptureStart(c) ==
    /\ Receives(c) /\ Call
    /\ \E mode \in {"semantic", "hybrid"} :
         hybrid' = IF mode = "hybrid" THEN hybrid \union {c} ELSE hybrid \ {c}
    /\ \E o \in Reconcile(Clients, preview, hybrid', [cap EXCEPT !.selected = TRUE]) : cap' = o.cap
    /\ UNCHANGED <<connections, authenticated, preview, writeFailed, accepted, pipeline, requester,
                   shuttingDown>>

CapturePreview(c) ==
    /\ Receives(c) /\ Call
    /\ \E enabled \in BOOLEAN :
         preview' = IF enabled THEN preview \union {c} ELSE preview \ {c}
    /\ cap' \in ReconcileSelected(Clients, preview', hybrid, cap)
    /\ UNCHANGED <<connections, authenticated, hybrid, writeFailed, accepted, pipeline, requester,
                   shuttingDown>>

CaptureStop(c) ==
    /\ Receives(c) /\ Call
    /\ cap' = Stopped(cap)
    /\ UNCHANGED <<clients, pipeline, requester, shuttingDown>>

ObservationGet(c) ==
    /\ Receives(c) /\ Call
    /\ ~cap.active /\ cap.selected
    /\ \E o \in StartOutcomes(cap) : cap' = o.cap
    /\ UNCHANGED <<clients, pipeline, requester, shuttingDown>>

\* beginScreenshot: a request that cannot start capture is answered at once.
CaptureScreenshot(c, r) ==
    /\ Receives(c)
    /\ requester[r] = None
    /\ requester' = [requester EXCEPT ![r] = c]
    /\ IF ~cap.selected THEN cap' = Answered(cap, {r}, "error")
       ELSE \E o \in StartOutcomes(cap) :
              cap' = IF o.ok
                     THEN [o.cap EXCEPT !.shots[r] =
                             [connection |-> c, generation |-> o.cap.generation,
                              timer |-> TRUE, encoding |-> FALSE]]
                     ELSE Answered(o.cap, {r}, "error")
    /\ UNCHANGED <<clients, pipeline, shuttingDown, calls>>

-----------------------------------------------------------------------------
(* Frames and screenshots.                                                 *)
\* The capture callback hands a frame over, tagged with the generation it was
\* started for.
FrameCaptured ==
    /\ cap.active
    /\ Len(frames) < MaxWaiting
    /\ frames' = Append(frames, cap.generation)
    /\ UNCHANGED <<clients, cap, encoding, requester, shuttingDown, calls>>

IsCurrent(g) == cap.active /\ g = cap.generation

\* acceptCapturedFrame and fulfillScreenshots: the requests of this capture that
\* wait for a frame stop their timers and have it encoded.
Fulfilled(g) == {r \in Pending(cap) : ~cap.shots[r].encoding /\ cap.shots[r].generation = g}

AcceptCapturedFrame ==
    /\ frames # <<>>
    /\ frames' = Tail(frames)
    /\ LET g == Head(frames)
           rs == IF IsCurrent(g) THEN Fulfilled(g) ELSE {}
       IN  /\ encoding' = [r \in Screenshots |-> IF r \in rs THEN g ELSE encoding[r]]
           /\ cap' = [cap EXCEPT !.shots =
                        [r \in Screenshots |->
                           IF r \in rs THEN [@[r] EXCEPT !.timer = FALSE, !.encoding = TRUE]
                           ELSE @[r]]]
    /\ UNCHANGED <<clients, requester, shuttingDown, calls>>

\* The encoded screenshot comes back to the server queue.
ScreenshotEncoded(r) ==
    /\ encoding[r] # None
    /\ encoding' = [encoding EXCEPT ![r] = None]
    /\ IF cap.shots[r] = NoShot THEN cap' = cap
       ELSE IF cap.shots[r].generation # cap.generation THEN cap' = Removed(cap, {r})
       ELSE \E answer \in {"png", "error"} :
              cap' \in ReconcileSelected(Clients, preview, hybrid,
                                         Answered(Removed(cap, {r}), {r}, answer))
    /\ UNCHANGED <<clients, frames, requester, shuttingDown, calls>>

ScreenshotTimeout(r) ==
    /\ cap.shots[r].timer
    /\ cap' \in ReconcileSelected(Clients, preview, hybrid,
                                  Answered(Removed(cap, {r}), {r}, "timeout"))
    /\ UNCHANGED <<clients, pipeline, requester, shuttingDown, calls>>

-----------------------------------------------------------------------------
(* Shutdown: the parent is gone, nobody came, a signal or server.shutdown. *)
(* The connections are closed, and stay in the set; the process lives on   *)
(* until the accessibility worker has cleaned up, so it may stop anywhere  *)
(* after this step.                                                        *)
Shutdown ==
    /\ ~shuttingDown
    /\ shuttingDown' = TRUE
    /\ cap' = Stopped(cap)
    /\ UNCHANGED <<clients, pipeline, requester, calls>>

CaptureNext ==
    \/ \E c \in Connections :
         \/ AcceptConnection(c) \/ Hello(c) \/ PeerCloses(c)
         \/ WriteFails(c) \/ ConnectionWriteFailed(c)
         \/ DeviceDescribe(c) \/ CaptureStart(c) \/ CapturePreview(c) \/ CaptureStop(c)
         \/ ObservationGet(c)
         \/ \E r \in Screenshots : CaptureScreenshot(c, r)
    \/ FrameCaptured \/ AcceptCapturedFrame
    \/ \E r \in Screenshots : ScreenshotEncoded(r) \/ ScreenshotTimeout(r)
    \/ Shutdown

CaptureSpec == CaptureInit /\ [][CaptureNext]_captureVars

-----------------------------------------------------------------------------
Answers == {"png", "error", "timeout", "cancelled"}
Shots == [connection : Connections, generation : Nat, timer : BOOLEAN, encoding : BOOLEAN]
         \union {NoShot}
Caps == [active : BOOLEAN, generation : Nat, selected : BOOLEAN,
         shots : [Screenshots -> Shots], answers : [Screenshots -> Seq(Answers)]]

\* Every variable holds a value of its kind.
CaptureTypeOK ==
    /\ connections \subseteq accepted /\ accepted \subseteq Connections
    /\ authenticated \subseteq accepted
    /\ preview \subseteq authenticated /\ hybrid \subseteq authenticated
    /\ writeFailed \in [Connections -> {"none", "queued", "handled"}]
    /\ cap \in Caps
    /\ frames \in Seq(Nat)
    /\ encoding \in [Screenshots -> Nat \union {None}]
    /\ requester \in [Screenshots -> Connections \union {None}]
    /\ shuttingDown \in BOOLEAN
    /\ calls \in 0..MaxCalls

(* A screenshot request is answered at most once, whichever of the frame,  *)
(* the timeout, a restart of the capture and a shutdown come first, and    *)
(* once it is answered nothing waits for it any more.                      *)
AnsweredOnce ==
    \A r \in Screenshots :
        /\ Len(cap.answers[r]) <= 1
        /\ cap.answers[r] # <<>> => cap.shots[r] = NoShot

(* "The backend stops capture ... when its last authenticated client       *)
(* disconnects" (docs/architecture.md): capture runs only while a client   *)
(* is connected.  A pending screenshot belongs to the capture that is      *)
(* running and to a client that is connected, so whoever ends either has   *)
(* dealt with it; a timer or the encoder is working for it, and it gets    *)
(* one answer.                                                             *)
CaptureServesClients ==
    /\ AnsweredOnce
    /\ cap.active => Clients # {}
    /\ \A r \in Pending(cap) :
          /\ IsCurrent(cap.shots[r].generation)
          /\ cap.shots[r].connection \in Clients
          /\ cap.shots[r].timer \/ encoding[r] = cap.generation
=============================================================================
