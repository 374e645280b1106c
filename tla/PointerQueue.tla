----------------------------- MODULE PointerQueue -----------------------------
(***************************************************************************)
(* The pointer of a viewer (packages/app/src/index.tsx): touches become    *)
(* inputs in a queue that one drain sends one after another, with moves    *)
(* coalesced while an earlier input is on its way.                         *)
(***************************************************************************)
EXTENDS Integers, SequencesExt

CONSTANTS
    Pointers, Nobody,
    MaxInputs, MaxFailures, MaxModes    \* bounds

VARIABLES
    raw,            \* capabilities.input.rawTouch
    surface,        \* what a touch of the canvas is for: see Surfaces
    pressed,        \* the pointers that are down on the canvas
    active,         \* activePointer
    gesture,        \* fallbackPointer: the start of a gesture sent whole
    inputs,         \* history: the inputs that were enqueued
    queue,          \* pointerInputQueueRef: positions in "inputs"
    drain,          \* the drain: "idle", "sending", "refreshing"
    sending,        \* the input that is being sent, 0 for none
    delivered,      \* the inputs that have been sent
    lostTo,         \* history: the last input enqueued before a failure
    failures, modes

\* Annotate makes annotations, the Inspector selects elements.
Surfaces == {"device", "annotate", "inspector"}

pointerVars == <<raw, surface, pressed, active, gesture, inputs, queue, drain, sending, delivered,
                 lostTo, failures, modes>>

drainVars == <<sending, delivered, lostTo, failures>>

PointerTypeOK ==
    /\ raw \in BOOLEAN /\ surface \in Surfaces /\ pressed \subseteq Pointers
    /\ active \in Pointers \cup {Nobody} /\ gesture \in Pointers \cup {Nobody}
    /\ inputs \in Seq([phase : {"down", "move", "up"}, contact : Pointers])
    /\ queue \in Seq(DOMAIN inputs) /\ drain \in {"idle", "sending", "refreshing"}
    /\ sending \in {0} \cup DOMAIN inputs /\ delivered \in Seq(DOMAIN inputs)
    /\ lostTo \in 0..Len(inputs) /\ (drain = "sending" <=> sending # 0)

PointerInit ==
    /\ raw \in BOOLEAN /\ surface = "device" /\ pressed = {}
    /\ active = Nobody /\ gesture = Nobody
    /\ inputs = <<>> /\ queue = <<>> /\ drain = "idle" /\ sending = 0 /\ delivered = <<>>
    /\ lostTo = 0 /\ failures = 0 /\ modes = 0

----------------------------------------------------------------------------
\* Mutant: a move takes the place of whatever of its contact waits last.
MutantCoalesces(p, phase) ==
    phase = "move" /\ queue # <<>> /\ inputs[Last(queue)].contact = p

\* A move takes the place of the move of the same contact that waits last.
Coalesces(p, phase) ==
    /\ phase = "move" /\ queue # <<>>
    /\ inputs[Last(queue)] = [phase |-> "move", contact |-> p]

\* enqueuePointerInput, which starts the drain with the first input.
Enqueue(p, phase) ==
    /\ Len(inputs) < MaxInputs
    /\ inputs' = Append(inputs, [phase |-> phase, contact |-> p])
    /\ LET new == Len(inputs')
           waiting == IF Coalesces(p, phase) THEN [queue EXCEPT ![Len(queue)] = new]
                                             ELSE Append(queue, new)
       IN  IF drain = "idle"
           THEN drain' = "sending" /\ sending' = Head(waiting) /\ queue' = Tail(waiting)
           ELSE queue' = waiting /\ UNCHANGED <<drain, sending>>
    /\ UNCHANGED <<delivered, lostTo, failures>>

NoInput == UNCHANGED <<inputs, queue, drain, drainVars>>

\* onPointerDown; a device without raw touch gets the gesture when it ends.
Down(p) ==
    /\ p \notin pressed /\ pressed' = pressed \cup {p}
    /\ IF surface # "device" THEN UNCHANGED <<active, gesture>> /\ NoInput
       ELSE /\ active' = p
            /\ IF raw THEN Enqueue(p, "down") /\ UNCHANGED gesture
                      ELSE gesture' = p /\ NoInput
    /\ UNCHANGED <<raw, surface, modes>>

\* onPointerMove.
Move(p) ==
    /\ surface = "device" /\ active = p /\ gesture # p
    /\ Enqueue(p, "move")
    /\ UNCHANGED <<raw, surface, pressed, active, gesture, modes>>

\* onPointerUp and onPointerCancel; the swipe, press or tap of a gesture is
\* sent at once, outside the queue.
Up(p) ==
    /\ p \in pressed /\ pressed' = pressed \ {p}
    /\ IF surface = "annotate" \/ active # p THEN UNCHANGED <<active, gesture>> /\ NoInput
       ELSE /\ active' = Nobody
            /\ IF gesture = p THEN gesture' = Nobody /\ NoInput
                              ELSE Enqueue(p, "up") /\ UNCHANGED gesture
    /\ UNCHANGED <<raw, surface, modes>>

\* Annotate or the Inspector is entered or left.
ChangeMode ==
    /\ modes < MaxModes /\ modes' = modes + 1
    /\ \E other \in Surfaces \ {surface} : surface' = other
    /\ UNCHANGED <<raw, pressed, active, gesture, inputs, queue, drain, drainVars>>

\* The drain goes on with the next input, or ends.
Continue(waiting) ==
    IF waiting = <<>> THEN drain' = "idle" /\ sending' = 0 /\ queue' = waiting
    ELSE drain' = "sending" /\ sending' = Head(waiting) /\ queue' = Tail(waiting)

\* relayInput has resolved.
Sent ==
    /\ drain = "sending"
    /\ delivered' = Append(delivered, sending)
    /\ Continue(queue)
    /\ UNCHANGED <<raw, surface, pressed, active, gesture, inputs, lostTo, failures, modes>>

\* relayInput has thrown: the queue is emptied, and the state of an Android
\* device is read again before the drain ends.
SendingFails ==
    /\ drain = "sending" /\ failures < MaxFailures
    /\ failures' = failures + 1
    /\ lostTo' = Len(inputs) /\ queue' = <<>> /\ sending' = 0
    /\ drain' \in {"refreshing", "idle"}
    /\ UNCHANGED <<raw, surface, pressed, active, gesture, inputs, delivered, modes>>

\* The finally block: what has been enqueued meanwhile is drained.
Refreshed ==
    /\ drain = "refreshing"
    /\ Continue(queue)
    /\ UNCHANGED <<raw, surface, pressed, active, gesture, inputs, delivered, lostTo, failures, modes>>

PointerNext ==
    \/ \E p \in Pointers : Down(p) \/ Move(p) \/ Up(p)
    \/ ChangeMode \/ Sent \/ SendingFails \/ Refreshed

PointerSpec == PointerInit /\ [][PointerNext]_pointerVars

----------------------------------------------------------------------------
\* The device sees each contact's course as it was drawn: inputs are sent in
\* the order of the events, one at a time, and none is left out but a move
\* that another move of its contact follows, or what a failure gave up.
GestureKeepsItsShape ==
    LET known == {delivered[k] : k \in DOMAIN delivered} \cup {queue[k] : k \in DOMAIN queue} \cup {sending}
        order == delivered \o (IF sending = 0 THEN <<>> ELSE <<sending>>) \o queue
    IN  /\ \A i, j \in DOMAIN order : i < j => order[i] < order[j]
        /\ drain = "idle" => queue = <<>>
        /\ \A i \in DOMAIN inputs \ known : i > lostTo =>
              /\ inputs[i].phase = "move" /\ i < Len(inputs)
              /\ inputs[i + 1] = inputs[i]
=============================================================================
