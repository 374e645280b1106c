------------------------------ MODULE ReviewApp ------------------------------
(***************************************************************************)
(* The picture and the annotations of a viewer: packages/app/src/index.tsx *)
(* in its two forms, embedded in an MCP host (packets are polled over the  *)
(* bridge) and in a browser (a socket to the relay).                       *)
(*                                                                         *)
(* Preact renders, and runs layout effects, right after a handler; the     *)
(* effects that own the feed run later (RunEffects), and at the latest     *)
(* before the next render, which is why handlers are guarded by Rendered.  *)
(* A frame stands for its identifier.                                      *)
(***************************************************************************)
EXTENDS Integers, FiniteSets

CONSTANTS
    Devices,
    Nothing,
    MaxFrames, MaxSwitches, MaxComments, MaxDrops, MaxResults    \* bounds

Frames == [device : Devices, number : 0..MaxFrames]

AppAssumption ==
    /\ {MaxFrames, MaxSwitches, MaxComments, MaxDrops, MaxResults} \subseteq Nat
    /\ Nothing \notin Frames

\* The frame the server named last: not one that this viewer has painted.
Unpainted(d) == [device |-> d, number |-> 0]

Ids == 1..MaxComments
Comments == [id : Ids, frame : Frames]

VARIABLES
    embedded,       \* the form of the viewer
    codec,          \* streamCodec
    device, connected, relayed, comments,   \* state: relayed, relayOrigin is set
    phase, mode, inspector,                 \* startupPhase, mode, elementsOpen
    latest, ready, frozen, frozenId,        \* the refs and frozenFrameId
    editor, saving, sent,                   \* editor, a save in progress, sentAnnotationIds
    canvas,         \* the frame that is painted
    video, bitmaps, \* the decoded frame to paint next, JPEGs being decoded
    feed, live,     \* dependencies of the last feed effect, and whether it still runs
    switching,      \* a device switch in progress
    served, stored, \* the server: its device, the annotations it keeps by device
    made, drops, switches, results, nextId  \* counters, bounded

appVars == <<embedded, codec, device, connected, relayed, comments, phase, mode, inspector,
             latest, ready, frozen, frozenId, editor, saving, sent, canvas, video, bitmaps,
             feed, live, switching, served, stored, made, drops, switches, results, nextId>>

stateVars == <<device, connected, relayed, comments>>
pictureVars == <<latest, ready, canvas, video, bitmaps, made>>
freezeVars == <<mode, inspector, frozen, frozenId>>
commentVars == <<editor, saving, sent, nextId>>
feedVars == <<codec, feed, live>>
serverVars == <<switching, served, stored, switches, results>>

Paused == mode = "annotate" \/ inspector

\* What the feed effect depends on; it runs a feed when "on".
Wanted == IF embedded THEN [on |-> connected /\ ~Paused, of |-> device]
                      ELSE [on |-> relayed /\ ~Paused, of |-> codec]

Rendered == feed = Wanted

AppTypeOK ==
    /\ embedded \in BOOLEAN /\ codec \in {"h264", "mjpeg"}
    /\ device \in Devices \cup {Nothing} /\ connected \in BOOLEAN /\ relayed \in BOOLEAN
    /\ comments \subseteq Comments
    /\ phase \in {"connecting", "waiting-for-frame", "ready", "error", "disconnected"}
    /\ mode \in {"interact", "annotate"} /\ inspector \in BOOLEAN
    /\ latest \in Frames \cup {Nothing} /\ canvas \in Frames \cup {Nothing}
    /\ ready \in BOOLEAN /\ frozen \in BOOLEAN /\ frozenId \in Frames \cup {Nothing}
    /\ editor \in [id : {0} \cup Ids, frame : Frames] \cup {Nothing}
    /\ saving \in [id : {0} \cup Ids, frame : Frames] \cup {Nothing} /\ sent \subseteq Ids
    /\ video \in Frames \cup {Nothing} /\ bitmaps \subseteq Frames
    /\ feed.on \in BOOLEAN /\ live \in BOOLEAN
    /\ switching \in [to : Devices, done : BOOLEAN] \cup {Nothing}
    /\ served \in Devices /\ stored \in [Devices -> SUBSET Comments]
    /\ made \in 0..MaxFrames /\ drops \in 0..MaxDrops
    /\ switches \in 0..MaxSwitches
    /\ results \in 0..MaxResults /\ nextId \in 1..(MaxComments + 1)

AppInit ==
    /\ embedded \in BOOLEAN /\ served \in Devices
    /\ codec \in IF embedded THEN {"h264"} ELSE {"h264", "mjpeg"}
    /\ device = (IF embedded THEN served ELSE Nothing) /\ connected = embedded
    /\ relayed = FALSE /\ comments = {}
    /\ phase = (IF embedded THEN "waiting-for-frame" ELSE "connecting")
    /\ mode = "interact" /\ inspector = FALSE
    /\ latest = Nothing /\ ready = FALSE /\ frozen = FALSE /\ frozenId = Nothing
    /\ editor = Nothing /\ saving = Nothing /\ sent = {}
    /\ canvas = Nothing /\ video = Nothing /\ bitmaps = {}
    /\ feed = Wanted /\ live = embedded
    /\ switching = Nothing /\ stored = [d \in Devices |-> {}]
    /\ made = 0 /\ drops = 0 /\ switches = 0 /\ results = 0 /\ nextId = 1

----------------------------------------------------------------------------
(* The feed.                                                               *)

\* The effects: the old feed is stopped with its decoder and the frame that
\* was to be painted (a JPEG that is being decoded stays), the new one begins.
RunEffects ==
    /\ ~Rendered
    /\ feed' = Wanted /\ live' = Wanted.on
    /\ video' = Nothing
    /\ UNCHANGED <<embedded, codec, stateVars, phase, freezeVars, commentVars, serverVars,
                   latest, ready, canvas, bitmaps, made, drops>>

\* consumeFrame: the server's next picture arrives and goes to a decoder.
Receive ==
    /\ live /\ made < MaxFrames
    /\ made' = made + 1
    /\ LET frame == [device |-> served, number |-> made'] IN
       IF codec = "h264" THEN video' = frame /\ UNCHANGED bitmaps
                         ELSE bitmaps' = bitmaps \cup {frame} /\ UNCHANGED video
    /\ UNCHANGED <<embedded, stateVars, phase, freezeVars, commentVars, serverVars, feedVars,
                   latest, ready, canvas, drops>>

\* Draw a frame, commitFrameId it, unless the picture is frozen.
Draw(frame) ==
    IF frozen THEN UNCHANGED <<canvas, latest, ready, phase>>
    ELSE /\ canvas' = frame /\ latest' = frame /\ ready' = TRUE
         /\ phase' = IF ready THEN phase ELSE "ready"

\* Mutant: a frame that was decoded before the picture froze is still drawn.
MutantPaint ==
    /\ video # Nothing
    /\ video' = Nothing
    /\ canvas' = video /\ latest' = video /\ ready' = TRUE /\ phase' = "ready"
    /\ UNCHANGED <<embedded, stateVars, freezeVars, commentVars, serverVars, feedVars,
                   bitmaps, made, drops>>

\* paintLatestVideoFrame, and the end of createImageBitmap.
Paint ==
    /\ video # Nothing
    /\ video' = Nothing
    /\ Draw(video)
    /\ UNCHANGED <<embedded, stateVars, freezeVars, commentVars, serverVars, feedVars,
                   bitmaps, made, drops>>

PaintBitmap == \E b \in bitmaps :
    /\ bitmaps' = bitmaps \ {b}
    /\ Draw(b)
    /\ UNCHANGED <<embedded, stateVars, freezeVars, commentVars, serverVars, feedVars,
                   video, made, drops>>

\* fallbackToMjpeg: a browser changes its codec, which restarts the feed.
Fallback ==
    /\ Rendered /\ live /\ ~embedded /\ codec = "h264"
    /\ codec' = "mjpeg"
    /\ UNCHANGED <<embedded, stateVars, phase, freezeVars, commentVars, serverVars, feed,
                   live, pictureVars, drops>>

\* markDisconnected: the feed has failed, or the bridge has closed.
MarkDisconnected ==
    /\ Rendered /\ live /\ drops < MaxDrops
    /\ drops' = drops + 1 /\ live' = FALSE
    /\ connected' = FALSE /\ phase' = "disconnected"
    /\ UNCHANGED <<embedded, codec, device, relayed, comments, freezeVars, commentVars,
                   serverVars, feed, pictureVars>>

----------------------------------------------------------------------------
(* The state the server sends.                                             *)

\* loadBrowserState.
LoadBrowserState ==
    /\ ~embedded /\ device = Nothing
    /\ device' = served /\ connected' = TRUE /\ relayed' = TRUE
    /\ comments' = stored[served] /\ phase' = "waiting-for-frame"
    /\ UNCHANGED <<embedded, freezeVars, commentVars, serverVars, feedVars, pictureVars, drops>>

\* ontoolresult: the host delivers the result of a tool that shows the review.
ToolResult ==
    /\ Rendered /\ embedded /\ results < MaxResults
    /\ results' = results + 1
    /\ device' = served /\ connected' = TRUE /\ comments' = stored[served]
    /\ phase' = IF phase = "ready" THEN phase ELSE "waiting-for-frame"
    /\ UNCHANGED <<embedded, relayed, freezeVars, commentVars, feedVars, pictureVars,
                   switching, served, stored, switches, drops>>

\* refreshSelectedDeviceState, after an Android touch has failed.
RefreshState ==
    /\ Rendered /\ device # Nothing /\ results < MaxResults
    /\ results' = results + 1
    /\ served' = IF embedded THEN device ELSE served
    /\ device' = served' /\ connected' = TRUE /\ comments' = stored[served']
    /\ UNCHANGED <<embedded, relayed, phase, freezeVars, commentVars, feedVars, pictureVars,
                   switching, stored, switches, drops>>

SelectDevice(d) ==
    /\ Rendered /\ switching = Nothing /\ switches < MaxSwitches
    /\ device \notin {Nothing, d}
    /\ switches' = switches + 1
    /\ switching' = [to |-> d, done |-> FALSE] /\ phase' = "connecting"
    /\ UNCHANGED <<embedded, stateVars, freezeVars, commentVars, feedVars, pictureVars,
                   served, stored, results, drops>>

\* The server has changed its device.
Serve ==
    /\ switching # Nothing /\ ~switching.done
    /\ served' = switching.to /\ switching' = [switching EXCEPT !.done = TRUE]
    /\ UNCHANGED <<embedded, stateVars, phase, freezeVars, commentVars, feedVars, pictureVars,
                   stored, switches, results, drops>>

\* selectDevice goes on: everything of the old device is reset and the state
\* becomes the server's, which knows nothing of relayOrigin.
Switched ==
    /\ Rendered /\ switching # Nothing /\ switching.done
    /\ device' = switching.to /\ connected' = TRUE
    /\ relayed' = FALSE /\ comments' = stored[switching.to]
    /\ phase' = "waiting-for-frame" /\ mode' = "interact" /\ inspector' = FALSE
    /\ frozen' = FALSE /\ frozenId' = Nothing
    /\ latest' \in {Nothing, Unpainted(switching.to)} /\ ready' = FALSE
    /\ editor' = Nothing /\ sent' = {} /\ switching' = Nothing
    /\ UNCHANGED <<embedded, feedVars, saving, nextId, canvas, video, bitmaps, made,
                   served, stored, switches, results, drops>>

SwitchFails ==
    /\ Rendered /\ switching # Nothing
    /\ switching' = Nothing /\ phase' = "error"
    /\ UNCHANGED <<embedded, stateVars, freezeVars, commentVars, feedVars, pictureVars,
                   served, stored, switches, results, drops>>

----------------------------------------------------------------------------
(* Freezing.                                                               *)

Or(a, b) == IF a # Nothing THEN a ELSE b

\* freezePreview does nothing when the picture is frozen.
Freeze ==
    /\ frozen' = TRUE
    /\ frozenId' = IF frozen THEN frozenId ELSE Or(latest, Unpainted(device))

\* The layout effect: unfrozen when the last pause ends.
Thaw(stays) ==
    IF stays THEN UNCHANGED <<frozen, frozenId>> ELSE frozen' = FALSE /\ frozenId' = Nothing

EnterAnnotate ==
    /\ Rendered /\ mode = "interact" /\ device # Nothing
    /\ Freeze /\ mode' = "annotate" /\ editor' = Nothing
    /\ UNCHANGED <<embedded, stateVars, phase, inspector, saving, sent, nextId, feedVars,
                   pictureVars, serverVars, drops>>

\* completeEnterInteractMode.
EnterInteract ==
    /\ mode' = "interact" /\ editor' = Nothing
    /\ Thaw(inspector)
    /\ UNCHANGED inspector

ToggleInspector ==
    /\ Rendered /\ device # Nothing
    /\ inspector' = ~inspector
    /\ IF inspector THEN Thaw(mode = "annotate") ELSE Freeze
    /\ UNCHANGED <<embedded, stateVars, phase, mode, commentVars, feedVars, pictureVars,
                   serverVars, drops>>

----------------------------------------------------------------------------
(* Annotations.                                                            *)

ActiveFrame == IF frozenId # Nothing THEN frozenId ELSE latest
Visible == {c \in comments : c.frame = ActiveFrame}
Unsent == {c \in Visible : c.id \notin sent}

\* onPointerDown and onPointerUp in Annotate: a new annotation of this frame.
Point ==
    /\ Rendered /\ mode = "annotate" /\ editor = Nothing
    /\ editor' = [id |-> 0, frame |-> frozenId]
    /\ UNCHANGED <<embedded, stateVars, phase, freezeVars, saving, sent, nextId, feedVars,
                   pictureVars, serverVars, drops>>

EditAnnotation == \E c \in Visible :
    /\ Rendered /\ editor = Nothing
    /\ editor' = [id |-> c.id, frame |-> c.frame]
    /\ UNCHANGED <<embedded, stateVars, phase, freezeVars, saving, sent, nextId, feedVars,
                   pictureVars, serverVars, drops>>

\* saveComment, up to the call of a browser.
SaveComment ==
    /\ Rendered /\ editor # Nothing /\ saving = Nothing
    /\ editor.id = 0 => nextId <= MaxComments
    /\ saving' = editor
    /\ UNCHANGED <<embedded, stateVars, phase, freezeVars, editor, sent, nextId, feedVars,
                   pictureVars, serverVars, drops>>

\* The annotation is kept: by the relay under its device, or here alone.
Saved ==
    /\ Rendered /\ saving # Nothing
    /\ saving' = Nothing /\ editor' = Nothing
    /\ IF saving.id = 0
       THEN LET c == [id |-> nextId, frame |-> saving.frame] IN
            /\ comments' = comments \cup {c} /\ nextId' = nextId + 1
            /\ stored' = IF embedded THEN stored ELSE [stored EXCEPT ![served] = @ \cup {c}]
            /\ UNCHANGED sent
       ELSE sent' = sent \ {saving.id} /\ UNCHANGED <<comments, nextId, stored>>
    /\ UNCHANGED <<embedded, device, connected, relayed, phase, freezeVars, feedVars,
                   pictureVars, switching, served, switches, results, drops>>

SaveFails ==
    /\ Rendered /\ saving # Nothing
    /\ saving' = Nothing
    /\ UNCHANGED <<embedded, stateVars, phase, freezeVars, editor, sent, nextId, feedVars,
                   pictureVars, serverVars, drops>>

Forget(ids) ==
    /\ comments' = {c \in comments : c.id \notin ids} /\ sent' = sent \ ids
    /\ stored' = IF embedded THEN stored
                 ELSE [stored EXCEPT ![served] = {c \in @ : c.id \notin ids}]

DeleteComment ==
    /\ Rendered /\ editor # Nothing /\ editor.id # 0
    /\ Forget({editor.id}) /\ editor' = Nothing
    /\ UNCHANGED <<embedded, device, connected, relayed, phase, freezeVars, saving, nextId,
                   feedVars, pictureVars, switching, served, switches, results, drops>>

\* sendToChat: the canvas and the visible annotations go to the agent.
SendToChat ==
    /\ Rendered /\ embedded /\ canvas # Nothing /\ Visible # {}
    /\ sent' = sent \cup {c.id : c \in Visible}
    /\ EnterInteract
    /\ UNCHANGED <<embedded, stateVars, phase, saving, nextId, feedVars, pictureVars,
                   serverVars, drops>>

\* enterInteractMode, when nothing unsent would be lost.
LeaveAnnotate ==
    /\ Rendered /\ mode = "annotate" /\ Unsent = {}
    /\ EnterInteract
    /\ UNCHANGED <<embedded, stateVars, phase, saving, sent, nextId, feedVars, pictureVars,
                   serverVars, drops>>

\* clearUnsentAndEnterInteract, once the user has agreed.
Discard ==
    /\ Rendered /\ mode = "annotate" /\ Unsent # {}
    /\ Forget({c.id : c \in Unsent})
    /\ EnterInteract
    /\ UNCHANGED <<embedded, device, connected, relayed, phase, saving, nextId, feedVars,
                   pictureVars, switching, served, switches, results, drops>>

AppNext ==
    \/ RunEffects \/ Receive \/ Paint \/ PaintBitmap \/ Fallback \/ MarkDisconnected
    \/ LoadBrowserState \/ ToolResult \/ RefreshState
    \/ \E d \in Devices : SelectDevice(d)
    \/ Serve \/ Switched \/ SwitchFails
    \/ EnterAnnotate \/ ToggleInspector \/ LeaveAnnotate \/ Discard
    \/ Point \/ EditAnnotation \/ SaveComment \/ Saved \/ SaveFails \/ DeleteComment \/ SendToChat

AppSpec == AppInit /\ [][AppNext]_appVars

----------------------------------------------------------------------------
\* The picture is held exactly while Annotate or the Inspector is on, and what
\* is held is what annotations and exports are named after: whatever was being
\* decoded, painted or fetched when it froze.
FrozenPictureIsNamed ==
    /\ frozen <=> Paused
    /\ frozen /\ ready => canvas = latest /\ frozenId = latest

\* "Browser viewers close their video socket during intentional pauses and
\* reconnect when both pauses end" (docs/architecture.md): a connected viewer
\* that is not paused has a feed.
FeedResumes ==
    connected /\ ~Paused /\ Rendered /\ switching = Nothing => live
=============================================================================
