--------------------------- MODULE NativeConnection ---------------------------
(***************************************************************************)
(* ClientConnection (native/SimViewCore/Sources/SimViewCore/Server.swift): *)
(* one accepted socket, its decoder and authentication deadline on the     *)
(* server queue, and its outgoing control frames and latest preview frame  *)
(* on a write queue of its own, with a lock between the two.               *)
(*                                                                         *)
(* The handlers of requests are other components: a request that has been  *)
(* accepted is answered once, at any later time and in any order, and      *)
(* preview frames are broadcast whenever capture likes.                    *)
(***************************************************************************)
EXTENDS Wire

CONSTANTS MaxControl,   \* controlFrames beyond which the connection is given up
          Unparsable    \* requests whose answer the client may not be able to parse

ASSUME ConnectionAssumption == MaxControl \in Nat \ {0} /\ Unparsable \subseteq Requests

VARIABLES
    accepted, closed,       \* accepted: start() has run; closed: close() has
    authenticated, timer,   \* timer: authenticationTimeout is armed
    buf, lost,              \* the decoder; lost: it takes pieces for heads that are none
    serving,                \* requests whose handlers have not answered
    ctrl, preview,          \* controlFrames, whether there is a previewFrame
    writing,                \* the flag of the same name
    writer,                 \* flushWrites: "idle", "ready" (queued, or at the top of
                            \* its loop), "sending", "dead" (returned after a failure)
    sending, sent,          \* the frame of sendAll and its pieces sent
    failing                 \* connectionWriteFailed is queued on the server queue

reader == <<accepted, authenticated, timer, buf, lost, serving>>
outgoing == <<closed, ctrl, preview, writing, writer, sending, sent, failing>>
connection == <<reader, outgoing>>

Kinds == {"result", "error", "invalid"}
Response(r, kind) == [kind |-> kind, id |-> r]
Preview == [kind |-> "preview", id |-> None]

ConnectionInit ==
    /\ accepted = FALSE /\ closed = FALSE
    /\ authenticated = FALSE /\ timer = FALSE
    /\ buf = <<>> /\ lost = FALSE
    /\ serving = {}
    /\ ctrl = <<>> /\ preview = FALSE
    /\ writing = FALSE /\ writer = "idle"
    /\ sending = None /\ sent = 0
    /\ failing = FALSE

\* acceptConnection and start
Accept ==
    /\ ~accepted
    /\ accepted' = TRUE /\ timer' = TRUE
    /\ UNCHANGED <<authenticated, buf, lost, serving, outgoing, wire>>

-----------------------------------------------------------------------------
\* sendEncoded, the end of it: flushWrites is queued unless it is.
Wake ==
    /\ writing' = TRUE
    /\ writer' = IF writing THEN writer ELSE "ready"

\* sendEncoded of a response
SendControl(frame) ==
    /\ IF closed
       THEN UNCHANGED <<ctrl, writing, writer, failing>>
       ELSE /\ ctrl' = Append(ctrl, frame)
            /\ IF Len(ctrl') > MaxControl
               THEN failing' = TRUE /\ UNCHANGED <<writing, writer>>
               ELSE Wake /\ UNCHANGED failing
    /\ UNCHANGED <<closed, preview, sending, sent>>

\* sendEncoded of a packet of the preview: only the latest one waits.
SendPreview ==
    /\ ~closed
    /\ preview' = TRUE
    /\ IF Len(ctrl) > MaxControl
       THEN failing' = TRUE /\ UNCHANGED <<writing, writer>>
       ELSE Wake /\ UNCHANGED failing
    /\ UNCHANGED <<closed, ctrl, sending, sent>>

\* SimViewServer.disconnect and close()
Disconnect ==
    /\ closed' = TRUE
    /\ ctrl' = <<>> /\ preview' = FALSE
    /\ timer' = FALSE

\* The cancel handler of the read source closes the descriptor.
CloseDescriptor ==
    /\ closed /\ ~serverEnd
    /\ serverEnd' = TRUE
    /\ UNCHANGED <<up, down, clientEnd, connection>>

AuthenticationTimeout ==
    /\ timer /\ ~authenticated
    /\ Disconnect
    /\ UNCHANGED <<accepted, authenticated, buf, lost, serving, writing, writer, sending, sent,
                   failing, wire>>

\* connectionWriteFailed, once the server queue gets to it
WriteFailed ==
    /\ failing
    /\ failing' = FALSE
    /\ Disconnect
    /\ UNCHANGED <<accepted, authenticated, buf, lost, serving, writing, writer, sending, sent, wire>>

-----------------------------------------------------------------------------
\* receive of the frame of request r
Receive(r) ==
    IF authenticated
    THEN /\ serving' = serving \union {r}
         /\ UNCHANGED <<authenticated, timer, outgoing>>
    ELSE \/ /\ r = Hello
            /\ authenticated' = TRUE /\ timer' = FALSE
            /\ SendControl(Response(r, "result"))
            /\ UNCHANGED serving
         \/ \* another method, or a token that is not this backend's
            /\ SendControl(Response(r, "error"))
            /\ UNCHANGED <<authenticated, timer, serving>>

\* readAvailable on a piece the decoder cannot place: it waits for more, or
\* cannot parse what it took for a frame, or gives the connection up.
Garbled ==
    /\ buf' = <<>> /\ lost' = TRUE
    /\ \/ UNCHANGED <<timer, outgoing>>
       \/ SendControl(Response(None, "error")) /\ UNCHANGED timer
       \/ /\ Disconnect
          /\ Wake
          /\ UNCHANGED <<sending, sent, failing>>
    /\ UNCHANGED <<authenticated, serving>>

\* readAvailable
Read ==
    /\ accepted /\ ~closed /\ up # <<>>
    /\ up' = Tail(up)
    /\ \/ /\ Begins(buf, Head(up))
          /\ buf' = <<Head(up)>> /\ lost' = FALSE
          /\ UNCHANGED <<authenticated, timer, serving, outgoing>>
       \/ /\ Completes(buf, Head(up))
          /\ buf' = <<>> /\ UNCHANGED lost
          /\ Receive(Head(up).of)
       \/ /\ lost \/ ~(Begins(buf, Head(up)) \/ Completes(buf, Head(up)))
          /\ Garbled
    /\ UNCHANGED <<accepted, down, clientEnd, serverEnd>>

\* readAvailable at the end of the stream
ReadEnd ==
    /\ accepted /\ ~closed /\ clientEnd /\ up = <<>>
    /\ Disconnect
    /\ UNCHANGED <<accepted, authenticated, buf, lost, serving, writing, writer, sending, sent,
                   failing, wire>>

\* The handler of request r sends its result or error, or what the client
\* takes for neither.
Respond(r, kind) ==
    /\ r \in serving
    /\ kind = "invalid" => r \in Unparsable
    /\ serving' = serving \ {r}
    /\ SendControl(Response(r, kind))
    /\ UNCHANGED <<accepted, authenticated, timer, buf, lost, wire>>

\* broadcast of a preview packet
Broadcast ==
    /\ authenticated
    /\ SendPreview
    /\ UNCHANGED <<reader, wire>>

-----------------------------------------------------------------------------
\* Mutant: the latest preview packet goes first.
MutantPreviewFirst ==
    /\ writer = "ready"
    /\ CASE preview ->
              /\ sending' = Preview /\ preview' = FALSE
              /\ writer' = "sending" /\ UNCHANGED <<ctrl, writing>>
         [] ctrl # <<>> /\ ~preview ->
              /\ sending' = Head(ctrl) /\ ctrl' = Tail(ctrl)
              /\ writer' = "sending" /\ UNCHANGED <<preview, writing>>
         [] OTHER ->
              /\ writer' = "idle" /\ writing' = FALSE
              /\ UNCHANGED <<ctrl, preview, sending>>
    /\ sent' = 0
    /\ UNCHANGED <<reader, closed, failing, wire>>

\* flushWrites, the locked part of its loop: control frames go first.
Take ==
    /\ writer = "ready"
    /\ CASE ctrl # <<>> ->
              /\ sending' = Head(ctrl) /\ ctrl' = Tail(ctrl)
              /\ writer' = "sending" /\ UNCHANGED <<preview, writing>>
         [] ctrl = <<>> /\ preview ->
              /\ sending' = Preview /\ preview' = FALSE
              /\ writer' = "sending" /\ UNCHANGED <<ctrl, writing>>
         [] OTHER ->
              /\ writer' = "idle" /\ writing' = FALSE
              /\ UNCHANGED <<ctrl, preview, sending>>
    /\ sent' = 0
    /\ UNCHANGED <<reader, closed, failing, wire>>

\* sendAll: the kernel takes one more piece.
Send ==
    /\ writer = "sending"
    /\ ~serverEnd /\ Len(down) < Room
    /\ down' = Append(down, Piece(sending, sent + 1))
    /\ IF sent = 1
       THEN sent' = 0 /\ sending' = None /\ writer' = "ready"
       ELSE sent' = 1 /\ UNCHANGED <<sending, writer>>
    /\ UNCHANGED <<reader, closed, ctrl, preview, writing, failing, up, clientEnd, serverEnd>>

\* Mutant: flushWrites returns without telling the server.
MutantSilentWriteFailure ==
    /\ writer = "sending"
    /\ clientEnd \/ serverEnd \/ Len(down) = Room
    /\ writer' = "dead" /\ sending' = None /\ sent' = 0
    /\ UNCHANGED <<reader, closed, ctrl, preview, writing, failing, wire>>

\* sendAll: the peer or the descriptor is gone, or SO_SNDTIMEO has passed.
SendFails ==
    /\ writer = "sending"
    /\ clientEnd \/ serverEnd \/ Len(down) = Room
    /\ writer' = "dead" /\ sending' = None /\ sent' = 0
    /\ failing' = TRUE
    /\ UNCHANGED <<reader, closed, ctrl, preview, writing, wire>>

ConnectionNext ==
    \/ Accept \/ AuthenticationTimeout \/ WriteFailed \/ CloseDescriptor
    \/ Read \/ ReadEnd \/ Broadcast
    \/ Take \/ Send \/ SendFails
    \/ \E r \in Requests, kind \in Kinds : Respond(r, kind)
=============================================================================
