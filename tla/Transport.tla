------------------------------ MODULE Transport ------------------------------
(***************************************************************************)
(* One client and its connection, joined by the socket: RpcClient and      *)
(* NativeConnection run side by side and share only the wire.              *)
(***************************************************************************)
EXTENDS RpcClient, NativeConnection

vars == <<client, connection, wire>>

Init == WireInit /\ ClientInit /\ ConnectionInit

Next ==
    \/ ClientNext /\ UNCHANGED connection
    \/ ConnectionNext /\ UNCHANGED client

Spec == Init /\ [][Next]_vars

(***************************************************************************)
(* Neither event loop nor dispatch queue starves a block that is ready,    *)
(* and every handler answers.  Nothing is assumed of the timers, of the    *)
(* preview, of abort signals, or of a write failing.                       *)
(***************************************************************************)
Fairness ==
    /\ WF_vars((Connect \/ HelloFails \/ SocketCloses) /\ UNCHANGED connection)
    /\ WF_vars(Drain /\ UNCHANGED connection)
    /\ WF_vars(Data /\ UNCHANGED connection)
    /\ WF_vars((Accept \/ Read \/ ReadEnd) /\ UNCHANGED client)
    /\ WF_vars((WriteFailed \/ CloseDescriptor) /\ UNCHANGED client)
    /\ WF_vars((Take \/ Send) /\ UNCHANGED client)
    /\ \A r \in Requests : WF_vars((\E kind \in Kinds : Respond(r, kind)) /\ UNCHANGED client)

FairSpec == Spec /\ Fairness

-----------------------------------------------------------------------------
(* Properties.                                                             *)

\* The service that client and connection implement together.
Service == INSTANCE CallService WITH calls <- req, open <- life # "shut"

DownFrames == [kind : Kinds, id : Requests \union {None}]
                  \union {Preview}
Pieces(frames) == [of : frames, part : 1..2]

\* Every variable of both ends and of the wire keeps its type; the kernel's
\* buffers and the decoders' stay within their bounds.
TypeOK ==
    /\ up \in Seq(Pieces(Requests)) /\ Len(up) <= Room
    /\ down \in Seq(Pieces(DownFrames)) /\ Len(down) <= Room
    /\ clientEnd \in BOOLEAN /\ serverEnd \in BOOLEAN
    /\ life \in {"opening", "open", "shut"}
    /\ req \in [Requests -> {"idle", "pending"} \union Outcomes]
    /\ queue \in Seq(Requests) /\ offset \in 0..1
    /\ inbuf \in Seq(Pieces(DownFrames)) /\ Len(inbuf) <= 1
    /\ spoiled \in BOOLEAN
    /\ accepted \in BOOLEAN /\ closed \in BOOLEAN
    /\ authenticated \in BOOLEAN /\ timer \in BOOLEAN
    /\ buf \in Seq(Pieces(Requests)) /\ Len(buf) <= 1
    /\ lost \in BOOLEAN
    /\ serving \subseteq Requests
    /\ ctrl \in Seq(DownFrames) /\ preview \in BOOLEAN
    /\ writing \in BOOLEAN
    /\ writer \in {"idle", "ready", "sending", "dead"}
    /\ sending \in DownFrames \union {None} /\ sent \in 0..1
    /\ failing \in BOOLEAN

\* What waits to be written to an open connection has somebody to write it,
\* or the connection is about to be given up: flushWrites clears "writing"
\* and sendEncoded tests it on different threads, and a wake-up lost between
\* them would leave every later answer unsent.
WriterAwake ==
    (~closed /\ (ctrl # <<>> \/ preview)) =>
        writer \in {"ready", "sending"} \/ failing

\* Both ends read frames where the other end wrote frames: what the server
\* has buffered, what is on its way and what the client has queued make up a
\* sequence of whole frames, however the socket splits writes and whichever
\* requests time out or are aborted half-written, until a response that does
\* not parse makes the client drop the rest of a frame.  The same holds in
\* the other direction.
WireIsFramed ==
    /\ ~spoiled => ~lost
    /\ (~spoiled /\ life = "open") => Framed(buf \o up \o Unwritten(queue, offset))
    /\ writer # "dead" =>
         Framed(inbuf \o down \o IF sending = None THEN <<>>
                                 ELSE SubSeq(<<Piece(sending, 1), Piece(sending, 2)>>, sent + 1, 2))

\* A client that has lost its connection owes nobody an answer: whatever the
\* order of overflow, failed writes, closing and late responses, no promise
\* is left pending and nothing is left queued for a later connection.
ShutOwesNothing ==
    life = "shut" => /\ \A r \in Requests : req[r] # "pending"
                     /\ queue = <<>> /\ offset = 0

\* Client and connection implement the service the tasks rely on: nothing is
\* asked before the handshake, nothing is settled twice, an answer settles no
\* call but its own, and the end of the connection, whoever brings it about
\* and in the middle of whichever write, fails everything that is pending.
ServesCalls == Service!Spec

\* No request stays pending without the help of its timer: it is settled by
\* its answer or by the end of the connection, unless the client itself has
\* broken the framing.  Partial writes are resumed, answers overtake the
\* packets of the preview, and a connection that is given up on one side ends
\* on the other.  (Requests are finitely many, so it is enough that none is
\* pending again and again.)
RequestsSettle == []<>(spoiled \/ \A r \in Requests : req[r] # "pending")
=============================================================================
