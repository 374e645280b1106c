------------------------------ MODULE RpcClient ------------------------------
(***************************************************************************)
(* SimViewClient (packages/client/src/client.ts) attached to a shared      *)
(* backend: connect() and its hello, request() with its timer and abort    *)
(* signal, the write queue and partial socket writes, responses, and the   *)
(* ways a connection ends.                                                 *)
(*                                                                         *)
(* Each callback of the socket, each timer and each call runs to           *)
(* completion on the JavaScript thread and is one action.                  *)
(***************************************************************************)
EXTENDS Wire

CONSTANTS MaxQueue,     \* frames in #writeQueue at which request() disconnects
          MayExpire     \* bound: the requests whose timer or abort signal may fire

ASSUME ClientAssumption == MaxQueue \in Nat \ {0} /\ MayExpire \subseteq Requests

VARIABLES
    life,               \* #socket and #connected: "opening", "open", "shut"
    req,                \* request -> "idle", "pending" (in #pending), or how it settled
    queue, offset,      \* #writeQueue, #writeOffset
    inbuf,              \* the chunks of #decoder
    spoiled             \* history: a response that does not parse has made the
                        \* client drop the rest of a frame

client == <<life, req, queue, offset, inbuf, spoiled>>

\* A promise resolves with a result or is rejected.
Outcomes == {"resolved", "failed"}

ClientInit ==
    /\ life = "opening"
    /\ req = [r \in Requests |-> "idle"]
    /\ queue = <<>> /\ offset = 0
    /\ inbuf = <<>>
    /\ spoiled = FALSE

Rejected(rq) == [r \in Requests |-> IF rq[r] = "pending" THEN "failed" ELSE rq[r]]

\* #rejectAll
RejectAll(rq) == req' = Rejected(rq) /\ queue' = <<>> /\ offset' = 0

\* #disconnect
Disconnected(rq) ==
    /\ RejectAll(rq)
    /\ life' = "shut"
    /\ clientEnd' = TRUE
    /\ UNCHANGED <<up, down, serverEnd, inbuf, spoiled>>

\* Mutant: #writeOffset is not reset when a frame has been written.
MutantKeepsOffset(rq, q, o) ==
    \E k \in 0..(2 * Len(q) - o) :
        /\ Len(up) + k <= Room
        /\ up' = up \o SubSeq(Unwritten(q, o), 1, k)
        /\ queue' = SubSeq(q, (o + k) \div 2 + 1, Len(q))
        /\ offset' = o + k
        /\ req' = rq
        /\ life' = "open"
        /\ UNCHANGED <<inbuf, spoiled, down, clientEnd, serverEnd>>

\* #flushWrites: the socket takes some pieces of the queued frames, as many
\* as it likes.
Flush(rq, q, o) ==
    \E k \in 0..(2 * Len(q) - o) :
        /\ Len(up) + k <= Room
        /\ up' = up \o SubSeq(Unwritten(q, o), 1, k)
        /\ queue' = SubSeq(q, (o + k) \div 2 + 1, Len(q))
        /\ offset' = (o + k) % 2
        /\ req' = rq
        /\ life' = "open"
        /\ UNCHANGED <<inbuf, spoiled, down, clientEnd, serverEnd>>

\* #flushWrites on a socket the server has closed: write returns -1.
FlushFails(rq) == serverEnd /\ Disconnected(rq)

-----------------------------------------------------------------------------
\* connect(): the socket is open and hello is sent.
Connect ==
    /\ life = "opening"
    /\ LET rq == [req EXCEPT ![Hello] = "pending"]
       IN  Flush(rq, <<Hello>>, 0) \/ FlushFails(rq)

\* connect() rethrows what became of hello, and attach() closes the client.
HelloFails ==
    /\ life = "open"
    /\ req[Hello] = "failed"
    /\ Disconnected(req)

\* Mutant: the queue is looked at before the promise is registered.
MutantRequestLate(r) ==
    /\ life = "open" /\ req[Hello] = "resolved" /\ req[r] = "idle"
    /\ LET rq == [req EXCEPT ![r] = "pending"]
       IN  \/ /\ Len(queue) >= MaxQueue
              /\ req' = [Rejected(req) EXCEPT ![r] = "pending"]
              /\ queue' = <<>> /\ offset' = 0 /\ life' = "shut" /\ clientEnd' = TRUE
              /\ UNCHANGED <<up, down, serverEnd, inbuf, spoiled>>
           \/ /\ Len(queue) < MaxQueue
              /\ Flush(rq, Append(queue, r), offset) \/ FlushFails(rq)

\* request(): the promise is registered before the queue is looked at, so
\* that the disconnection rejects it too.
Request(r) ==
    /\ life = "open" /\ req[Hello] = "resolved" /\ req[r] = "idle"
    /\ LET rq == [req EXCEPT ![r] = "pending"]
       IN  \/ Len(queue) >= MaxQueue /\ Disconnected(rq)
           \/ /\ Len(queue) < MaxQueue
              /\ Flush(rq, Append(queue, r), offset) \/ FlushFails(rq)

\* The drain callback.
Drain ==
    /\ life = "open" /\ queue # <<>>
    /\ Flush(req, queue, offset) \/ FlushFails(req)

\* Mutant: an expired request is taken out of the write queue.
MutantExpireUnqueues(r) ==
    /\ r \in MayExpire /\ req[r] = "pending"
    /\ req' = [req EXCEPT ![r] = "failed"]
    /\ queue' = SelectSeq(queue, LAMBDA q : q # r)
    /\ offset' = IF queue # <<>> /\ Head(queue) = r THEN 0 ELSE offset
    /\ UNCHANGED <<life, inbuf, spoiled, wire>>

\* The timer or the abort signal of request(); the frame stays in the write
\* queue.
Expire(r) ==
    /\ r \in MayExpire /\ req[r] = "pending"
    /\ req' = [req EXCEPT ![r] = "failed"]
    /\ UNCHANGED <<life, queue, offset, inbuf, spoiled, wire>>

-----------------------------------------------------------------------------
\* Mutant: an answer is not looked up among the pending requests.
MutantSettleLate(r, kind) ==
    /\ req' = [q \in Requests |->
                 IF q # r THEN req[q]
                 ELSE IF kind = "result" THEN "resolved" ELSE "failed"]
    /\ UNCHANGED <<queue, offset, spoiled>>

\* #handle of a response that answers request "r" with "kind".  An answer to
\* a request that is no longer pending is ignored.
Settle(r, kind) ==
    /\ req' = [q \in Requests |->
                 IF q # r \/ req[q] # "pending" THEN req[q]
                 ELSE IF kind = "result" THEN "resolved" ELSE "failed"]
    /\ UNCHANGED <<queue, offset, spoiled>>

\* #handle of a response that does not parse.  The connection stays up.
HandleInvalid ==
    /\ RejectAll(req)
    /\ spoiled' = (spoiled \/ offset = 1)

\* Packets and images go to the handlers of their kind.
HandleData == UNCHANGED <<req, queue, offset, spoiled>>

Handle(frame) ==
    CASE frame.kind = "preview" -> HandleData
      [] frame.kind = "invalid" -> HandleInvalid
      [] OTHER                  -> Settle(frame.id, frame.kind)

\* The data callback takes one more piece.
Data ==
    /\ life = "open" /\ down # <<>>
    /\ down' = Tail(down)
    /\ IF Begins(inbuf, Head(down))
       THEN /\ inbuf' = <<Head(down)>>
            /\ UNCHANGED <<req, queue, offset, spoiled>>
       ELSE /\ inbuf' = <<>>
            /\ Handle(Head(down).of)
    /\ UNCHANGED <<life, up, clientEnd, serverEnd>>

\* The close callback.
SocketCloses ==
    /\ life = "open"
    /\ serverEnd /\ down = <<>>
    /\ Disconnected(req)

\* close() of a client that does not own its backend.
Close ==
    /\ life = "open" /\ req[Hello] = "resolved"
    /\ Disconnected(req)

ClientNext ==
    \/ Connect \/ HelloFails \/ Drain \/ Data \/ SocketCloses \/ Close
    \/ \E r \in Requests : Request(r) \/ Expire(r)
=============================================================================
