--------------------------- MODULE TransportProofs ---------------------------
(***************************************************************************)
(* What Transport promises whatever the number of requests and the room of *)
(* the socket: no wake-up of the native writer is lost, a client that has  *)
(* lost its connection leaves no promise pending, client and connection    *)
(* implement the service of CallService, and both ends read frames where   *)
(* the other end wrote frames.                                             *)
(***************************************************************************)
EXTENDS Transport, SequenceTheorems, TLAPS

-----------------------------------------------------------------------------
(* The native writer.                                                      *)

WriterStates == {"idle", "ready", "sending", "dead"}

\* "writing" says exactly that a flushWrites is queued or running, or has
\* failed; one that has failed is reported until the connection is closed,
\* and while nobody writes nothing waits.
WriterInv ==
    /\ closed \in BOOLEAN /\ writing \in BOOLEAN /\ writer \in WriterStates
    /\ writing <=> writer # "idle"
    /\ (~closed /\ writer = "dead") => failing
    /\ (~closed /\ writer = "idle") => ctrl = <<>> /\ ~preview

LEMMA WriterInit == Init => WriterInv
BY DEF Init, ConnectionInit, WriterInv, WriterStates

\* A frame given to an open connection wakes the writer, or the connection
\* is given up.
LEMMA SendControlKeeps ==
    ASSUME WriterInv, NEW frame, SendControl(frame)
    PROVE  WriterInv'
<1>1. CASE closed
  BY <1>1 DEF WriterInv, WriterStates, SendControl
<1>2. CASE ~closed /\ writer = "idle"
  <2>1. Len(ctrl') = 1
    BY <1>2 DEF WriterInv, SendControl
  <2>2. ~(Len(ctrl') > MaxControl)
    BY <2>1, ConnectionAssumption
  <2> QED
    BY <1>2, <2>2 DEF WriterInv, WriterStates, SendControl, Wake
<1>3. CASE ~closed /\ writer # "idle"
  BY <1>3 DEF WriterInv, WriterStates, SendControl, Wake
<1> QED
  BY <1>1, <1>2, <1>3

LEMMA DisconnectKeeps ==
    ASSUME WriterInv, Disconnect, UNCHANGED <<writing, writer>>
    PROVE  WriterInv'
BY DEF WriterInv, WriterStates, Disconnect

LEMMA WriterStep == WriterInv /\ [Next]_vars => WriterInv'
<1> SUFFICES ASSUME WriterInv, [Next]_vars PROVE WriterInv'
  OBVIOUS
<1>1. ASSUME UNCHANGED outgoing PROVE WriterInv'
  BY <1>1 DEF WriterInv, WriterStates, outgoing
<1>2. CASE UNCHANGED vars
  BY <1>1, <1>2 DEF vars, connection
<1>3. CASE ClientNext /\ UNCHANGED connection
  BY <1>1, <1>3 DEF connection
<1>4. CASE ConnectionNext
  <2>1. CASE Accept
    BY <1>1, <2>1 DEF Accept, outgoing
  <2>2. CASE AuthenticationTimeout
    BY <2>2, DisconnectKeeps DEF AuthenticationTimeout
  <2>3. CASE WriteFailed
    BY <2>3, DisconnectKeeps DEF WriteFailed
  <2>4. CASE CloseDescriptor
    BY <1>1, <2>4 DEF CloseDescriptor, connection
  <2>5. CASE Read
    <3>1. CASE UNCHANGED outgoing
      BY <1>1, <3>1
    <3>2. ASSUME NEW r, Receive(r) PROVE WriterInv'
      BY <1>1, <3>2, SendControlKeeps DEF Receive
    <3>3. ASSUME Garbled PROVE WriterInv'
      <4>1. ASSUME Disconnect, Wake PROVE WriterInv'
        BY <4>1 DEF WriterInv, WriterStates, Disconnect, Wake
      <4> QED
        BY <1>1, <3>3, <4>1, SendControlKeeps DEF Garbled
    <3> QED
      BY <2>5, <3>1, <3>2, <3>3 DEF Read
  <2>6. CASE ReadEnd
    BY <2>6, DisconnectKeeps DEF ReadEnd
  <2>7. CASE Broadcast
    <3>1. ~closed /\ SendPreview
      BY <2>7 DEF Broadcast, SendPreview
    <3>2. writer = "idle" => ~(Len(ctrl) > MaxControl)
      BY <3>1, ConnectionAssumption DEF WriterInv
    <3> QED
      BY <3>1, <3>2 DEF SendPreview, Wake, WriterInv, WriterStates
  <2>8. CASE Take
    BY <2>8 DEF Take, WriterInv, WriterStates
  <2>9. CASE Send
    BY <2>9 DEF Send, WriterInv, WriterStates
  <2>10. CASE SendFails
    BY <2>10 DEF SendFails, WriterInv, WriterStates
  <2>11. ASSUME NEW r \in Requests, NEW kind \in Kinds, Respond(r, kind)
         PROVE  WriterInv'
    BY <2>11, SendControlKeeps DEF Respond
  <2> QED
    BY <1>4, <2>1, <2>2, <2>3, <2>4, <2>5, <2>6, <2>7, <2>8, <2>9, <2>10, <2>11
       DEF ConnectionNext
<1> QED
  BY <1>2, <1>3, <1>4 DEF Next

\* No wake-up of the native writer is lost: whatever waits on an open
\* connection has a flushWrites to write it, or its end is under way.
THEOREM NoLostWakeup == Spec => []WriterAwake
<1>1. WriterInv => WriterAwake
  BY DEF WriterInv, WriterStates, WriterAwake
<1> QED
  BY WriterInit, WriterStep, <1>1, PTL DEF Spec

-----------------------------------------------------------------------------
(* The client.                                                             *)

ClientInv ==
    /\ req \in [Requests -> {"idle", "pending"} \union Outcomes]
    /\ life \in {"opening", "open", "shut"}
    /\ ShutOwesNothing

LEMMA ClientInitially == Init => ClientInv
BY DEF Init, ClientInit, ClientInv, ShutOwesNothing

\* #disconnect settles every promise of the table it is given.
LEMMA DisconnectedSettles ==
    ASSUME NEW rq \in [Requests -> {"idle", "pending"} \union Outcomes], Disconnected(rq)
    PROVE  ClientInv'
BY DEF Disconnected, RejectAll, Rejected, Outcomes, ClientInv, ShutOwesNothing

\* A client that writes is open, so it owes nothing for having been shut.
LEMMA FlushKeeps ==
    ASSUME NEW rq \in [Requests -> {"idle", "pending"} \union Outcomes], NEW q, NEW o,
           Flush(rq, q, o) \/ FlushFails(rq)
    PROVE  ClientInv'
<1>1. CASE Flush(rq, q, o)
  BY <1>1 DEF Flush, ClientInv, ShutOwesNothing
<1>2. CASE FlushFails(rq)
  BY <1>2, DisconnectedSettles DEF FlushFails
<1> QED
  BY <1>1, <1>2

LEMMA ClientStep == ClientInv /\ [Next]_vars => ClientInv'
<1> SUFFICES ASSUME ClientInv, [Next]_vars PROVE ClientInv'
  OBVIOUS
<1> USE WireAssumption DEF ClientInv
<1>1. CASE UNCHANGED client
  BY <1>1 DEF client, ShutOwesNothing
<1>2. CASE ClientNext
  <2>1. CASE Connect
    BY <2>1, FlushKeeps DEF Connect
  <2>2. CASE HelloFails \/ SocketCloses \/ Close
    BY <2>2, DisconnectedSettles DEF HelloFails, SocketCloses, Close
  <2>3. CASE Drain
    BY <2>3, FlushKeeps DEF Drain
  <2>4. CASE Data
    <3>1. life' = "open"
      BY <2>4 DEF Data
    <3>2. req' \in [Requests -> {"idle", "pending"} \union Outcomes]
      BY <2>4 DEF Data, Handle, HandleData, HandleInvalid, Settle, RejectAll, Rejected, Outcomes
    <3> QED
      BY <3>1, <3>2 DEF ShutOwesNothing
  <2>5. ASSUME NEW r \in Requests, Request(r) PROVE ClientInv'
    <3> DEFINE rq == [req EXCEPT ![r] = "pending"]
    <3>1. rq \in [Requests -> {"idle", "pending"} \union Outcomes]
      OBVIOUS
    <3> QED
      BY <2>5, <3>1, FlushKeeps, DisconnectedSettles DEF Request
  <2>6. ASSUME NEW r \in Requests, Expire(r) PROVE ClientInv'
    BY <2>6 DEF Expire, ShutOwesNothing, Outcomes
  <2> QED
    BY <1>2, <2>1, <2>2, <2>3, <2>4, <2>5, <2>6 DEF ClientNext
<1> QED
  BY <1>1, <1>2 DEF Next, vars

\* Whatever ends a connection, no promise of the client is left pending and
\* no frame is left in its write queue.
THEOREM ShutSettlesAll == Spec => []ShutOwesNothing
<1>1. ClientInv => ShutOwesNothing
  BY DEF ClientInv
<1> QED
  BY ClientInitially, ClientStep, <1>1, PTL DEF Spec

-----------------------------------------------------------------------------
(* The client and its connection implement the service.                    *)

serviceVars == <<req, life # "shut">>

\* #disconnect ends the service, with the table it is given.
LEMMA DisconnectedEnds ==
    ASSUME ClientInv, life # "shut",
           NEW rq, Disconnected(rq),
           \/ rq = req
           \/ \E r \in Requests : Service!Issuable(r) /\ rq = Service!Issued(r)
    PROVE  Service!End
<1>1. req' = Service!Abandoned(rq) /\ life' = "shut"
  BY DEF Disconnected, RejectAll, Rejected, Service!Abandoned
<1> QED
  BY <1>1 DEF Service!End

\* A call that is made and written, or that finds the connection gone.
LEMMA CallServed ==
    ASSUME ClientInv, NEW r \in Requests, Service!Issuable(r),
           NEW q, NEW o,
           Flush(Service!Issued(r), q, o) \/ FlushFails(Service!Issued(r))
    PROVE  Service!Next
<1>1. life # "shut"
  BY DEF Service!Issuable
<1>2. CASE Flush(Service!Issued(r), q, o)
  <2>1. req' = Service!Issued(r) /\ life' = "open"
    BY <1>2 DEF Flush
  <2> QED
    BY <1>1, <2>1 DEF Service!Next, Service!Issue
<1>3. CASE FlushFails(Service!Issued(r))
  BY <1>1, <1>3, DisconnectedEnds DEF FlushFails, Service!Next
<1> QED
  BY <1>2, <1>3

\* Nothing has been asked of a connection that is still opening.
OpeningInv == life = "opening" => \A r \in Requests : req[r] = "idle"

LEMMA OpeningStep == OpeningInv /\ [Next]_vars => OpeningInv'
<1> SUFFICES ASSUME OpeningInv, [Next]_vars, life' = "opening" PROVE UNCHANGED <<life, req>>
  BY DEF OpeningInv
<1>1. CASE UNCHANGED client
  BY <1>1 DEF client
<1>2. CASE ClientNext
  <2>1. ~(Connect \/ HelloFails \/ SocketCloses \/ Close \/ Drain \/ Data)
    BY DEF Connect, HelloFails, SocketCloses, Close, Drain, Data, Flush, FlushFails, Disconnected
  <2>2. ASSUME NEW r \in Requests PROVE ~Request(r)
    BY <2>2 DEF Request, Flush, FlushFails, Disconnected
  <2>3. ASSUME NEW r \in Requests PROVE ~Expire(r)
    BY <2>3 DEF Expire, OpeningInv
  <2> QED
    BY <1>2, <2>1, <2>2, <2>3 DEF ClientNext
<1> QED
  BY <1>1, <1>2 DEF Next, vars

LEMMA ServiceStep == ClientInv /\ OpeningInv /\ [Next]_vars => [Service!Next]_serviceVars
<1> SUFFICES ASSUME ClientInv, OpeningInv, [Next]_vars PROVE [Service!Next]_serviceVars
  OBVIOUS
<1> USE WireAssumption
<1>1. CASE UNCHANGED client
  BY <1>1 DEF client, serviceVars
<1>2. CASE ClientNext
  <2>1. CASE Connect
    <3>1. life # "shut"
      BY <2>1 DEF Connect
    <3>2. req[Hello] = "idle"
      BY <2>1 DEF Connect, OpeningInv
    <3>3. Service!Issuable(Hello)
      BY <3>1, <3>2 DEF Service!Issuable
    <3> QED
      BY <2>1, <3>3, CallServed DEF Connect, Service!Issued
  <2>2. CASE HelloFails \/ SocketCloses \/ Close
    <3>1. life # "shut" /\ Disconnected(req)
      BY <2>2 DEF HelloFails, SocketCloses, Close
    <3> QED
      BY <3>1, DisconnectedEnds DEF Service!Next
  <2>3. CASE Drain
    <3>1. life # "shut"
      BY <2>3 DEF Drain
    <3>2. CASE Flush(req, queue, offset)
      BY <2>3, <3>2 DEF Flush, Drain, serviceVars
    <3>3. CASE FlushFails(req)
      BY <3>1, <3>3, DisconnectedEnds DEF FlushFails, Service!Next
    <3> QED
      BY <2>3, <3>2, <3>3 DEF Drain
  <2>4. CASE Data
    <3>1. life = "open" /\ life' = "open"
      BY <2>4 DEF Data
    <3>2. CASE UNCHANGED req
      BY <3>1, <3>2 DEF serviceVars
    <3>3. CASE HandleInvalid
      <4>1. req' = Service!Abandoned(req)
        BY <3>3 DEF HandleInvalid, RejectAll, Rejected, Service!Abandoned
      <4> QED
        BY <3>1, <4>1 DEF Service!Abandon, Service!Next
    <3>4. ASSUME NEW r, NEW kind, Settle(r, kind) PROVE [Service!Next]_serviceVars
      <4> DEFINE outcome == IF kind = "result" THEN "resolved" ELSE "failed"
      <4>1. CASE r \in Requests /\ req[r] = "pending"
        <5>1. req' = [req EXCEPT ![r] = outcome]
          BY <3>4, <4>1 DEF Settle, ClientInv
        <5> QED
          BY <3>1, <4>1, <5>1 DEF Service!Answer, Service!Next
      <4>2. CASE ~(r \in Requests /\ req[r] = "pending")
        <5>1. req' = req
          BY <3>4, <4>2 DEF Settle, ClientInv
        <5> QED
          BY <3>1, <5>1 DEF serviceVars
      <4> QED
        BY <4>1, <4>2
    <3> QED
      BY <2>4, <3>2, <3>3, <3>4 DEF Data, Handle, HandleData
  <2>5. ASSUME NEW r \in Requests, Request(r) PROVE [Service!Next]_serviceVars
    <3>1. Service!Issuable(r) /\ life # "shut"
      BY <2>5 DEF Request, Service!Issuable
    <3>2. CASE Disconnected(Service!Issued(r))
      BY <3>1, <3>2, DisconnectedEnds DEF Service!Next
    <3> QED
      BY <2>5, <3>1, <3>2, CallServed DEF Request, Service!Issued
  <2>6. ASSUME NEW r \in Requests, Expire(r) PROVE [Service!Next]_serviceVars
    <3>1. life # "shut" /\ life' = life /\ req[r] = "pending"
      BY <2>6 DEF Expire, ClientInv, ShutOwesNothing
    <3>2. req' = [req EXCEPT ![r] = "failed"]
      BY <2>6 DEF Expire
    <3> QED
      BY <3>1, <3>2 DEF Service!Answer, Service!Next
  <2> QED
    BY <1>2, <2>1, <2>2, <2>3, <2>4, <2>5, <2>6 DEF ClientNext
<1> QED
  BY <1>1, <1>2 DEF Next, vars

\* Client and connection implement the service of CallService, whatever the
\* number of requests, the room of the socket and the limits of the queues.
THEOREM Implements == Spec => ServesCalls
<1>1. Init => Service!Init
  BY DEF Init, ClientInit, Service!Init
<1>2. Init => OpeningInv
  BY DEF Init, ClientInit, OpeningInv
<1> QED
  BY ClientInitially, ClientStep, OpeningStep, ServiceStep, <1>1, <1>2, PTL DEF Spec, ServesCalls, Service!Spec, serviceVars

-----------------------------------------------------------------------------
(* Streams of pieces.                                                      *)

LEMMA ShortSequences ==
    ASSUME NEW S
    PROVE  /\ \A s : s = <<>> => s \in Seq(S) /\ Len(s) = 0 /\ Len(s) <= 1
           /\ \A x \in S : \A s : s = <<x>> => s \in Seq(S) /\ Len(s) = 1 /\ Len(s) <= 1 /\ s # <<>>
<1>1. <<>> \in Seq(S) /\ Len(<<>>) = 0 /\ Len(<<>>) <= 1
  OBVIOUS
<1>2. ASSUME NEW x \in S PROVE <<x>> \in Seq(S) /\ Len(<<x>>) = 1 /\ Len(<<x>>) <= 1 /\ <<x>> # <<>>
  OBVIOUS
<1> QED
  BY <1>1, <1>2, Zenon

LEMMA Singleton ==
    ASSUME NEW S, NEW s \in Seq(S), Len(s) <= 1, s # <<>>
    PROVE  Len(s) = 1
<1>1. Len(s) \in Nat \ {0}
  BY EmptySeq
<1>2. ASSUME NEW n \in Nat \ {0}, n <= 1 PROVE n = 1
  BY <1>2
<1> QED
  BY <1>1, <1>2, Zenon

\* A pair of pieces, put together and taken apart.
LEMMA PairOfPieces ==
    ASSUME NEW S, NEW x \in S, NEW y \in S
    PROVE  /\ <<x, y>> \in Seq(S) /\ <<x>> \o <<y>> = <<x, y>>
           /\ SubSeq(<<x, y>>, 1, 2) = <<x, y>>
           /\ SubSeq(<<x, y>>, 2, 2) = <<y>>
<1>1. /\ <<x, y>> \in Seq(S) /\ Len(<<x, y>>) = 2
      /\ <<x, y>>[1] = x /\ <<x, y>>[2] = y
  OBVIOUS
<1>2. /\ <<x>> \in Seq(S) /\ Len(<<x>>) = 1 /\ <<x>>[1] = x
      /\ <<y>> \in Seq(S) /\ Len(<<y>>) = 1 /\ <<y>>[1] = y
  OBVIOUS
<1>3. <<x>> \o <<y>> = <<x, y>>
  <2>1. ASSUME NEW a \in Seq(S), NEW b \in Seq(S), NEW c \in Seq(S),
               Len(a) = 1, Len(b) = 1, Len(c) = 2, a[1] = c[1], b[1] = c[2]
        PROVE  a \o b = c
    <3>1. /\ a \o b \in Seq(S) /\ Len(a \o b) = 2
          /\ (a \o b)[1] = a[1] /\ (a \o b)[2] = b[1]
      <4>1. /\ a \o b \in Seq(S) /\ Len(a \o b) = Len(a) + Len(b)
            /\ \A i \in 1..Len(a) + Len(b) :
                 (a \o b)[i] = IF i <= Len(a) THEN a[i] ELSE b[i - Len(a)]
        BY ConcatProperties, Zenon
      <4>2. Len(a) + Len(b) = 2
        BY <2>1
      <4>3. /\ 1 \in 1..2 /\ 1 <= 1
            /\ 2 \in 1..2 /\ ~(2 <= 1) /\ 2 - 1 = 1
        OBVIOUS
      <4> QED
        BY <2>1, <4>1, <4>2, <4>3, Zenon
    <3>2. \A i \in 1..2 : i = 1 \/ i = 2
      OBVIOUS
    <3>3. \A i \in 1..Len(a \o b) : (a \o b)[i] = c[i]
      BY <2>1, <3>1, <3>2
    <3> QED
      BY <2>1, <3>1, <3>3, SeqEqual
  <2> QED
    BY <1>1, <1>2, <2>1, Zenon
<1>4. SubSeq(<<x, y>>, 1, 2) = <<x, y>>
  <2>1. ASSUME NEW c \in Seq(S), Len(c) = 2 PROVE SubSeq(c, 1, 2) = c
    BY <2>1, SubSeqFull
  <2> QED
    BY <1>1, <2>1, Zenon
<1>5. SubSeq(<<x, y>>, 2, 2) = <<y>>
  <2>1. ASSUME NEW c \in Seq(S), NEW b \in Seq(S), Len(c) = 2, Len(b) = 1, b[1] = c[2]
        PROVE  SubSeq(c, 2, 2) = b
    <3>1. /\ \A i \in 2..2 : c[i] \in S
          /\ 2 \in Int
      <4>1. \A i \in 2..2 : i \in 1..Len(c)
        BY <2>1
      <4> QED
        BY <4>1, ElementOfSeq
    <3>2. /\ SubSeq(c, 2, 2) \in Seq(S)
          /\ Len(SubSeq(c, 2, 2)) = IF 2 <= 2 THEN 2 - 2 + 1 ELSE 0
          /\ \A i \in 1..(2 - 2 + 1) : SubSeq(c, 2, 2)[i] = c[2 + i - 1]
      BY <3>1, SubSeqProperties
    <3>3. Len(SubSeq(c, 2, 2)) = 1 /\ SubSeq(c, 2, 2)[1] = c[2]
      BY <3>2
    <3>4. \A i \in 1..Len(SubSeq(c, 2, 2)) : SubSeq(c, 2, 2)[i] = b[i]
      BY <2>1, <3>3
    <3> QED
      BY <2>1, <3>2, <3>3, <3>4, SeqEqual
  <2> QED
    BY <1>1, <1>2, <2>1, Zenon
<1> QED
  BY <1>1, <1>3, <1>4, <1>5

LEMMA Associated ==
    ASSUME NEW S, NEW x \in Seq(S), NEW y \in Seq(S), NEW a \in Seq(S), NEW h \in Seq(S)
    PROVE  /\ x \o (y \o a) = (x \o y) \o a
           /\ Framed(x \o y \o (a \o h)) <=> Framed(x \o (y \o a) \o h)
           /\ Framed(x \o y \o (a \o h)) <=> Framed((x \o y \o a) \o h)
<1>1. x \o y \in Seq(S)
  BY ConcatProperties
<1>2. \A u \in Seq(S) : (u \o a) \o h = u \o (a \o h)
  BY SMT
<1>3. (x \o y) \o a = x \o (y \o a)
  BY SMT
<1>4. ((x \o y) \o a) \o h = (x \o y) \o (a \o h)
  BY <1>1, <1>2, Zenon
<1> QED
  BY <1>3, <1>4, Zenon

\* Where one part of a stream ends and the next begins does not matter.
LEMMA FramedRegrouped ==
    ASSUME NEW S, NEW x \in Seq(S), NEW y \in Seq(S), NEW a \in Seq(S), NEW h \in Seq(S),
           NEW z, z = y \o a, NEW w, w = a \o h
    PROVE  /\ Framed(x \o y \o w) <=> Framed(x \o z \o h)
           /\ Framed(x \o y \o w) <=> Framed((x \o y \o a) \o h)
<1>1. /\ Framed(x \o y \o (a \o h)) <=> Framed(x \o (y \o a) \o h)
      /\ Framed(x \o y \o (a \o h)) <=> Framed((x \o y \o a) \o h)
  BY Associated, Zenon
<1> QED
  BY <1>1, Zenon

\* What a decoder does with the next piece of a framed stream: with an empty
\* buffer it is a head and stays with the stream; otherwise it completes the
\* frame in the buffer, and what is left is framed.
LEMMA FramedConsumed ==
    ASSUME NEW S, NEW b \in Seq(S), NEW u \in Seq(S), NEW r \in Seq(S),
           Len(b) <= 1, u # <<>>, Framed(b \o u \o r)
    PROVE  /\ Tail(u) \in Seq(S) /\ Len(Tail(u)) = Len(u) - 1
           /\ b = <<>> => /\ Begins(b, Head(u))
                          /\ Framed(<<Head(u)>> \o Tail(u) \o r)
           /\ b # <<>> => /\ ~Begins(b, Head(u)) /\ Completes(b, Head(u))
                          /\ Framed(<<>> \o Tail(u) \o r)
<1> DEFINE s == b \o u \o r
<1>1. /\ Len(u) \in Nat \ {0} /\ Len(r) \in Nat /\ Len(b) \in 0..1
      /\ Head(u) = u[1] /\ Head(u) \in S /\ Tail(u) \in Seq(S) /\ Len(Tail(u)) = Len(u) - 1
  <2>1. Len(u) \in Nat \ {0} /\ Len(r) \in Nat /\ Len(b) \in Nat
    BY EmptySeq, LenProperties
  <2>2. Head(u) \in S /\ Tail(u) \in Seq(S) /\ Len(Tail(u)) = Len(u) - 1
    BY HeadTailProperties
  <2>3. ASSUME NEW n \in Nat, n <= 1 PROVE n \in 0..1
    BY <2>3
  <2>4. Len(b) \in 0..1
    BY <2>1, <2>3, Zenon
  <2> QED
    BY <2>1, <2>2, <2>4
<1>2. /\ Len(s) = Len(b) + Len(u) + Len(r)
      /\ s[Len(b) + 1] = Head(u)
  BY <1>1
<1>3. \A i \in 1..Len(s) :
        /\ s[i].part = IF i % 2 = 1 THEN 1 ELSE 2
        /\ i % 2 = 0 => s[i].of = s[i - 1].of
  BY DEF Framed
<1>4. CASE b = <<>>
  <2>1. <<Head(u)>> \o Tail(u) \o r = s
    <3>1. <<Head(u)>> \o Tail(u) = u
      BY <1>1, <1>4
    <3> QED
      BY <1>4, <3>1, ConcatEmptySeq
  <2>2. s[1] = Head(u) /\ s[1].part = 1
    BY <1>1, <1>2, <1>3, <1>4
  <2> QED
    BY <1>1, <1>4, <2>1, <2>2 DEF Begins
<1>5. CASE b # <<>>
  <2>1. Len(b) = 1
    BY <1>1, <1>5, EmptySeq
  <2>2. s[1] = b[1] /\ s[2] = Head(u)
    BY <1>1, <1>2, <2>1
  <2>3. s[2].part = 2 /\ s[2].of = s[1].of
    <3>1. 2 \in 1..Len(s) /\ 2 % 2 = 0 /\ 2 - 1 = 1
      BY <1>1, <1>2, <2>1
    <3> QED
      BY <1>3, <3>1
  <2> DEFINE t == <<>> \o Tail(u) \o r
  <2>4. t = Tail(u) \o r
    BY <1>1, ConcatEmptySeq
  <2>5. /\ Len(t) = Len(s) - 2
        /\ \A i \in 1..Len(t) : t[i] = s[i + 2]
    BY <1>1, <1>2, <2>1, <2>4
  <2>6. Framed(t)
    <3> SUFFICES ASSUME NEW i \in 1..Len(t)
                 PROVE  /\ t[i].part = IF i % 2 = 1 THEN 1 ELSE 2
                        /\ i % 2 = 0 => t[i].of = t[i - 1].of
      BY DEF Framed
    <3>1. i + 2 \in 1..Len(s) /\ (i + 2) % 2 = i % 2 /\ t[i] = s[i + 2]
      BY <1>1, <1>2, <2>1, <2>5
    <3>2. i % 2 = 0 => t[i - 1] = s[i + 1]
      <4>1. i % 2 = 0 => i - 1 \in 1..Len(t) /\ (i - 1) + 2 = i + 1 /\ (i + 2) - 1 = i + 1
        <5>1. ASSUME NEW n \in Nat, NEW j \in 1..n, j % 2 = 0
              PROVE  j - 1 \in 1..n /\ (j - 1) + 2 = j + 1 /\ (j + 2) - 1 = j + 1
          BY <5>1
        <5>2. Len(t) \in Nat
          BY <1>1, <2>4
        <5> QED
          BY <5>1, <5>2, Zenon
      <4> QED
        BY <2>5, <4>1
    <3>3. (i + 2) - 1 = i + 1
      BY <1>1, <1>2, <2>1, <2>5
    <3> QED
      BY <1>3, <3>1, <3>2, <3>3
  <2> QED
    BY <1>1, <1>5, <2>2, <2>3, <2>6 DEF Begins, Completes
<1> QED
  BY <1>1, <1>4, <1>5

\* Dropping what has not been written leaves a framed stream.
LEMMA FramedPrefix ==
    ASSUME NEW S, NEW s \in Seq(S), NEW t \in Seq(S), Framed(s \o t)
    PROVE  Framed(s)
<1>1. Len(s) \in Nat /\ Len(t) \in Nat /\ Len(s \o t) = Len(s) + Len(t)
  BY LenProperties
<1>2. \A i \in 1..Len(s) : (s \o t)[i] = s[i]
  BY <1>1
<1> SUFFICES ASSUME NEW i \in 1..Len(s)
             PROVE  /\ s[i].part = IF i % 2 = 1 THEN 1 ELSE 2
                    /\ i % 2 = 0 => s[i].of = s[i - 1].of
  BY DEF Framed
<1>3. i \in 1..Len(s \o t) /\ (i % 2 = 0 => i - 1 \in 1..Len(s))
  BY <1>1
<1> QED
  BY <1>2, <1>3 DEF Framed

\* A whole frame may follow a stream of whole frames.
LEMMA FramedExtended ==
    ASSUME NEW S, NEW s \in Seq(S), Len(s) % 2 = 0, Framed(s),
           NEW f, Piece(f, 1) \in S, Piece(f, 2) \in S
    PROVE  Framed(s \o <<Piece(f, 1), Piece(f, 2)>>)
<1> DEFINE w == <<Piece(f, 1), Piece(f, 2)>>
           t == s \o w
<1>1. Len(s) \in Nat /\ w \in Seq(S) /\ Len(w) = 2
  BY LenProperties
<1>2. /\ Len(t) = Len(s) + 2
      /\ \A i \in 1..Len(s) : t[i] = s[i]
      /\ t[Len(s) + 1] = Piece(f, 1) /\ t[Len(s) + 2] = Piece(f, 2)
  BY <1>1
<1> SUFFICES ASSUME NEW i \in 1..Len(t)
             PROVE  /\ t[i].part = IF i % 2 = 1 THEN 1 ELSE 2
                    /\ i % 2 = 0 => t[i].of = t[i - 1].of
  BY DEF Framed
<1>3. CASE i \in 1..Len(s)
  <2>1. i % 2 = 0 => i - 1 \in 1..Len(s)
    BY <1>1, <1>3
  <2> QED
    BY <1>2, <1>3, <2>1 DEF Framed
<1>4. CASE i = Len(s) + 1
  <2>1. i % 2 = 1
    BY <1>1, <1>4
  <2> QED
    BY <1>2, <1>4, <2>1 DEF Piece
<1>5. CASE i = Len(s) + 2
  <2>1. i % 2 = 0 /\ i - 1 = Len(s) + 1
    BY <1>1, <1>5
  <2> QED
    BY <1>2, <1>5, <2>1 DEF Piece
<1> QED
  BY <1>1, <1>2, <1>3, <1>4, <1>5

-----------------------------------------------------------------------------
LEMMA UnwrittenType ==
    ASSUME NEW q \in Seq(Requests), NEW o \in 0..1, o = 1 => q # <<>>
    PROVE  /\ Unwritten(q, o) \in Seq(Pieces(Requests))
           /\ Len(Unwritten(q, o)) = 2 * Len(q) - o
           /\ 2 * Len(q) - o \in Nat
           /\ \A i \in 1..(2 * Len(q) - o) :
                Unwritten(q, o)[i] = Piece(q[(i + o + 1) \div 2], IF (i + o) % 2 = 1 THEN 1 ELSE 2)
<1>1. Len(q) \in Nat /\ 2 * Len(q) - o \in Nat
  BY EmptySeq, LenProperties
<1>2. ASSUME NEW i \in 1..(2 * Len(q) - o)
      PROVE  Piece(q[(i + o + 1) \div 2], IF (i + o) % 2 = 1 THEN 1 ELSE 2) \in Pieces(Requests)
  <2>1. (i + o + 1) \div 2 \in 1..Len(q)
    BY <1>1
  <2>2. q[(i + o + 1) \div 2] \in Requests
    BY <2>1, ElementOfSeq
  <2> QED
    BY <2>2 DEF Piece, Pieces
<1>3. Unwritten(q, o) \in [1..(2 * Len(q) - o) -> Pieces(Requests)]
  BY <1>2 DEF Unwritten
<1>4. ASSUME NEW n \in Nat, NEW T, NEW f \in [1..n -> T] PROVE f \in Seq(T) /\ Len(f) = n
  BY <1>4
<1>5. Unwritten(q, o) \in Seq(Pieces(Requests)) /\ Len(Unwritten(q, o)) = 2 * Len(q) - o
  BY <1>1, <1>3, <1>4
<1> QED
  BY <1>1, <1>5 DEF Unwritten

\* One more request is one more frame at the end of what is unwritten.
LEMMA UnwrittenAppended ==
    ASSUME NEW q \in Seq(Requests), NEW o \in 0..1, o = 1 => q # <<>>, NEW r \in Requests
    PROVE  Unwritten(Append(q, r), o) = Unwritten(q, o) \o <<Piece(r, 1), Piece(r, 2)>>
<1> DEFINE w == <<Piece(r, 1), Piece(r, 2)>>
           n == 2 * Len(q) - o
<1>1. w \in Seq(Pieces(Requests)) /\ Len(w) = 2 /\ w[1] = Piece(r, 1) /\ w[2] = Piece(r, 2)
  BY DEF Pieces, Piece
<1>2. /\ Append(q, r) \in Seq(Requests) /\ Append(q, r) # <<>> /\ Len(Append(q, r)) = Len(q) + 1
      /\ \A i \in 1..Len(q) : Append(q, r)[i] = q[i]
      /\ Append(q, r)[Len(q) + 1] = r
  BY AppendProperties
<1>3. /\ Unwritten(q, o) \in Seq(Pieces(Requests)) /\ Len(Unwritten(q, o)) = n /\ n \in Nat
      /\ \A i \in 1..n : Unwritten(q, o)[i] = Piece(q[(i + o + 1) \div 2], IF (i + o) % 2 = 1 THEN 1 ELSE 2)
  BY UnwrittenType
<1>4. /\ Unwritten(Append(q, r), o) \in Seq(Pieces(Requests))
      /\ Len(Unwritten(Append(q, r), o)) = n + 2
      /\ \A i \in 1..(n + 2) : Unwritten(Append(q, r), o)[i] =
           Piece(Append(q, r)[(i + o + 1) \div 2], IF (i + o) % 2 = 1 THEN 1 ELSE 2)
  <2>1. 2 * Len(Append(q, r)) - o = n + 2
    BY <1>2
  <2> QED
    BY <1>2, <2>1, UnwrittenType
<1>5. /\ Unwritten(q, o) \o w \in Seq(Pieces(Requests)) /\ Len(Unwritten(q, o) \o w) = n + 2
      /\ \A i \in 1..(n + 2) : (Unwritten(q, o) \o w)[i] =
            IF i <= n THEN Unwritten(q, o)[i] ELSE w[i - n]
  <2>1. ASSUME NEW T, NEW a \in Seq(T), NEW c \in Seq(T), Len(c) = 2
        PROVE  /\ a \o c \in Seq(T) /\ Len(a \o c) = Len(a) + 2
               /\ \A i \in 1..(Len(a) + 2) : (a \o c)[i] = IF i <= Len(a) THEN a[i] ELSE c[i - Len(a)]
    <3>1. /\ a \o c \in Seq(T) /\ Len(a \o c) = Len(a) + Len(c)
          /\ \A i \in 1..(Len(a) + Len(c)) : (a \o c)[i] = IF i <= Len(a) THEN a[i] ELSE c[i - Len(a)]
      BY ConcatProperties, Zenon
    <3> QED
      BY <2>1, <3>1, Zenon
  <2> HIDE DEF w, n
  <2> QED
    BY <1>1, <1>3, <2>1
<1>6. ASSUME NEW i \in 1..(n + 2)
      PROVE  Unwritten(Append(q, r), o)[i] = (Unwritten(q, o) \o w)[i]
  <2>1. CASE i <= n
    <3>1. i \in 1..n /\ (i + o + 1) \div 2 \in 1..Len(q)
      BY <1>3, <2>1
    <3>2. Append(q, r)[(i + o + 1) \div 2] = q[(i + o + 1) \div 2]
      BY <1>2, <3>1, Zenon
    <3>3. Unwritten(Append(q, r), o)[i] = Unwritten(q, o)[i]
      BY <1>3, <1>4, <3>1, <3>2, Zenon
    <3> QED
      BY <1>5, <2>1, <3>3, Zenon
  <2>2. CASE i = n + 1
    <3>1. (i + o + 1) \div 2 = Len(q) + 1 /\ (i + o) % 2 = 1 /\ i - n = 1 /\ ~(i <= n)
      <4>1. ASSUME NEW l \in Nat, NEW x \in 0..1, NEW j \in Int, j = 2 * l - x + 1
            PROVE  /\ (j + x + 1) \div 2 = l + 1 /\ (j + x) % 2 = 1
                   /\ j - (2 * l - x) = 1 /\ ~(j <= 2 * l - x)
        BY <4>1
      <4>2. Len(q) \in Nat /\ i \in Int
        BY <1>3, LenProperties
      <4> QED
        BY <2>2, <4>1, <4>2, Zenon
    <3> QED
      BY <1>1, <1>2, <1>4, <1>5, <3>1
  <2>3. CASE i = n + 2
    <3>1. (i + o + 1) \div 2 = Len(q) + 1 /\ (i + o) % 2 = 0 /\ i - n = 2 /\ ~(i <= n)
      <4>1. ASSUME NEW l \in Nat, NEW x \in 0..1, NEW j \in Int, j = 2 * l - x + 2
            PROVE  /\ (j + x + 1) \div 2 = l + 1 /\ (j + x) % 2 = 0
                   /\ j - (2 * l - x) = 2 /\ ~(j <= 2 * l - x)
        BY <4>1
      <4>2. Len(q) \in Nat /\ i \in Int
        BY <1>3, LenProperties
      <4> QED
        BY <2>3, <4>1, <4>2, Zenon
    <3> QED
      BY <1>1, <1>2, <1>4, <1>5, <3>1
  <2> QED
    <3>1. n \in Int /\ i \in Int /\ i <= n + 2
      BY <1>3
    <3>2. i <= n \/ i = n + 1 \/ i = n + 2
      BY <3>1
    <3> QED
      BY <2>1, <2>2, <2>3, <3>2
<1> QED
  BY <1>4, <1>5, <1>6, SeqEqual

\* What the socket does not take of the unwritten pieces is what is unwritten
\* of the queue and offset #flushWrites leaves.
LEMMA UnwrittenFlushed ==
    ASSUME NEW q \in Seq(Requests), NEW o \in 0..1, o = 1 => q # <<>>,
           NEW k \in 0..(2 * Len(q) - o)
    PROVE  /\ SubSeq(q, (o + k) \div 2 + 1, Len(q)) \in Seq(Requests)
           /\ (o + k) % 2 \in 0..1
           /\ (o + k) % 2 = 1 => SubSeq(q, (o + k) \div 2 + 1, Len(q)) # <<>>
           /\ SubSeq(Unwritten(q, o), 1, k) \in Seq(Pieces(Requests))
           /\ Len(SubSeq(Unwritten(q, o), 1, k)) = k
           /\ SubSeq(Unwritten(q, o), 1, k)
                \o Unwritten(SubSeq(q, (o + k) \div 2 + 1, Len(q)), (o + k) % 2)
              = Unwritten(q, o)
<1> DEFINE m == (o + k) \div 2
           p == (o + k) % 2
           h == SubSeq(q, m + 1, Len(q))
           n == 2 * Len(q) - o
           a == SubSeq(Unwritten(q, o), 1, k)
<1>1. Len(q) \in Nat /\ n \in Nat /\ k \in Nat
  BY EmptySeq, LenProperties
<1>2. m \in 0..Len(q) /\ p \in 0..1 /\ o + k = 2 * m + p /\ (p = 1 => m < Len(q))
  BY <1>1
<1>3. /\ h \in Seq(Requests) /\ Len(h) = Len(q) - m
      /\ \A i \in 1..Len(h) : h[i] = q[m + i]
  <2>1. \A i \in (m + 1)..Len(q) : q[i] \in Requests
    BY <1>1, <1>2, ElementOfSeq
  <2>2. m + 1 \in Int /\ Len(q) \in Int
    BY <1>1, <1>2
  <2>3. /\ h \in Seq(Requests) /\ Len(h) = IF m + 1 <= Len(q) THEN Len(q) - (m + 1) + 1 ELSE 0
        /\ \A i \in 1..(Len(q) - (m + 1) + 1) : h[i] = q[m + 1 + i - 1]
    BY <2>1, <2>2, SubSeqProperties
  <2> HIDE DEF h, m
  <2>4. Len(h) = Len(q) - m
    BY <1>1, <1>2, <2>3
  <2>5. ASSUME NEW i \in 1..Len(h) PROVE h[i] = q[m + i]
    <3>1. i \in 1..(Len(q) - (m + 1) + 1) /\ m + 1 + i - 1 = m + i
      BY <1>1, <1>2, <2>4
    <3> QED
      BY <2>3, <3>1
  <2> QED
    BY <2>3, <2>4, <2>5
<1>4. p = 1 => h # <<>>
  BY <1>2, <1>3, EmptySeq
<1>5. /\ Unwritten(q, o) \in Seq(Pieces(Requests)) /\ Len(Unwritten(q, o)) = n
      /\ \A i \in 1..n : Unwritten(q, o)[i] = Piece(q[(i + o + 1) \div 2], IF (i + o) % 2 = 1 THEN 1 ELSE 2)
  BY UnwrittenType
<1>6. /\ a \in Seq(Pieces(Requests)) /\ Len(a) = k
      /\ \A i \in 1..k : a[i] = Unwritten(q, o)[i]
  BY <1>1, <1>5, ElementOfSeq, SubSeqProperties
<1>7. 2 * Len(h) - p = n - k
  BY <1>1, <1>2, <1>3
<1>8. /\ Unwritten(h, p) \in Seq(Pieces(Requests)) /\ Len(Unwritten(h, p)) = n - k
      /\ \A i \in 1..(n - k) : Unwritten(h, p)[i] = Piece(h[(i + p + 1) \div 2], IF (i + p) % 2 = 1 THEN 1 ELSE 2)
  BY <1>2, <1>3, <1>4, <1>7, UnwrittenType
<1>9. /\ a \o Unwritten(h, p) \in Seq(Pieces(Requests)) /\ Len(a \o Unwritten(h, p)) = n
      /\ \A i \in 1..n : (a \o Unwritten(h, p))[i] = IF i <= k THEN a[i] ELSE Unwritten(h, p)[i - k]
  <2>1. /\ a \o Unwritten(h, p) \in Seq(Pieces(Requests))
        /\ Len(a \o Unwritten(h, p)) = Len(a) + Len(Unwritten(h, p))
        /\ \A i \in 1..(Len(a) + Len(Unwritten(h, p))) :
             (a \o Unwritten(h, p))[i] = IF i <= Len(a) THEN a[i] ELSE Unwritten(h, p)[i - Len(a)]
    BY <1>6, <1>8, ConcatProperties, Zenon
  <2>2. Len(a) + Len(Unwritten(h, p)) = n
    <3>1. ASSUME NEW x \in Nat, NEW y \in Nat PROVE x + (y - x) = y
      BY <3>1
    <3> HIDE DEF n
    <3> QED
      BY <1>1, <1>6, <1>8, <3>1, Zenon
  <2> QED
    BY <1>6, <2>1, <2>2, Zenon
<1>10. ASSUME NEW i \in 1..n PROVE (a \o Unwritten(h, p))[i] = Unwritten(q, o)[i]
  <2>1. CASE i <= k
    BY <1>1, <1>6, <1>9, <2>1
  <2>2. CASE i > k
    <3> DEFINE j == i - k
    <3>1. j \in 1..(n - k) /\ i = k + j
      BY <1>1, <2>2
    <3>2. (j + p + 1) \div 2 \in 1..Len(h)
      BY <1>1, <1>2, <1>7, <3>1
    <3>3. m + (j + p + 1) \div 2 = (i + o + 1) \div 2
      BY <1>1, <1>2, <3>1
    <3>4. (j + p) % 2 = (i + o) % 2
      BY <1>1, <1>2, <3>1
    <3>5. h[(j + p + 1) \div 2] = q[(i + o + 1) \div 2]
      <4>1. h[(j + p + 1) \div 2] = q[m + (j + p + 1) \div 2]
        BY <1>3, <3>2
      <4> QED
        BY <3>3, <4>1
    <3>6. Unwritten(h, p)[j] = Unwritten(q, o)[i]
      BY <1>5, <1>8, <3>1, <3>4, <3>5
    <3> QED
      BY <1>9, <2>2, <3>6
  <2>3. i <= k \/ i > k
    BY <1>1
  <2> QED
    BY <2>1, <2>2, <2>3
<1>11. a \o Unwritten(h, p) = Unwritten(q, o)
  BY <1>5, <1>9, <1>10, SeqEqual
<1> QED
  BY <1>2, <1>3, <1>4, <1>6, <1>11

-----------------------------------------------------------------------------
(* Types.  An offset belongs to a frame of the queue, and a frame that is   *)
(* being sent to a writer that sends.                                       *)

ClientTypes ==
    /\ life \in {"opening", "open", "shut"}
    /\ req \in [Requests -> {"idle", "pending"} \union Outcomes]
    /\ queue \in Seq(Requests) /\ offset \in 0..1
    /\ offset = 1 => queue # <<>>
    /\ inbuf \in Seq(Pieces(DownFrames)) /\ Len(inbuf) <= 1
    /\ spoiled \in BOOLEAN

WireTypes ==
    /\ up \in Seq(Pieces(Requests)) /\ Len(up) <= Room
    /\ down \in Seq(Pieces(DownFrames)) /\ Len(down) <= Room
    /\ clientEnd \in BOOLEAN /\ serverEnd \in BOOLEAN

ReaderTypes ==
    /\ accepted \in BOOLEAN /\ authenticated \in BOOLEAN /\ timer \in BOOLEAN
    /\ buf \in Seq(Pieces(Requests)) /\ Len(buf) <= 1
    /\ lost \in BOOLEAN
    /\ serving \subseteq Requests

OutgoingTypes ==
    /\ closed \in BOOLEAN
    /\ ctrl \in Seq(DownFrames) /\ preview \in BOOLEAN
    /\ writing \in BOOLEAN
    /\ writer \in WriterStates
    /\ failing \in BOOLEAN
    /\ sent \in 0..1
    /\ writer = "sending" => sending \in DownFrames
    /\ writer # "sending" => sending = None /\ sent = 0

Types == ClientTypes /\ WireTypes /\ ReaderTypes /\ OutgoingTypes

LEMMA TypesAreTypeOK == Types => TypeOK
BY DEF Types, ClientTypes, WireTypes, ReaderTypes, OutgoingTypes, WriterStates, TypeOK

LEMMA TypesInitially == Init => Types
<1> SUFFICES ASSUME Init PROVE Types
  OBVIOUS
<1>0. WireInit /\ ClientInit /\ ConnectionInit
  BY DEF Init
<1>1. ClientTypes
  <2>1. queue \in Seq(Requests) /\ inbuf \in Seq(Pieces(DownFrames)) /\ Len(inbuf) <= 1
    <3>1. queue = <<>> /\ inbuf = <<>>
      BY <1>0 DEF ClientInit
    <3> QED
      BY <3>1, ShortSequences, Zenon
  <2> QED
    <3>1. /\ life \in {"opening", "open", "shut"}
          /\ req \in [Requests -> {"idle", "pending"} \union Outcomes]
          /\ offset \in 0..1 /\ ~(offset = 1)
      BY <1>0 DEF ClientInit
    <3>2. spoiled \in BOOLEAN
      BY <1>0, Zenon DEF ClientInit
    <3> QED
      BY <2>1, <3>1, <3>2 DEF ClientTypes
<1>2. WireTypes
  <2>1. /\ up \in Seq(Pieces(Requests)) /\ Len(up) = 0
        /\ down \in Seq(Pieces(DownFrames)) /\ Len(down) = 0
    <3>1. up = <<>> /\ down = <<>>
      BY <1>0 DEF WireInit
    <3> QED
      BY <3>1, ShortSequences, Zenon
  <2> QED
    <3>1. 0 <= Room
      BY WireAssumption
    <3>2. clientEnd \in BOOLEAN /\ serverEnd \in BOOLEAN
      BY <1>0, Zenon DEF WireInit
    <3> QED
      BY <2>1, <3>1, <3>2 DEF WireTypes
<1>3. ReaderTypes /\ OutgoingTypes
  <2>1. buf \in Seq(Pieces(Requests)) /\ Len(buf) <= 1 /\ ctrl \in Seq(DownFrames)
    <3>1. buf = <<>> /\ ctrl = <<>>
      BY <1>0 DEF ConnectionInit
    <3> QED
      BY <3>1, ShortSequences, Zenon
  <2> QED
    <3>1. /\ accepted \in BOOLEAN /\ authenticated \in BOOLEAN /\ timer \in BOOLEAN
          /\ lost \in BOOLEAN /\ serving \subseteq Requests
          /\ closed \in BOOLEAN /\ preview \in BOOLEAN /\ writing \in BOOLEAN
          /\ writer = "idle" /\ sending = None /\ sent = 0 /\ failing \in BOOLEAN
      BY <1>0 DEF ConnectionInit
    <3> QED
      BY <2>1, <3>1 DEF ReaderTypes, OutgoingTypes, WriterStates
<1> QED
  BY <1>1, <1>2, <1>3 DEF Types

LEMMA DisconnectedTyped ==
    ASSUME Types, NEW rq \in [Requests -> {"idle", "pending"} \union Outcomes],
           Disconnected(rq), UNCHANGED connection
    PROVE  Types'
<1>1. /\ life' = "shut" /\ queue' = <<>> /\ offset' = 0 /\ clientEnd' = TRUE
      /\ UNCHANGED <<up, down, serverEnd, inbuf, spoiled>>
  BY DEF Disconnected, RejectAll
<1>2. req' \in [Requests -> {"idle", "pending"} \union Outcomes]
  BY DEF Disconnected, RejectAll, Rejected, Outcomes
<1>3. ClientTypes'
  BY <1>1, <1>2 DEF Types, ClientTypes
<1>4. WireTypes'
  BY <1>1 DEF Types, WireTypes
<1> QED
  BY <1>3, <1>4 DEF Types, ReaderTypes, OutgoingTypes, connection, reader, outgoing

LEMMA FlushTyped ==
    ASSUME Types, NEW rq \in [Requests -> {"idle", "pending"} \union Outcomes],
           NEW q \in Seq(Requests), NEW o \in 0..1, o = 1 => q # <<>>,
           Flush(rq, q, o) \/ FlushFails(rq), UNCHANGED connection
    PROVE  Types'
<1>1. CASE Flush(rq, q, o)
  <2>1. PICK k \in 0..(2 * Len(q) - o) :
          /\ Len(up) + k <= Room
          /\ up' = up \o SubSeq(Unwritten(q, o), 1, k)
          /\ queue' = SubSeq(q, (o + k) \div 2 + 1, Len(q))
          /\ offset' = (o + k) % 2
    BY <1>1 DEF Flush
  <2>2. req' = rq /\ life' = "open" /\ UNCHANGED <<inbuf, spoiled, down, clientEnd, serverEnd>>
    BY <1>1 DEF Flush
  <2>3. /\ queue' \in Seq(Requests) /\ offset' \in 0..1 /\ (offset' = 1 => queue' # <<>>)
        /\ SubSeq(Unwritten(q, o), 1, k) \in Seq(Pieces(Requests))
        /\ Len(SubSeq(Unwritten(q, o), 1, k)) = k
    BY <2>1, UnwrittenFlushed
  <2>4. up' \in Seq(Pieces(Requests)) /\ Len(up') = Len(up) + k
    BY <2>1, <2>3, ConcatProperties DEF Types, WireTypes
  <2>5. ClientTypes'
    BY <2>2, <2>3 DEF Types, ClientTypes
  <2>6. WireTypes'
    BY <2>1, <2>2, <2>4 DEF Types, WireTypes
  <2> QED
    BY <2>5, <2>6 DEF Types, ReaderTypes, OutgoingTypes, connection, reader, outgoing
<1>2. CASE FlushFails(rq)
  BY <1>2, DisconnectedTyped DEF FlushFails
<1> QED
  BY <1>1, <1>2

\* What a response does to the write queue: nothing, or it drops it.
LEMMA HandleEffect ==
    ASSUME ClientTypes, NEW frame, Handle(frame)
    PROVE  /\ req' \in [Requests -> {"idle", "pending"} \union Outcomes]
           /\ \/ UNCHANGED <<queue, offset, spoiled>>
              \/ queue' = <<>> /\ offset' = 0 /\ spoiled' = (spoiled \/ offset = 1)
<1>1. CASE HandleData
  BY <1>1 DEF HandleData, ClientTypes
<1>2. CASE HandleInvalid
  BY <1>2 DEF HandleInvalid, RejectAll, Rejected, Outcomes, ClientTypes
<1>3. ASSUME NEW r, NEW kind, Settle(r, kind)
      PROVE  /\ req' \in [Requests -> {"idle", "pending"} \union Outcomes]
             /\ UNCHANGED <<queue, offset, spoiled>>
  BY <1>3 DEF Settle, Outcomes, ClientTypes
<1>4. HandleData \/ HandleInvalid \/ Settle(frame.id, frame.kind)
  BY DEF Handle
<1> QED
  BY <1>1, <1>2, <1>3, <1>4

\* The data callback keeps a head or completes a frame.
LEMMA DataEffect ==
    ASSUME Types, Data
    PROVE  /\ life = "open" /\ life' = "open" /\ down # <<>> /\ down' = Tail(down)
           /\ UNCHANGED <<up, clientEnd, serverEnd>>
           /\ req' \in [Requests -> {"idle", "pending"} \union Outcomes]
           /\ \/ UNCHANGED <<queue, offset, spoiled>>
              \/ queue' = <<>> /\ offset' = 0 /\ spoiled' = (spoiled \/ offset = 1)
           /\ inbuf' = IF Begins(inbuf, Head(down)) THEN <<Head(down)>> ELSE <<>>
<1>1. /\ life = "open" /\ life' = "open" /\ down # <<>> /\ down' = Tail(down)
      /\ UNCHANGED <<up, clientEnd, serverEnd>>
      /\ inbuf' = IF Begins(inbuf, Head(down)) THEN <<Head(down)>> ELSE <<>>
      /\ UNCHANGED <<req, queue, offset, spoiled>> \/ Handle(Head(down).of)
  BY DEF Data
<1>2. CASE UNCHANGED <<req, queue, offset, spoiled>>
  BY <1>1, <1>2 DEF Types, ClientTypes
<1>3. CASE Handle(Head(down).of)
  BY <1>1, <1>3, HandleEffect DEF Types
<1> QED
  BY <1>1, <1>2, <1>3

LEMMA ClientTypesStep ==
    ASSUME Types, ClientNext, UNCHANGED connection
    PROVE  Types'
<1> DEFINE Table == [Requests -> {"idle", "pending"} \union Outcomes]
<1>0. req \in Table /\ Hello \in Requests
  BY WireAssumption DEF Types, ClientTypes
<1>1. ASSUME NEW r \in Requests PROVE [req EXCEPT ![r] = "pending"] \in Table
  BY <1>0
<1>2. CASE Connect
  <2>1. <<Hello>> \in Seq(Requests) /\ <<Hello>> # <<>>
    BY <1>0, ShortSequences, Zenon
  <2>2. [req EXCEPT ![Hello] = "pending"] \in Table
    BY <1>0, <1>1
  <2>3. /\ \/ Flush([req EXCEPT ![Hello] = "pending"], <<Hello>>, 0)
           \/ FlushFails([req EXCEPT ![Hello] = "pending"])
    BY <1>2 DEF Connect
  <2>4. 0 \in 0..1 /\ 0 # 1
    OBVIOUS
  <2> QED
    BY <2>1, <2>2, <2>3, <2>4, FlushTyped
<1>3. CASE HelloFails \/ SocketCloses \/ Close
  <2>1. Disconnected(req)
    BY <1>3 DEF HelloFails, SocketCloses, Close
  <2> QED
    BY <1>0, <2>1, DisconnectedTyped
<1>4. CASE Drain
  <2>1. Flush(req, queue, offset) \/ FlushFails(req)
    BY <1>4 DEF Drain
  <2>2. queue \in Seq(Requests) /\ offset \in 0..1 /\ (offset = 1 => queue # <<>>)
    BY DEF Types, ClientTypes
  <2> QED
    BY <1>0, <2>1, <2>2, FlushTyped
<1>5. CASE Data
  <2>0. /\ down # <<>> /\ down \in Seq(Pieces(DownFrames)) /\ Len(down) <= Room
    BY <1>5 DEF Types, WireTypes, Data
  <2>1. Head(down) \in Pieces(DownFrames) /\ Tail(down) \in Seq(Pieces(DownFrames))
        /\ Len(Tail(down)) = Len(down) - 1 /\ Len(down) \in Nat
    BY <2>0, HeadTailProperties, LenProperties
  <2>2. inbuf' = <<Head(down)>> \/ inbuf' = <<>>
    BY <1>5, DataEffect
  <2>3. inbuf' \in Seq(Pieces(DownFrames)) /\ Len(inbuf') <= 1
    <3>1. \A s : s = <<>> => s \in Seq(Pieces(DownFrames)) /\ Len(s) <= 1
      BY ShortSequences, Zenon
    <3>2. \A s : s = <<Head(down)>> => s \in Seq(Pieces(DownFrames)) /\ Len(s) <= 1
      BY <2>1, ShortSequences, Zenon
    <3> QED
      BY <2>2, <3>1, <3>2, Zenon
  <2>4. queue' \in Seq(Requests) /\ offset' \in 0..1 /\ (offset' = 1 => queue' # <<>>)
        /\ spoiled' \in BOOLEAN
    <3>1. \A s : s = <<>> => s \in Seq(Requests)
      BY ShortSequences, Zenon
    <3>2. /\ queue \in Seq(Requests) /\ offset \in 0..1 /\ (offset = 1 => queue # <<>>)
          /\ spoiled \in BOOLEAN
      BY DEF Types, ClientTypes
    <3>3. 0 \in 0..1 /\ 0 # 1
      OBVIOUS
    <3>4. CASE UNCHANGED <<queue, offset, spoiled>>
      BY <3>2, <3>4
    <3>5. CASE queue' = <<>> /\ offset' = 0 /\ spoiled' = (spoiled \/ offset = 1)
      BY <3>1, <3>3, <3>5, Zenon
    <3> QED
      BY <1>5, <3>4, <3>5, DataEffect
  <2>5. ClientTypes'
    BY <1>5, <2>3, <2>4, DataEffect DEF ClientTypes
  <2>6. Len(down') <= Room
    BY <1>5, <2>0, <2>1, DataEffect, WireAssumption
  <2>7. WireTypes'
    BY <1>5, <2>1, <2>6, DataEffect DEF Types, WireTypes
  <2> QED
    BY <2>5, <2>7 DEF Types, ReaderTypes, OutgoingTypes, connection, reader, outgoing
<1>6. ASSUME NEW r \in Requests, Request(r) PROVE Types'
  <2> DEFINE rq == [req EXCEPT ![r] = "pending"]
  <2>1. rq \in Table
    BY <1>1
  <2>2. \/ Disconnected(rq)
        \/ Flush(rq, Append(queue, r), offset) \/ FlushFails(rq)
    BY <1>6 DEF Request
  <2>3. queue \in Seq(Requests) /\ offset \in 0..1
    BY DEF Types, ClientTypes
  <2>4. Append(queue, r) \in Seq(Requests) /\ Append(queue, r) # <<>>
    BY <2>3, AppendProperties
  <2> HIDE DEF rq
  <2> QED
    BY <2>1, <2>2, <2>3, <2>4, FlushTyped, DisconnectedTyped
<1>7. ASSUME NEW r \in Requests, Expire(r) PROVE Types'
  <2>1. /\ req' = [req EXCEPT ![r] = "failed"]
        /\ UNCHANGED <<life, queue, offset, inbuf, spoiled, wire>>
    BY <1>7 DEF Expire
  <2>2. req' \in Table
    BY <1>0, <2>1 DEF Outcomes
  <2>3. ClientTypes' /\ WireTypes'
    BY <2>1, <2>2 DEF Types, ClientTypes, WireTypes, wire
  <2> QED
    BY <2>3 DEF Types, ReaderTypes, OutgoingTypes, connection, reader, outgoing
<1> QED
  BY <1>2, <1>3, <1>4, <1>5, <1>6, <1>7 DEF ClientNext

\* A frame given to the connection.
LEMMA SendControlTyped ==
    ASSUME OutgoingTypes, WriterInv, NEW frame \in DownFrames, SendControl(frame)
    PROVE  OutgoingTypes'
<1>1. /\ UNCHANGED <<closed, preview, sending, sent>>
      /\ ctrl' = ctrl \/ ctrl' = Append(ctrl, frame)
      /\ failing' \in BOOLEAN
      /\ \/ UNCHANGED <<writing, writer>>
         \/ Wake
  BY DEF SendControl, OutgoingTypes
<1>2. ctrl' \in Seq(DownFrames)
  BY <1>1, AppendProperties DEF OutgoingTypes
<1> QED
  BY <1>1, <1>2 DEF OutgoingTypes, Wake, WriterInv, WriterStates

LEMMA FramesOfResponses ==
    /\ \A r \in Requests, kind \in Kinds : Response(r, kind) \in DownFrames
    /\ Response(None, "error") \in DownFrames
    /\ Preview \in DownFrames
BY DEF Response, DownFrames, Preview, Kinds

LEMMA DisconnectTyped ==
    ASSUME Types, Disconnect, UNCHANGED <<accepted, authenticated, buf, lost, serving, writing, writer, sending, sent>>,
           failing' \in BOOLEAN
    PROVE  ReaderTypes' /\ OutgoingTypes'
<1>1. <<>> \in Seq(DownFrames)
  OBVIOUS
<1> QED
  BY <1>1 DEF Disconnect, Types, ReaderTypes, OutgoingTypes

LEMMA ConnectionTypesStep ==
    ASSUME Types, WriterInv, ConnectionNext, UNCHANGED client
    PROVE  Types'
<1>0. ASSUME UNCHANGED wire, ReaderTypes', OutgoingTypes' PROVE Types'
  BY <1>0 DEF Types, client, wire, ClientTypes, WireTypes
<1>1. CASE Accept
  BY <1>0, <1>1 DEF Accept, Types, ReaderTypes, OutgoingTypes, outgoing
<1>2. CASE AuthenticationTimeout
  BY <1>0, <1>2, DisconnectTyped DEF AuthenticationTimeout, Types, OutgoingTypes
<1>3. CASE WriteFailed
  BY <1>0, <1>3, DisconnectTyped DEF WriteFailed
<1>4. CASE CloseDescriptor
  BY <1>4 DEF CloseDescriptor, Types, ClientTypes, WireTypes, ReaderTypes, OutgoingTypes, client,
              connection, reader, outgoing
<1>5. CASE Read
  <2>0. /\ up # <<>> /\ up \in Seq(Pieces(Requests)) /\ Len(up) <= Room
        /\ up' = Tail(up) /\ UNCHANGED <<accepted, down, clientEnd, serverEnd>>
    BY <1>5 DEF Read, Types, WireTypes
  <2>1. /\ Head(up) \in Pieces(Requests) /\ Tail(up) \in Seq(Pieces(Requests))
        /\ Len(Tail(up)) = Len(up) - 1 /\ Len(up) \in Nat
    BY <2>0, HeadTailProperties, LenProperties
  <2>2. Len(up') <= Room
    BY <2>0, <2>1, WireAssumption
  <2>3. ClientTypes' /\ WireTypes'
    BY <2>0, <2>1, <2>2 DEF Types, ClientTypes, WireTypes, client
  <2>4. Head(up).of \in Requests
    BY <2>1 DEF Pieces
  <2>5. /\ buf' = <<Head(up)>> => buf' \in Seq(Pieces(Requests)) /\ Len(buf') <= 1
        /\ buf' = <<>> => buf' \in Seq(Pieces(Requests)) /\ Len(buf') <= 1
        /\ \A s : s = <<>> => s \in Seq(DownFrames)
    BY <2>1, ShortSequences, Zenon
  <2>6. CASE /\ buf' = <<Head(up)>> /\ lost' = FALSE
             /\ UNCHANGED <<authenticated, timer, serving, outgoing>>
    BY <2>0, <2>3, <2>5, <2>6 DEF Types, ReaderTypes, OutgoingTypes, outgoing
  <2>7. ASSUME NEW r \in Requests, Receive(r), buf' = <<>>, UNCHANGED lost PROVE Types'
    <3>1. Response(r, "result") \in DownFrames /\ Response(r, "error") \in DownFrames
      BY FramesOfResponses DEF Kinds
    <3>2. /\ serving' \subseteq Requests /\ authenticated' \in BOOLEAN /\ timer' \in BOOLEAN
          /\ \/ UNCHANGED outgoing
             \/ SendControl(Response(r, "result")) \/ SendControl(Response(r, "error"))
      BY <2>7 DEF Receive, Types, ReaderTypes
    <3>3. ReaderTypes'
      BY <2>0, <2>5, <2>7, <3>2 DEF Types, ReaderTypes
    <3>4. OutgoingTypes'
      <4>1. CASE UNCHANGED outgoing
        BY <4>1 DEF Types, OutgoingTypes, outgoing
      <4> QED
        BY <3>1, <3>2, <4>1, SendControlTyped DEF Types
    <3> QED
      BY <2>3, <3>3, <3>4 DEF Types
  <2>8. ASSUME Garbled PROVE Types'
    <3>1. /\ UNCHANGED <<authenticated, serving>>
          /\ buf' = <<>> /\ lost' = TRUE
      BY <2>8 DEF Garbled
    <3>2. timer' \in BOOLEAN
      BY <2>8 DEF Garbled, Disconnect, Types, ReaderTypes
    <3>3. ReaderTypes'
      BY <2>0, <2>5, <3>1, <3>2 DEF Types, ReaderTypes
    <3>4. CASE UNCHANGED outgoing
      BY <2>3, <3>3, <3>4 DEF Types, OutgoingTypes, outgoing
    <3>5. CASE SendControl(Response(None, "error"))
      BY <2>3, <3>3, <3>5, SendControlTyped, FramesOfResponses DEF Types
    <3>6. CASE Disconnect /\ Wake /\ UNCHANGED <<sending, sent, failing>>
      <4>1. OutgoingTypes'
        BY <2>5, <3>6 DEF Disconnect, Wake, Types, OutgoingTypes, WriterInv, WriterStates
      <4> QED
        BY <2>3, <3>3, <4>1 DEF Types
    <3> QED
      BY <2>8, <3>4, <3>5, <3>6 DEF Garbled
  <2> QED
    BY <1>5, <2>4, <2>6, <2>7, <2>8 DEF Read
<1>6. CASE ReadEnd
  BY <1>0, <1>6, DisconnectTyped DEF ReadEnd, Types, OutgoingTypes
<1>7. CASE Broadcast
  <2>1. /\ UNCHANGED <<reader, wire, closed, ctrl, sending, sent>>
        /\ preview' = TRUE /\ failing' \in BOOLEAN
        /\ UNCHANGED <<writing, writer>> \/ Wake
    BY <1>7 DEF Broadcast, SendPreview, Types, OutgoingTypes
  <2>2. OutgoingTypes'
    BY <2>1 DEF Types, OutgoingTypes, Wake, WriterInv, WriterStates
  <2> QED
    BY <1>0, <2>1, <2>2 DEF Types, ReaderTypes, reader
<1>8. CASE Take
  <2>1. UNCHANGED <<reader, closed, failing, wire>> /\ sent' = 0 /\ writer = "ready"
    BY <1>8 DEF Take
  <2>2. CASE ctrl # <<>>
    <3>1. /\ sending' = Head(ctrl) /\ ctrl' = Tail(ctrl)
          /\ writer' = "sending" /\ UNCHANGED <<preview, writing>>
      BY <1>8, <2>2 DEF Take
    <3>2. Head(ctrl) \in DownFrames /\ Tail(ctrl) \in Seq(DownFrames)
      BY <2>2, HeadTailProperties DEF Types, OutgoingTypes
    <3>3. OutgoingTypes'
      BY <2>1, <3>1, <3>2 DEF Types, OutgoingTypes, WriterStates
    <3> QED
      BY <1>0, <2>1, <3>3 DEF Types, ReaderTypes, reader
  <2>3. CASE ctrl = <<>> /\ preview
    <3>1. /\ sending' = Preview /\ preview' = FALSE
          /\ writer' = "sending" /\ UNCHANGED <<ctrl, writing>>
      BY <1>8, <2>3 DEF Take
    <3>2. OutgoingTypes'
      BY <2>1, <3>1, FramesOfResponses DEF Types, OutgoingTypes, WriterStates
    <3> QED
      BY <1>0, <2>1, <3>2 DEF Types, ReaderTypes, reader
  <2>4. CASE ctrl = <<>> /\ ~preview
    <3>1. writer' = "idle" /\ writing' = FALSE /\ UNCHANGED <<ctrl, preview, sending>>
      BY <1>8, <2>4 DEF Take
    <3>2. OutgoingTypes'
      BY <2>1, <3>1 DEF Types, OutgoingTypes, WriterStates
    <3> QED
      BY <1>0, <2>1, <3>2 DEF Types, ReaderTypes, reader
  <2> QED
    BY <2>2, <2>3, <2>4
<1>9. CASE Send
  <2>1. /\ writer = "sending" /\ Len(down) < Room /\ down' = Append(down, Piece(sending, sent + 1))
        /\ UNCHANGED <<reader, closed, ctrl, preview, writing, failing, up, clientEnd, serverEnd>>
        /\ \/ sent = 1 /\ sent' = 0 /\ sending' = None /\ writer' = "ready"
           \/ sent # 1 /\ sent' = 1 /\ UNCHANGED <<sending, writer>>
    BY <1>9 DEF Send
  <2>2. Piece(sending, sent + 1) \in Pieces(DownFrames)
    BY <2>1 DEF Types, OutgoingTypes, Piece, Pieces
  <2>3. down' \in Seq(Pieces(DownFrames)) /\ Len(down') = Len(down) + 1 /\ Len(down) \in Nat
    BY <2>1, <2>2, AppendProperties, LenProperties DEF Types, WireTypes
  <2>4. Len(down') <= Room
    BY <2>1, <2>3, WireAssumption
  <2>5. WireTypes'
    BY <2>1, <2>3, <2>4 DEF Types, WireTypes
  <2>6. OutgoingTypes'
    BY <2>1 DEF Types, OutgoingTypes, WriterStates
  <2> QED
    BY <2>1, <2>5, <2>6 DEF Types, ClientTypes, ReaderTypes, client, reader
<1>10. CASE SendFails
  <2>1. OutgoingTypes'
    BY <1>10 DEF SendFails, Types, OutgoingTypes, WriterStates
  <2> QED
    BY <1>0, <1>10, <2>1 DEF SendFails, Types, ReaderTypes, reader
<1>11. ASSUME NEW r \in Requests, NEW kind \in Kinds, Respond(r, kind) PROVE Types'
  <2>1. OutgoingTypes'
    BY <1>11, SendControlTyped, FramesOfResponses DEF Respond, Types
  <2>2. ReaderTypes'
    BY <1>11 DEF Respond, Types, ReaderTypes
  <2> QED
    BY <1>0, <1>11, <2>1, <2>2 DEF Respond
<1> QED
  BY <1>1, <1>2, <1>3, <1>4, <1>5, <1>6, <1>7, <1>8, <1>9, <1>10, <1>11 DEF ConnectionNext

LEMMA TypesStep == Types /\ WriterInv /\ [Next]_vars => Types'
<1>1. Types /\ UNCHANGED vars => Types'
  BY DEF Types, ClientTypes, WireTypes, ReaderTypes, OutgoingTypes, vars, client, wire, connection,
         reader, outgoing
<1> QED
  BY <1>1, ClientTypesStep, ConnectionTypesStep DEF Next

\* Every variable of both ends and of the wire keeps its type; the buffers of
\* the kernel and of the decoders stay within their bounds.
THEOREM TransportTypes == Spec => []TypeOK
BY TypesInitially, TypesStep, WriterInit, WriterStep, TypesAreTypeOK, PTL DEF Spec


-----------------------------------------------------------------------------
(* From the client to the server.  Until a response that does not parse has *)
(* dropped the rest of a frame, what the server has buffered, what is on    *)
(* its way and what is still queued is framed, and it ends with a frame as  *)
(* long as the client may add to it.                                        *)

Requested == buf \o up \o Unwritten(queue, offset)

UpInv ==
    /\ life # "open" => queue = <<>> /\ offset = 0
    /\ ~spoiled => /\ ~lost
                   /\ Framed(Requested)
                   /\ life # "shut" => (Len(buf) + Len(up) + offset) % 2 = 0

upVars == <<life, queue, offset, buf, up, lost, spoiled>>

LEMMA UpTypes ==
    ASSUME Types
    PROVE  /\ buf \in Seq(Pieces(Requests)) /\ Len(buf) <= 1 /\ Len(buf) \in Nat
           /\ up \in Seq(Pieces(Requests)) /\ Len(up) \in Nat
           /\ buf \o up \in Seq(Pieces(Requests)) /\ Len(buf \o up) = Len(buf) + Len(up)
           /\ queue \in Seq(Requests) /\ offset \in 0..1 /\ (offset = 1 => queue # <<>>)
           /\ Unwritten(queue, offset) \in Seq(Pieces(Requests))
<1>1. /\ buf \in Seq(Pieces(Requests)) /\ Len(buf) <= 1
      /\ up \in Seq(Pieces(Requests))
      /\ queue \in Seq(Requests) /\ offset \in 0..1 /\ (offset = 1 => queue # <<>>)
  BY DEF Types, ClientTypes, WireTypes, ReaderTypes
<1> QED
  BY <1>1, LenProperties, ConcatProperties, UnwrittenType

LEMMA NothingUnwritten == Unwritten(<<>>, 0) = <<>>
<1>1. <<>> \in Seq(Requests) /\ Len(<<>>) = 0
  BY ShortSequences, Zenon
<1>2. 2 * 0 - 0 = 0 /\ 0 \in 0..1 /\ 0 # 1
  OBVIOUS
<1>3. Unwritten(<<>>, 0) \in Seq(Pieces(Requests)) /\ Len(Unwritten(<<>>, 0)) = 0
  BY <1>1, <1>2, UnwrittenType, Zenon
<1>4. ASSUME NEW s \in Seq(Pieces(Requests)), Len(s) = 0 PROVE s = <<>>
  BY <1>4, EmptySeq
<1> QED
  BY <1>3, <1>4

\* Once the write queue is dropped what has been written is framed.
LEMMA FramedWithoutQueue ==
    ASSUME Types, Framed(Requested)
    PROVE  Framed(buf \o up \o Unwritten(<<>>, 0))
<1>1. Framed(buf \o up)
  BY UpTypes, FramedPrefix DEF Requested
<1>2. buf \o up \o Unwritten(<<>>, 0) = buf \o up
  BY UpTypes, NothingUnwritten, ConcatEmptySeq
<1> QED
  BY <1>1, <1>2, Zenon

LEMMA UpInitially == Init => UpInv
<1> SUFFICES ASSUME Init PROVE UpInv
  OBVIOUS
<1>1. /\ life = "opening" /\ queue = <<>> /\ offset = 0 /\ up = <<>> /\ buf = <<>> /\ ~lost
  BY DEF Init, WireInit, ClientInit, ConnectionInit
<1>2. Types
  BY TypesInitially
<1>3. Unwritten(queue, offset) = <<>>
  BY <1>1, NothingUnwritten, Zenon
<1>4. Requested = <<>>
  BY <1>1, <1>3 DEF Requested
<1>5. \A s : s = <<>> => Len(s) = 0
  BY ShortSequences, Zenon
<1>6. Framed(Requested)
  <2>1. 1..Len(Requested) = {}
    BY <1>4, <1>5
  <2> QED
    BY <2>1 DEF Framed
<1>7. (Len(buf) + Len(up) + offset) % 2 = 0
  <2>1. Len(buf) = 0 /\ Len(up) = 0 /\ offset = 0
    BY <1>1, <1>5, Zenon
  <2> QED
    BY <2>1
<1> QED
  BY <1>1, <1>6, <1>7 DEF UpInv

\* What has been written is moved, not changed, by #flushWrites.
LEMMA FlushUp ==
    ASSUME Types, life # "shut",
           NEW rq, NEW q \in Seq(Requests), NEW o \in 0..1, o = 1 => q # <<>>,
           ~spoiled => /\ ~lost
                       /\ Framed(buf \o up \o Unwritten(q, o))
                       /\ (Len(buf) + Len(up) + o) % 2 = 0,
           Flush(rq, q, o), UNCHANGED connection
    PROVE  UpInv'
<1>1. PICK k \in 0..(2 * Len(q) - o) :
        /\ up' = up \o SubSeq(Unwritten(q, o), 1, k)
        /\ queue' = SubSeq(q, (o + k) \div 2 + 1, Len(q))
        /\ offset' = (o + k) % 2
  BY DEF Flush
<1>2. /\ life' = "open" /\ spoiled' = spoiled /\ buf' = buf /\ lost' = lost
  BY DEF Flush, connection, reader
<1> DEFINE a == SubSeq(Unwritten(q, o), 1, k)
           h == Unwritten(SubSeq(q, (o + k) \div 2 + 1, Len(q)), (o + k) % 2)
<1>3. /\ a \in Seq(Pieces(Requests)) /\ Len(a) = k
      /\ h \in Seq(Pieces(Requests))
      /\ a \o h = Unwritten(q, o)
  BY UnwrittenFlushed, UnwrittenType
<1>4. Unwritten(queue', offset') = h
  BY <1>1, Zenon
<1>5. Unwritten(q, o) \in Seq(Pieces(Requests))
  BY UnwrittenType
<1> HIDE DEF a, h
<1>6. up' = up \o a
  BY <1>1 DEF a
<1>7. Framed(buf \o up \o Unwritten(q, o)) => Framed(buf \o up' \o h)
  <2>0. /\ buf \in Seq(Pieces(Requests)) /\ up \in Seq(Pieces(Requests))
        /\ buf \o up \in Seq(Pieces(Requests))
        /\ a \in Seq(Pieces(Requests)) /\ h \in Seq(Pieces(Requests))
    BY <1>3, UpTypes
  <2>1. Unwritten(q, o) = a \o h
    BY <1>3, Zenon
  <2> QED
    BY <1>6, <2>0, <2>1, FramedRegrouped, Zenon
<1>8. Requested' = buf \o up' \o h
  BY <1>2, <1>4, Zenon DEF Requested
<1>9. ((Len(buf) + Len(up) + o) % 2 = 0) => ((Len(buf') + Len(up') + offset') % 2 = 0)
  <2>1. Len(up') = Len(up) + k
    BY <1>3, <1>6, UpTypes, ConcatProperties
  <2>2. k \in Nat
    BY LenProperties
  <2>3. ASSUME NEW x \in Nat, NEW y \in Nat, NEW z \in Nat, NEW v \in 0..1, (x + y + v) % 2 = 0,
               NEW x2, x2 = x, NEW y2, y2 = y + z, NEW v2, v2 = (v + z) % 2
        PROVE  (x2 + y2 + v2) % 2 = 0
    BY <2>3
  <2>4. Len(buf) \in Nat /\ Len(up) \in Nat
    BY UpTypes
  <2>5. Len(buf') = Len(buf) /\ offset' = (o + k) % 2
    BY <1>1, <1>2
  <2> QED
    BY <1>3, <2>1, <2>2, <2>3, <2>4, <2>5
<1> QED
  BY <1>2, <1>7, <1>8, <1>9 DEF UpInv

LEMMA DisconnectedUp ==
    ASSUME Types, UpInv, NEW rq, Disconnected(rq), UNCHANGED connection
    PROVE  UpInv'
<1>1. /\ life' = "shut" /\ queue' = <<>> /\ offset' = 0
      /\ UNCHANGED <<up, buf, lost, spoiled>>
  BY DEF Disconnected, RejectAll, connection, reader
<1>2. Requested' = buf \o up \o Unwritten(<<>>, 0)
  BY <1>1 DEF Requested
<1> QED
  BY <1>1, <1>2, FramedWithoutQueue DEF UpInv

\* A request that is queued is a whole frame after whole frames.
LEMMA AppendedUp ==
    ASSUME Types, UpInv, life # "shut", ~spoiled, NEW r \in Requests
    PROVE  /\ Framed(buf \o up \o Unwritten(Append(queue, r), offset))
           /\ (Len(buf) + Len(up) + offset) % 2 = 0
<1> DEFINE s == buf \o up \o Unwritten(queue, offset)
           w == <<Piece(r, 1), Piece(r, 2)>>
<1>1. /\ Framed(s) /\ (Len(buf) + Len(up) + offset) % 2 = 0
  BY DEF UpInv, Requested
<1>2. /\ s \in Seq(Pieces(Requests))
      /\ Len(s) = Len(buf \o up) + Len(Unwritten(queue, offset))
  <2>1. buf \o up \in Seq(Pieces(Requests)) /\ Unwritten(queue, offset) \in Seq(Pieces(Requests))
    BY UpTypes
  <2> QED
    BY <2>1, ConcatProperties, Zenon
<1>3. Len(s) % 2 = 0
  <2>1. Len(Unwritten(queue, offset)) = 2 * Len(queue) - offset
    BY UpTypes, UnwrittenType
  <2>2. Len(buf \o up) = Len(buf) + Len(up) /\ Len(buf) \in Nat /\ Len(up) \in Nat
    BY UpTypes
  <2>3. Len(queue) \in Nat /\ offset \in 0..1
    BY UpTypes, LenProperties
  <2>4. ASSUME NEW x \in Nat, NEW y \in Nat, NEW z \in Nat, NEW v \in 0..1, (x + y + v) % 2 = 0,
               NEW t, t = x + y, NEW u, u = 2 * z - v, NEW n, n = t + u
        PROVE  n % 2 = 0
    BY <2>4
  <2> HIDE DEF s
  <2>5. Len(s) = (Len(buf) + Len(up)) + (2 * Len(queue) - offset)
    BY <1>2, <2>1, <2>2
  <2>6. (Len(buf) + Len(up) + offset) % 2 = 0
    BY <1>1
  <2> QED
    BY <2>2, <2>3, <2>4, <2>5, <2>6
<1>4. Piece(r, 1) \in Pieces(Requests) /\ Piece(r, 2) \in Pieces(Requests)
  BY DEF Piece, Pieces
<1>5. Framed(s \o w)
  BY <1>1, <1>2, <1>3, <1>4, FramedExtended
<1>6. Framed(buf \o up \o Unwritten(Append(queue, r), offset))
  <2>1. w \in Seq(Pieces(Requests))
    BY <1>4
  <2>2. Unwritten(Append(queue, r), offset) = Unwritten(queue, offset) \o w
    BY UpTypes, UnwrittenAppended
  <2>3. /\ buf \in Seq(Pieces(Requests)) /\ up \in Seq(Pieces(Requests))
        /\ Unwritten(queue, offset) \in Seq(Pieces(Requests))
    BY UpTypes
  <2> HIDE DEF w
  <2>4. Framed((buf \o up \o Unwritten(queue, offset)) \o w)
    BY <1>5
  <2> QED
    BY <2>1, <2>2, <2>3, <2>4, FramedRegrouped, Zenon
<1> QED
  BY <1>1, <1>6

LEMMA ClientUpStep ==
    ASSUME Types, UpInv, ClientNext, UNCHANGED connection
    PROVE  UpInv'
<1>0. ASSUME UNCHANGED upVars PROVE UpInv'
  BY <1>0 DEF UpInv, Requested, upVars
<1>1. UNCHANGED <<buf, lost>>
  BY DEF connection, reader
<1>2. CASE Connect
  <2> DEFINE rq == [req EXCEPT ![Hello] = "pending"]
  <2>1. /\ life = "opening" /\ queue = <<>> /\ offset = 0
        /\ Flush(rq, <<Hello>>, 0) \/ FlushFails(rq)
    BY <1>2 DEF Connect, UpInv
  <2> HIDE DEF rq
  <2>2. Hello \in Requests
    BY WireAssumption
  <2>3. Append(queue, Hello) = <<Hello>> /\ 0 \in 0..1 /\ 0 # 1
    BY <2>1
  <2>4. <<Hello>> \in Seq(Requests)
    BY <2>2, ShortSequences, Zenon
  <2>5. ~spoiled => /\ ~lost
                    /\ Framed(buf \o up \o Unwritten(<<Hello>>, 0))
                    /\ (Len(buf) + Len(up) + 0) % 2 = 0
    <3>1. life # "shut"
      BY <2>1
    <3>2. ~spoiled => ~lost
      BY DEF UpInv
    <3>3. ~spoiled => /\ Framed(buf \o up \o Unwritten(Append(queue, Hello), offset))
                      /\ (Len(buf) + Len(up) + offset) % 2 = 0
      BY <2>2, <3>1, AppendedUp, Zenon
    <3> QED
      BY <2>1, <2>3, <3>2, <3>3, Zenon
  <2>6. CASE Flush(rq, <<Hello>>, 0)
    <3>1. life # "shut"
      BY <2>1
    <3> QED
      BY <2>3, <2>4, <2>5, <2>6, <3>1, FlushUp
  <2>7. CASE FlushFails(rq)
    BY <2>7, DisconnectedUp DEF FlushFails
  <2> QED
    BY <2>1, <2>6, <2>7
<1>3. CASE HelloFails \/ SocketCloses \/ Close
  <2>1. Disconnected(req)
    BY <1>3 DEF HelloFails, SocketCloses, Close
  <2> QED
    BY <2>1, DisconnectedUp
<1>4. CASE Drain
  <2>1. life = "open" /\ (Flush(req, queue, offset) \/ FlushFails(req))
    BY <1>4 DEF Drain
  <2>2. CASE Flush(req, queue, offset)
    <3>1. life # "shut"
      BY <2>1
    <3>2. ~spoiled => /\ ~lost
                      /\ Framed(buf \o up \o Unwritten(queue, offset))
                      /\ (Len(buf) + Len(up) + offset) % 2 = 0
      BY <3>1 DEF UpInv, Requested
    <3> QED
      BY <2>2, <3>1, <3>2, UpTypes, FlushUp
  <2>3. CASE FlushFails(req)
    BY <2>3, DisconnectedUp DEF FlushFails
  <2> QED
    BY <2>1, <2>2, <2>3
<1>5. CASE Data
  <2>1. /\ life = "open" /\ life' = "open" /\ UNCHANGED up
        /\ \/ UNCHANGED <<queue, offset, spoiled>>
           \/ queue' = <<>> /\ offset' = 0 /\ spoiled' = (spoiled \/ offset = 1)
    BY <1>5, DataEffect
  <2>2. CASE UNCHANGED <<queue, offset, spoiled>>
    BY <1>0, <1>1, <2>1, <2>2 DEF upVars
  <2>3. CASE queue' = <<>> /\ offset' = 0 /\ spoiled' = (spoiled \/ offset = 1)
    <3> SUFFICES ASSUME ~spoiled'
                 PROVE  ~lost /\ Framed(Requested') /\ (Len(buf) + Len(up) + 0) % 2 = 0
      BY <1>1, <2>1, <2>3 DEF UpInv
    <3>1. ~spoiled /\ offset # 1
      BY <2>3
    <3>2. offset = 0
      BY <3>1, UpTypes
    <3>3. ~lost /\ Framed(Requested) /\ (Len(buf) + Len(up) + offset) % 2 = 0
      BY <2>1, <3>1 DEF UpInv
    <3>4. Requested' = buf \o up \o Unwritten(<<>>, 0)
      BY <1>1, <2>1, <2>3 DEF Requested
    <3> QED
      BY <3>2, <3>3, <3>4, FramedWithoutQueue
  <2> QED
    BY <2>1, <2>2, <2>3
<1>6. ASSUME NEW r \in Requests, Request(r) PROVE UpInv'
  <2> DEFINE rq == [req EXCEPT ![r] = "pending"]
  <2>1. /\ life = "open"
        /\ \/ Disconnected(rq)
           \/ Flush(rq, Append(queue, r), offset) \/ FlushFails(rq)
    BY <1>6 DEF Request
  <2> HIDE DEF rq
  <2>2. CASE Flush(rq, Append(queue, r), offset)
    <3>1. life # "shut"
      BY <2>1
    <3>2. ~spoiled => /\ ~lost
                      /\ Framed(buf \o up \o Unwritten(Append(queue, r), offset))
                      /\ (Len(buf) + Len(up) + offset) % 2 = 0
      BY <3>1, AppendedUp DEF UpInv
    <3>3. Append(queue, r) \in Seq(Requests) /\ Append(queue, r) # <<>> /\ offset \in 0..1
      BY UpTypes, AppendProperties
    <3> QED
      BY <2>2, <3>1, <3>2, <3>3, FlushUp
  <2>3. CASE Disconnected(rq) \/ FlushFails(rq)
    BY <2>3, DisconnectedUp DEF FlushFails
  <2> QED
    BY <2>1, <2>2, <2>3
<1>7. ASSUME NEW r \in Requests, Expire(r) PROVE UpInv'
  BY <1>0, <1>1, <1>7 DEF Expire, wire, upVars
<1> QED
  BY <1>2, <1>3, <1>4, <1>5, <1>6, <1>7 DEF ClientNext

\* The server takes whole frames apart.
LEMMA ReadUp ==
    ASSUME Types, UpInv, Read, UNCHANGED client
    PROVE  UpInv'
<1>1. /\ up # <<>> /\ up' = Tail(up)
      /\ UNCHANGED <<life, queue, offset, spoiled>>
      /\ \/ Begins(buf, Head(up)) /\ buf' = <<Head(up)>> /\ lost' = FALSE
         \/ Completes(buf, Head(up)) /\ buf' = <<>> /\ UNCHANGED lost
         \/ lost \/ ~(Begins(buf, Head(up)) \/ Completes(buf, Head(up)))
  BY DEF Read, client
<1> SUFFICES ASSUME ~spoiled
             PROVE  /\ ~lost' /\ Framed(Requested')
                    /\ life # "shut" => (Len(buf') + Len(up') + offset) % 2 = 0
  BY <1>1 DEF UpInv
<1>2. /\ ~lost /\ Framed(buf \o up \o Unwritten(queue, offset))
      /\ life # "shut" => (Len(buf) + Len(up) + offset) % 2 = 0
  BY DEF UpInv, Requested
<1>3. /\ Len(Tail(up)) = Len(up) - 1
      /\ buf = <<>> => /\ Begins(buf, Head(up))
                       /\ Framed(<<Head(up)>> \o Tail(up) \o Unwritten(queue, offset))
      /\ buf # <<>> => /\ ~Begins(buf, Head(up)) /\ Completes(buf, Head(up))
                       /\ Framed(<<>> \o Tail(up) \o Unwritten(queue, offset))
  BY <1>1, <1>2, UpTypes, FramedConsumed
<1>4. \A s : /\ s = <<>> => Len(s) = 0
             /\ s = <<Head(up)>> => Len(s) = 1
  BY ShortSequences, Zenon
<1>5. Unwritten(queue', offset') = Unwritten(queue, offset)
  BY <1>1
<1>6. CASE buf = <<>>
  <2>1. buf' = <<Head(up)>> /\ lost' = FALSE
    BY <1>1, <1>2, <1>3, <1>6 DEF Completes
  <2>2. Framed(Requested')
    BY <1>1, <1>3, <1>5, <1>6, <2>1, Zenon DEF Requested
  <2>3. Len(buf') + Len(up') = Len(buf) + Len(up)
    <3>1. Len(buf') = 1 /\ Len(buf) = 0
      BY <1>4, <1>6, <2>1, Zenon
    <3> QED
      BY <1>1, <1>3, <3>1, UpTypes
  <2> QED
    BY <1>2, <2>1, <2>2, <2>3
<1>7. CASE buf # <<>>
  <2>1. buf' = <<>> /\ lost' = lost
    BY <1>1, <1>2, <1>3, <1>7
  <2>2. Framed(Requested')
    BY <1>1, <1>3, <1>5, <1>7, <2>1, Zenon DEF Requested
  <2>3. life # "shut" => (Len(buf') + Len(up') + offset) % 2 = 0
    <3>1. Len(buf') = 0
      BY <1>4, <2>1, Zenon
    <3>2. Len(buf) = 1
      BY <1>7, UpTypes, Singleton
    <3>3. ASSUME NEW n \in Nat, NEW v \in 0..1, NEW x, x = 1, (x + n + v) % 2 = 0,
                 NEW x2, x2 = 0, NEW n2, n2 = n - 1
          PROVE  (x2 + n2 + v) % 2 = 0
      BY <3>3
    <3>4. Len(up) \in Nat /\ offset \in 0..1 /\ Len(up') = Len(up) - 1
      BY <1>1, <1>3, UpTypes
    <3> QED
      BY <1>2, <3>1, <3>2, <3>3, <3>4, Zenon
  <2> QED
    BY <1>2, <2>1, <2>2, <2>3
<1> QED
  BY <1>6, <1>7

LEMMA UpStep == Types /\ UpInv /\ [Next]_vars => UpInv'
<1> SUFFICES ASSUME Types, UpInv, [Next]_vars PROVE UpInv'
  OBVIOUS
<1>1. ASSUME UNCHANGED upVars PROVE UpInv'
  BY <1>1 DEF UpInv, Requested, upVars
<1>2. CASE UNCHANGED vars
  BY <1>1, <1>2 DEF vars, client, wire, connection, reader, upVars
<1>3. CASE ClientNext /\ UNCHANGED connection
  BY <1>3, ClientUpStep
<1>4. CASE ConnectionNext /\ UNCHANGED client
  <2>1. CASE Read
    BY <1>4, <2>1, ReadUp
  <2>2. CASE ~Read
    <3>1. UNCHANGED <<up, buf, lost>>
      <4>1. ASSUME NEW r, NEW kind, Respond(r, kind) PROVE UNCHANGED <<up, buf, lost>>
        BY <4>1 DEF Respond, wire
      <4>2. ~(\E r \in Requests, kind \in Kinds : Respond(r, kind)) =>
               \/ Accept \/ AuthenticationTimeout \/ WriteFailed \/ CloseDescriptor
               \/ ReadEnd \/ Broadcast \/ Take \/ Send \/ SendFails
        BY <1>4, <2>2 DEF ConnectionNext
      <4>3. CASE Accept \/ AuthenticationTimeout \/ WriteFailed \/ ReadEnd
        BY <4>3 DEF Accept, AuthenticationTimeout, WriteFailed, ReadEnd, wire
      <4>4. CASE CloseDescriptor \/ Broadcast \/ Take \/ Send \/ SendFails
        BY <4>4 DEF CloseDescriptor, Broadcast, Take, Send, SendFails, connection, reader, wire
      <4> QED
        BY <4>1, <4>2, <4>3, <4>4
    <3> QED
      BY <1>1, <1>4, <3>1 DEF client, upVars
  <2> QED
    BY <2>1, <2>2
<1> QED
  BY <1>2, <1>3, <1>4 DEF Next

-----------------------------------------------------------------------------
(* From the server to the client.  As long as the writer has not failed,    *)
(* what the client has buffered, what is on its way and what is left of the *)
(* frame being sent is framed.                                              *)

Rest == SubSeq(<<Piece(sending, 1), Piece(sending, 2)>>, sent + 1, 2)

DownInv ==
    /\ writer = "sending" => Framed(inbuf \o down \o Rest)
    /\ writer \in {"idle", "ready"} => Framed(inbuf \o down)
    /\ writer # "dead" => (Len(inbuf) + Len(down) + sent) % 2 = 0

downVars == <<inbuf, down, writer, sending, sent>>

LEMMA DownTypes ==
    ASSUME Types
    PROVE  /\ inbuf \in Seq(Pieces(DownFrames)) /\ Len(inbuf) <= 1 /\ Len(inbuf) \in Nat
           /\ down \in Seq(Pieces(DownFrames)) /\ Len(down) \in Nat
           /\ inbuf \o down \in Seq(Pieces(DownFrames)) /\ Len(inbuf \o down) = Len(inbuf) + Len(down)
           /\ sent \in 0..1
<1>1. /\ inbuf \in Seq(Pieces(DownFrames)) /\ Len(inbuf) <= 1
      /\ down \in Seq(Pieces(DownFrames)) /\ sent \in 0..1
  BY DEF Types, ClientTypes, WireTypes, OutgoingTypes
<1> QED
  BY <1>1, LenProperties, ConcatProperties

\* What is left of a frame of which nothing, or its head, has been sent.
LEMMA RestOfFrame ==
    ASSUME NEW f
    PROVE  /\ SubSeq(<<Piece(f, 1), Piece(f, 2)>>, 0 + 1, 2) = <<Piece(f, 1), Piece(f, 2)>>
           /\ SubSeq(<<Piece(f, 1), Piece(f, 2)>>, 1 + 1, 2) = <<Piece(f, 2)>>
<1>1. /\ SubSeq(<<Piece(f, 1), Piece(f, 2)>>, 1, 2) = <<Piece(f, 1), Piece(f, 2)>>
      /\ SubSeq(<<Piece(f, 1), Piece(f, 2)>>, 2, 2) = <<Piece(f, 2)>>
  <2> DEFINE S == {Piece(f, 1), Piece(f, 2)}
  <2>1. Piece(f, 1) \in S /\ Piece(f, 2) \in S
    OBVIOUS
  <2> HIDE DEF S
  <2> QED
    BY <2>1, PairOfPieces, Zenon
<1>2. 0 + 1 = 1 /\ 1 + 1 = 2
  OBVIOUS
<1> QED
  BY <1>1, <1>2, Zenon

LEMMA DownInitially == Init => DownInv
<1> SUFFICES ASSUME Init PROVE DownInv
  OBVIOUS
<1>1. inbuf = <<>> /\ down = <<>> /\ writer = "idle" /\ sent = 0
  BY DEF Init, WireInit, ClientInit, ConnectionInit
<1>2. Len(inbuf) = 0 /\ Len(down) = 0
  BY <1>1, ShortSequences, Zenon
<1>3. Framed(inbuf \o down)
  <2>1. Len(inbuf \o down) = 0
    BY <1>2, TypesInitially, DownTypes
  <2>2. 1..Len(inbuf \o down) = {}
    BY <2>1
  <2> QED
    BY <2>2 DEF Framed
<1> QED
  BY <1>1, <1>2, <1>3 DEF DownInv

\* The client takes whole frames apart.
LEMMA DataDown ==
    ASSUME Types, DownInv, Data, UNCHANGED connection
    PROVE  DownInv'
<1>1. /\ down # <<>> /\ down' = Tail(down) /\ UNCHANGED <<writer, sending, sent>>
      /\ inbuf' = IF Begins(inbuf, Head(down)) THEN <<Head(down)>> ELSE <<>>
  BY DataEffect DEF connection, outgoing
<1>2. ASSUME NEW r \in Seq(Pieces(DownFrames)), Framed(inbuf \o down \o r)
      PROVE  /\ Framed(inbuf' \o down' \o r)
             /\ (Len(inbuf) + Len(down) + sent) % 2 = 0 => (Len(inbuf') + Len(down') + sent) % 2 = 0
  <2>1. /\ Len(Tail(down)) = Len(down) - 1
        /\ inbuf = <<>> => /\ Begins(inbuf, Head(down))
                           /\ Framed(<<Head(down)>> \o Tail(down) \o r)
        /\ inbuf # <<>> => /\ ~Begins(inbuf, Head(down))
                           /\ Framed(<<>> \o Tail(down) \o r)
    BY <1>1, <1>2, DownTypes, FramedConsumed
  <2>2. \A s : /\ s = <<>> => Len(s) = 0
               /\ s = <<Head(down)>> => Len(s) = 1
    BY ShortSequences, Zenon
  <2>3. CASE inbuf = <<>>
    <3>1. inbuf' = <<Head(down)>>
      BY <1>1, <2>1, <2>3
    <3>2. Framed(inbuf' \o down' \o r)
      BY <1>1, <2>1, <2>3, <3>1, Zenon
    <3>3. Len(inbuf') = 1 /\ Len(inbuf) = 0
      BY <2>2, <2>3, <3>1, Zenon
    <3>4. Len(inbuf') + Len(down') = Len(inbuf) + Len(down)
      BY <1>1, <2>1, <3>3, DownTypes
    <3> QED
      BY <3>2, <3>4
  <2>4. CASE inbuf # <<>>
    <3>1. inbuf' = <<>>
      BY <1>1, <2>1, <2>4
    <3>2. Framed(inbuf' \o down' \o r)
      BY <1>1, <2>1, <2>4, <3>1, Zenon
    <3>3. Len(inbuf') = 0
      BY <2>2, <3>1, Zenon
    <3>4. Len(inbuf) = 1
      BY <2>4, DownTypes, Singleton
    <3>5. ASSUME NEW n \in Nat, NEW v \in 0..1, NEW x, x = 1, (x + n + v) % 2 = 0,
                 NEW x2, x2 = 0, NEW n2, n2 = n - 1
          PROVE  (x2 + n2 + v) % 2 = 0
      BY <3>5
    <3>6. (Len(inbuf) + Len(down) + sent) % 2 = 0 => (Len(inbuf') + Len(down') + sent) % 2 = 0
      <4>1. Len(down) \in Nat /\ sent \in 0..1 /\ Len(down') = Len(down) - 1
        BY <1>1, <2>1, DownTypes
      <4> QED
        BY <3>3, <3>4, <3>5, <4>1, Zenon
    <3> QED
      BY <3>2, <3>6
  <2> QED
    BY <2>3, <2>4
<1>3. CASE writer = "sending"
  <2>1. Rest \in Seq(Pieces(DownFrames))
    <3>1. Piece(sending, 1) \in Pieces(DownFrames) /\ Piece(sending, 2) \in Pieces(DownFrames)
      BY <1>3 DEF Types, OutgoingTypes, Piece, Pieces
    <3>2. Rest = <<Piece(sending, 1), Piece(sending, 2)>> \/ Rest = <<Piece(sending, 2)>>
      BY DownTypes, RestOfFrame DEF Rest
    <3>3. /\ <<Piece(sending, 1), Piece(sending, 2)>> \in Seq(Pieces(DownFrames))
          /\ <<Piece(sending, 2)>> \in Seq(Pieces(DownFrames))
      BY <3>1
    <3> QED
      BY <3>2, <3>3, Zenon
  <2>2. Rest' = Rest
    BY <1>1 DEF Rest
  <2>3. Framed(inbuf \o down \o Rest) /\ (Len(inbuf) + Len(down) + sent) % 2 = 0
    BY <1>3 DEF DownInv
  <2> QED
    BY <1>1, <1>2, <1>3, <2>1, <2>2, <2>3 DEF DownInv
<1>4. CASE writer \in {"idle", "ready"}
  <2>1. Framed(inbuf \o down) /\ (Len(inbuf) + Len(down) + sent) % 2 = 0
    BY <1>4 DEF DownInv
  <2>2. <<>> \in Seq(Pieces(DownFrames)) /\ inbuf \o down \o <<>> = inbuf \o down
    BY ShortSequences, DownTypes, ConcatEmptySeq
  <2>3. /\ Framed(inbuf' \o down' \o <<>>)
        /\ (Len(inbuf') + Len(down') + sent) % 2 = 0
    BY <1>2, <2>1, <2>2
  <2>4. inbuf' \o down' \o <<>> = inbuf' \o down'
    <3>1. Types'
      BY ClientTypesStep DEF ClientNext
    <3>2. inbuf' \in Seq(Pieces(DownFrames)) /\ down' \in Seq(Pieces(DownFrames))
      BY <3>1 DEF Types, ClientTypes, WireTypes
    <3>3. inbuf' \o down' \in Seq(Pieces(DownFrames))
      BY <3>2, ConcatProperties
    <3> QED
      BY <3>3, ConcatEmptySeq
  <2> QED
    BY <1>1, <1>4, <2>3, <2>4 DEF DownInv
<1>5. CASE writer \notin {"idle", "ready", "sending"}
  BY <1>1, <1>5 DEF DownInv, Types, OutgoingTypes, WriterStates
<1> QED
  BY <1>3, <1>4, <1>5

\* A frame is taken when the one before it has been sent.
LEMMA TakeDown ==
    ASSUME Types, DownInv, Take, UNCHANGED client
    PROVE  DownInv'
<1>1. /\ writer = "ready" /\ sent' = 0 /\ UNCHANGED <<inbuf, down>>
      /\ writer' \in {"sending", "idle"}
      /\ writer' = "sending" => sending' \in DownFrames
  <2>1. ctrl # <<>> => Head(ctrl) \in DownFrames
    BY HeadTailProperties DEF Types, OutgoingTypes
  <2> QED
    BY <2>1, FramesOfResponses DEF Take, client, wire
<1>2. sent = 0
  BY <1>1 DEF Types, OutgoingTypes
<1>3. Framed(inbuf \o down) /\ (Len(inbuf) + Len(down) + 0) % 2 = 0
  BY <1>1, <1>2 DEF DownInv
<1>4. CASE writer' = "idle"
  BY <1>1, <1>3, <1>4 DEF DownInv
<1>5. CASE writer' = "sending"
  <2> DEFINE w == <<Piece(sending', 1), Piece(sending', 2)>>
  <2>1. Piece(sending', 1) \in Pieces(DownFrames) /\ Piece(sending', 2) \in Pieces(DownFrames)
    BY <1>1, <1>5 DEF Piece, Pieces
  <2>2. Len(inbuf \o down) % 2 = 0
    <3>1. ASSUME NEW x \in Nat, NEW y \in Nat, (x + y + 0) % 2 = 0 PROVE (x + y) % 2 = 0
      BY <3>1
    <3> QED
      BY <1>3, <3>1, DownTypes, Zenon
  <2>3. Framed(inbuf \o down \o w)
    BY <1>3, <2>1, <2>2, DownTypes, FramedExtended
  <2>4. Rest' = w
    <3>1. Rest' = SubSeq(<<Piece(sending', 1), Piece(sending', 2)>>, 0 + 1, 2)
      BY <1>1 DEF Rest, Piece
    <3> QED
      BY <3>1, RestOfFrame
  <2> HIDE DEF w
  <2>5. Framed((inbuf \o down \o Rest)')
    BY <1>1, <2>3, <2>4, Zenon
  <2> QED
    BY <1>1, <1>3, <1>5, <2>5 DEF DownInv
<1> QED
  BY <1>1, <1>4, <1>5

\* sendAll moves a piece of the frame to the wire.
LEMMA SendDown ==
    ASSUME Types, DownInv, Send, UNCHANGED client
    PROVE  DownInv'
<1>1. /\ writer = "sending" /\ down' = Append(down, Piece(sending, sent + 1)) /\ UNCHANGED inbuf
      /\ \/ sent = 1 /\ sent' = 0 /\ sending' = None /\ writer' = "ready"
         \/ sent # 1 /\ sent' = 1 /\ UNCHANGED <<sending, writer>>
  BY DEF Send, client
<1>2. /\ Framed(inbuf \o down \o Rest) /\ (Len(inbuf) + Len(down) + sent) % 2 = 0
  BY <1>1 DEF DownInv
<1> DEFINE x == Piece(sending, sent + 1)
<1>3. x \in Pieces(DownFrames) /\ Piece(sending, 2) \in Pieces(DownFrames)
  BY <1>1, DownTypes DEF Types, OutgoingTypes, Piece, Pieces
<1> HIDE DEF x
<1>4. down' = down \o <<x>> /\ Len(down') = Len(down) + 1 /\ <<x>> \in Seq(Pieces(DownFrames))
  BY <1>1, <1>3, DownTypes, AppendProperties, AppendIsConcat, ShortSequences DEF x
<1>5. /\ inbuf \in Seq(Pieces(DownFrames)) /\ down \in Seq(Pieces(DownFrames))
      /\ inbuf \o down \in Seq(Pieces(DownFrames))
  BY DownTypes
<1>6. CASE sent = 1
  <2>1. Rest = <<x>>
    <3>1. Rest = <<Piece(sending, 2)>>
      BY <1>6, RestOfFrame DEF Rest
    <3> QED
      BY <1>6, <3>1 DEF x
  <2>2. Framed(inbuf' \o down')
    <3>1. inbuf \o down' = (inbuf \o down) \o <<x>>
      BY <1>4, <1>5, Associated
    <3> QED
      BY <1>1, <1>2, <2>1, <3>1, Zenon
  <2>3. (Len(inbuf') + Len(down') + sent') % 2 = 0
    <3>1. ASSUME NEW a \in Nat, NEW b \in Nat, (a + b + 1) % 2 = 0 PROVE (a + (b + 1) + 0) % 2 = 0
      BY <3>1
    <3>2. sent' = 0 /\ inbuf' = inbuf
      BY <1>1, <1>6
    <3> QED
      BY <1>2, <1>4, <1>6, <3>1, <3>2, DownTypes, Zenon
  <2> QED
    BY <1>1, <1>6, <2>2, <2>3 DEF DownInv
<1>7. CASE sent # 1
  <2>0. sent = 0 /\ sent' = 1 /\ UNCHANGED <<sending, writer>>
    BY <1>1, <1>7, DownTypes
  <2> DEFINE y == Piece(sending, 2)
  <2>1. Rest = <<x, y>>
    <3>1. Rest = <<Piece(sending, 1), Piece(sending, 2)>>
      BY <2>0, RestOfFrame DEF Rest
    <3> QED
      BY <2>0, <3>1 DEF x
  <2>2. Rest' = <<y>>
    <3>1. Rest' = SubSeq(<<Piece(sending, 1), Piece(sending, 2)>>, 1 + 1, 2)
      BY <2>0 DEF Rest, Piece
    <3> QED
      BY <3>1, RestOfFrame
  <2>3. y \in Pieces(DownFrames)
    BY <1>3
  <2> HIDE DEF y
  <2>4. <<y>> \in Seq(Pieces(DownFrames)) /\ <<x>> \o <<y>> = <<x, y>>
    BY <1>3, <2>3, ShortSequences, PairOfPieces, Zenon
  <2>5. Framed(inbuf \o down' \o <<y>>)
    <3>1. Framed(inbuf \o down \o <<x, y>>)
      BY <1>2, <2>1, Zenon
    <3>2. <<x, y>> = <<x>> \o <<y>>
      BY <2>4, Zenon
    <3> QED
      BY <1>4, <1>5, <2>4, <3>1, <3>2, FramedRegrouped, Zenon
  <2>6. Framed((inbuf \o down \o Rest)')
    BY <1>1, <2>2, <2>5, Zenon
  <2>7. (Len(inbuf') + Len(down') + sent') % 2 = 0
    <3>1. ASSUME NEW a \in Nat, NEW b \in Nat, (a + b + 0) % 2 = 0 PROVE (a + (b + 1) + 1) % 2 = 0
      BY <3>1
    <3> QED
      BY <1>1, <1>2, <1>4, <2>0, <3>1, DownTypes, Zenon
  <2> QED
    BY <1>1, <2>0, <2>6, <2>7 DEF DownInv
<1> QED
  BY <1>6, <1>7

\* A wake-up puts no piece on the wire.
LEMMA WakeDown ==
    ASSUME DownInv, WriterInv, UNCHANGED <<inbuf, down, sending, sent>>,
           UNCHANGED writer \/ Wake
    PROVE  DownInv'
<1>1. writer' = writer \/ (writer = "idle" /\ writer' = "ready")
  BY DEF Wake, WriterInv
<1>2. Rest' = Rest
  BY DEF Rest, Piece
<1> QED
  BY <1>1, <1>2 DEF DownInv

LEMMA SendControlWakes ==
    ASSUME NEW frame, SendControl(frame)
    PROVE  UNCHANGED <<sending, sent>> /\ (UNCHANGED writer \/ Wake)
BY DEF SendControl

LEMMA DownStep == Types /\ WriterInv /\ DownInv /\ [Next]_vars => DownInv'
<1> SUFFICES ASSUME Types, WriterInv, DownInv, [Next]_vars PROVE DownInv'
  OBVIOUS
<1>0. ASSUME UNCHANGED downVars PROVE DownInv'
  BY <1>0, WakeDown DEF downVars
<1>1. CASE UNCHANGED vars
  BY <1>0, <1>1 DEF vars, client, wire, connection, outgoing, downVars
<1>2. CASE ClientNext /\ UNCHANGED connection
  <2>1. CASE Data
    BY <1>2, <2>1, DataDown
  <2>2. CASE ~Data
    <3>1. UNCHANGED <<inbuf, down>>
      <4>1. ASSUME NEW rq, NEW q, NEW o, Flush(rq, q, o) \/ Disconnected(rq)
            PROVE  UNCHANGED <<inbuf, down>>
        BY <4>1 DEF Flush, Disconnected
      <4>2. CASE Connect \/ HelloFails \/ Drain \/ SocketCloses \/ Close
        BY <4>1, <4>2 DEF Connect, HelloFails, Drain, SocketCloses, Close, FlushFails
      <4>3. ASSUME NEW r \in Requests, Request(r) PROVE UNCHANGED <<inbuf, down>>
        BY <4>1, <4>3 DEF Request, FlushFails
      <4>4. ASSUME NEW r \in Requests, Expire(r) PROVE UNCHANGED <<inbuf, down>>
        BY <4>4 DEF Expire, wire
      <4> QED
        BY <1>2, <2>2, <4>2, <4>3, <4>4 DEF ClientNext
    <3> QED
      BY <1>0, <1>2, <3>1 DEF connection, outgoing, downVars
  <2> QED
    BY <2>1, <2>2
<1>3. CASE ConnectionNext /\ UNCHANGED client
  <2>0. UNCHANGED inbuf
    BY <1>3 DEF client
  <2>1. CASE Take
    BY <1>3, <2>1, TakeDown
  <2>2. CASE Send
    BY <1>3, <2>2, SendDown
  <2>3. CASE SendFails
    BY <2>3 DEF SendFails, DownInv
  <2>4. CASE Accept \/ AuthenticationTimeout \/ WriteFailed \/ CloseDescriptor \/ ReadEnd
    BY <1>0, <2>0, <2>4 DEF Accept, AuthenticationTimeout, WriteFailed, CloseDescriptor, ReadEnd, wire,
                           connection, outgoing, downVars
  <2>5. CASE Read
    <3>1. UNCHANGED down
      BY <2>5 DEF Read
    <3>2. UNCHANGED <<sending, sent>> /\ (UNCHANGED writer \/ Wake)
      <4>1. CASE UNCHANGED outgoing
        BY <4>1 DEF outgoing
      <4>2. ASSUME NEW r, Receive(r) PROVE UNCHANGED <<sending, sent>> /\ (UNCHANGED writer \/ Wake)
        BY <4>1, <4>2, SendControlWakes DEF Receive
      <4>3. ASSUME Garbled PROVE UNCHANGED <<sending, sent>> /\ (UNCHANGED writer \/ Wake)
        BY <4>1, <4>3, SendControlWakes DEF Garbled
      <4> QED
        BY <2>5, <4>1, <4>2, <4>3 DEF Read
    <3> QED
      BY <2>0, <3>1, <3>2, WakeDown
  <2>6. CASE Broadcast
    BY <2>0, <2>6, WakeDown DEF Broadcast, SendPreview, wire
  <2>7. ASSUME NEW r \in Requests, NEW kind \in Kinds, Respond(r, kind) PROVE DownInv'
    BY <2>0, <2>7, SendControlWakes, WakeDown DEF Respond, wire
  <2> QED
    BY <1>3, <2>1, <2>2, <2>3, <2>4, <2>5, <2>6, <2>7 DEF ConnectionNext
<1> QED
  BY <1>1, <1>2, <1>3 DEF Next

LEMMA FramingHolds == Types /\ UpInv /\ DownInv => WireIsFramed
<1> SUFFICES ASSUME Types, UpInv, DownInv PROVE WireIsFramed
  OBVIOUS
<1> DEFINE left == IF sending = None THEN <<>> ELSE Rest
<1>1. writer # "dead" => Framed(inbuf \o down \o left)
  <2>1. CASE writer \in {"idle", "ready"}
    <3>1. left = <<>> /\ Framed(inbuf \o down)
      BY <2>1 DEF Types, OutgoingTypes, DownInv
    <3>2. inbuf \o down \o left = inbuf \o down
      BY <3>1, DownTypes, ConcatEmptySeq
    <3> QED
      BY <3>1, <3>2, Zenon
  <2>2. CASE writer = "sending"
    <3>1. Framed(inbuf \o down \o Rest)
      BY <2>2 DEF DownInv
    <3>2. Rest \in Seq(Pieces(DownFrames))
      <4>1. Piece(sending, 1) \in Pieces(DownFrames) /\ Piece(sending, 2) \in Pieces(DownFrames)
        BY <2>2 DEF Types, OutgoingTypes, Piece, Pieces
      <4>2. Rest = <<Piece(sending, 1), Piece(sending, 2)>> \/ Rest = <<Piece(sending, 2)>>
        BY DownTypes, RestOfFrame DEF Rest
      <4>3. /\ <<Piece(sending, 1), Piece(sending, 2)>> \in Seq(Pieces(DownFrames))
            /\ <<Piece(sending, 2)>> \in Seq(Pieces(DownFrames))
        BY <4>1
      <4> QED
        BY <4>2, <4>3, Zenon
    <3>3. Framed(inbuf \o down)
      BY <3>1, <3>2, DownTypes, FramedPrefix
    <3>4. inbuf \o down \o <<>> = inbuf \o down
      BY DownTypes, ConcatEmptySeq
    <3> QED
      BY <3>1, <3>3, <3>4, Zenon
  <2> QED
    BY <2>1, <2>2 DEF Types, OutgoingTypes, WriterStates
<1>2. (~spoiled => ~lost) /\ ((~spoiled /\ life = "open") => Framed(buf \o up \o Unwritten(queue, offset)))
  BY DEF UpInv, Requested
<1> QED
  BY <1>1, <1>2, Zenon DEF WireIsFramed, Rest

\* Both ends read frames where the other end wrote frames, however the socket
\* splits writes and whichever requests time out half-written, until the
\* client itself drops the rest of a frame.
THEOREM FramingKept == Spec => []WireIsFramed
BY TypesInitially, TypesStep, WriterInit, WriterStep, UpInitially, UpStep, DownInitially, DownStep,
   FramingHolds, PTL DEF Spec
=============================================================================
