---------------------------- MODULE ViewerProofs ----------------------------
(***************************************************************************)
(* What the parts of a viewer promise whatever the number of frames, loads *)
(* of the tree, inputs, clients and screenshots: CaptureServer, PointerQueue, *)
(* TreeTransfer and ReviewApp, a section each.                             *)
(***************************************************************************)
EXTENDS CaptureServer, PointerQueue, ReviewApp, TreeTransfer, SequenceTheorems, TLAPS


-----------------------------------------------------------------------------
(* The inductive invariant, as predicates of a capture state k, so that    *)
(* they can be followed through the operators a handler applies to it.     *)

\* A request is answered at most once, is registered no longer once it is,
\* and is neither registered nor answered before it is made.
Settled(k, reqs) ==
    /\ k \in Caps
    /\ \A r \in Screenshots :
          /\ Len(k.answers[r]) <= 1
          /\ k.answers[r] # <<>> => k.shots[r] = NoShot
          /\ r \notin reqs => k.shots[r] = NoShot /\ k.answers[r] = <<>>

\* Capture runs for the clients cs; what is registered belongs to this capture
\* and to one of them, and a timer or the encoding enc works for it.
ForClients(k, cs, enc) ==
    /\ k.active => cs # {}
    /\ \A r \in Pending(k) :
          /\ k.active /\ k.shots[r].generation = k.generation
          /\ k.shots[r].connection \in cs
          /\ k.shots[r].timer \/ enc[r] = k.generation

Made == {r \in Screenshots : requester[r] # None}

IInv == CaptureTypeOK /\ Settled(cap, Made) /\ ForClients(cap, Clients, encoding)

-----------------------------------------------------------------------------
(* The operators on the capture state.                                     *)

LEMMA RemovedFields ==
    ASSUME NEW k \in Caps, NEW rs
    PROVE  /\ Removed(k, rs) \in Caps
           /\ Removed(k, rs).active = k.active
           /\ Removed(k, rs).generation = k.generation
           /\ Removed(k, rs).selected = k.selected
           /\ Removed(k, rs).answers = k.answers
           /\ \A r \in Screenshots :
                 Removed(k, rs).shots[r] = IF r \in rs THEN NoShot ELSE k.shots[r]
<1> DEFINE shots == [r \in Screenshots |-> IF r \in rs THEN NoShot ELSE k.shots[r]]
<1>1. shots \in [Screenshots -> Shots]
  BY DEF Caps, Shots
<1>2. Removed(k, rs) = [k EXCEPT !.shots = shots]
  BY DEF Removed
<1>3. \A r \in Screenshots : shots[r] = IF r \in rs THEN NoShot ELSE k.shots[r]
  OBVIOUS
<1> HIDE DEF shots
<1>4. [k EXCEPT !.shots = shots] \in Caps
  BY <1>1 DEF Caps
<1>5. /\ [k EXCEPT !.shots = shots].shots = shots
      /\ [k EXCEPT !.shots = shots].active = k.active
      /\ [k EXCEPT !.shots = shots].generation = k.generation
      /\ [k EXCEPT !.shots = shots].selected = k.selected
      /\ [k EXCEPT !.shots = shots].answers = k.answers
  BY DEF Caps
<1> QED
  BY <1>2, <1>3, <1>4, <1>5

LEMMA AnsweredFields ==
    ASSUME NEW k \in Caps, NEW rs, NEW answer \in Answers
    PROVE  /\ Answered(k, rs, answer) \in Caps
           /\ Answered(k, rs, answer).active = k.active
           /\ Answered(k, rs, answer).generation = k.generation
           /\ Answered(k, rs, answer).selected = k.selected
           /\ Answered(k, rs, answer).shots = k.shots
           /\ \A r \in Screenshots :
                 Answered(k, rs, answer).answers[r]
                     = IF r \in rs THEN Append(k.answers[r], answer) ELSE k.answers[r]
<1> DEFINE answers == [r \in Screenshots |-> IF r \in rs THEN Append(k.answers[r], answer)
                                             ELSE k.answers[r]]
<1>1. answers \in [Screenshots -> Seq(Answers)]
  <2>1. \A r \in Screenshots : k.answers[r] \in Seq(Answers)
    BY DEF Caps
  <2> QED
    BY <2>1
<1>2. Answered(k, rs, answer) = [k EXCEPT !.answers = answers]
  BY DEF Answered
<1>3. \A r \in Screenshots :
         answers[r] = IF r \in rs THEN Append(k.answers[r], answer) ELSE k.answers[r]
  OBVIOUS
<1> HIDE DEF answers
<1>4. [k EXCEPT !.answers = answers] \in Caps
  BY <1>1 DEF Caps
<1>5. /\ [k EXCEPT !.answers = answers].answers = answers
      /\ [k EXCEPT !.answers = answers].active = k.active
      /\ [k EXCEPT !.answers = answers].generation = k.generation
      /\ [k EXCEPT !.answers = answers].selected = k.selected
      /\ [k EXCEPT !.answers = answers].shots = k.shots
  BY DEF Caps
<1> QED
  BY <1>2, <1>3, <1>4, <1>5

\* A request that is registered no longer, and has had no answer, may get one.
LEMMA AnsweredSettles ==
    ASSUME NEW reqs, NEW k, Settled(k, reqs), NEW rs, NEW answer \in Answers,
           \A r \in Screenshots : r \in rs =>
               r \in reqs /\ k.shots[r] = NoShot /\ k.answers[r] = <<>>
    PROVE  Settled(Answered(k, rs, answer), reqs)
<1> DEFINE told == Answered(k, rs, answer)
<1>1. /\ told \in Caps /\ told.shots = k.shots
      /\ \A r \in Screenshots :
            told.answers[r] = IF r \in rs THEN Append(k.answers[r], answer) ELSE k.answers[r]
  BY AnsweredFields DEF Settled
<1>2. Len(Append(<<>>, answer)) = 1
  OBVIOUS
<1> HIDE DEF told
<1>3. ASSUME NEW r \in Screenshots
      PROVE  /\ Len(told.answers[r]) <= 1
             /\ told.answers[r] # <<>> => told.shots[r] = NoShot
             /\ r \notin reqs => told.shots[r] = NoShot /\ told.answers[r] = <<>>
  <2>1. CASE r \in rs
    <3>1. told.answers[r] = Append(<<>>, answer)
      BY <1>1, <2>1
    <3> QED
      BY <1>1, <1>2, <2>1, <3>1
  <2>2. CASE r \notin rs
    BY <1>1, <2>2 DEF Settled
  <2> QED
    BY <2>1, <2>2
<1>4. Settled(told, reqs)
  BY <1>1, <1>3 DEF Settled
<1> QED
  BY <1>4 DEF told

LEMMA RemovedSettles ==
    ASSUME NEW reqs, NEW k, Settled(k, reqs), NEW rs
    PROVE  Settled(Removed(k, rs), reqs)
BY RemovedFields DEF Settled

\* cancelScreenshots(): nothing is registered any more.
LEMMA CancelSettles ==
    ASSUME NEW reqs, NEW k, Settled(k, reqs)
    PROVE  /\ Settled(CancelScreenshots(k), reqs)
           /\ Pending(CancelScreenshots(k)) = {}
           /\ CancelScreenshots(k).active = k.active
           /\ CancelScreenshots(k).generation = k.generation
<1> DEFINE gone == Removed(k, Pending(k))
<1>1. /\ Settled(gone, reqs) /\ gone.answers = k.answers
      /\ gone.active = k.active /\ gone.generation = k.generation
      /\ \A r \in Screenshots : gone.shots[r] = NoShot
  BY RemovedSettles, RemovedFields DEF Settled, Pending
<1>2. \A r \in Screenshots : r \in Pending(k) =>
         r \in reqs /\ gone.shots[r] = NoShot /\ gone.answers[r] = <<>>
  BY <1>1 DEF Settled, Pending
<1>3. CancelScreenshots(k) = Answered(gone, Pending(k), "cancelled")
  BY DEF CancelScreenshots
<1>4. "cancelled" \in Answers
  BY DEF Answers
<1> HIDE DEF gone
<1>5. gone \in Caps
  BY <1>1 DEF Settled
<1>6. Settled(Answered(gone, Pending(k), "cancelled"), reqs)
  BY <1>1, <1>2, <1>4, AnsweredSettles
<1>7. /\ Answered(gone, Pending(k), "cancelled").shots = gone.shots
      /\ Answered(gone, Pending(k), "cancelled").active = gone.active
      /\ Answered(gone, Pending(k), "cancelled").generation = gone.generation
  BY <1>4, <1>5, AnsweredFields
<1> QED
  BY <1>1, <1>3, <1>6, <1>7 DEF Pending

LEMMA OffFields ==
    ASSUME NEW k \in Caps, NEW j, j = [k EXCEPT !.generation = k.generation + 1, !.active = FALSE]
    PROVE  /\ j \in Caps /\ j.active = FALSE
           /\ j.shots = k.shots /\ j.answers = k.answers
<1>1. ASSUME NEW n \in Nat PROVE [k EXCEPT !.generation = n, !.active = FALSE] \in Caps
  BY DEF Caps
<1>2. k.generation + 1 \in Nat
  BY DEF Caps
<1>3. j \in Caps
  BY <1>1, <1>2
<1>4. j.active = FALSE /\ j.shots = k.shots /\ j.answers = k.answers
  BY DEF Caps
<1> QED
  BY <1>3, <1>4

LEMMA OnFields ==
    ASSUME NEW k \in Caps, NEW j, j = [k EXCEPT !.generation = k.generation + 1, !.active = TRUE, !.selected = TRUE]
    PROVE  /\ j \in Caps /\ j.active = TRUE
           /\ j.shots = k.shots /\ j.answers = k.answers
<1>1. ASSUME NEW n \in Nat PROVE [k EXCEPT !.generation = n, !.active = TRUE, !.selected = TRUE] \in Caps
  BY DEF Caps
<1>2. k.generation + 1 \in Nat
  BY DEF Caps
<1>3. j \in Caps
  BY <1>1, <1>2
<1>4. j.active = TRUE /\ j.shots = k.shots /\ j.answers = k.answers
  BY DEF Caps
<1> QED
  BY <1>3, <1>4

\* A capture that has stopped owes nothing to anybody.
LEMMA StoppedKeeps ==
    ASSUME NEW reqs, NEW k, Settled(k, reqs), NEW cs, NEW enc
    PROVE  /\ Settled(Stopped(k), reqs) /\ ForClients(Stopped(k), cs, enc)
           /\ Stopped(k).active = FALSE
<1> DEFINE rest == CancelScreenshots(k)
<1>1. Settled(rest, reqs) /\ Pending(rest) = {}
  BY CancelSettles
<1>2. Stopped(k) = [rest EXCEPT !.generation = rest.generation + 1, !.active = FALSE]
  BY DEF Stopped
<1> HIDE DEF rest
<1>3. rest \in Caps
  BY <1>1 DEF Settled
<1>4. /\ Stopped(k) \in Caps /\ Stopped(k).active = FALSE
      /\ Stopped(k).shots = rest.shots /\ Stopped(k).answers = rest.answers
  BY <1>2, <1>3, OffFields
<1> QED
  BY <1>1, <1>4 DEF Settled, ForClients, Pending

\* A capture that starts has nothing registered yet.
LEMMA StartedKeeps ==
    ASSUME NEW reqs, NEW k, Settled(k, reqs), NEW cs, cs # {}, NEW enc
    PROVE  /\ Settled(Started(k), reqs) /\ ForClients(Started(k), cs, enc)
           /\ Started(k).active = TRUE
<1> DEFINE rest == CancelScreenshots(k)
<1>1. Settled(rest, reqs) /\ Pending(rest) = {}
  BY CancelSettles
<1>2. Started(k) = [rest EXCEPT !.generation = rest.generation + 1, !.active = TRUE,
                                !.selected = TRUE]
  BY DEF Started
<1> HIDE DEF rest
<1>3. rest \in Caps
  BY <1>1 DEF Settled
<1>4. /\ Started(k) \in Caps /\ Started(k).active = TRUE
      /\ Started(k).shots = rest.shots /\ Started(k).answers = rest.answers
  BY <1>2, <1>3, OnFields
<1> QED
  BY <1>1, <1>4 DEF Settled, ForClients, Pending

LEMMA StartKeeps ==
    ASSUME NEW reqs, NEW k, NEW cs, cs # {}, NEW enc, Settled(k, reqs), ForClients(k, cs, enc),
           NEW o \in StartOutcomes(k)
    PROVE  /\ Settled(o.cap, reqs) /\ ForClients(o.cap, cs, enc)
           /\ o.ok => o.cap.active
<1>1. CASE k.active
  BY <1>1 DEF StartOutcomes
<1>2. CASE ~k.active
  <2>1. o = [cap |-> Started(k), ok |-> TRUE] \/ o = [cap |-> Stopped(Started(k)), ok |-> FALSE]
    BY <1>2 DEF StartOutcomes
  <2>2. CASE o = [cap |-> Started(k), ok |-> TRUE]
    BY <2>2, StartedKeeps
  <2>3. CASE o = [cap |-> Stopped(Started(k)), ok |-> FALSE]
    <3>1. Settled(Started(k), reqs)
      BY StartedKeeps
    <3> QED
      BY <2>3, <3>1, StoppedKeeps
  <2> QED
    BY <2>1, <2>2, <2>3
<1> QED
  BY <1>1, <1>2

\* Which device is selected says nothing of what is owed.
LEMMA SelectedKeeps ==
    ASSUME NEW reqs, NEW k, Settled(k, reqs), NEW cs, NEW enc, ForClients(k, cs, enc)
    PROVE  /\ Settled([k EXCEPT !.selected = TRUE], reqs)
           /\ ForClients([k EXCEPT !.selected = TRUE], cs, enc)
<1> DEFINE s == [k EXCEPT !.selected = TRUE]
<1>1. k \in Caps
  BY DEF Settled
<1>2. /\ s \in Caps /\ s.active = k.active /\ s.generation = k.generation
      /\ s.shots = k.shots /\ s.answers = k.answers
  BY <1>1 DEF Caps
<1> HIDE DEF s
<1>3. Settled(s, reqs) /\ ForClients(s, cs, enc)
  BY <1>2 DEF Settled, ForClients, Pending
<1> QED
  BY <1>3 DEF s

\* Capture is reconciled with the demand of the clients it will serve.
LEMMA ReconcileKeeps ==
    ASSUME NEW reqs, NEW k, NEW cs, NEW enc, Settled(k, reqs), ForClients(k, cs, enc),
           NEW prev, NEW hyb, NEW o \in Reconcile(cs, prev, hyb, k)
    PROVE  Settled(o.cap, reqs) /\ ForClients(o.cap, cs, enc)
<1>1. CASE Demand(cs, prev, hyb, k)
  <2>1. cs # {}
    BY <1>1 DEF Demand, ForClients
  <2> QED
    BY <1>1, <2>1, StartKeeps DEF Reconcile
<1>2. CASE ~Demand(cs, prev, hyb, k)
  <2>1. o.cap = IF k.active THEN [Stopped(k) EXCEPT !.selected = TRUE]
                ELSE [k EXCEPT !.selected = TRUE]
    BY <1>2 DEF Reconcile
  <2>2. CASE k.active
    <3>1. Settled(Stopped(k), reqs) /\ ForClients(Stopped(k), cs, enc)
      BY StoppedKeeps
    <3> QED
      BY <2>1, <2>2, <3>1, SelectedKeeps
  <2>3. CASE ~k.active
    BY <2>1, <2>3, SelectedKeeps
  <2> QED
    BY <2>2, <2>3
<1> QED
  BY <1>1, <1>2

LEMMA ReconcileSelectedKeeps ==
    ASSUME NEW reqs, NEW k, NEW cs, NEW enc, Settled(k, reqs), ForClients(k, cs, enc),
           NEW prev, NEW hyb, NEW next \in ReconcileSelected(cs, prev, hyb, k)
    PROVE  Settled(next, reqs) /\ ForClients(next, cs, enc)
BY ReconcileKeeps DEF ReconcileSelected

-----------------------------------------------------------------------------
(* The handlers.                                                           *)

LEMMA Initially == ASSUME CaptureAssumption, CaptureInit PROVE IInv
<1> USE DEF CaptureInit
<1>1. NoShot \in Shots
  BY DEF Shots
<1>2. \A r \in Screenshots : cap.shots[r] = NoShot /\ cap.answers[r] = <<>>
  BY DEF Cap
<1>3. cap \in Caps
  BY <1>1 DEF Cap, Caps
<1>4. CaptureTypeOK
  <2>1. calls \in 0..MaxCalls
    BY DEF CaptureAssumption
  <2>2. frames \in Seq(Nat) /\ shuttingDown \in BOOLEAN
    BY EmptySeq
  <2>3. /\ encoding \in [Screenshots -> Nat \union {None}]
        /\ requester \in [Screenshots -> Connections \union {None}]
        /\ writeFailed \in [Connections -> {"none", "queued", "handled"}]
    OBVIOUS
  <2> QED
    BY <1>3, <2>1, <2>2, <2>3 DEF CaptureTypeOK
<1>5. Settled(cap, Made)
  BY <1>2, <1>3 DEF Settled
<1>6. ForClients(cap, Clients, encoding)
  <2>1. cap.active = FALSE /\ Pending(cap) = {}
    BY <1>2 DEF Cap, Pending
  <2> QED
    BY <2>1 DEF ForClients
<1> QED
  BY <1>4, <1>5, <1>6 DEF IInv

\* More clients may be served by the same capture.
LEMMA ServesMore ==
    ASSUME NEW k, NEW cs, NEW ds, NEW enc, ForClients(k, cs, enc), cs \subseteq ds
    PROVE  ForClients(k, ds, enc)
BY DEF ForClients

\* A connection is accepted, authenticates, or has a failed write.
LEMMA ArrivalKeeps ==
    ASSUME IInv, NEW c \in Connections, AcceptConnection(c) \/ Hello(c) \/ WriteFails(c)
    PROVE  IInv'
<1>1. UNCHANGED <<preview, hybrid, cap, pipeline, requester, shuttingDown, calls>>
  BY DEF AcceptConnection, Hello, WriteFails
<1>2. Clients \subseteq Clients'
  BY DEF AcceptConnection, Hello, WriteFails, Clients
<1>3. CaptureTypeOK'
  BY <1>1 DEF IInv, CaptureTypeOK, AcceptConnection, Hello, WriteFails, pipeline
<1>4. Settled(cap, Made)'
  BY <1>1 DEF IInv, Settled, Made
<1>5. ForClients(cap, Clients', encoding)
  BY <1>2, ServesMore DEF IInv
<1>6. ForClients(cap, Clients, encoding)'
  BY <1>1, <1>5 DEF pipeline, ForClients, Pending
<1> QED
  BY <1>3, <1>4, <1>6 DEF IInv

\* The capture state changes, and nothing else that matters to it.
LEMMA CapChangeKeeps ==
    ASSUME IInv, UNCHANGED <<connections, authenticated, accepted, writeFailed, encoding, requester>>,
           preview' \subseteq authenticated, hybrid' \subseteq authenticated,
           frames' \in Seq(Nat), shuttingDown' \in BOOLEAN, calls' \in 0..MaxCalls,
           Settled(cap', Made), ForClients(cap', Clients, encoding)
    PROVE  IInv'
<1>1. Settled(cap, Made)'
  BY DEF Settled, Made
<1>2. ForClients(cap, Clients, encoding)'
  BY DEF ForClients, Clients, Pending
<1>3. CaptureTypeOK'
  BY DEF IInv, CaptureTypeOK, Settled
<1> QED
  BY <1>1, <1>2, <1>3 DEF IInv

\* The requests of a client that leaves are dropped, and what is left belongs
\* to the others.
LEMMA LeavingKeeps ==
    ASSUME IInv, NEW c \in Connections
    PROVE  LET left == CancelScreenshotsFor(cap, c)
           IN  /\ Settled(left, Made)
               /\ Clients \ {c} # {} => ForClients(left, Clients \ {c}, encoding)
               /\ c \notin authenticated => ForClients(left, Clients, encoding)
<1> DEFINE mine == {r \in Pending(cap) : cap.shots[r].connection = c}
           left == Removed(cap, mine)
<1>1. cap \in Caps /\ Settled(cap, Made) /\ ForClients(cap, Clients, encoding)
  BY DEF IInv, CaptureTypeOK
<1>2. Settled(left, Made)
  BY <1>1, RemovedSettles
<1>3. /\ left.active = cap.active /\ left.generation = cap.generation
      /\ \A r \in Screenshots : left.shots[r] = IF r \in mine THEN NoShot ELSE cap.shots[r]
  BY <1>1, RemovedFields
<1> HIDE DEF left
<1>4. ASSUME NEW r \in Pending(left)
      PROVE  /\ r \in Pending(cap) /\ left.shots[r] = cap.shots[r]
             /\ cap.shots[r].connection # c
  BY <1>3, <1>4 DEF Pending
<1>5. Clients \ {c} # {} => ForClients(left, Clients \ {c}, encoding)
  BY <1>1, <1>3, <1>4 DEF ForClients
<1>6. c \notin authenticated => ForClients(left, Clients, encoding)
  BY <1>1, <1>3, <1>4 DEF ForClients
<1> QED
  BY <1>2, <1>5, <1>6 DEF CancelScreenshotsFor, left

LEMMA DisconnectKeeps ==
    ASSUME IInv, NEW c \in Connections, Disconnect(c),
           writeFailed' \in [Connections -> {"none", "queued", "handled"}]
    PROVE  IInv'
<1> DEFINE left == CancelScreenshotsFor(cap, c)
           others == Clients \ {c}
<1>1. UNCHANGED <<authenticated, preview, hybrid, accepted, frames, encoding, requester, calls>>
  BY DEF Disconnect, pipeline
<1>2. connections' = connections \ {c}
  BY DEF Disconnect
<1>3. Clients' = others
  BY <1>1, <1>2 DEF Clients
<1>4. /\ Settled(left, Made)
      /\ others # {} => ForClients(left, others, encoding)
      /\ c \notin authenticated => ForClients(left, Clients, encoding)
  BY LeavingKeeps
<1>5. cap' \in IF c \notin authenticated THEN {left}
               ELSE IF c \in authenticated /\ others = {} THEN {Stopped(left)}
               ELSE ReconcileSelected(others, preview, hybrid, left)
  BY DEF Disconnect
<1>6. Settled(cap', Made) /\ ForClients(cap', others, encoding)
  <2> HIDE DEF left, others
  <2>1. CASE c \notin authenticated
    <3>1. others = Clients
      BY <2>1 DEF others, Clients
    <3> QED
      BY <1>4, <1>5, <2>1, <3>1
  <2>2. CASE c \in authenticated /\ others = {}
    <3>1. cap' = Stopped(left)
      BY <1>5, <2>2
    <3> QED
      BY <1>4, <3>1, StoppedKeeps
  <2>3. CASE c \in authenticated /\ others # {}
    <3>1. cap' \in ReconcileSelected(others, preview, hybrid, left)
      BY <1>5, <2>3
    <3> QED
      BY <1>4, <2>3, <3>1, ReconcileSelectedKeeps
  <2> QED
    BY <2>1, <2>2, <2>3
<1>7. Settled(cap, Made)'
  BY <1>1, <1>6 DEF Settled, Made
<1>8. ForClients(cap, Clients, encoding)'
  BY <1>1, <1>3, <1>6 DEF ForClients, Pending
<1>9. shuttingDown' \in BOOLEAN
  BY DEF Disconnect, IInv, CaptureTypeOK
<1>10. CaptureTypeOK'
  BY <1>1, <1>2, <1>6, <1>9 DEF IInv, CaptureTypeOK, Settled
<1> QED
  BY <1>7, <1>8, <1>10 DEF IInv

LEMMA CallCounts ==
    ASSUME IInv, CaptureAssumption, Call
    PROVE  calls' \in 0..MaxCalls
BY DEF Call, IInv, CaptureTypeOK, CaptureAssumption

\* The requests of a client but capture.screenshot.
LEMMA RequestKeeps ==
    ASSUME CaptureAssumption, IInv, NEW c \in Connections,
           \/ DeviceDescribe(c) \/ CaptureStart(c) \/ CapturePreview(c)
           \/ CaptureStop(c) \/ ObservationGet(c)
    PROVE  IInv'
<1>1. /\ Settled(cap, Made) /\ ForClients(cap, Clients, encoding) /\ frames \in Seq(Nat)
      /\ preview \subseteq authenticated /\ hybrid \subseteq authenticated
      /\ shuttingDown \in BOOLEAN
  BY DEF IInv, CaptureTypeOK
<1>2. /\ c \in Clients /\ c \in authenticated /\ calls' \in 0..MaxCalls
      /\ UNCHANGED <<connections, authenticated, accepted, writeFailed, frames, encoding,
                     requester, shuttingDown>>
  BY CallCounts DEF DeviceDescribe, CaptureStart, CapturePreview, CaptureStop, ObservationGet,
     Receives, Clients, clients, pipeline
<1>3. CASE DeviceDescribe(c)
  <2>1. cap' = [cap EXCEPT !.selected = TRUE] /\ UNCHANGED <<preview, hybrid>>
    BY <1>3 DEF DeviceDescribe, clients
  <2> QED
    BY <1>1, <1>2, <2>1, SelectedKeeps, CapChangeKeeps
<1>4. CASE CaptureStart(c)
  <2>1. hybrid' \subseteq authenticated /\ preview' = preview
    BY <1>1, <1>2, <1>4 DEF CaptureStart
  <2>2. PICK o \in Reconcile(Clients, preview, hybrid', [cap EXCEPT !.selected = TRUE]) :
           cap' = o.cap
    BY <1>4 DEF CaptureStart
  <2>3. /\ Settled([cap EXCEPT !.selected = TRUE], Made)
        /\ ForClients([cap EXCEPT !.selected = TRUE], Clients, encoding)
    BY <1>1, SelectedKeeps
  <2>4. Settled(cap', Made) /\ ForClients(cap', Clients, encoding)
    BY <2>2, <2>3, ReconcileKeeps
  <2> QED
    BY <1>1, <1>2, <2>1, <2>4, CapChangeKeeps
<1>5. CASE CapturePreview(c)
  <2>1. preview' \subseteq authenticated /\ hybrid' = hybrid
    BY <1>1, <1>2, <1>5 DEF CapturePreview
  <2>2. cap' \in ReconcileSelected(Clients, preview', hybrid, cap)
    BY <1>5 DEF CapturePreview
  <2>3. Settled(cap', Made) /\ ForClients(cap', Clients, encoding)
    BY <1>1, <2>2, ReconcileSelectedKeeps
  <2> QED
    BY <1>1, <1>2, <2>1, <2>3, CapChangeKeeps
<1>6. CASE CaptureStop(c)
  <2>1. cap' = Stopped(cap) /\ UNCHANGED <<preview, hybrid>>
    BY <1>6 DEF CaptureStop, clients
  <2>2. Settled(cap', Made) /\ ForClients(cap', Clients, encoding)
    BY <1>1, <2>1, StoppedKeeps
  <2> QED
    BY <1>1, <1>2, <2>1, <2>2, CapChangeKeeps
<1>7. CASE ObservationGet(c)
  <2>1. UNCHANGED <<preview, hybrid>>
    BY <1>7 DEF ObservationGet, clients
  <2>2. PICK o \in StartOutcomes(cap) : cap' = o.cap
    BY <1>7 DEF ObservationGet
  <2>3. Settled(cap', Made) /\ ForClients(cap', Clients, encoding)
    BY <1>1, <1>2, <2>2, StartKeeps
  <2> QED
    BY <1>1, <1>2, <2>1, <2>3, CapChangeKeeps
<1> QED
  BY <1>3, <1>4, <1>5, <1>6, <1>7

\* A screenshot that can be captured is registered for the capture that runs.
LEMMA RegisteredKeeps ==
    ASSUME NEW reqs, NEW k, NEW cs, NEW enc, Settled(k, reqs), ForClients(k, cs, enc), k.active,
           NEW r \in Screenshots, r \in reqs, k.answers[r] = <<>>,
           NEW c \in Connections, c \in cs
    PROVE  LET shot == [connection |-> c, generation |-> k.generation, timer |-> TRUE,
                        encoding |-> FALSE]
           IN  /\ Settled([k EXCEPT !.shots[r] = shot], reqs)
               /\ ForClients([k EXCEPT !.shots[r] = shot], cs, enc)
<1> DEFINE shot == [connection |-> c, generation |-> k.generation, timer |-> TRUE,
                    encoding |-> FALSE]
           shots == [k.shots EXCEPT ![r] = shot]
           j == [k EXCEPT !.shots[r] = shot]
<1>1. k \in Caps
  BY DEF Settled
<1>2. /\ shot \in Shots /\ shot.generation = k.generation /\ shot.connection = c
      /\ shot.timer
  BY <1>1 DEF Caps, Shots
<1> HIDE DEF shot
<1>3. /\ shots \in [Screenshots -> Shots] /\ shots[r] = shot
      /\ \A q \in Screenshots : q # r => shots[q] = k.shots[q]
  BY <1>1, <1>2 DEF Caps
<1>4. j = [k EXCEPT !.shots = shots]
  BY <1>1 DEF Caps
<1> HIDE DEF shots
<1>5. [k EXCEPT !.shots = shots] \in Caps
  BY <1>1, <1>3 DEF Caps
<1>6. /\ [k EXCEPT !.shots = shots].shots = shots
      /\ [k EXCEPT !.shots = shots].answers = k.answers
      /\ [k EXCEPT !.shots = shots].active = k.active
      /\ [k EXCEPT !.shots = shots].generation = k.generation
  BY <1>1 DEF Caps
<1> HIDE DEF j
<1>7. /\ j \in Caps /\ j.shots = shots /\ j.answers = k.answers /\ j.active = k.active
      /\ j.generation = k.generation
  BY <1>4, <1>5, <1>6
<1>8. Settled(j, reqs)
  BY <1>3, <1>7 DEF Settled
<1>9. ForClients(j, cs, enc)
  <2>1. ASSUME NEW q \in Pending(j)
        PROVE  /\ j.active /\ j.shots[q].generation = j.generation
               /\ j.shots[q].connection \in cs
               /\ j.shots[q].timer \/ enc[q] = j.generation
    <3>1. CASE q = r
      BY <1>2, <1>3, <1>7, <3>1
    <3>2. CASE q # r
      <4>1. q \in Pending(k) /\ j.shots[q] = k.shots[q]
        BY <1>3, <1>7, <2>1, <3>2 DEF Pending
      <4> QED
        BY <1>7, <4>1 DEF ForClients
    <3> QED
      BY <3>1, <3>2
  <2> QED
    BY <1>7, <2>1 DEF ForClients
<1> QED
  BY <1>8, <1>9 DEF j, shot

LEMMA CaptureScreenshotKeeps ==
    ASSUME CaptureAssumption, IInv, NEW c \in Connections, NEW r \in Screenshots,
           CaptureScreenshot(c, r)
    PROVE  IInv'
<1> DEFINE reqs == Made \union {r}
<1>1. /\ cap \in Caps /\ Settled(cap, Made) /\ ForClients(cap, Clients, encoding)
      /\ requester \in [Screenshots -> Connections \union {None}]
  BY DEF IInv, CaptureTypeOK
<1>2. /\ c \in Clients /\ requester[r] = None
      /\ requester' = [requester EXCEPT ![r] = c]
      /\ UNCHANGED <<connections, authenticated, preview, hybrid, writeFailed, accepted,
                     frames, encoding, shuttingDown, calls>>
  BY DEF CaptureScreenshot, Receives, clients, pipeline
<1>3. Made' \subseteq reqs /\ reqs \subseteq Made'
  BY <1>1, <1>2 DEF Made, CaptureAssumption
<1>4. Settled(cap, reqs)
  BY <1>1 DEF Settled
<1>5. cap.shots[r] = NoShot /\ cap.answers[r] = <<>> /\ r \notin Made
  BY <1>1, <1>2 DEF Settled, Made
<1>6. "error" \in Answers
  BY DEF Answers
<1>7. Settled(cap', reqs) /\ ForClients(cap', Clients, encoding)
  <2> HIDE DEF reqs
  <2>1. r \in reqs
    BY DEF reqs
  <2>2. ASSUME NEW k, Settled(k, reqs), ForClients(k, Clients, encoding), k.shots[r] = NoShot,
               k.answers[r] = <<>>
        PROVE  Settled(Answered(k, {r}, "error"), reqs)
               /\ ForClients(Answered(k, {r}, "error"), Clients, encoding)
    <3>1. Settled(Answered(k, {r}, "error"), reqs)
      BY <1>6, <2>1, <2>2, AnsweredSettles
    <3>2. k \in Caps
      BY <2>2 DEF Settled
    <3> QED
      BY <1>6, <2>2, <3>1, <3>2, AnsweredFields DEF ForClients, Pending
  <2>3. CASE ~cap.selected
    <3>1. cap' = Answered(cap, {r}, "error")
      BY <2>3 DEF CaptureScreenshot
    <3> QED
      BY <1>1, <1>4, <1>5, <2>2, <3>1
  <2>4. CASE cap.selected
    <3>1. PICK o \in StartOutcomes(cap) :
             cap' = IF o.ok
                    THEN [o.cap EXCEPT !.shots[r] =
                            [connection |-> c, generation |-> o.cap.generation,
                             timer |-> TRUE, encoding |-> FALSE]]
                    ELSE Answered(o.cap, {r}, "error")
      BY <2>4 DEF CaptureScreenshot
    <3>2. /\ Settled(o.cap, reqs) /\ ForClients(o.cap, Clients, encoding)
          /\ o.ok => o.cap.active
      BY <1>1, <1>2, <1>4, StartKeeps
    \* the start answers others, and leaves this request as it was
    <3>3. Settled(o.cap, Made)
      BY <1>1, <1>2, StartKeeps
    <3>4. o.cap.shots[r] = NoShot /\ o.cap.answers[r] = <<>>
      BY <1>5, <3>3 DEF Settled
    <3>5. CASE o.ok
      BY <1>2, <2>1, <3>1, <3>2, <3>4, <3>5, RegisteredKeeps
    <3>6. CASE ~o.ok
      BY <2>2, <3>1, <3>2, <3>4, <3>6
    <3> QED
      BY <3>5, <3>6
  <2> QED
    BY <2>3, <2>4
<1>8. Settled(cap, Made)'
  BY <1>3, <1>7 DEF Settled
<1>9. ForClients(cap, Clients, encoding)'
  BY <1>2, <1>7 DEF ForClients, Pending, Clients
<1>10. CaptureTypeOK'
  BY <1>1, <1>2, <1>7 DEF IInv, CaptureTypeOK, Settled
<1> QED
  BY <1>8, <1>9, <1>10 DEF IInv

LEMMA FrameCapturedKeeps ==
    ASSUME IInv, FrameCaptured
    PROVE  IInv'
<1>1. UNCHANGED <<clients, cap, encoding, requester, shuttingDown, calls>>
      /\ frames' \in Seq(Nat)
  BY DEF FrameCaptured, IInv, CaptureTypeOK, Caps
<1> QED
  BY <1>1, CapChangeKeeps DEF IInv, CaptureTypeOK, clients

\* A frame of this capture moves its requests from their timers to the encoder.
LEMMA AcceptCapturedFrameKeeps ==
    ASSUME IInv, AcceptCapturedFrame
    PROVE  IInv'
<1> DEFINE g == Head(frames)
           rs == IF IsCurrent(g) THEN Fulfilled(g) ELSE {}
           shots == [r \in Screenshots |->
                       IF r \in rs THEN [cap.shots[r] EXCEPT !.timer = FALSE, !.encoding = TRUE]
                       ELSE cap.shots[r]]
<1>1. /\ cap \in Caps /\ Settled(cap, Made) /\ ForClients(cap, Clients, encoding)
      /\ frames \in Seq(Nat) /\ encoding \in [Screenshots -> Nat \union {None}]
  BY DEF IInv, CaptureTypeOK
<1>2. /\ UNCHANGED <<clients, requester, shuttingDown, calls>> /\ frames # <<>>
      /\ frames' = Tail(frames)
      /\ encoding' = [r \in Screenshots |-> IF r \in rs THEN g ELSE encoding[r]]
      /\ cap' = [cap EXCEPT !.shots = shots]
  BY DEF AcceptCapturedFrame
<1>3. /\ \A r \in rs : r \in Pending(cap) /\ g = cap.generation
      /\ rs \subseteq Screenshots
  BY DEF IsCurrent, Fulfilled, Pending
<1>4. ASSUME NEW r \in Screenshots
      PROVE  /\ shots[r] \in Shots
             /\ r \notin rs => shots[r] = cap.shots[r]
             /\ shots[r].generation = cap.shots[r].generation
             /\ shots[r].connection = cap.shots[r].connection
             /\ r \notin Pending(cap) => shots[r] = NoShot
  <2>1. CASE r \in rs
    <3>1. shots[r] = [cap.shots[r] EXCEPT !.timer = FALSE, !.encoding = TRUE]
      BY <2>1
    <3>2. cap.shots[r] \in [connection : Connections, generation : Nat, timer : BOOLEAN,
                            encoding : BOOLEAN]
      BY <1>1, <1>3, <2>1 DEF Caps, Shots, Pending
    <3>3. ASSUME NEW s \in [connection : Connections, generation : Nat, timer : BOOLEAN,
                            encoding : BOOLEAN]
          PROVE  /\ [s EXCEPT !.timer = FALSE, !.encoding = TRUE] \in Shots
                 /\ [s EXCEPT !.timer = FALSE, !.encoding = TRUE].generation = s.generation
                 /\ [s EXCEPT !.timer = FALSE, !.encoding = TRUE].connection = s.connection
      BY DEF Shots
    <3>4. /\ [cap.shots[r] EXCEPT !.timer = FALSE, !.encoding = TRUE] \in Shots
          /\ [cap.shots[r] EXCEPT !.timer = FALSE, !.encoding = TRUE].generation
                = cap.shots[r].generation
          /\ [cap.shots[r] EXCEPT !.timer = FALSE, !.encoding = TRUE].connection
                = cap.shots[r].connection
      BY <3>2, <3>3
    <3> HIDE DEF shots, rs
    <3>5. r \in Pending(cap)
      BY <1>3, <2>1
    <3> QED
      BY <2>1, <3>1, <3>4, <3>5
  <2>2. CASE r \notin rs
    <3>1. shots[r] = cap.shots[r]
      BY <2>2
    <3> HIDE DEF shots, rs
    <3> QED
      BY <1>1, <2>2, <3>1 DEF Caps, Pending
  <2> QED
    BY <2>1, <2>2
<1>5. shots \in [Screenshots -> Shots]
  BY <1>4
<1>6. frames' \in Seq(Nat) /\ encoding' \in [Screenshots -> Nat \union {None}]
  <2>1. frames' \in Seq(Nat)
    BY <1>1, <1>2, HeadTailProperties
  <2>2. ASSUME NEW r \in rs PROVE g \in Nat
    BY <1>1, <1>3 DEF Caps
  <2> HIDE DEF rs, g
  <2>3. encoding' \in [Screenshots -> Nat \union {None}]
    BY <1>1, <1>2, <2>2
  <2> QED
    BY <2>1, <2>3
<1>7. ASSUME NEW r \in Screenshots
      PROVE  encoding'[r] = IF r \in rs THEN g ELSE encoding[r]
  BY <1>2
<1> HIDE DEF shots, rs, g
<1>8. /\ cap' \in Caps /\ cap'.shots = shots /\ cap'.answers = cap.answers
      /\ cap'.active = cap.active /\ cap'.generation = cap.generation
  BY <1>1, <1>2, <1>5 DEF Caps
<1>9. ASSUME NEW r \in Screenshots PROVE cap.shots[r] = NoShot => shots[r] = NoShot
  BY <1>4 DEF Pending
<1>10. Settled(cap, Made)'
  BY <1>1, <1>2, <1>8, <1>9 DEF Settled, Made
<1>11. ForClients(cap, Clients, encoding)'
  <2>1. ASSUME NEW r \in Pending(cap')
        PROVE  /\ cap'.active /\ cap'.shots[r].generation = cap'.generation
               /\ cap'.shots[r].connection \in Clients
               /\ cap'.shots[r].timer \/ encoding'[r] = cap'.generation
    <3>1. r \in Screenshots /\ r \in Pending(cap)
      BY <1>4, <1>8, <2>1 DEF Pending
    <3>2. cap'.active /\ cap'.shots[r].generation = cap'.generation
          /\ cap'.shots[r].connection \in Clients
      BY <1>1, <1>4, <1>8, <3>1 DEF ForClients
    <3>3. CASE r \in rs
      BY <1>3, <1>7, <1>8, <3>1, <3>2, <3>3
    <3>4. CASE r \notin rs
      BY <1>1, <1>4, <1>7, <1>8, <3>1, <3>2, <3>4 DEF ForClients
    <3> QED
      BY <3>3, <3>4
  <2>2. cap'.active => Clients # {}
    BY <1>1, <1>8 DEF ForClients
  <2>3. Clients' = Clients
    BY <1>2 DEF Clients, clients
  <2> QED
    BY <2>1, <2>2, <2>3 DEF ForClients, Pending
<1>12. CaptureTypeOK'
  BY <1>2, <1>6, <1>8 DEF IInv, CaptureTypeOK, clients
<1> QED
  BY <1>10, <1>11, <1>12 DEF IInv

\* A registered request that gets its answer is registered no longer.
LEMMA FinishedKeeps ==
    ASSUME NEW reqs, NEW k, NEW cs, NEW enc, Settled(k, reqs), ForClients(k, cs, enc),
           NEW r \in Screenshots, k.shots[r] # NoShot, NEW answer \in Answers
    PROVE  LET done == Answered(Removed(k, {r}), {r}, answer)
           IN  Settled(done, reqs) /\ ForClients(done, cs, enc)
<1> DEFINE gone == Removed(k, {r})
           done == Answered(gone, {r}, answer)
<1>1. k \in Caps /\ k.answers[r] = <<>> /\ r \in reqs
  BY DEF Settled
<1>2. /\ Settled(gone, reqs) /\ gone \in Caps /\ gone.answers = k.answers
      /\ gone.active = k.active /\ gone.generation = k.generation
      /\ \A q \in Screenshots :
            gone.shots[q] = IF q \in {r} THEN NoShot ELSE k.shots[q]
  BY <1>1, RemovedSettles, RemovedFields
<1> HIDE DEF gone
<1>3. Settled(done, reqs)
  BY <1>1, <1>2, AnsweredSettles
<1>4. done.active = gone.active /\ done.generation = gone.generation /\ done.shots = gone.shots
  BY <1>2, AnsweredFields
<1> HIDE DEF done
<1>5. ForClients(done, cs, enc)
  BY <1>2, <1>4 DEF ForClients, Pending
<1> QED
  BY <1>3, <1>5 DEF done, gone

\* A request whose encoding has ended is no longer waited for by the encoder.
LEMMA ScreenshotEncodedKeeps ==
    ASSUME IInv, NEW r \in Screenshots, ScreenshotEncoded(r)
    PROVE  IInv'
<1>1. /\ cap \in Caps /\ Settled(cap, Made) /\ ForClients(cap, Clients, encoding)
      /\ encoding \in [Screenshots -> Nat \union {None}]
  BY DEF IInv, CaptureTypeOK
<1>2. /\ encoding' = [encoding EXCEPT ![r] = None]
      /\ UNCHANGED <<clients, frames, requester, shuttingDown, calls>>
  BY DEF ScreenshotEncoded
<1>3. \A q \in Screenshots : q # r => encoding'[q] = encoding[q]
  BY <1>1, <1>2
<1>4. Settled(cap', Made) /\ ForClients(cap', Clients, encoding')
  <2>1. ASSUME NEW k, Settled(k, Made), ForClients(k, Clients, encoding), k.shots[r] = NoShot
        PROVE  ForClients(k, Clients, encoding')
    BY <1>3, <2>1 DEF ForClients, Pending
  <2>2. CASE cap.shots[r] = NoShot
    <3>1. cap' = cap
      BY <2>2 DEF ScreenshotEncoded
    <3> QED
      BY <1>1, <2>1, <2>2, <3>1
  <2>3. CASE cap.shots[r] # NoShot /\ cap.shots[r].generation # cap.generation
    BY <1>1, <2>3 DEF ForClients, Pending
  <2>4. CASE cap.shots[r] # NoShot /\ cap.shots[r].generation = cap.generation
    <3>1. PICK answer \in {"png", "error"} :
             cap' \in ReconcileSelected(Clients, preview, hybrid,
                                        Answered(Removed(cap, {r}), {r}, answer))
      BY <2>4 DEF ScreenshotEncoded
    <3> DEFINE done == Answered(Removed(cap, {r}), {r}, answer)
    <3>2. answer \in Answers
      BY <3>1 DEF Answers
    <3>3. Settled(done, Made) /\ ForClients(done, Clients, encoding)
      BY <1>1, <2>4, <3>2, FinishedKeeps
    <3>4. done.shots[r] = NoShot
      BY <1>1, <3>2, RemovedFields, AnsweredFields
    <3> HIDE DEF done
    <3>5. ForClients(done, Clients, encoding')
      BY <2>1, <3>3, <3>4
    <3>6. cap' \in ReconcileSelected(Clients, preview, hybrid, done)
      BY <3>1 DEF done
    <3> QED
      BY <3>3, <3>5, <3>6, ReconcileSelectedKeeps
  <2> QED
    BY <2>2, <2>3, <2>4
<1>5. Settled(cap, Made)'
  BY <1>2, <1>4 DEF Settled, Made
<1>6. ForClients(cap, Clients, encoding)'
  BY <1>2, <1>4 DEF ForClients, Pending, Clients, clients
<1>7. CaptureTypeOK'
  BY <1>1, <1>2, <1>4 DEF IInv, CaptureTypeOK, Settled, clients
<1> QED
  BY <1>5, <1>6, <1>7 DEF IInv

LEMMA ScreenshotTimeoutKeeps ==
    ASSUME IInv, NEW r \in Screenshots, ScreenshotTimeout(r)
    PROVE  IInv'
<1> DEFINE done == Answered(Removed(cap, {r}), {r}, "timeout")
<1>1. Settled(cap, Made) /\ ForClients(cap, Clients, encoding)
  BY DEF IInv
<1>2. cap.shots[r] # NoShot /\ "timeout" \in Answers
  BY DEF ScreenshotTimeout, NoShot, Answers
<1>3. Settled(done, Made) /\ ForClients(done, Clients, encoding)
  BY <1>1, <1>2, FinishedKeeps
<1>4. cap' \in ReconcileSelected(Clients, preview, hybrid, done)
  BY DEF ScreenshotTimeout
<1> HIDE DEF done
<1>5. Settled(cap', Made) /\ ForClients(cap', Clients, encoding)
  BY <1>3, <1>4, ReconcileSelectedKeeps
<1>6. UNCHANGED <<clients, pipeline, requester, shuttingDown, calls>>
  BY DEF ScreenshotTimeout
<1> QED
  BY <1>5, <1>6, CapChangeKeeps DEF IInv, CaptureTypeOK, clients, pipeline

LEMMA ShutdownKeeps ==
    ASSUME IInv, Shutdown
    PROVE  IInv'
<1>1. cap' = Stopped(cap) /\ shuttingDown' = TRUE
      /\ UNCHANGED <<clients, pipeline, requester, calls>>
  BY DEF Shutdown
<1>2. Settled(cap', Made) /\ ForClients(cap', Clients, encoding)
  BY <1>1, StoppedKeeps DEF IInv
<1> QED
  BY <1>1, <1>2, CapChangeKeeps DEF IInv, CaptureTypeOK, clients, pipeline

-----------------------------------------------------------------------------
LEMMA StepKeeps ==
    ASSUME CaptureAssumption, IInv, [CaptureNext]_captureVars
    PROVE  IInv'
<1>1. CASE UNCHANGED captureVars
  <2>1. UNCHANGED <<connections, authenticated, preview, hybrid, writeFailed, accepted, cap,
                    frames, encoding, requester, shuttingDown, calls>>
    BY <1>1 DEF captureVars, clients, pipeline
  <2> QED
    BY <2>1, CapChangeKeeps DEF IInv, CaptureTypeOK
<1>2. ASSUME NEW c \in Connections,
             AcceptConnection(c) \/ Hello(c) \/ WriteFails(c)
      PROVE  IInv'
  BY <1>2, ArrivalKeeps
<1>3. ASSUME NEW c \in Connections, PeerCloses(c) \/ ConnectionWriteFailed(c)
      PROVE  IInv'
  <2>1. Disconnect(c)
    BY <1>3 DEF PeerCloses, ConnectionWriteFailed
  <2>2. writeFailed' \in [Connections -> {"none", "queued", "handled"}]
    BY <1>3 DEF PeerCloses, ConnectionWriteFailed, IInv, CaptureTypeOK
  <2> QED
    BY <2>1, <2>2, DisconnectKeeps
<1>4. ASSUME NEW c \in Connections,
             \/ DeviceDescribe(c) \/ CaptureStart(c) \/ CapturePreview(c)
             \/ CaptureStop(c) \/ ObservationGet(c)
      PROVE  IInv'
  BY <1>4, RequestKeeps
<1>5. ASSUME NEW c \in Connections, NEW r \in Screenshots, CaptureScreenshot(c, r)
      PROVE  IInv'
  BY <1>5, CaptureScreenshotKeeps
<1>6. CASE FrameCaptured \/ AcceptCapturedFrame \/ Shutdown
  BY <1>6, FrameCapturedKeeps, AcceptCapturedFrameKeeps, ShutdownKeeps
<1>7. ASSUME NEW r \in Screenshots, ScreenshotEncoded(r) \/ ScreenshotTimeout(r)
      PROVE  IInv'
  BY <1>7, ScreenshotEncodedKeeps, ScreenshotTimeoutKeeps
<1> QED
  BY <1>1, <1>2, <1>3, <1>4, <1>5, <1>6, <1>7 DEF CaptureNext

LEMMA Invariance == CaptureAssumption /\ CaptureSpec => []IInv
<1> SUFFICES ASSUME CaptureAssumption PROVE CaptureSpec => []IInv
  OBVIOUS
<1>1. CaptureInit => IInv
  BY Initially
<1>2. IInv /\ [CaptureNext]_captureVars => IInv'
  BY StepKeeps
<1> QED
  BY <1>1, <1>2, PTL DEF CaptureSpec

\* Every variable of the server's bookkeeping keeps its kind.
THEOREM CaptureTypesKept == CaptureAssumption /\ CaptureSpec => []CaptureTypeOK
<1>1. IInv => CaptureTypeOK
  BY DEF IInv
<1> QED
  BY Invariance, <1>1, PTL

\* The frame, the timeout, a restart of the capture, the departure of the client
\* and the end of the server race for a screenshot request: it gets one answer at
\* most, and nothing waits for it afterwards.
THEOREM OneAnswerEach == CaptureAssumption /\ CaptureSpec => []AnsweredOnce
<1>1. IInv => AnsweredOnce
  BY DEF IInv, Settled, AnsweredOnce
<1> QED
  BY Invariance, <1>1, PTL

\* Capture runs only while a client is connected, and every pending screenshot
\* belongs to the capture that runs, to a connected client, and to a timer or the
\* encoder, and is answered once.
THEOREM CaptureIsWanted == CaptureAssumption /\ CaptureSpec => []CaptureServesClients
<1>1. IInv /\ AnsweredOnce => CaptureServesClients
  BY DEF IInv, ForClients, CaptureServesClients, IsCurrent
<1> QED
  BY Invariance, OneAnswerEach, <1>1, PTL


\* What a load has when it waits for what it waits for.
Awaits(l) ==
    /\ l.at = "capture" => l.seen \in [device : TreeDevices, generation : Nat]
    /\ l.at = "started" => IF bridged THEN Len(l.pages) \in 1..PageCount ELSE Len(l.pages) = 1
    /\ l.at = "page" => bridged /\ Len(l.pages) < PageCount
    /\ l.at = "assemble" => Len(l.pages) = IF bridged THEN PageCount ELSE 1

\* TreeIsOfNewestLoad does not say that the owner is the load that began last,
\* and that it is still running: an owner that had applied its tree would be
\* marked as aborted by its successor.
OwnerInv ==
    /\ owner \in {0, begun}
    /\ owner # 0 => load[owner].at \in Steps
    /\ \A r \in Loads : load[r].at # "idle" => r <= begun
    /\ \A r \in Loads : Awaits(load[r])

TreeInv == TransferTypeOK /\ OwnerInv /\ TreeIsOfNewestLoad


LEMMA TreeInit == ASSUME TransferAssumption, TransferInit PROVE TreeInv
<1>1. Idle \in LoadStates /\ Idle.at = "idle" /\ Idle.aborted = FALSE
  BY DEF Idle, LoadStates
<1>2. load \in [Loads -> LoadStates] /\ \A r \in Loads : load[r] = Idle
  BY <1>1 DEF TransferInit
<1>3. TransferTypeOK
  <2>1. MaxLoads \in Nat
    BY DEF TransferAssumption
  <2>2. 0 \in 0..MaxLoads
    BY <2>1
  <2> QED BY <1>2, <2>2 DEF TransferInit, TransferTypeOK
<1>4. OwnerInv
  BY <1>1, <1>2 DEF TransferInit, OwnerInv, Awaits
<1>5. TreeIsOfNewestLoad
  BY <1>1, <1>2 DEF TransferInit, TreeIsOfNewestLoad, Running, Steps
<1> QED BY <1>3, <1>4, <1>5 DEF TreeInv

LEMMA Changes ==
    ASSUME NEW l \in LoadStates
    PROVE  /\ \A a \in Steps \cup {"idle", "applied", "over"} :
                 LET k == [l EXCEPT !.at = a]
                 IN  k \in LoadStates /\ k.at = a /\ k.aborted = l.aborted
                     /\ k.pages = l.pages /\ k.seen = l.seen
           /\ LET k == [l EXCEPT !.aborted = TRUE]
              IN  k \in LoadStates /\ k.at = l.at /\ k.aborted /\ k.pages = l.pages /\ k.seen = l.seen
BY DEF LoadStates

\* The steps of one load that neither end nor begin it.
LEMMA LoadGoesOn ==
    ASSUME TransferAssumption, TreeInv, NEW r \in Loads, NEW l \in LoadStates,
           load' = [load EXCEPT ![r] = l],
           l.aborted = load[r].aborted, Awaits(l), l.at \in Steps <=> load[r].at \in Steps,
           l.at = "applied" => load[r].at = "applied", load[r].at = "idle" => l.at = "idle",
           UNCHANGED <<bridged, owner, pending, begun, tree>>
    PROVE  load' \in [Loads -> LoadStates] /\ OwnerInv' /\ TreeIsOfNewestLoad'
<1>1. load \in [Loads -> LoadStates] /\ load' \in [Loads -> LoadStates]
  BY DEF TreeInv, TransferTypeOK
<1>2. /\ load'[r] = l
      /\ \A s \in Loads \ {r} : load'[s] = load[s]
  BY <1>1
<1>3. owner \in Nat /\ (owner # 0 => owner \in Loads)
  BY DEF TreeInv, TransferTypeOK, Loads, TransferAssumption
<1>4. OwnerInv'
  BY <1>2, <1>3 DEF TreeInv, OwnerInv, Awaits
<1>5. TreeIsOfNewestLoad'
  BY <1>2, <1>3 DEF TreeInv, TreeIsOfNewestLoad, Running, Consistent
<1> QED BY <1>1, <1>4, <1>5

LEMMA LoadEnds ==
    ASSUME TransferAssumption, TreeInv, NEW r \in Running, Finish(r, "over"),
           UNCHANGED <<bridged, begun, tree>>
    PROVE  load' \in [Loads -> LoadStates] /\ OwnerInv' /\ TreeIsOfNewestLoad'
<1> DEFINE l == [load[r] EXCEPT !.at = "over"]
<1>1. load \in [Loads -> LoadStates] /\ r \in Loads
  BY DEF TreeInv, TransferTypeOK, Running
<1>2. l \in LoadStates /\ l.at = "over" /\ l.aborted = load[r].aborted /\ l.pages = load[r].pages
  <2>1. load[r] \in LoadStates
    BY <1>1
  <2> QED BY <2>1 DEF LoadStates
<1>3. load' = [load EXCEPT ![r] = l]
  BY DEF Finish
<1> HIDE DEF l
<1>4. /\ load' \in [Loads -> LoadStates]
      /\ load'[r] = l
      /\ \A s \in Loads \ {r} : load'[s] = load[s]
  BY <1>1, <1>2, <1>3
<1>5. owner \in Nat /\ (owner # 0 => owner \in Loads)
  BY DEF TreeInv, TransferTypeOK, Loads, TransferAssumption
<1>6. OwnerInv'
  BY <1>1, <1>2, <1>4, <1>5 DEF TreeInv, OwnerInv, Awaits, Finish, ownership, Running, Steps
<1>7. TreeIsOfNewestLoad'
  BY <1>1, <1>2, <1>4, <1>5 DEF TreeInv, TreeIsOfNewestLoad, Running, Consistent, Finish,
       ownership, Steps
<1> QED BY <1>4, <1>6, <1>7

LEMMA AbortMarks ==
    ASSUME NEW loads \in [Loads -> LoadStates], NEW r \in Loads \cup {0}, TransferAssumption
    PROVE  /\ Abort(loads, r) \in [Loads -> LoadStates]
           /\ \A s \in Loads :
                 /\ Abort(loads, r)[s].at = loads[s].at /\ Abort(loads, r)[s].pages = loads[s].pages
                 /\ Abort(loads, r)[s].seen = loads[s].seen
                 /\ Abort(loads, r)[s].aborted <=> (loads[s].aborted \/ s = r)
<1>1. CASE r = 0
  <2>1. Abort(loads, r) = loads /\ \A s \in Loads : s # r
    BY <1>1 DEF Abort, Loads, TransferAssumption
  <2> QED BY <2>1
<1>2. CASE r # 0
  <2> DEFINE l == [loads[r] EXCEPT !.aborted = TRUE]
  <2>1. l \in LoadStates /\ l.at = loads[r].at /\ l.aborted = TRUE /\ l.pages = loads[r].pages
        /\ l.seen = loads[r].seen
    BY <1>2, Changes DEF LoadStates
  <2>2. Abort(loads, r) = [loads EXCEPT ![r] = l]
    BY <1>2 DEF Abort
  <2> HIDE DEF l
  <2>3. [loads EXCEPT ![r] = l] \in [Loads -> LoadStates] /\ [loads EXCEPT ![r] = l][r] = l
        /\ \A s \in Loads \ {r} : [loads EXCEPT ![r] = l][s] = loads[s]
    BY <2>1, <1>2
  <2> QED BY <2>1, <2>2, <2>3, <1>2 DEF LoadStates
<1> QED BY <1>1, <1>2

LEMMA LoadAborted ==
    ASSUME TransferAssumption, TreeInv, load' = Abort(load, owner),
           UNCHANGED <<bridged, begun, tree>>,
           UNCHANGED <<owner, pending>> \/ (owner' = 0 /\ pending' = FALSE)
    PROVE  load' \in [Loads -> LoadStates] /\ OwnerInv' /\ TreeIsOfNewestLoad'
<1>1. load \in [Loads -> LoadStates] /\ owner \in Nat /\ (owner # 0 => owner \in Loads)
  BY DEF TreeInv, TransferTypeOK, Loads, TransferAssumption
<1>2. /\ load' \in [Loads -> LoadStates]
      /\ \A s \in Loads : /\ load'[s].at = load[s].at /\ load'[s].pages = load[s].pages
                          /\ load'[s].seen = load[s].seen
                          /\ load'[s].aborted <=> (load[s].aborted \/ s = owner)
  BY <1>1, AbortMarks
<1>3. OwnerInv'
  BY <1>1, <1>2 DEF TreeInv, OwnerInv, Awaits
<1>4. /\ pending' <=> owner' # 0
      /\ \A r \in Running' : ~load'[r].aborted => r = owner'
  <2>1. \A r \in Running : ~load[r].aborted => r = owner
    BY DEF TreeInv, TreeIsOfNewestLoad
  <2>2. \A r \in Running' : r \in Running /\ (~load'[r].aborted => ~load[r].aborted /\ r # owner)
    BY <1>2 DEF Running
  <2> QED BY <2>1, <2>2 DEF TreeInv, TreeIsOfNewestLoad
<1>5. \A r \in Loads : load[r].at = "applied" => r # owner
  <2>1. \A r \in Loads : r # 0
    BY DEF Loads, TransferAssumption
  <2> QED BY <1>1, <2>1 DEF TreeInv, OwnerInv, Steps
<1>6. \A r \in Loads : load'[r].at = "applied" => ~load'[r].aborted
  BY <1>2, <1>5 DEF TreeInv, TreeIsOfNewestLoad
<1>7. tree' # Absent => \A r \in Loads : load'[r].at = "applied" => r <= tree'.of
  BY <1>2 DEF TreeInv, TreeIsOfNewestLoad
<1>8. tree' # Absent => Consistent(tree'.pages) /\ Len(tree'.pages) = IF bridged' THEN PageCount ELSE 1
  BY DEF TreeInv, TreeIsOfNewestLoad, Consistent
<1> QED BY <1>2, <1>3, <1>4, <1>6, <1>7, <1>8 DEF TreeIsOfNewestLoad

LEMMA TreeBegin ==
    ASSUME TransferAssumption, TreeInv, NEW quiet \in BOOLEAN, Begin(quiet),
           UNCHANGED <<bridged, tree>>
    PROVE  load' \in [Loads -> LoadStates] /\ OwnerInv' /\ TreeIsOfNewestLoad'
<1> DEFINE mid == Abort(load, owner)
           l == IF ~quiet /\ treeDevice \in Simulators
                   THEN [Idle EXCEPT !.at = "recover", !.of = treeDevice]
                   ELSE [Idle EXCEPT !.at = "start"]
<1>1. load \in [Loads -> LoadStates] /\ owner \in Nat /\ (owner # 0 => owner \in Loads)
  BY DEF TreeInv, TransferTypeOK, Loads, TransferAssumption
<1>2. /\ mid \in [Loads -> LoadStates]
      /\ \A s \in Loads : /\ mid[s].at = load[s].at /\ mid[s].pages = load[s].pages
                          /\ mid[s].seen = load[s].seen
                          /\ mid[s].aborted <=> (load[s].aborted \/ s = owner)
  BY <1>1, AbortMarks
<1>3. l \in LoadStates /\ l.at \in {"recover", "start"} /\ l.aborted = FALSE
  <2>1. Idle \in LoadStates /\ Idle.aborted = FALSE
    BY DEF Idle, LoadStates
  <2>2. CASE ~quiet /\ treeDevice \in Simulators
    <3>1. treeDevice \in TreeDevices
      BY DEF TreeInv, TransferTypeOK
    <3> QED BY <2>1, <2>2, <3>1 DEF LoadStates, Steps
  <2>3. CASE ~(~quiet /\ treeDevice \in Simulators)
    BY <2>1, <2>3 DEF LoadStates, Steps
  <2> QED BY <2>2, <2>3
<1>4. begun \in Nat /\ begun' = begun + 1 /\ begun' \in Loads
  BY DEF Begin, Loads, TreeInv, TransferTypeOK, TransferAssumption
<1>5. load' = [mid EXCEPT ![begun'] = l] /\ owner' = begun' /\ pending' = TRUE
  BY DEF Begin
<1> HIDE DEF mid, l
<1>6. /\ load' \in [Loads -> LoadStates] /\ load'[begun'] = l
      /\ \A s \in Loads \ {begun'} : load'[s] = mid[s]
  BY <1>2, <1>3, <1>4, <1>5
<1>7. OwnerInv'
  BY <1>2, <1>3, <1>4, <1>5, <1>6 DEF TreeInv, OwnerInv, Awaits, Loads, Steps
<1>8. TreeIsOfNewestLoad'
  <2>1. \A s \in Running' \ {begun'} : s \in Running /\ load'[s].aborted
    <3> SUFFICES ASSUME NEW s \in Running', s # begun' PROVE s \in Running /\ load'[s].aborted
      OBVIOUS
    <3>1. s \in Running /\ (load'[s].aborted <=> (load[s].aborted \/ s = owner))
      BY <1>2, <1>6 DEF Running
    <3> QED BY <3>1 DEF TreeInv, TreeIsOfNewestLoad
  <2>2. /\ pending' <=> owner' # 0
        /\ \A r \in Running' : ~load'[r].aborted => r = owner'
    BY <1>4, <1>5, <2>1 DEF Loads
  <2>3. \A r \in Loads : load'[r].at = "applied" => r # begun' /\ load[r].at = "applied" /\ r # owner
    <3>1. \A r \in Loads : r # 0
      BY DEF Loads, TransferAssumption
    <3>2. \A r \in Loads : load[r].at = "applied" => r # owner
      BY <1>1, <3>1 DEF TreeInv, OwnerInv, Steps
    <3>3. \A r \in Loads : load'[r].at = "applied" => r # begun' /\ load[r].at = "applied"
      BY <1>2, <1>3, <1>6
    <3> QED BY <3>2, <3>3
  <2>4. \A r \in Loads : load'[r].at = "applied" => ~load'[r].aborted
    BY <1>2, <1>6, <2>3 DEF TreeInv, TreeIsOfNewestLoad
  <2>5. tree' # Absent => \A r \in Loads : load'[r].at = "applied" => r <= tree'.of
    BY <2>3 DEF TreeInv, TreeIsOfNewestLoad
  <2>6. tree' # Absent => Consistent(tree'.pages) /\ Len(tree'.pages) = IF bridged' THEN PageCount ELSE 1
    BY DEF TreeInv, TreeIsOfNewestLoad, Consistent
  <2> QED BY <2>2, <2>4, <2>5, <2>6 DEF TreeIsOfNewestLoad
<1> QED BY <1>6, <1>7, <1>8

LEMMA LoadApplied ==
    ASSUME TransferAssumption, TreeInv, NEW r \in Running, ~load[r].aborted,
           load[r].at = "assemble", Consistent(load[r].pages), Show(r), Finish(r, "applied"),
           UNCHANGED <<bridged, begun>>
    PROVE  load' \in [Loads -> LoadStates] /\ OwnerInv' /\ TreeIsOfNewestLoad'
<1> DEFINE l == [load[r] EXCEPT !.at = "applied"]
<1>1. load \in [Loads -> LoadStates] /\ r \in Loads
  BY DEF TreeInv, TransferTypeOK, Running
<1>2. l \in LoadStates /\ l.at = "applied" /\ l.aborted = load[r].aborted /\ l.pages = load[r].pages
  <2>1. load[r] \in LoadStates
    BY <1>1
  <2> QED BY <2>1 DEF LoadStates
<1>3. load' = [load EXCEPT ![r] = l]
  BY DEF Finish
<1> HIDE DEF l
<1>4. /\ load' \in [Loads -> LoadStates]
      /\ load'[r] = l
      /\ \A s \in Loads \ {r} : load'[s] = load[s]
  BY <1>1, <1>2, <1>3
<1>5. r = owner /\ owner = begun /\ owner' = 0 /\ pending' = FALSE
  BY <1>1 DEF TreeInv, TreeIsOfNewestLoad, OwnerInv, Running, Finish, Loads
<1>6. OwnerInv'
  BY <1>2, <1>4, <1>5 DEF TreeInv, OwnerInv, Awaits
<1>7. /\ tree'.of = r /\ tree'.pages = load[r].pages
      /\ Consistent(tree'.pages)
      /\ Len(tree'.pages) = IF bridged' THEN PageCount ELSE 1
  BY <1>1 DEF Show, TreeInv, OwnerInv, Awaits
<1>8. \A s \in Loads : load'[s].at = "applied" => s <= begun /\ ~load'[s].aborted
  BY <1>1, <1>2, <1>4, <1>5 DEF TreeInv, OwnerInv, TreeIsOfNewestLoad, Running
<1>9. \A s \in Running' : load'[s].aborted
  BY <1>1, <1>2, <1>4, <1>5 DEF TreeInv, TreeIsOfNewestLoad, Running, Steps
<1> QED BY <1>4, <1>5, <1>6, <1>7, <1>8, <1>9 DEF TreeIsOfNewestLoad

\* A request that is over is made again for the accessibility tree, or ends the load.
LEMMA LoadFallsBack ==
    ASSUME TransferAssumption, TreeInv, NEW r \in Running, FallBack(r),
           UNCHANGED <<bridged, begun, tree>>
    PROVE  load' \in [Loads -> LoadStates] /\ OwnerInv' /\ TreeIsOfNewestLoad'
<1>1. load \in [Loads -> LoadStates] /\ r \in Loads
  BY DEF TreeInv, TransferTypeOK, Running
<1>2. CASE bridged /\ load[r].source = "elements"
  <2> DEFINE l == [load[r] EXCEPT !.at = "start", !.source = "accessibility", !.pages = <<>>]
  <2>1. l \in LoadStates /\ l.at = "start" /\ l.aborted = load[r].aborted
    <3>1. load[r] \in LoadStates /\ <<>> \in Seq(Nat)
      BY <1>1
    <3> QED BY <3>1 DEF LoadStates, Steps
  <2>2. load' = [load EXCEPT ![r] = l] /\ UNCHANGED <<owner, pending>>
    BY <1>2 DEF FallBack, ownership
  <2> HIDE DEF l
  <2>3. Awaits(l)
    BY <2>1 DEF Awaits
  <2>4. load[r].at \in Steps /\ load[r].at # "idle" /\ l.at \in Steps
    BY <2>1 DEF Running, Steps
  <2> QED BY <1>1, <2>1, <2>2, <2>3, <2>4, LoadGoesOn
<1>3. CASE ~(bridged /\ load[r].source = "elements")
  BY <1>3, LoadEnds DEF FallBack
<1> QED BY <1>2, <1>3

\* The same as LoadGoesOn, of a load that waits for something else now.
LEMMA LoadWaits ==
    ASSUME TransferAssumption, TreeInv, NEW r \in Running, NEW at \in Steps, To(r, at),
           Awaits([load[r] EXCEPT !.at = at]),
           UNCHANGED <<bridged, begun, tree>>
    PROVE  load' \in [Loads -> LoadStates] /\ OwnerInv' /\ TreeIsOfNewestLoad'
<1> DEFINE l == [load[r] EXCEPT !.at = at]
<1>1. load \in [Loads -> LoadStates] /\ r \in Loads /\ load[r].at \in Steps
  BY DEF TreeInv, TransferTypeOK, Running
<1>2. l \in LoadStates /\ l.at = at /\ l.aborted = load[r].aborted
  <2>1. load[r] \in LoadStates
    BY <1>1
  <2> QED BY <2>1 DEF LoadStates
<1>3. load' = [load EXCEPT ![r] = l] /\ Awaits(l) /\ UNCHANGED <<owner, pending>>
  BY DEF To, ownership
<1> HIDE DEF l
<1>4. load[r].at # "idle" /\ at # "idle" /\ at # "applied"
  BY <1>1 DEF Steps
<1> QED BY <1>1, <1>2, <1>3, <1>4, LoadGoesOn

LEMMA OwnershipTyped ==
    ASSUME TransferAssumption, TransferTypeOK, NEW r, NEW at,
           FallBack(r) \/ Finish(r, at) \/ UNCHANGED ownership
    PROVE  owner' \in 0..MaxLoads /\ pending' \in BOOLEAN /\ loading' \in BOOLEAN
<1>1. 0 \in 0..MaxLoads /\ owner \in 0..MaxLoads /\ pending \in BOOLEAN /\ loading \in BOOLEAN
  BY DEF TransferAssumption, TransferTypeOK
<1>2. ASSUME NEW s, NEW to, Finish(s, to)
      PROVE  owner' \in 0..MaxLoads /\ pending' \in BOOLEAN /\ loading' \in BOOLEAN
  BY <1>1, <1>2 DEF Finish, ownership
<1>3. CASE UNCHANGED ownership
  BY <1>1, <1>3 DEF ownership
<1> QED BY <1>2, <1>3 DEF FallBack

LEMMA TreeStep == ASSUME TransferAssumption, TreeInv, [TransferNext]_transferVars PROVE TreeInv'
<1> USE DEF TreeInv
<1>0. load \in [Loads -> LoadStates] /\ TransferTypeOK
  BY DEF TransferTypeOK
<1>1. ASSUME Ask PROVE TreeInv'
  <2>1. Begin(FALSE) /\ UNCHANGED <<bridged, tree>>
    BY <1>1 DEF Ask
  <2>2. load' \in [Loads -> LoadStates] /\ OwnerInv' /\ TreeIsOfNewestLoad'
    BY <2>1, TreeBegin
  <2>3. TransferTypeOK'
    BY <1>0, <1>1, <2>2 DEF Ask, Begin, TransferTypeOK, TransferAssumption, server
  <2> QED BY <2>2, <2>3
<1>2. ASSUME Retry PROVE TreeInv'
  <2>1. Begin(TRUE) /\ UNCHANGED <<bridged, tree>>
    BY <1>2 DEF Retry
  <2>2. load' \in [Loads -> LoadStates] /\ OwnerInv' /\ TreeIsOfNewestLoad'
    BY <2>1, TreeBegin
  <2>3. TransferTypeOK'
    BY <1>0, <1>2, <2>2 DEF Retry, Begin, TransferTypeOK, TransferAssumption, server
  <2> QED BY <2>2, <2>3
<1>3. ASSUME Interrupted PROVE TreeInv'
  <2>1. load' \in [Loads -> LoadStates] /\ OwnerInv' /\ TreeIsOfNewestLoad'
    BY <1>3, LoadAborted DEF Interrupted, ownership
  <2>2. TransferTypeOK'
    BY <1>0, <1>3, <2>1 DEF Interrupted, TransferTypeOK, ownership, server
  <2> QED BY <2>1, <2>2
<1>4. ASSUME CloseInspector PROVE TreeInv'
  <2>1. load' \in [Loads -> LoadStates] /\ OwnerInv' /\ TreeIsOfNewestLoad'
    BY <1>4, LoadAborted DEF CloseInspector, ownership, counters
  <2>2. TransferTypeOK'
    BY <1>0, <1>4, <2>1 DEF CloseInspector, TransferTypeOK, ownership, server, counters
  <2> QED BY <2>1, <2>2
<1>5. ASSUME NEW d \in TreeDevices, BeginSwitch(d) PROVE TreeInv'
  <2>1. load' \in [Loads -> LoadStates] /\ OwnerInv' /\ TreeIsOfNewestLoad'
    BY <1>5, LoadAborted DEF BeginSwitch
  <2>2. TransferTypeOK'
    <3>1. 0 \in 0..MaxLoads /\ treeSwitching' \in [to : TreeDevices, done : BOOLEAN]
      BY <1>5 DEF BeginSwitch, TransferAssumption
    <3> QED BY <1>0, <1>5, <2>1, <3>1 DEF BeginSwitch, TransferTypeOK, server
  <2> QED BY <2>1, <2>2
<1>6. ASSUME EndSwitch PROVE TreeInv'
  <2>1. TransferTypeOK'
    BY <1>0, <1>6 DEF EndSwitch, TransferTypeOK, ownership, server, counters
  <2>2. OwnerInv'
    BY <1>6 DEF EndSwitch, OwnerInv, Awaits, ownership, counters
  <2>3. TreeIsOfNewestLoad'
    BY <1>6 DEF EndSwitch, TreeIsOfNewestLoad, Running, ownership
  <2> QED BY <2>1, <2>2, <2>3
<1>7. ASSUME ServeSwitch PROVE TreeInv'
  <2>1. TransferTypeOK'
    <3>1. treeSwitching \in [to : TreeDevices, done : BOOLEAN]
      BY <1>0, <1>7 DEF ServeSwitch, TransferTypeOK
    <3>2. treeSwitching' \in [to : TreeDevices, done : BOOLEAN] /\ treeServed' \in TreeDevices
      BY <1>7, <3>1 DEF ServeSwitch, Connect
    <3> QED BY <1>0, <1>7, <3>2 DEF ServeSwitch, Connect, TransferTypeOK, ownership, counters
  <2>2. OwnerInv'
    BY <1>7 DEF ServeSwitch, OwnerInv, Awaits, ownership, counters
  <2>3. TreeIsOfNewestLoad'
    BY <1>7 DEF ServeSwitch, TreeIsOfNewestLoad, Running, Consistent, ownership
  <2> QED BY <2>1, <2>2, <2>3
<1>8. ASSUME NEW r \in Loads, GiveUp(r) PROVE TreeInv'
  <2>1. load' \in [Loads -> LoadStates] /\ OwnerInv' /\ TreeIsOfNewestLoad'
    BY <1>8, LoadEnds DEF GiveUp, counters
  <2>2. TransferTypeOK'
    <3>1. owner' \in 0..MaxLoads /\ pending' \in BOOLEAN /\ loading' \in BOOLEAN
      BY <1>0, <1>8, OwnershipTyped DEF GiveUp
    <3> QED BY <1>0, <1>8, <2>1, <3>1 DEF GiveUp, TransferTypeOK, server, counters
  <2> QED BY <2>1, <2>2
<1>9. ASSUME NEW r \in Loads, Recovered(r) PROVE TreeInv'
  <2>1. r \in Running /\ "start" \in Steps
    BY <1>9 DEF Recovered, Running, Steps
  <2>2. load' \in [Loads -> LoadStates] /\ OwnerInv' /\ TreeIsOfNewestLoad'
    <3>1. CASE To(r, "start")
      <4>1. Awaits([load[r] EXCEPT !.at = "start"])
        BY <1>0, Changes DEF Awaits, Steps
      <4> QED BY <1>9, <2>1, <3>1, <4>1, LoadWaits DEF Recovered
    <3>2. CASE Finish(r, "over")
      BY <1>9, <2>1, <3>2, LoadEnds DEF Recovered
    <3> QED BY <1>9, <3>1, <3>2 DEF Recovered
  <2>3. TransferTypeOK'
    <3>1. owner' \in 0..MaxLoads /\ pending' \in BOOLEAN /\ loading' \in BOOLEAN
      BY <1>0, <1>9, OwnershipTyped DEF Recovered, To
    <3> QED BY <1>0, <1>9, <2>2, <3>1 DEF Recovered, TransferTypeOK, server
  <2> QED BY <2>2, <2>3
<1>10. ASSUME NEW r \in Loads, PageArrives(r) PROVE TreeInv'
  <2> DEFINE next == IF bridged /\ Len(load[r].pages) < PageCount THEN "page" ELSE "assemble"
  <2>1. r \in Running /\ next \in Steps /\ load[r].at = "started" /\ load[r].pages \in Seq(Nat)
    BY <1>0, <1>10 DEF PageArrives, Running, Steps, LoadStates
  <2>2. Awaits([load[r] EXCEPT !.at = next])
    <3>1. /\ [load[r] EXCEPT !.at = next].at = next
          /\ [load[r] EXCEPT !.at = next].pages = load[r].pages
      BY <1>0, <2>1, Changes
    <3>2. IF bridged THEN Len(load[r].pages) \in 1..PageCount ELSE Len(load[r].pages) = 1
      BY <2>1 DEF OwnerInv, Awaits
    <3>3. Len(load[r].pages) \in Nat /\ PageCount \in Nat
      BY <2>1 DEF TransferAssumption
    <3>4. CASE bridged /\ Len(load[r].pages) < PageCount
      BY <3>1, <3>4 DEF Awaits
    <3>5. CASE ~(bridged /\ Len(load[r].pages) < PageCount)
      <4>1. next = "assemble" /\ Len(load[r].pages) = IF bridged THEN PageCount ELSE 1
        <5>1. next = "assemble"
          BY <3>5
        <5>2. CASE bridged
          BY <3>2, <3>3, <3>5, <5>1, <5>2
        <5>3. CASE ~bridged
          BY <3>2, <5>1, <5>3
        <5> QED BY <5>2, <5>3
      <4> QED BY <3>1, <4>1 DEF Awaits
    <3> QED BY <3>4, <3>5
  <2>3. To(r, next)
    BY <1>10 DEF PageArrives
  <2> HIDE DEF next
  <2>4. load' \in [Loads -> LoadStates] /\ OwnerInv' /\ TreeIsOfNewestLoad'
    BY <1>10, <2>1, <2>2, <2>3, LoadWaits DEF PageArrives, counters
  <2>5. TransferTypeOK'
    BY <1>0, <1>10, <2>4 DEF PageArrives, To, TransferTypeOK, ownership, server, counters
  <2> QED BY <2>4, <2>5
<1>11. ASSUME NEW r \in Loads, Refused(r) PROVE TreeInv'
  <2>1. load' \in [Loads -> LoadStates] /\ OwnerInv' /\ TreeIsOfNewestLoad'
    BY <1>11, LoadFallsBack DEF Refused, Running, Steps, counters
  <2>2. TransferTypeOK'
    <3>1. owner' \in 0..MaxLoads /\ pending' \in BOOLEAN /\ loading' \in BOOLEAN
      BY <1>0, <1>11, OwnershipTyped DEF Refused
    <3> QED BY <1>0, <1>11, <2>1, <3>1 DEF Refused, TransferTypeOK, server, counters
  <2> QED BY <2>1, <2>2
<1>12. ASSUME NEW r \in Loads, Apply(r) PROVE TreeInv'
  <2>1. r \in Running
    BY <1>12 DEF Apply, Running, Steps
  <2>2. load' \in [Loads -> LoadStates] /\ OwnerInv' /\ TreeIsOfNewestLoad'
    <3>1. CASE Consistent(load[r].pages)
      BY <1>12, <2>1, <3>1, LoadApplied DEF Apply, counters
    <3>2. CASE ~Consistent(load[r].pages)
      BY <1>12, <2>1, <3>2, LoadFallsBack DEF Apply, counters
    <3> QED BY <3>1, <3>2
  <2>3. tree' \in [of : Loads, native : BOOLEAN, pages : Seq(Nat)] \cup {Absent}
    BY <1>0, <1>12 DEF Apply, Show, LoadStates, TransferTypeOK
  <2>4. TransferTypeOK'
    <3>1. owner' \in 0..MaxLoads /\ pending' \in BOOLEAN /\ loading' \in BOOLEAN
      BY <1>0, <1>12, OwnershipTyped DEF Apply
    <3> QED BY <1>0, <1>12, <2>2, <2>3, <3>1 DEF Apply, TransferTypeOK, server, counters
  <2> QED BY <2>2, <2>4
<1>13. ASSUME NEW r \in Loads, Reconnect(r) PROVE TreeInv'
  <2> DEFINE l == [load[r] EXCEPT !.of = Absent, !.at = IF @ = "recover" THEN "recovered" ELSE @]
  <2>1. /\ load[r] \in LoadStates /\ load[r].of \in TreeDevices
        /\ treeServed' = load[r].of /\ generation' \in Nat
    BY <1>0, <1>13 DEF Reconnect, Connect, LoadStates, TransferTypeOK
  <2>2. /\ l \in LoadStates /\ l.aborted = load[r].aborted
        /\ l.pages = load[r].pages /\ l.seen = load[r].seen
        /\ l.at = IF load[r].at = "recover" THEN "recovered" ELSE load[r].at
    BY <2>1 DEF LoadStates, Steps
  <2>3. load' = [load EXCEPT ![r] = l]
    BY <1>13 DEF Reconnect
  <2> HIDE DEF l
  <2>4. load' \in [Loads -> LoadStates] /\ OwnerInv' /\ TreeIsOfNewestLoad'
    <3>1. Awaits(l)
      BY <2>2 DEF OwnerInv, Awaits
    <3>2. /\ l.at \in Steps <=> load[r].at \in Steps
          /\ l.at = "applied" => load[r].at = "applied"
          /\ load[r].at = "idle" => l.at = "idle"
      BY <2>2 DEF Steps
    <3>3. UNCHANGED <<bridged, owner, pending, begun, tree>>
      BY <1>13 DEF Reconnect, ownership, counters
    <3> QED BY <2>2, <2>3, <3>1, <3>2, <3>3, LoadGoesOn
  <2>5. TransferTypeOK'
    BY <1>0, <1>13, <2>1, <2>4 DEF Reconnect, Connect, TransferTypeOK, ownership, counters
  <2> QED BY <2>4, <2>5
<1>14. ASSUME NEW r \in Loads, StartTransfer(r) PROVE TreeInv'
  <2>1. PICK native \in {FALSE, TRUE} :
           load' = [load EXCEPT ![r].at = "capture",
                                ![r].seen = [device |-> treeServed, generation |-> generation],
                                ![r].native = native /\ load[r].source = "elements"]
    BY <1>14 DEF StartTransfer
  <2> DEFINE l == [load[r] EXCEPT !.at = "capture",
                                  !.seen = [device |-> treeServed, generation |-> generation],
                                  !.native = native /\ load[r].source = "elements"]
  <2>2. load[r] \in LoadStates /\ load[r].at = "start" /\ treeServed \in TreeDevices /\ generation \in Nat
    BY <1>0, <1>14 DEF StartTransfer, TransferTypeOK
  <2>3. /\ l \in LoadStates /\ l.aborted = load[r].aborted /\ l.at = "capture"
        /\ l.seen = [device |-> treeServed, generation |-> generation]
    BY <2>2 DEF LoadStates, Steps
  <2>4. load' = [load EXCEPT ![r] = l]
    BY <2>1
  <2> HIDE DEF l
  <2>5. load' \in [Loads -> LoadStates] /\ OwnerInv' /\ TreeIsOfNewestLoad'
    <3>1. Awaits(l)
      BY <2>2, <2>3 DEF Awaits
    <3>2. UNCHANGED <<bridged, owner, pending, begun, tree>>
      BY <1>14 DEF StartTransfer, ownership, counters
    <3> QED BY <2>2, <2>3, <2>4, <3>1, <3>2, LoadGoesOn DEF Steps
  <2>6. TransferTypeOK'
    BY <1>0, <1>14, <2>5 DEF StartTransfer, TransferTypeOK, ownership, server, counters
  <2> QED BY <2>5, <2>6
<1>15. ASSUME NEW r \in Loads, Captured(r) PROVE TreeInv'
  <2>1. /\ load[r] \in LoadStates /\ load[r].at = "capture" /\ transfers \in Nat
        /\ UNCHANGED <<bridged, owner, pending, begun, tree>>
    BY <1>0, <1>15 DEF Captured, TransferTypeOK, ownership, counters
  <2>2. CASE Unchanged(load[r].seen)
    <3> DEFINE l == [load[r] EXCEPT !.at = "started", !.cursor = transfers', !.pages = <<transfers'>>]
    <3>1. /\ transfers' \in Nat /\ load' = [load EXCEPT ![r] = l]
          /\ cache' = IF bridged THEN [id |-> transfers', seen |-> load[r].seen] ELSE cache
      <4>1. /\ transfers' = transfers + 1
            /\ load' = [load EXCEPT ![r].at = "started", ![r].cursor = transfers',
                                    ![r].pages = <<transfers'>>]
            /\ cache' = IF bridged THEN [id |-> transfers', seen |-> load[r].seen] ELSE cache
        BY <1>15, <2>2, Zenon DEF Captured
      <4>2. transfers' \in Nat
        BY <2>1, <4>1
      <4>3. load' = [load EXCEPT ![r] = l]
        BY <4>1, Zenon
      <4> QED BY <4>1, <4>2, <4>3
    <3>2. <<transfers'>> \in Seq(Nat) /\ Len(<<transfers'>>) = 1
      BY <3>1
    <3>3. l \in LoadStates /\ l.at = "started" /\ l.aborted = load[r].aborted /\ l.pages = <<transfers'>>
      BY <2>1, <3>1, <3>2 DEF LoadStates, Steps
    <3> HIDE DEF l
    <3>4. Awaits(l)
      BY <3>2, <3>3 DEF Awaits, TransferAssumption
    <3>5. load' \in [Loads -> LoadStates] /\ OwnerInv' /\ TreeIsOfNewestLoad'
      BY <2>1, <3>1, <3>3, <3>4, LoadGoesOn DEF Steps
    <3>6. cache' \in [id : Nat, seen : [device : TreeDevices, generation : Nat]] \cup {Absent}
      <4>1. treeServed \in TreeDevices /\ generation \in Nat
        BY <1>0 DEF TransferTypeOK
      <4>2. load[r].seen \in [device : TreeDevices, generation : Nat]
        BY <2>1 DEF OwnerInv, Awaits
      <4> QED BY <1>0, <3>1, <4>2 DEF TransferTypeOK
    <3>7. TransferTypeOK'
      BY <1>0, <1>15, <2>2, <3>1, <3>5, <3>6 DEF Captured, TransferTypeOK, ownership, counters
    <3> QED BY <3>5, <3>7
  <2>3. CASE ~Unchanged(load[r].seen)
    <3> DEFINE l == [load[r] EXCEPT !.at = "refused"]
    <3>1. load' = [load EXCEPT ![r] = l] /\ UNCHANGED <<cache, transfers>>
      BY <1>15, <2>3 DEF Captured
    <3>2. l \in LoadStates /\ l.at = "refused" /\ l.aborted = load[r].aborted
      BY <2>1, Changes DEF Steps
    <3> HIDE DEF l
    <3>3. Awaits(l)
      BY <3>2 DEF Awaits
    <3>4. load' \in [Loads -> LoadStates] /\ OwnerInv' /\ TreeIsOfNewestLoad'
      BY <2>1, <3>1, <3>2, <3>3, LoadGoesOn DEF Steps
    <3>5. TransferTypeOK'
      BY <1>0, <1>15, <3>1, <3>4 DEF Captured, TransferTypeOK, ownership, counters
    <3> QED BY <3>4, <3>5
  <2> QED BY <2>2, <2>3
<1>16. ASSUME NEW r \in Loads, LateCapture(r) PROVE TreeInv'
  <2>1. /\ load[r] \in LoadStates /\ load[r].at = "over" /\ transfers' \in Nat
        /\ UNCHANGED <<bridged, owner, pending, begun, tree>>
    BY <1>0, <1>16 DEF LateCapture, TransferTypeOK, ownership, counters
  <2> DEFINE l == [load[r] EXCEPT !.cursor = transfers']
  <2>2. l \in LoadStates /\ l.at = "over" /\ l.aborted = load[r].aborted
    BY <2>1 DEF LoadStates
  <2>3. load' = [load EXCEPT ![r] = l]
    BY <1>16 DEF LateCapture
  <2> HIDE DEF l
  <2>4. Awaits(l)
    BY <2>2 DEF Awaits
  <2>5. load' \in [Loads -> LoadStates] /\ OwnerInv' /\ TreeIsOfNewestLoad'
    BY <2>1, <2>2, <2>3, <2>4, LoadGoesOn DEF Steps
  <2>6. cache' \in [id : Nat, seen : [device : TreeDevices, generation : Nat]] \cup {Absent}
    <3>1. load[r].seen \in [device : TreeDevices, generation : Nat]
      BY <1>16, <2>1 DEF LateCapture, LoadStates
    <3> QED BY <1>16, <2>1, <3>1 DEF LateCapture
  <2>7. TransferTypeOK'
    BY <1>0, <1>16, <2>1, <2>5, <2>6 DEF LateCapture, TransferTypeOK, ownership, counters
  <2> QED BY <2>5, <2>7
<1>17. ASSUME NEW r \in Loads, ContinueTransfer(r) PROVE TreeInv'
  <2>1. /\ load[r] \in LoadStates /\ load[r].at = "page"
        /\ UNCHANGED <<bridged, owner, pending, begun, tree>>
        /\ cache' \in {cache, Absent}
    BY <1>0, <1>17 DEF ContinueTransfer, TransferTypeOK, ownership
  <2>2. CASE cache' # Absent /\ cache.id = load[r].cursor
    <3> DEFINE l == [load[r] EXCEPT !.at = "started", !.pages = Append(@, cache.id)]
    <3>1. load' = [load EXCEPT ![r] = l] /\ cache.id \in Nat
      BY <1>0, <1>17, <2>1, <2>2 DEF ContinueTransfer, TransferTypeOK
    <3>2. /\ load[r].pages \in Seq(Nat) /\ Append(load[r].pages, cache.id) \in Seq(Nat)
          /\ Len(Append(load[r].pages, cache.id)) = Len(load[r].pages) + 1
      BY <2>1, <3>1 DEF LoadStates
    <3>3. l \in LoadStates /\ l.at = "started" /\ l.aborted = load[r].aborted
          /\ l.pages = Append(load[r].pages, cache.id)
      BY <2>1, <3>2 DEF LoadStates, Steps
    <3> HIDE DEF l
    <3>4. Awaits(l)
      <4>1. bridged /\ Len(load[r].pages) < PageCount
        BY <2>1 DEF OwnerInv, Awaits
      <4>2. Len(l.pages) \in 1..PageCount
        BY <3>2, <3>3, <4>1 DEF TransferAssumption
      <4> QED BY <3>3, <4>1, <4>2 DEF Awaits
    <3>5. load' \in [Loads -> LoadStates] /\ OwnerInv' /\ TreeIsOfNewestLoad'
      BY <2>1, <3>1, <3>3, <3>4, LoadGoesOn DEF Steps
    <3>6. TransferTypeOK'
      BY <1>0, <1>17, <2>1, <3>5 DEF ContinueTransfer, TransferTypeOK, ownership
    <3> QED BY <3>5, <3>6
  <2>3. CASE ~(cache' # Absent /\ cache.id = load[r].cursor)
    <3> DEFINE l == [load[r] EXCEPT !.at = "refused"]
    <3>1. load' = [load EXCEPT ![r] = l]
      BY <1>17, <2>3 DEF ContinueTransfer
    <3>2. l \in LoadStates /\ l.at = "refused" /\ l.aborted = load[r].aborted
      BY <2>1, Changes DEF Steps
    <3> HIDE DEF l
    <3>3. Awaits(l)
      BY <3>2 DEF Awaits
    <3>4. load' \in [Loads -> LoadStates] /\ OwnerInv' /\ TreeIsOfNewestLoad'
      BY <2>1, <3>1, <3>2, <3>3, LoadGoesOn DEF Steps
    <3>5. TransferTypeOK'
      BY <1>0, <1>17, <2>1, <3>4 DEF ContinueTransfer, TransferTypeOK, ownership
    <3> QED BY <3>4, <3>5
  <2> QED BY <2>2, <2>3
<1>18. ASSUME UNCHANGED transferVars PROVE TreeInv'
  BY <1>18 DEF transferVars, TransferTypeOK, OwnerInv, Awaits, TreeIsOfNewestLoad, Running,
       Consistent
<1> QED
  BY <1>1, <1>2, <1>3, <1>4, <1>5, <1>6, <1>7, <1>8, <1>9, <1>10, <1>11, <1>12, <1>13, <1>14,
     <1>15, <1>16, <1>17, <1>18 DEF TransferNext

\* No load that was aborted delivers; the tree is whole and of the newest load.
THEOREM TreeCorrect == TransferAssumption /\ TransferSpec => []TreeIsOfNewestLoad
<1>1. ASSUME TransferAssumption PROVE TransferInit => TreeInv
  BY <1>1, TreeInit
<1>2. ASSUME TransferAssumption PROVE TreeInv /\ [TransferNext]_transferVars => TreeInv'
  BY <1>2, TreeStep
<1>3. TreeInv => TreeIsOfNewestLoad
  BY DEF TreeInv
<1> QED
  <2> SUFFICES ASSUME TransferAssumption PROVE TransferSpec => []TreeIsOfNewestLoad
    OBVIOUS
  <2>1. TransferInit => TreeInv
    BY <1>1
  <2>2. TreeInv /\ [TransferNext]_transferVars => TreeInv'
    BY <1>2
  <2> QED BY <1>3, <2>1, <2>2, PTL DEF TransferSpec

-----------------------------------------------------------------------------
(* The queue of pointer inputs.                                            *)

Inputs == [phase : {"down", "move", "up"}, contact : Pointers]

Ascends(s) == \A i, j \in DOMAIN s : i < j => s[i] < s[j]

Below(s, n) == \A k \in DOMAIN s : s[k] < n

Above(s, n) == \A k \in DOMAIN s : n < s[k]

Holds(s, n) == \E k \in DOMAIN s : s[k] = n

\* Whatever was enqueued after the last failure has been sent, is being sent
\* or waits, or is a move that the next input repeats.
Complete(ins, lost, d, n, q) ==
    \A i \in 1..Len(ins) : i > lost /\ ~Holds(d, i) /\ i # n /\ ~Holds(q, i) =>
        ins[i].phase = "move" /\ i < Len(ins) /\ ins[i + 1] = ins[i]

\* GestureKeepsItsShape does not say that the input that waits last is the one
\* that was enqueued last, so that a move replaces its own predecessor.
PointerInv ==
    /\ PointerTypeOK
    /\ Ascends(delivered) /\ Ascends(queue)
    /\ \A k \in DOMAIN queue : Below(delivered, queue[k])
    /\ sending # 0 => Below(delivered, sending) /\ Above(queue, sending)
    /\ queue # <<>> => queue[Len(queue)] = Len(inputs)
    /\ drain = "idle" => queue = <<>>
    /\ Complete(inputs, lostTo, delivered, sending, queue)

LEMMA PointerInitially == ASSUME PointerInit PROVE PointerInv
BY DEF PointerInit, PointerInv, PointerTypeOK, Ascends, Below, Above, Complete, Surfaces

LEMMA Joined ==
    ASSUME NEW s \in Seq(Nat), NEW t \in Seq(Nat), Ascends(s), Ascends(t),
           \A i \in DOMAIN s, j \in DOMAIN t : s[i] < t[j]
    PROVE  s \o t \in Seq(Nat) /\ Ascends(s \o t)
<1> DEFINE u == s \o t
<1>1. /\ u \in Seq(Nat) /\ Len(u) = Len(s) + Len(t)
      /\ \A i \in 1..Len(s) : u[i] = s[i]
      /\ \A i \in 1..Len(t) : u[i + Len(s)] = t[i]
  BY ConcatProperties
<1>2. Len(s) \in Nat /\ Len(t) \in Nat /\ DOMAIN s = 1..Len(s) /\ DOMAIN t = 1..Len(t) /\ DOMAIN u = 1..Len(u)
  BY <1>1
<1> HIDE DEF u
<1>3. SUFFICES ASSUME NEW i \in 1..Len(u), NEW j \in 1..Len(u), i < j PROVE u[i] < u[j]
  BY <1>1, <1>2 DEF Ascends, u
<1>4. CASE j <= Len(s)
  <2>1. i \in 1..Len(s) /\ j \in 1..Len(s)
    BY <1>1, <1>2, <1>3, <1>4
  <2>2. s[i] < s[j]
    BY <1>2, <1>3, <2>1 DEF Ascends
  <2> QED BY <1>1, <2>1, <2>2
<1>5. CASE i <= Len(s) /\ j > Len(s)
  <2>1. j - Len(s) \in 1..Len(t) /\ j = (j - Len(s)) + Len(s) /\ i \in 1..Len(s)
    BY <1>1, <1>2, <1>5
  <2>2. u[j] = t[j - Len(s)] /\ u[i] = s[i]
    BY <1>1, <2>1
  <2> QED BY <1>2, <2>1, <2>2
<1>6. CASE i > Len(s)
  <2>1. /\ j - Len(s) \in 1..Len(t) /\ j = (j - Len(s)) + Len(s)
        /\ i - Len(s) \in 1..Len(t) /\ i = (i - Len(s)) + Len(s)
        /\ i - Len(s) < j - Len(s)
    BY <1>1, <1>2, <1>3, <1>6
  <2>2. u[j] = t[j - Len(s)] /\ u[i] = t[i - Len(s)]
    BY <1>1, <2>1
  <2> QED BY <1>2, <2>1, <2>2 DEF Ascends
<1> QED BY <1>2, <1>4, <1>5, <1>6

LEMMA JoinedElements ==
    ASSUME NEW s \in Seq(Nat), NEW t \in Seq(Nat), NEW i \in DOMAIN (s \o t)
    PROVE  (\E k \in DOMAIN s : (s \o t)[i] = s[k]) \/ (\E k \in DOMAIN t : (s \o t)[i] = t[k])
<1>1. /\ Len(s \o t) = Len(s) + Len(t) /\ Len(s) \in Nat /\ Len(t) \in Nat
      /\ i \in 1..Len(s \o t)
      /\ \A k \in 1..Len(s) : (s \o t)[k] = s[k]
      /\ \A k \in 1..Len(t) : (s \o t)[k + Len(s)] = t[k]
  <2>1. s \o t \in Seq(Nat)
    OBVIOUS
  <2> QED BY <2>1, ConcatProperties
<1>2. CASE i <= Len(s)
  BY <1>1, <1>2
<1>3. CASE i > Len(s)
  <2>1. i - Len(s) \in 1..Len(t) /\ i = (i - Len(s)) + Len(s)
    BY <1>1, <1>3
  <2> QED BY <1>1, <2>1
<1> QED BY <1>1, <1>2, <1>3

\* What is in order is in order one after another.
LEMMA OrderIsKept == ASSUME PointerInv PROVE GestureKeepsItsShape
<1> DEFINE now == IF sending = 0 THEN <<>> ELSE <<sending>>
           front == delivered \o now
<1>1. /\ delivered \in Seq(Nat) /\ queue \in Seq(Nat) /\ sending \in Nat /\ inputs \in Seq(Inputs)
      /\ Len(inputs) \in Nat
  BY DEF PointerInv, PointerTypeOK, Inputs
<1>2. now \in Seq(Nat) /\ (\A k \in DOMAIN now : now[k] = sending /\ sending # 0) /\ Ascends(now)
  BY <1>1 DEF Ascends
<1> HIDE DEF now
<1>3. front \in Seq(Nat) /\ Ascends(front)
  BY <1>1, <1>2, Joined DEF PointerInv, Below
<1>4. \A i \in DOMAIN front, j \in DOMAIN queue : front[i] < queue[j]
  <2> SUFFICES ASSUME NEW i \in DOMAIN front, NEW j \in DOMAIN queue PROVE front[i] < queue[j]
    OBVIOUS
  <2>1. (\E k \in DOMAIN delivered : front[i] = delivered[k]) \/ (\E k \in DOMAIN now : front[i] = now[k])
    BY <1>1, <1>2, JoinedElements
  <2>2. CASE \E k \in DOMAIN delivered : front[i] = delivered[k]
    BY <2>2 DEF PointerInv, Below
  <2>3. CASE \E k \in DOMAIN now : front[i] = now[k]
    BY <1>2, <2>3 DEF PointerInv, Above
  <2> QED BY <2>1, <2>2, <2>3
<1> HIDE DEF front
<1>5. Ascends(front \o queue)
  BY <1>1, <1>3, <1>4, Joined DEF PointerInv
<1>8. ASSUME NEW i \in DOMAIN inputs \ ({delivered[k] : k \in DOMAIN delivered}
                  \cup {queue[k] : k \in DOMAIN queue} \cup {sending}), i > lostTo
      PROVE  inputs[i].phase = "move" /\ i < Len(inputs) /\ inputs[i + 1] = inputs[i]
  <2>1. i \in 1..Len(inputs) /\ ~Holds(delivered, i) /\ ~Holds(queue, i) /\ i # sending
    BY <1>1, <1>8 DEF Holds
  <2> QED BY <1>8, <2>1 DEF PointerInv, Complete
<1>9. drain = "idle" => queue = <<>>
  BY DEF PointerInv
<1>10. \A i, j \in DOMAIN (front \o queue) : i < j => (front \o queue)[i] < (front \o queue)[j]
  BY <1>5 DEF Ascends
<1> QED BY <1>8, <1>9, <1>10, Zenon DEF GestureKeepsItsShape, front, now

\* A queue that has been read from: its head is gone, and the rest is later.
LEMMA Advanced ==
    ASSUME NEW n \in Nat, NEW q \in Seq(1..n), q # <<>>, Ascends(q)
    PROVE  /\ Head(q) \in 1..n /\ Tail(q) \in Seq(1..n) /\ Ascends(Tail(q)) /\ Above(Tail(q), Head(q))
           /\ Head(q) = q[1] /\ 1 \in DOMAIN q
           /\ \A k \in DOMAIN Tail(q) : k + 1 \in DOMAIN q /\ Tail(q)[k] = q[k + 1]
           /\ Tail(q) # <<>> => Tail(q)[Len(Tail(q))] = q[Len(q)]
           /\ \A i : Holds(q, i) => i = Head(q) \/ Holds(Tail(q), i)
<1>1. /\ Len(q) \in Nat \ {0} /\ DOMAIN q = 1..Len(q)
      /\ Head(q) = q[1] /\ Tail(q) \in Seq(1..n) /\ Len(Tail(q)) = Len(q) - 1
      /\ DOMAIN Tail(q) = 1..(Len(q) - 1)
      /\ \A k \in 1..(Len(q) - 1) : Tail(q)[k] = q[k + 1]
  OBVIOUS
<1>2. 1 \in DOMAIN q /\ \A k \in DOMAIN Tail(q) : k + 1 \in DOMAIN q /\ Tail(q)[k] = q[k + 1]
  BY <1>1
<1>3. q[1] \in 1..n
  BY <1>1
<1>4. Ascends(Tail(q))
  <2>1. SUFFICES ASSUME NEW i \in DOMAIN Tail(q), NEW j \in DOMAIN Tail(q), i < j
                 PROVE  Tail(q)[i] < Tail(q)[j]
    BY DEF Ascends
  <2>2. i \in Nat /\ j \in Nat
    BY <1>1
  <2>3. i + 1 \in DOMAIN q /\ j + 1 \in DOMAIN q /\ i + 1 < j + 1
    BY <1>2, <2>1, <2>2
  <2>4. q[i + 1] < q[j + 1]
    BY <2>3 DEF Ascends
  <2> QED BY <1>2, <2>4
<1>5. Above(Tail(q), Head(q))
  <2>1. SUFFICES ASSUME NEW k \in DOMAIN Tail(q) PROVE q[1] < Tail(q)[k]
    BY <1>1 DEF Above
  <2>2. k + 1 \in DOMAIN q /\ 1 < k + 1
    BY <1>1, <1>2
  <2>3. q[1] < q[k + 1]
    BY <1>2, <2>2 DEF Ascends
  <2> QED BY <1>2, <2>3
<1>6. Tail(q) # <<>> => Tail(q)[Len(Tail(q))] = q[Len(q)]
  BY <1>1
<1>7. ASSUME NEW i, Holds(q, i) PROVE i = Head(q) \/ Holds(Tail(q), i)
  <2>1. PICK k \in 1..Len(q) : q[k] = i
    BY <1>1, <1>7 DEF Holds
  <2>2. CASE k = 1
    BY <1>1, <2>1, <2>2
  <2>3. CASE k # 1
    <3>1. k - 1 \in 1..(Len(q) - 1) /\ (k - 1) + 1 = k
      BY <1>1, <2>3
    <3> QED BY <1>1, <2>1, <3>1 DEF Holds
  <2> QED BY <2>2, <2>3
<1> QED BY <1>1, <1>2, <1>3, <1>4, <1>5, <1>6, <1>7

\* The drain goes on after an input that was sent or given up.
LEMMA ContinueKeeps ==
    ASSUME PointerInv, Continue(queue), UNCHANGED <<inputs, lostTo>>,
           NEW d, delivered' = d, d \in Seq(DOMAIN inputs), Ascends(d),
           \A k \in DOMAIN queue : Below(d, queue[k]),
           Complete(inputs, lostTo, d, 0, queue)
    PROVE  /\ queue' \in Seq(DOMAIN inputs') /\ sending' \in {0} \cup DOMAIN inputs'
           /\ drain' \in {"idle", "sending"} /\ (drain' = "sending" <=> sending' # 0)
           /\ Ascends(delivered') /\ Ascends(queue')
           /\ \A k \in DOMAIN queue' : Below(delivered', queue'[k])
           /\ sending' # 0 => Below(delivered', sending') /\ Above(queue', sending')
           /\ queue' # <<>> => queue'[Len(queue')] = Len(inputs')
           /\ drain' = "idle" => queue' = <<>>
           /\ Complete(inputs', lostTo', delivered', sending', queue')
<1>1. /\ Len(inputs) \in Nat /\ DOMAIN inputs = 1..Len(inputs) /\ queue \in Seq(1..Len(inputs))
      /\ Ascends(queue)
      /\ queue # <<>> => queue[Len(queue)] = Len(inputs)
  BY DEF PointerInv, PointerTypeOK, Inputs
<1>2. CASE queue = <<>>
  <2>1. drain' = "idle" /\ sending' = 0 /\ queue' = <<>>
    BY <1>2 DEF Continue
  <2> QED BY <1>1, <1>2, <2>1 DEF Ascends, Below
<1>3. CASE queue # <<>>
  <2>1. drain' = "sending" /\ sending' = Head(queue) /\ queue' = Tail(queue)
    BY <1>3 DEF Continue
  <2>2. /\ Head(queue) \in 1..Len(inputs) /\ Tail(queue) \in Seq(1..Len(inputs)) /\ Ascends(Tail(queue))
        /\ Above(Tail(queue), Head(queue)) /\ Head(queue) = queue[1] /\ 1 \in DOMAIN queue
        /\ \A k \in DOMAIN Tail(queue) : k + 1 \in DOMAIN queue /\ Tail(queue)[k] = queue[k + 1]
        /\ Tail(queue) # <<>> => Tail(queue)[Len(Tail(queue))] = queue[Len(queue)]
        /\ \A i : Holds(queue, i) => i = Head(queue) \/ Holds(Tail(queue), i)
    BY <1>1, <1>3, Advanced
  <2>3. Below(d, Head(queue)) /\ \A k \in DOMAIN Tail(queue) : Below(d, Tail(queue)[k])
    BY <2>2
  <2>4. Complete(inputs, lostTo, d, Head(queue), Tail(queue))
    BY <1>1, <2>2 DEF Complete
  <2> QED BY <1>1, <2>1, <2>2, <2>3, <2>4
<1> QED BY <1>2, <1>3

\* Every element of w is n, or waits in q as well.
Within(w, q, n) == \A k \in DOMAIN w : w[k] = n \/ (k \in DOMAIN q /\ w[k] = q[k])

\* w has grown out of q by input n.
Includes(w, q) == \A i : Holds(q, i) => Holds(w, i)

Grown(w, q, n) ==
    /\ w \in Seq(1..n) /\ w # <<>> /\ w[Len(w)] = n /\ Ascends(w)
    /\ Within(w, q, n) /\ Holds(w, n)

InPlace(q, n) == [q EXCEPT ![Len(q)] = n]

\* The last of a queue of inputs 1..n is replaced by input n + 1.
LEMMA Replaced ==
    ASSUME NEW n \in Nat, NEW q \in Seq(1..n), q # <<>>, Ascends(q), NEW w,
           w = InPlace(q, n + 1)
    PROVE  /\ Grown(w, q, n + 1)
           /\ \A i : Holds(q, i) => Holds(w, i) \/ i = q[Len(q)]
<1> DEFINE m == Len(q)
<1>1. /\ m \in Nat /\ m # 0 /\ DOMAIN q = 1..m /\ \A k \in 1..m : q[k] \in 1..n
  OBVIOUS
<1>2. /\ w \in Seq(1..(n + 1)) /\ Len(w) = m /\ DOMAIN w = 1..m /\ w[m] = n + 1
      /\ \A k \in 1..m : k # m => w[k] = q[k]
  <2>1. n + 1 \in 1..(n + 1) /\ q \in Seq(1..(n + 1))
    BY <1>1
  <2>2. m \in 1..Len(q)
    BY <1>1
  <2>3. /\ w \in Seq(1..(n + 1)) /\ Len(w) = m
        /\ \A k \in 1..m : w[k] = IF k = m THEN n + 1 ELSE q[k]
    BY <2>1, <2>2, ExceptSeq DEF InPlace
  <2>4. w[m] = n + 1 /\ \A k \in 1..m : k # m => w[k] = q[k]
    BY <2>2, <2>3
  <2>5. DOMAIN w = 1..m
    BY <2>3
  <2> QED BY <2>3, <2>4, <2>5
<1>3. \A i, j \in 1..m : i < j => q[i] < q[j]
  BY <1>1 DEF Ascends
<1> HIDE DEF m
<1>4. Ascends(w)
  <2> SUFFICES ASSUME NEW i \in 1..m, NEW j \in 1..m, i < j PROVE w[i] < w[j]
    BY <1>2 DEF Ascends
  <2>1. i # m /\ w[i] = q[i] /\ q[i] \in 1..n
    BY <1>1, <1>2
  <2>2. CASE j = m
    BY <1>2, <2>1, <2>2
  <2>3. CASE j # m
    BY <1>2, <1>3, <2>1, <2>3
  <2> QED BY <2>2, <2>3
<1>5. w # <<>>
  BY <1>1, <1>2
<1>6. \A i : Holds(q, i) => Holds(w, i) \/ i = q[Len(q)]
  BY <1>1, <1>2 DEF Holds, m
<1>7. Holds(w, n + 1)
  BY <1>1, <1>2 DEF Holds
<1>8. Within(w, q, n + 1)
  BY <1>1, <1>2 DEF Within
<1>9. w[Len(w)] = n + 1
  BY <1>2
<1> QED BY <1>2, <1>4, <1>5, <1>6, <1>7, <1>8, <1>9 DEF Grown

\* Input n + 1 is put behind a queue of inputs 1..n.
LEMMA Appended ==
    ASSUME NEW n \in Nat, NEW q \in Seq(1..n), Ascends(q), NEW w, w = Append(q, n + 1)
    PROVE  Grown(w, q, n + 1) /\ Includes(w, q)
<1> DEFINE m == Len(q)
<1>1. /\ m \in Nat /\ DOMAIN q = 1..m /\ \A k \in 1..m : q[k] \in 1..n
  OBVIOUS
<1>2. /\ w \in Seq(1..(n + 1)) /\ Len(w) = m + 1 /\ DOMAIN w = 1..(m + 1) /\ w[m + 1] = n + 1
      /\ \A k \in 1..m : w[k] = q[k]
  <2>1. n + 1 \in 1..(n + 1) /\ q \in Seq(1..(n + 1))
    BY <1>1
  <2> QED BY <1>1, <2>1
<1>3. \A i, j \in 1..m : i < j => q[i] < q[j]
  BY <1>1 DEF Ascends
<1> HIDE DEF m
<1>5. Ascends(w)
  <2> SUFFICES ASSUME NEW i \in 1..(m + 1), NEW j \in 1..(m + 1), i < j PROVE w[i] < w[j]
    BY <1>2 DEF Ascends
  <2>1. i \in 1..m /\ w[i] = q[i] /\ q[i] \in 1..n
    BY <1>1, <1>2
  <2>2. CASE j = m + 1
    BY <1>2, <2>1, <2>2
  <2>3. CASE j # m + 1
    <3>1. j \in 1..m
      BY <1>1, <2>3
    <3> QED BY <1>2, <1>3, <2>1, <3>1
  <2> QED BY <2>2, <2>3
<1>6. w # <<>>
  BY <1>1, <1>2
<1>7. Within(w, q, n + 1)
  BY <1>1, <1>2 DEF Within
<1>8. Includes(w, q)
  BY <1>1, <1>2 DEF Includes, Holds
<1>9. Holds(w, n + 1)
  BY <1>1, <1>2 DEF Holds
<1> QED BY <1>2, <1>5, <1>6, <1>7, <1>8, <1>9 DEF Grown

\* One more input leaves nothing out, when what it displaces is the move before it.
LEMMA CompleteWithNext ==
    ASSUME NEW ins \in Seq(Inputs), NEW e \in Inputs, NEW lost \in Nat, NEW d, NEW s, NEW q, NEW w,
           Complete(ins, lost, d, s, q),
           \A i \in 1..Len(ins) : Holds(q, i) =>
              Holds(w, i) \/ (i = Len(ins) /\ ins[i] = e /\ e.phase = "move"),
           Holds(w, Len(ins) + 1)
    PROVE  Complete(Append(ins, e), lost, d, s, w)
<1> DEFINE n == Len(ins)
           new == Append(ins, e)
<1>1. /\ n \in Nat /\ Len(new) = n + 1 /\ new[n + 1] = e /\ \A i \in 1..n : new[i] = ins[i]
  OBVIOUS
<1>2. \A i \in 1..n : i > lost /\ ~Holds(d, i) /\ i # s /\ ~Holds(q, i) =>
         ins[i].phase = "move" /\ i < n /\ ins[i + 1] = ins[i]
  BY DEF Complete
<1>3. \A i \in 1..n : Holds(q, i) => Holds(w, i) \/ (i = n /\ ins[i] = e /\ e.phase = "move")
  OBVIOUS
<1>4. Holds(w, n + 1)
  OBVIOUS
<1> HIDE DEF n, new
<1>5. SUFFICES ASSUME NEW i \in 1..(n + 1), i > lost, ~Holds(d, i), i # s, ~Holds(w, i)
               PROVE  new[i].phase = "move" /\ i < n + 1 /\ new[i + 1] = new[i]
  BY <1>1 DEF Complete, new
<1>6. i # n + 1
  BY <1>4, <1>5
<1>7. i \in 1..n /\ new[i] = ins[i] /\ i < n + 1
  BY <1>1, <1>6
<1>8. CASE Holds(q, i)
  <2>1. i = n /\ ins[i] = e /\ e.phase = "move"
    BY <1>3, <1>5, <1>7, <1>8
  <2> QED BY <1>1, <1>7, <2>1
<1>9. CASE ~Holds(q, i)
  <2>1. ins[i].phase = "move" /\ i < n /\ ins[i + 1] = ins[i]
    BY <1>2, <1>5, <1>7, <1>9
  <2>2. i + 1 \in 1..n
    BY <1>1, <1>7, <2>1
  <2> QED BY <1>1, <1>7, <2>1, <2>2
<1> QED BY <1>8, <1>9

\* What is enqueued waits last, alone or in the place of the move it repeats.
LEMMA EnqueueKeeps ==
    ASSUME PointerInv, NEW p \in Pointers, NEW what \in {"down", "move", "up"}, Enqueue(p, what)
    PROVE  /\ inputs' \in Seq(Inputs) /\ queue' \in Seq(DOMAIN inputs')
           /\ sending' \in {0} \cup DOMAIN inputs' /\ delivered' \in Seq(DOMAIN inputs')
           /\ lostTo' \in 0..Len(inputs')
           /\ drain' \in {"idle", "sending", "refreshing"} /\ (drain' = "sending" <=> sending' # 0)
           /\ Ascends(delivered') /\ Ascends(queue')
           /\ \A k \in DOMAIN queue' : Below(delivered', queue'[k])
           /\ sending' # 0 => Below(delivered', sending') /\ Above(queue', sending')
           /\ queue' # <<>> => queue'[Len(queue')] = Len(inputs')
           /\ drain' = "idle" => queue' = <<>>
           /\ Complete(inputs', lostTo', delivered', sending', queue')
<1> DEFINE n == Len(inputs)
           e == [phase |-> what, contact |-> p]
           waiting == IF Coalesces(p, what) THEN [queue EXCEPT ![Len(queue)] = n + 1]
                                            ELSE Append(queue, n + 1)
<1>1. /\ inputs \in Seq(Inputs) /\ n \in Nat /\ DOMAIN inputs = 1..n
      /\ queue \in Seq(1..n) /\ delivered \in Seq(1..n) /\ sending \in 0..n /\ lostTo \in 0..n
      /\ drain \in {"idle", "sending", "refreshing"} /\ (drain = "sending" <=> sending # 0)
  BY DEF PointerInv, PointerTypeOK, Inputs
<1>2. e \in Inputs
  BY DEF Inputs
<1>3. /\ inputs' = Append(inputs, e) /\ UNCHANGED <<delivered, lostTo>>
      /\ inputs' \in Seq(Inputs) /\ Len(inputs') = n + 1 /\ DOMAIN inputs' = 1..(n + 1)
  BY <1>1, <1>2 DEF Enqueue
<1>4. IF drain = "idle"
      THEN drain' = "sending" /\ sending' = Head(waiting) /\ queue' = Tail(waiting)
      ELSE queue' = waiting /\ UNCHANGED <<drain, sending>>
  BY <1>3 DEF Enqueue
<1>5. /\ Ascends(queue) /\ Ascends(delivered)
      /\ \A k \in DOMAIN queue : Below(delivered, queue[k])
      /\ sending # 0 => Below(delivered, sending) /\ Above(queue, sending)
      /\ queue # <<>> => queue[Len(queue)] = n
      /\ drain = "idle" => queue = <<>>
      /\ Complete(inputs, lostTo, delivered, sending, queue)
  BY DEF PointerInv
<1>6. /\ waiting \in Seq(1..(n + 1)) /\ waiting # <<>> /\ waiting[Len(waiting)] = n + 1
      /\ Ascends(waiting)
      /\ Within(waiting, queue, n + 1)
      /\ \A i \in 1..n : Holds(queue, i) =>
            Holds(waiting, i) \/ (i = n /\ inputs[i] = e /\ e.phase = "move")
      /\ Holds(waiting, n + 1)
      /\ drain = "idle" => Head(waiting) = n + 1 /\ Tail(waiting) = <<>>
  <2>1. CASE Coalesces(p, what)
    <3>1. /\ queue # <<>> /\ queue[Len(queue)] = n /\ inputs[n] = e /\ e.phase = "move"
      BY <1>5, <2>1 DEF Coalesces, Last
    <3>2. waiting = InPlace(queue, n + 1)
      BY <2>1 DEF InPlace
    <3> HIDE DEF waiting, e, n
    <3>3. /\ waiting \in Seq(1..(n + 1)) /\ waiting # <<>> /\ waiting[Len(waiting)] = n + 1
          /\ Ascends(waiting) /\ Holds(waiting, n + 1)
          /\ Within(waiting, queue, n + 1)
          /\ \A i : Holds(queue, i) => Holds(waiting, i) \/ i = queue[Len(queue)]
      <4>1. n \in Nat /\ queue \in Seq(1..n) /\ queue # <<>> /\ Ascends(queue)
        BY <1>1, <1>5, <3>1
      <4>2. Grown(waiting, queue, n + 1)
        BY <3>2, <4>1, Replaced
      <4>4. \A i : Holds(queue, i) => Holds(waiting, i) \/ i = queue[Len(queue)]
        BY <3>2, <4>1, Replaced
      <4> QED BY <4>2, <4>4 DEF Grown
    <3>4. drain # "idle"
      BY <1>5, <3>1
    <3> QED BY <3>1, <3>3, <3>4
  <2>2. CASE ~Coalesces(p, what)
    <3>1. waiting = Append(queue, n + 1)
      BY <2>2
    <3> HIDE DEF waiting, e, n
    <3>2. /\ waiting \in Seq(1..(n + 1)) /\ waiting # <<>> /\ waiting[Len(waiting)] = n + 1
          /\ Ascends(waiting) /\ Holds(waiting, n + 1)
          /\ Within(waiting, queue, n + 1)
          /\ \A i : Holds(queue, i) => Holds(waiting, i)
          /\ queue = <<>> => Head(waiting) = n + 1 /\ Tail(waiting) = <<>>
      <4>1. n \in Nat /\ queue \in Seq(1..n) /\ Ascends(queue)
        BY <1>1, <1>5
      <4>2. Grown(waiting, queue, n + 1) /\ Includes(waiting, queue)
        BY <3>1, <4>1, Appended
      <4>5. queue = <<>> => Head(waiting) = n + 1 /\ Tail(waiting) = <<>>
        BY <3>1
      <4> QED BY <4>2, <4>5 DEF Grown, Includes
    <3> QED BY <1>5, <3>2
  <2> QED BY <2>1, <2>2
<1> HIDE DEF waiting, e
<1>7. Complete(inputs', lostTo, delivered, sending, waiting)
  <2>1. lostTo \in Nat
    BY <1>1
  <2> QED BY <1>1, <1>2, <1>3, <1>5, <1>6, <2>1, CompleteWithNext, Zenon
<1> HIDE DEF n
<1>8. \A k \in DOMAIN delivered : delivered[k] \in 1..n
  BY <1>1
<1>9. delivered \in Seq(1..(n + 1)) /\ Below(delivered, n + 1)
  BY <1>1, <1>8 DEF Below
<1>10. \A k \in DOMAIN waiting : Below(delivered, waiting[k])
  BY <1>5, <1>6, <1>9 DEF Within
<1>11. sending # 0 => Below(delivered, sending) /\ Above(waiting, sending)
  <2>1. sending < n + 1
    BY <1>1
  <2> QED BY <1>5, <1>6, <2>1 DEF Above, Within
<1>12. CASE drain = "idle"
  <2>1. drain' = "sending" /\ sending' = n + 1 /\ queue' = <<>> /\ sending = 0 /\ queue = <<>>
    BY <1>1, <1>4, <1>5, <1>6, <1>12
  <2>2. \A i : Holds(waiting, i) => i = n + 1
    <3>1. DOMAIN queue = {}
      BY <2>1
    <3>3. \A k \in DOMAIN waiting : waiting[k] = n + 1
      BY <1>6, <3>1 DEF Within
    <3> QED BY <3>3, Zenon DEF Holds
  <2>3. Complete(inputs', lostTo, delivered, n + 1, <<>>)
    <3>1. \A i \in 1..Len(inputs') : i # sending
      BY <1>1, <1>3, <2>1
    <3> QED BY <1>7, <2>2, <3>1, Zenon DEF Complete
  <2> QED BY <1>1, <1>3, <1>5, <1>9, <2>1, <2>3 DEF Ascends, Above
<1>13. CASE drain # "idle"
  <2>1. queue' = waiting /\ drain' = drain /\ sending' = sending
    BY <1>4, <1>13
  <2> QED BY <1>1, <1>3, <1>5, <1>6, <1>7, <1>9, <1>10, <1>11, <1>13, <2>1
<1> QED BY <1>12, <1>13

LEMMA PointerStep == ASSUME PointerInv, [PointerNext]_pointerVars PROVE PointerInv'
<1> DEFINE Known == <<inputs, queue, drain, sending, delivered, lostTo>>
<1>1. /\ raw \in BOOLEAN /\ surface \in Surfaces /\ pressed \subseteq Pointers
      /\ active \in Pointers \cup {Nobody} /\ gesture \in Pointers \cup {Nobody}
      /\ PointerTypeOK
  BY DEF PointerInv, PointerTypeOK
\* A step that enqueues nothing and sends nothing.
<1>2. ASSUME UNCHANGED Known, raw' \in BOOLEAN, surface' \in Surfaces, pressed' \subseteq Pointers,
             active' \in Pointers \cup {Nobody}, gesture' \in Pointers \cup {Nobody}
      PROVE  PointerInv'
  BY <1>1, <1>2 DEF PointerInv, PointerTypeOK, Ascends, Below, Above, Complete, Holds
<1>3. ASSUME NEW p \in Pointers, NEW what \in {"down", "move", "up"}, Enqueue(p, what),
             raw' \in BOOLEAN, surface' \in Surfaces, pressed' \subseteq Pointers,
             active' \in Pointers \cup {Nobody}, gesture' \in Pointers \cup {Nobody}
      PROVE  PointerInv'
  BY <1>3, EnqueueKeeps DEF PointerInv, PointerTypeOK, Inputs
<1>4. ASSUME NEW p \in Pointers, Down(p) PROVE PointerInv'
  <2>1. CASE NoInput
    BY <1>1, <1>2, <1>4, <2>1 DEF Down, NoInput, drainVars
  <2>2. CASE Enqueue(p, "down")
    BY <1>1, <1>3, <1>4, <2>2 DEF Down
  <2> QED BY <1>4, <2>1, <2>2 DEF Down
<1>5. ASSUME NEW p \in Pointers, Move(p) PROVE PointerInv'
  BY <1>1, <1>3, <1>5 DEF Move
<1>6. ASSUME NEW p \in Pointers, Up(p) PROVE PointerInv'
  <2>1. CASE NoInput
    BY <1>1, <1>2, <1>6, <2>1 DEF Up, NoInput, drainVars
  <2>2. CASE Enqueue(p, "up")
    BY <1>1, <1>3, <1>6, <2>2 DEF Up
  <2> QED BY <1>6, <2>1, <2>2 DEF Up
<1>7. ASSUME ChangeMode PROVE PointerInv'
  BY <1>1, <1>2, <1>7 DEF ChangeMode, drainVars
\* What has been sent is behind everything that waits.
<1>8. ASSUME Sent PROVE PointerInv'
  <2> DEFINE d == Append(delivered, sending)
             n == Len(inputs)
  <2>1. /\ n \in Nat /\ DOMAIN inputs = 1..n /\ delivered \in Seq(1..n) /\ sending \in 1..n
        /\ queue \in Seq(1..n) /\ inputs \in Seq(Inputs) /\ lostTo \in 0..n
        /\ Ascends(delivered) /\ Below(delivered, sending) /\ Above(queue, sending)
        /\ \A k \in DOMAIN queue : Below(delivered, queue[k])
        /\ Complete(inputs, lostTo, delivered, sending, queue)
    BY <1>8 DEF Sent, PointerInv, PointerTypeOK, Inputs
  <2>2. /\ d \in Seq(1..n) /\ DOMAIN d = 1..(Len(delivered) + 1) /\ d[Len(delivered) + 1] = sending
        /\ DOMAIN delivered = 1..Len(delivered) /\ Len(delivered) \in Nat
        /\ \A k \in 1..Len(delivered) : d[k] = delivered[k]
    BY <2>1
  <2> HIDE DEF d, n
  <2>3. Ascends(d)
    <3> DEFINE m == Len(delivered)
    <3> SUFFICES ASSUME NEW i \in 1..(m + 1), NEW j \in 1..(m + 1), i < j PROVE d[i] < d[j]
      BY <2>2 DEF Ascends
    <3>1. i \in 1..m /\ d[i] = delivered[i]
      BY <2>2
    <3>2. CASE j = m + 1
      BY <2>1, <2>2, <3>1, <3>2 DEF Below
    <3>3. CASE j # m + 1
      <4>1. j \in 1..m /\ d[j] = delivered[j]
        BY <2>2, <3>3
      <4> QED BY <2>1, <2>2, <3>1, <4>1 DEF Ascends
    <3> QED BY <3>2, <3>3
  <2>4. \A k \in DOMAIN queue : Below(d, queue[k])
    <3> SUFFICES ASSUME NEW k \in DOMAIN queue, NEW j \in DOMAIN d PROVE d[j] < queue[k]
      BY DEF Below
    <3>1. CASE j = Len(delivered) + 1
      BY <2>1, <2>2, <3>1 DEF Above
    <3>2. CASE j # Len(delivered) + 1
      <4>1. j \in 1..Len(delivered) /\ d[j] = delivered[j]
        BY <2>2, <3>2
      <4> QED BY <2>1, <2>2, <4>1 DEF Below
    <3> QED BY <3>1, <3>2
  <2>5. Complete(inputs, lostTo, d, 0, queue)
    <3>1. \A i : Holds(delivered, i) => Holds(d, i)
      BY <2>2 DEF Holds
    <3>2. Holds(d, sending)
      BY <2>2 DEF Holds
    <3> QED BY <2>1, <3>1, <3>2 DEF Complete
  <2>6. Continue(queue) /\ UNCHANGED <<inputs, lostTo>> /\ delivered' = d
        /\ UNCHANGED <<raw, surface, pressed, active, gesture>>
    BY <1>8 DEF Sent, d
  <2> QED BY <1>1, <2>1, <2>2, <2>3, <2>4, <2>5, <2>6, ContinueKeeps DEF PointerInv,
       PointerTypeOK, Inputs
<1>9. ASSUME SendingFails PROVE PointerInv'
  <2>1. /\ UNCHANGED <<raw, surface, pressed, active, gesture, inputs, delivered>>
        /\ lostTo' = Len(inputs) /\ queue' = <<>> /\ sending' = 0 /\ drain' \in {"refreshing", "idle"}
    BY <1>9 DEF SendingFails
  <2>2. Complete(inputs', lostTo', delivered', sending', queue')
    BY <2>1 DEF Complete
  <2>3. /\ Ascends(queue') /\ Ascends(delivered') /\ DOMAIN queue' = {}
    BY <2>1 DEF Ascends, PointerInv
  <2>4. PointerTypeOK'
    BY <1>1, <2>1 DEF PointerTypeOK
  <2> QED BY <2>1, <2>2, <2>3, <2>4 DEF PointerInv
<1>10. ASSUME Refreshed PROVE PointerInv'
  <2>1. sending = 0 /\ delivered \in Seq(DOMAIN inputs) /\ inputs \in Seq(Inputs)
        /\ Ascends(delivered) /\ (\A k \in DOMAIN queue : Below(delivered, queue[k]))
        /\ Complete(inputs, lostTo, delivered, 0, queue) /\ lostTo \in 0..Len(inputs)
    BY <1>10 DEF Refreshed, PointerInv, PointerTypeOK, Inputs
  <2>2. Continue(queue) /\ UNCHANGED <<inputs, lostTo, delivered>>
        /\ UNCHANGED <<raw, surface, pressed, active, gesture>>
    BY <1>10 DEF Refreshed
  <2> QED BY <1>1, <2>1, <2>2, ContinueKeeps DEF PointerInv, PointerTypeOK, Inputs
<1>11. ASSUME UNCHANGED pointerVars PROVE PointerInv'
  BY <1>1, <1>2, <1>11 DEF pointerVars
<1> QED
  BY <1>4, <1>5, <1>6, <1>7, <1>8, <1>9, <1>10, <1>11 DEF PointerNext

\* The device sees each contact's course as it was drawn.
THEOREM GestureCorrect == PointerSpec => []GestureKeepsItsShape
<1>1. PointerInit => PointerInv
  BY PointerInitially
<1>2. PointerInv /\ [PointerNext]_pointerVars => PointerInv'
  BY PointerStep
<1>3. PointerInv => GestureKeepsItsShape
  BY OrderIsKept
<1> QED BY <1>1, <1>2, <1>3, PTL DEF PointerSpec

-----------------------------------------------------------------------------
(* The picture and the annotations of a viewer.                            *)

\* The conjuncts of AppTypeOK, by what they are about.
FormTypes ==
    /\ embedded \in BOOLEAN /\ codec \in {"h264", "mjpeg"}
    /\ feed.on \in BOOLEAN /\ live \in BOOLEAN
    /\ phase \in {"connecting", "waiting-for-frame", "ready", "error", "disconnected"}
    /\ drops \in 0..MaxDrops
PictureTypes ==
    /\ mode \in {"interact", "annotate"} /\ inspector \in BOOLEAN
    /\ latest \in Frames \cup {Nothing} /\ canvas \in Frames \cup {Nothing}
    /\ ready \in BOOLEAN /\ frozen \in BOOLEAN /\ frozenId \in Frames \cup {Nothing}
    /\ video \in Frames \cup {Nothing} /\ bitmaps \subseteq Frames
    /\ made \in 0..MaxFrames
CommentTypes ==
    /\ editor \in [id : {0} \cup Ids, frame : Frames] \cup {Nothing}
    /\ saving \in [id : {0} \cup Ids, frame : Frames] \cup {Nothing} /\ sent \subseteq Ids
    /\ nextId \in 1..(MaxComments + 1)
StateTypes ==
    /\ device \in Devices \cup {Nothing} /\ connected \in BOOLEAN /\ relayed \in BOOLEAN
    /\ comments \subseteq Comments
ServerTypes ==
    /\ switching \in [to : Devices, done : BOOLEAN] \cup {Nothing}
    /\ served \in Devices /\ stored \in [Devices -> SUBSET Comments]
    /\ switches \in 0..MaxSwitches /\ results \in 0..MaxResults

LEMMA AppTypes == AppTypeOK <=> /\ FormTypes /\ PictureTypes /\ CommentTypes
                                /\ StateTypes /\ ServerTypes
BY DEF AppTypeOK, FormTypes, PictureTypes, CommentTypes, StateTypes, ServerTypes

\* FrozenPictureIsNamed does not say that a painted picture has a name, which a
\* freeze can give it, nor that an annotation is made of a picture.
NamedInv ==
    /\ ready => canvas = latest /\ latest # Nothing
    /\ frozen => frozenId # Nothing
    /\ saving # Nothing => (saving.id = 0 => nextId <= MaxComments)

AppInv ==
    /\ FormTypes /\ PictureTypes /\ CommentTypes /\ StateTypes /\ ServerTypes
    /\ NamedInv /\ FrozenPictureIsNamed

LEMMA AppInitially == ASSUME AppAssumption, AppInit PROVE AppInv
<1>0. 0 \in 0..MaxFrames /\ 0 \in 0..MaxDrops /\ 0 \in 0..MaxSwitches /\ 0 \in 0..MaxResults
  BY DEF AppAssumption
<1>1. FormTypes
  <2>1. feed.on \in BOOLEAN
    BY DEF AppInit, Wanted, Paused
  <2>2. codec \in {"h264", "mjpeg"}
    BY DEF AppInit
  <2>3. phase \in {"connecting", "waiting-for-frame", "ready", "error", "disconnected"}
    BY DEF AppInit
  <2>4. drops \in 0..MaxDrops
    <3>1. drops = 0
      BY DEF AppInit
    <3> QED BY <3>1, <1>0, Zenon
  <2>5. embedded \in BOOLEAN /\ live \in BOOLEAN
    BY DEF AppInit
  <2> QED BY <2>1, <2>2, <2>3, <2>4, <2>5, Zenon DEF FormTypes
<1>2. PictureTypes
  <2>1. made \in 0..MaxFrames
    <3>1. made = 0
      BY DEF AppInit
    <3> QED BY <3>1, <1>0, Zenon
  <2> QED BY <2>1, Zenon DEF AppInit, PictureTypes
<1>3. CommentTypes
  BY DEF AppAssumption, AppInit, CommentTypes
<1>4. StateTypes
  BY DEF AppAssumption, AppInit, StateTypes
<1>5. ServerTypes
  <2>1. stored \in [Devices -> SUBSET Comments]
    BY DEF AppInit
  <2>2. switches \in 0..MaxSwitches /\ results \in 0..MaxResults
    <3>1. switches = 0 /\ results = 0
      BY DEF AppInit
    <3> QED BY <3>1, <1>0, Zenon
  <2>3. switching = Nothing /\ served \in Devices
    BY DEF AppInit
  <2> QED BY <2>1, <2>2, <2>3, Zenon DEF ServerTypes
<1>6. NamedInv /\ FrozenPictureIsNamed
  BY DEF AppInit, NamedInv, FrozenPictureIsNamed, Paused
<1> QED BY <1>1, <1>2, <1>3, <1>4, <1>5, <1>6 DEF AppInv

LEMMA UnpaintedIsFrame == ASSUME AppAssumption, NEW d \in Devices PROVE Unpainted(d) \in Frames
BY DEF AppAssumption, Unpainted, Frames

LEMMA RunEffectsKeeps == ASSUME AppAssumption, AppInv, RunEffects PROVE AppInv'
<1>1. FormTypes'
  BY DEF AppInv, FormTypes, RunEffects, Rendered, Wanted, stateVars, freezeVars, commentVars,
       serverVars
<1>2. PictureTypes'
  BY DEF AppInv, PictureTypes, RunEffects, Rendered, Wanted, stateVars, freezeVars,
       commentVars, serverVars
<1>3. CommentTypes'
  BY DEF AppInv, CommentTypes, RunEffects, Rendered, Wanted, stateVars, freezeVars,
       commentVars, serverVars
<1>4. StateTypes'
  BY DEF AppInv, StateTypes, RunEffects, Rendered, Wanted, stateVars, freezeVars, commentVars,
       serverVars
<1>5. ServerTypes'
  BY DEF AppInv, ServerTypes, RunEffects, Rendered, Wanted, stateVars, freezeVars, commentVars,
       serverVars
<1>6. NamedInv'
  BY DEF AppInv, NamedInv, RunEffects, Rendered, Wanted, stateVars, freezeVars, commentVars,
       serverVars
<1>7. FrozenPictureIsNamed'
  BY DEF AppInv, FrozenPictureIsNamed, Paused, RunEffects, Rendered, Wanted, stateVars,
       freezeVars, commentVars, serverVars
<1> QED BY <1>1, <1>2, <1>3, <1>4, <1>5, <1>6, <1>7 DEF AppInv

LEMMA ReceiveKeeps == ASSUME AppAssumption, AppInv, Receive PROVE AppInv'
<1>1. FormTypes'
  BY DEF AppInv, FormTypes, Receive, Frames, stateVars, freezeVars, commentVars, feedVars,
       serverVars
<1>2. PictureTypes'
  BY UnpaintedIsFrame DEF AppAssumption, AppInv, FormTypes, PictureTypes, CommentTypes,
       StateTypes, ServerTypes, NamedInv, FrozenPictureIsNamed, Paused, Receive, Frames,
       stateVars, freezeVars, commentVars, feedVars, serverVars
<1>3. CommentTypes'
  BY DEF AppInv, CommentTypes, Receive, Frames, stateVars, freezeVars, commentVars, feedVars,
       serverVars
<1>4. StateTypes'
  BY DEF AppInv, StateTypes, Receive, Frames, stateVars, freezeVars, commentVars, feedVars,
       serverVars
<1>5. ServerTypes'
  BY DEF AppInv, ServerTypes, Receive, Frames, stateVars, freezeVars, commentVars, feedVars,
       serverVars
<1>6. NamedInv'
  BY DEF AppInv, NamedInv, Receive, Frames, stateVars, freezeVars, commentVars, feedVars,
       serverVars
<1>7. FrozenPictureIsNamed'
  BY DEF AppInv, FrozenPictureIsNamed, Paused, Receive, Frames, stateVars, freezeVars,
       commentVars, feedVars, serverVars
<1> QED BY <1>1, <1>2, <1>3, <1>4, <1>5, <1>6, <1>7 DEF AppInv

LEMMA PaintKeeps == ASSUME AppAssumption, AppInv, Paint PROVE AppInv'
<1>1. FormTypes'
  BY DEF AppInv, FormTypes, Paint, Draw, stateVars, freezeVars, commentVars, feedVars,
       serverVars
<1>2. PictureTypes'
  BY DEF AppInv, PictureTypes, Paint, Draw, stateVars, freezeVars, commentVars, feedVars,
       serverVars
<1>3. CommentTypes'
  BY DEF AppInv, CommentTypes, Paint, Draw, stateVars, freezeVars, commentVars, feedVars,
       serverVars
<1>4. StateTypes'
  BY DEF AppInv, StateTypes, Paint, Draw, stateVars, freezeVars, commentVars, feedVars,
       serverVars
<1>5. ServerTypes'
  BY DEF AppInv, ServerTypes, Paint, Draw, stateVars, freezeVars, commentVars, feedVars,
       serverVars
<1>6. NamedInv'
  BY DEF AppInv, NamedInv, Paint, Draw, stateVars, freezeVars, commentVars, feedVars, serverVars
<1>7. FrozenPictureIsNamed'
  BY DEF AppInv, FrozenPictureIsNamed, Paused, Paint, Draw, stateVars, freezeVars, commentVars,
       feedVars, serverVars
<1> QED BY <1>1, <1>2, <1>3, <1>4, <1>5, <1>6, <1>7 DEF AppInv

LEMMA PaintBitmapKeeps == ASSUME AppAssumption, AppInv, PaintBitmap PROVE AppInv'
<1>1. FormTypes'
  BY DEF AppInv, FormTypes, PaintBitmap, Draw, stateVars, freezeVars, commentVars, feedVars,
       serverVars
<1>2. PictureTypes'
  BY DEF AppInv, PictureTypes, PaintBitmap, Draw, stateVars, freezeVars, commentVars, feedVars,
       serverVars
<1>3. CommentTypes'
  BY DEF AppInv, CommentTypes, PaintBitmap, Draw, stateVars, freezeVars, commentVars, feedVars,
       serverVars
<1>4. StateTypes'
  BY DEF AppInv, StateTypes, PaintBitmap, Draw, stateVars, freezeVars, commentVars, feedVars,
       serverVars
<1>5. ServerTypes'
  BY DEF AppInv, ServerTypes, PaintBitmap, Draw, stateVars, freezeVars, commentVars, feedVars,
       serverVars
<1>6. NamedInv'
  BY UnpaintedIsFrame DEF AppAssumption, AppInv, FormTypes, PictureTypes, CommentTypes,
       StateTypes, ServerTypes, NamedInv, FrozenPictureIsNamed, Paused, PaintBitmap, Draw,
       stateVars, freezeVars, commentVars, feedVars, serverVars
<1>7. FrozenPictureIsNamed'
  BY DEF AppInv, FrozenPictureIsNamed, Paused, PaintBitmap, Draw, stateVars, freezeVars,
       commentVars, feedVars, serverVars
<1> QED BY <1>1, <1>2, <1>3, <1>4, <1>5, <1>6, <1>7 DEF AppInv

LEMMA FallbackKeeps == ASSUME AppAssumption, AppInv, Fallback PROVE AppInv'
<1>1. FormTypes'
  BY DEF AppInv, FormTypes, Fallback, stateVars, pictureVars, freezeVars, commentVars,
       serverVars
<1>2. PictureTypes'
  BY DEF AppInv, PictureTypes, Fallback, stateVars, pictureVars, freezeVars, commentVars,
       serverVars
<1>3. CommentTypes'
  BY DEF AppInv, CommentTypes, Fallback, stateVars, pictureVars, freezeVars, commentVars,
       serverVars
<1>4. StateTypes'
  BY DEF AppInv, StateTypes, Fallback, stateVars, pictureVars, freezeVars, commentVars,
       serverVars
<1>5. ServerTypes'
  BY DEF AppInv, ServerTypes, Fallback, stateVars, pictureVars, freezeVars, commentVars,
       serverVars
<1>6. NamedInv'
  BY DEF AppInv, NamedInv, Fallback, stateVars, pictureVars, freezeVars, commentVars, serverVars
<1>7. FrozenPictureIsNamed'
  BY DEF AppInv, FrozenPictureIsNamed, Paused, Fallback, stateVars, pictureVars, freezeVars,
       commentVars, serverVars
<1> QED BY <1>1, <1>2, <1>3, <1>4, <1>5, <1>6, <1>7 DEF AppInv

LEMMA MarkDisconnectedKeeps == ASSUME AppAssumption, AppInv, MarkDisconnected PROVE AppInv'
<1>0. drops' \in 0..MaxDrops
  BY DEF AppAssumption, AppInv, FormTypes, MarkDisconnected
<1>1. FormTypes'
  BY <1>0 DEF AppInv, FormTypes, MarkDisconnected, feedVars
<1>2. PictureTypes'
  BY DEF AppInv, PictureTypes, MarkDisconnected, pictureVars, freezeVars, commentVars,
       serverVars
<1>3. CommentTypes'
  BY DEF AppInv, CommentTypes, MarkDisconnected, pictureVars, freezeVars, commentVars,
       serverVars
<1>4. StateTypes'
  BY DEF AppInv, StateTypes, MarkDisconnected, pictureVars, freezeVars, commentVars, serverVars
<1>5. ServerTypes'
  BY DEF AppInv, ServerTypes, MarkDisconnected, pictureVars, freezeVars, commentVars, serverVars
<1>6. NamedInv'
  BY DEF AppInv, NamedInv, MarkDisconnected, pictureVars, freezeVars, commentVars, serverVars
<1>7. FrozenPictureIsNamed'
  BY DEF AppInv, FrozenPictureIsNamed, Paused, MarkDisconnected, pictureVars, freezeVars,
       commentVars, serverVars
<1> QED BY <1>1, <1>2, <1>3, <1>4, <1>5, <1>6, <1>7 DEF AppInv

LEMMA LoadBrowserStateKeeps == ASSUME AppAssumption, AppInv, LoadBrowserState PROVE AppInv'
<1>1. FormTypes'
  BY DEF AppInv, FormTypes, LoadBrowserState, pictureVars, freezeVars, commentVars, feedVars,
       serverVars
<1>2. PictureTypes'
  BY DEF AppInv, PictureTypes, LoadBrowserState, pictureVars, freezeVars, commentVars,
       feedVars, serverVars
<1>3. CommentTypes'
  BY DEF AppInv, CommentTypes, LoadBrowserState, pictureVars, freezeVars, commentVars,
       feedVars, serverVars
<1>4. StateTypes'
  BY UnpaintedIsFrame DEF AppAssumption, AppInv, FormTypes, PictureTypes, CommentTypes,
       StateTypes, ServerTypes, NamedInv, FrozenPictureIsNamed, Paused, LoadBrowserState,
       pictureVars, freezeVars, commentVars, feedVars, serverVars
<1>5. ServerTypes'
  BY DEF AppInv, ServerTypes, LoadBrowserState, pictureVars, freezeVars, commentVars, feedVars,
       serverVars
<1>6. NamedInv'
  BY DEF AppInv, NamedInv, LoadBrowserState, pictureVars, freezeVars, commentVars, feedVars,
       serverVars
<1>7. FrozenPictureIsNamed'
  BY DEF AppInv, FrozenPictureIsNamed, Paused, LoadBrowserState, pictureVars, freezeVars,
       commentVars, feedVars, serverVars
<1> QED BY <1>1, <1>2, <1>3, <1>4, <1>5, <1>6, <1>7 DEF AppInv

LEMMA ToolResultKeeps == ASSUME AppAssumption, AppInv, ToolResult PROVE AppInv'
<1>1. FormTypes'
  BY DEF AppInv, FormTypes, ToolResult, pictureVars, freezeVars, commentVars, feedVars
<1>2. PictureTypes'
  BY DEF AppInv, PictureTypes, ToolResult, pictureVars, freezeVars, commentVars, feedVars
<1>3. CommentTypes'
  BY DEF AppInv, CommentTypes, ToolResult, pictureVars, freezeVars, commentVars, feedVars
<1>4. StateTypes'
  BY UnpaintedIsFrame DEF AppAssumption, AppInv, FormTypes, PictureTypes, CommentTypes,
       StateTypes, ServerTypes, NamedInv, FrozenPictureIsNamed, Paused, ToolResult,
       pictureVars, freezeVars, commentVars, feedVars
<1>5. ServerTypes'
  BY UnpaintedIsFrame DEF AppAssumption, AppInv, FormTypes, PictureTypes, CommentTypes,
       StateTypes, ServerTypes, NamedInv, FrozenPictureIsNamed, Paused, ToolResult,
       pictureVars, freezeVars, commentVars, feedVars
<1>6. NamedInv'
  BY DEF AppInv, NamedInv, ToolResult, pictureVars, freezeVars, commentVars, feedVars
<1>7. FrozenPictureIsNamed'
  BY DEF AppInv, FrozenPictureIsNamed, Paused, ToolResult, pictureVars, freezeVars,
       commentVars, feedVars
<1> QED BY <1>1, <1>2, <1>3, <1>4, <1>5, <1>6, <1>7 DEF AppInv

LEMMA RefreshStateKeeps == ASSUME AppAssumption, AppInv, RefreshState PROVE AppInv'
<1>1. FormTypes'
  BY DEF AppInv, FormTypes, RefreshState, pictureVars, freezeVars, commentVars, feedVars
<1>2. PictureTypes'
  BY DEF AppInv, PictureTypes, RefreshState, pictureVars, freezeVars, commentVars, feedVars
<1>3. CommentTypes'
  BY DEF AppInv, CommentTypes, RefreshState, pictureVars, freezeVars, commentVars, feedVars
<1>4. StateTypes'
  BY UnpaintedIsFrame DEF AppAssumption, AppInv, FormTypes, PictureTypes, CommentTypes,
       StateTypes, ServerTypes, NamedInv, FrozenPictureIsNamed, Paused, RefreshState,
       pictureVars, freezeVars, commentVars, feedVars
<1>5. ServerTypes'
  BY UnpaintedIsFrame DEF AppAssumption, AppInv, FormTypes, PictureTypes, CommentTypes,
       StateTypes, ServerTypes, NamedInv, FrozenPictureIsNamed, Paused, RefreshState,
       pictureVars, freezeVars, commentVars, feedVars
<1>6. NamedInv'
  BY DEF AppInv, NamedInv, RefreshState, pictureVars, freezeVars, commentVars, feedVars
<1>7. FrozenPictureIsNamed'
  BY DEF AppInv, FrozenPictureIsNamed, Paused, RefreshState, pictureVars, freezeVars,
       commentVars, feedVars
<1> QED BY <1>1, <1>2, <1>3, <1>4, <1>5, <1>6, <1>7 DEF AppInv

LEMMA SelectDeviceKeeps == ASSUME AppAssumption, AppInv, NEW d \in Devices, SelectDevice(d) PROVE AppInv'
<1>1. FormTypes'
  BY DEF AppInv, FormTypes, SelectDevice, stateVars, pictureVars, freezeVars, commentVars,
       feedVars
<1>2. PictureTypes'
  BY DEF AppInv, PictureTypes, SelectDevice, stateVars, pictureVars, freezeVars, commentVars,
       feedVars
<1>3. CommentTypes'
  BY DEF AppInv, CommentTypes, SelectDevice, stateVars, pictureVars, freezeVars, commentVars,
       feedVars
<1>4. StateTypes'
  BY DEF AppInv, StateTypes, SelectDevice, stateVars, pictureVars, freezeVars, commentVars,
       feedVars
<1>5. ServerTypes'
  BY UnpaintedIsFrame DEF AppAssumption, AppInv, FormTypes, PictureTypes, CommentTypes,
       StateTypes, ServerTypes, NamedInv, FrozenPictureIsNamed, Paused, SelectDevice,
       stateVars, pictureVars, freezeVars, commentVars, feedVars
<1>6. NamedInv'
  BY DEF AppInv, NamedInv, SelectDevice, stateVars, pictureVars, freezeVars, commentVars,
       feedVars
<1>7. FrozenPictureIsNamed'
  BY DEF AppInv, FrozenPictureIsNamed, Paused, SelectDevice, stateVars, pictureVars,
       freezeVars, commentVars, feedVars
<1> QED BY <1>1, <1>2, <1>3, <1>4, <1>5, <1>6, <1>7 DEF AppInv

LEMMA ServeKeeps == ASSUME AppAssumption, AppInv, Serve PROVE AppInv'
<1>1. FormTypes'
  BY DEF AppInv, FormTypes, Serve, stateVars, pictureVars, freezeVars, commentVars, feedVars
<1>2. PictureTypes'
  BY DEF AppInv, PictureTypes, Serve, stateVars, pictureVars, freezeVars, commentVars, feedVars
<1>3. CommentTypes'
  BY DEF AppInv, CommentTypes, Serve, stateVars, pictureVars, freezeVars, commentVars, feedVars
<1>4. StateTypes'
  BY DEF AppInv, StateTypes, Serve, stateVars, pictureVars, freezeVars, commentVars, feedVars
<1>5. ServerTypes'
  BY DEF AppInv, ServerTypes, Serve, stateVars, pictureVars, freezeVars, commentVars, feedVars
<1>6. NamedInv'
  BY DEF AppInv, NamedInv, Serve, stateVars, pictureVars, freezeVars, commentVars, feedVars
<1>7. FrozenPictureIsNamed'
  BY DEF AppInv, FrozenPictureIsNamed, Paused, Serve, stateVars, pictureVars, freezeVars,
       commentVars, feedVars
<1> QED BY <1>1, <1>2, <1>3, <1>4, <1>5, <1>6, <1>7 DEF AppInv

LEMMA SwitchedKeeps == ASSUME AppAssumption, AppInv, Switched PROVE AppInv'
<1>1. FormTypes'
  BY DEF AppInv, FormTypes, Switched, feedVars
<1>2. PictureTypes'
  BY UnpaintedIsFrame DEF AppAssumption, AppInv, FormTypes, PictureTypes, CommentTypes,
       StateTypes, ServerTypes, NamedInv, FrozenPictureIsNamed, Paused, Switched, feedVars
<1>3. CommentTypes'
  BY DEF AppInv, CommentTypes, Switched, feedVars
<1>4. StateTypes'
  BY UnpaintedIsFrame DEF AppAssumption, AppInv, FormTypes, PictureTypes, CommentTypes,
       StateTypes, ServerTypes, NamedInv, FrozenPictureIsNamed, Paused, Switched, feedVars
<1>5. ServerTypes'
  BY DEF AppInv, ServerTypes, Switched, feedVars
<1>6. NamedInv'
  BY DEF AppInv, NamedInv, Switched, feedVars
<1>7. FrozenPictureIsNamed'
  BY DEF AppInv, FrozenPictureIsNamed, Paused, Switched, feedVars
<1> QED BY <1>1, <1>2, <1>3, <1>4, <1>5, <1>6, <1>7 DEF AppInv

LEMMA SwitchFailsKeeps == ASSUME AppAssumption, AppInv, SwitchFails PROVE AppInv'
<1>1. FormTypes'
  BY DEF AppInv, FormTypes, SwitchFails, stateVars, pictureVars, freezeVars, commentVars,
       feedVars
<1>2. PictureTypes'
  BY DEF AppInv, PictureTypes, SwitchFails, stateVars, pictureVars, freezeVars, commentVars,
       feedVars
<1>3. CommentTypes'
  BY DEF AppInv, CommentTypes, SwitchFails, stateVars, pictureVars, freezeVars, commentVars,
       feedVars
<1>4. StateTypes'
  BY DEF AppInv, StateTypes, SwitchFails, stateVars, pictureVars, freezeVars, commentVars,
       feedVars
<1>5. ServerTypes'
  BY DEF AppInv, ServerTypes, SwitchFails, stateVars, pictureVars, freezeVars, commentVars,
       feedVars
<1>6. NamedInv'
  BY DEF AppInv, NamedInv, SwitchFails, stateVars, pictureVars, freezeVars, commentVars,
       feedVars
<1>7. FrozenPictureIsNamed'
  BY DEF AppInv, FrozenPictureIsNamed, Paused, SwitchFails, stateVars, pictureVars, freezeVars,
       commentVars, feedVars
<1> QED BY <1>1, <1>2, <1>3, <1>4, <1>5, <1>6, <1>7 DEF AppInv

LEMMA EnterAnnotateKeeps == ASSUME AppAssumption, AppInv, EnterAnnotate PROVE AppInv'
<1>1. FormTypes'
  BY DEF AppInv, FormTypes, EnterAnnotate, Freeze, Or, stateVars, pictureVars, feedVars,
       serverVars
<1>2. PictureTypes'
  BY UnpaintedIsFrame DEF AppAssumption, AppInv, FormTypes, PictureTypes, CommentTypes,
       StateTypes, ServerTypes, NamedInv, FrozenPictureIsNamed, Paused, EnterAnnotate, Freeze,
       Or, stateVars, pictureVars, feedVars, serverVars
<1>3. CommentTypes'
  BY DEF AppInv, CommentTypes, EnterAnnotate, Freeze, Or, stateVars, pictureVars, feedVars,
       serverVars
<1>4. StateTypes'
  BY DEF AppInv, StateTypes, EnterAnnotate, Freeze, Or, stateVars, pictureVars, feedVars,
       serverVars
<1>5. ServerTypes'
  BY DEF AppInv, ServerTypes, EnterAnnotate, Freeze, Or, stateVars, pictureVars, feedVars,
       serverVars
<1>6. NamedInv'
  BY UnpaintedIsFrame DEF AppAssumption, AppInv, FormTypes, PictureTypes, CommentTypes,
       StateTypes, ServerTypes, NamedInv, FrozenPictureIsNamed, Paused, EnterAnnotate, Freeze,
       Or, stateVars, pictureVars, feedVars, serverVars
<1>7. FrozenPictureIsNamed'
  BY UnpaintedIsFrame DEF AppAssumption, AppInv, FormTypes, PictureTypes, CommentTypes,
       StateTypes, ServerTypes, NamedInv, FrozenPictureIsNamed, Paused, EnterAnnotate, Freeze,
       Or, stateVars, pictureVars, feedVars, serverVars
<1> QED BY <1>1, <1>2, <1>3, <1>4, <1>5, <1>6, <1>7 DEF AppInv

LEMMA ToggleInspectorKeeps == ASSUME AppAssumption, AppInv, ToggleInspector PROVE AppInv'
<1>1. FormTypes'
  BY DEF AppInv, FormTypes, ToggleInspector, Freeze, Or, Thaw, stateVars, pictureVars,
       commentVars, feedVars, serverVars
<1>2. PictureTypes'
  BY UnpaintedIsFrame DEF AppAssumption, AppInv, FormTypes, PictureTypes, CommentTypes,
       StateTypes, ServerTypes, NamedInv, FrozenPictureIsNamed, Paused, ToggleInspector,
       Freeze, Or, Thaw, stateVars, pictureVars, commentVars, feedVars, serverVars
<1>3. CommentTypes'
  BY DEF AppInv, CommentTypes, ToggleInspector, Freeze, Or, Thaw, stateVars, pictureVars,
       commentVars, feedVars, serverVars
<1>4. StateTypes'
  BY DEF AppInv, StateTypes, ToggleInspector, Freeze, Or, Thaw, stateVars, pictureVars,
       commentVars, feedVars, serverVars
<1>5. ServerTypes'
  BY DEF AppInv, ServerTypes, ToggleInspector, Freeze, Or, Thaw, stateVars, pictureVars,
       commentVars, feedVars, serverVars
<1>6. NamedInv'
  BY UnpaintedIsFrame DEF AppAssumption, AppInv, FormTypes, PictureTypes, CommentTypes,
       StateTypes, ServerTypes, NamedInv, FrozenPictureIsNamed, Paused, ToggleInspector,
       Freeze, Or, Thaw, stateVars, pictureVars, commentVars, feedVars, serverVars
<1>7. FrozenPictureIsNamed'
  BY UnpaintedIsFrame DEF AppAssumption, AppInv, FormTypes, PictureTypes, CommentTypes,
       StateTypes, ServerTypes, NamedInv, FrozenPictureIsNamed, Paused, ToggleInspector,
       Freeze, Or, Thaw, stateVars, pictureVars, commentVars, feedVars, serverVars
<1> QED BY <1>1, <1>2, <1>3, <1>4, <1>5, <1>6, <1>7 DEF AppInv

LEMMA LeaveAnnotateKeeps == ASSUME AppAssumption, AppInv, LeaveAnnotate PROVE AppInv'
<1>1. FormTypes'
  BY DEF AppInv, FormTypes, LeaveAnnotate, EnterInteract, Thaw, stateVars, pictureVars,
       feedVars, serverVars
<1>2. PictureTypes'
  BY DEF AppInv, PictureTypes, LeaveAnnotate, EnterInteract, Thaw, stateVars, pictureVars,
       feedVars, serverVars
<1>3. CommentTypes'
  BY DEF AppInv, CommentTypes, LeaveAnnotate, EnterInteract, Thaw, stateVars, pictureVars,
       feedVars, serverVars
<1>4. StateTypes'
  BY DEF AppInv, StateTypes, LeaveAnnotate, EnterInteract, Thaw, stateVars, pictureVars,
       feedVars, serverVars
<1>5. ServerTypes'
  BY DEF AppInv, ServerTypes, LeaveAnnotate, EnterInteract, Thaw, stateVars, pictureVars,
       feedVars, serverVars
<1>6. NamedInv'
  BY DEF AppInv, NamedInv, LeaveAnnotate, EnterInteract, Thaw, stateVars, pictureVars,
       feedVars, serverVars
<1>7. FrozenPictureIsNamed'
  BY DEF AppInv, FrozenPictureIsNamed, Paused, LeaveAnnotate, EnterInteract, Thaw, stateVars,
       pictureVars, feedVars, serverVars
<1> QED BY <1>1, <1>2, <1>3, <1>4, <1>5, <1>6, <1>7 DEF AppInv

LEMMA DiscardKeeps == ASSUME AppAssumption, AppInv, Discard PROVE AppInv'
<1>1. FormTypes'
  BY DEF AppInv, FormTypes, Discard, EnterInteract, Thaw, Forget, pictureVars, feedVars
<1>2. PictureTypes'
  BY DEF AppInv, PictureTypes, Discard, EnterInteract, Thaw, Forget, pictureVars, feedVars
<1>3. CommentTypes'
  BY DEF AppInv, CommentTypes, Discard, EnterInteract, Thaw, Forget, pictureVars, feedVars
<1>4. StateTypes'
  BY DEF AppInv, StateTypes, Discard, EnterInteract, Thaw, Forget, pictureVars, feedVars
<1>5. ServerTypes'
  BY DEF AppInv, ServerTypes, Discard, EnterInteract, Thaw, Forget, pictureVars, feedVars
<1>6. NamedInv'
  BY DEF AppInv, NamedInv, Discard, EnterInteract, Thaw, Forget, pictureVars, feedVars
<1>7. FrozenPictureIsNamed'
  BY DEF AppInv, FrozenPictureIsNamed, Paused, Discard, EnterInteract, Thaw, Forget,
       pictureVars, feedVars
<1> QED BY <1>1, <1>2, <1>3, <1>4, <1>5, <1>6, <1>7 DEF AppInv

LEMMA PointKeeps == ASSUME AppAssumption, AppInv, Point PROVE AppInv'
<1>1. FormTypes'
  BY DEF AppInv, FormTypes, Point, stateVars, pictureVars, freezeVars, feedVars, serverVars
<1>2. PictureTypes'
  BY DEF AppInv, PictureTypes, Point, stateVars, pictureVars, freezeVars, feedVars, serverVars
<1>3. CommentTypes'
  BY UnpaintedIsFrame DEF AppAssumption, AppInv, FormTypes, PictureTypes, CommentTypes,
       StateTypes, ServerTypes, NamedInv, FrozenPictureIsNamed, Paused, Point, stateVars,
       pictureVars, freezeVars, feedVars, serverVars
<1>4. StateTypes'
  BY DEF AppInv, StateTypes, Point, stateVars, pictureVars, freezeVars, feedVars, serverVars
<1>5. ServerTypes'
  BY DEF AppInv, ServerTypes, Point, stateVars, pictureVars, freezeVars, feedVars, serverVars
<1>6. NamedInv'
  BY DEF AppInv, NamedInv, Point, stateVars, pictureVars, freezeVars, feedVars, serverVars
<1>7. FrozenPictureIsNamed'
  BY DEF AppInv, FrozenPictureIsNamed, Paused, Point, stateVars, pictureVars, freezeVars,
       feedVars, serverVars
<1> QED BY <1>1, <1>2, <1>3, <1>4, <1>5, <1>6, <1>7 DEF AppInv

LEMMA EditAnnotationKeeps == ASSUME AppAssumption, AppInv, EditAnnotation PROVE AppInv'
<1>1. FormTypes'
  BY DEF AppInv, FormTypes, EditAnnotation, Visible, Comments, stateVars, pictureVars,
       freezeVars, feedVars, serverVars
<1>2. PictureTypes'
  BY DEF AppInv, PictureTypes, EditAnnotation, Visible, Comments, stateVars, pictureVars,
       freezeVars, feedVars, serverVars
<1>3. CommentTypes'
  BY UnpaintedIsFrame DEF AppAssumption, AppInv, FormTypes, PictureTypes, CommentTypes,
       StateTypes, ServerTypes, NamedInv, FrozenPictureIsNamed, Paused, EditAnnotation,
       Visible, Comments, stateVars, pictureVars, freezeVars, feedVars, serverVars
<1>4. StateTypes'
  BY DEF AppInv, StateTypes, EditAnnotation, Visible, Comments, stateVars, pictureVars,
       freezeVars, feedVars, serverVars
<1>5. ServerTypes'
  BY DEF AppInv, ServerTypes, EditAnnotation, Visible, Comments, stateVars, pictureVars,
       freezeVars, feedVars, serverVars
<1>6. NamedInv'
  BY DEF AppInv, NamedInv, EditAnnotation, Visible, Comments, stateVars, pictureVars,
       freezeVars, feedVars, serverVars
<1>7. FrozenPictureIsNamed'
  BY DEF AppInv, FrozenPictureIsNamed, Paused, EditAnnotation, Visible, Comments, stateVars,
       pictureVars, freezeVars, feedVars, serverVars
<1> QED BY <1>1, <1>2, <1>3, <1>4, <1>5, <1>6, <1>7 DEF AppInv

LEMMA SaveCommentKeeps == ASSUME AppAssumption, AppInv, SaveComment PROVE AppInv'
<1>1. FormTypes'
  BY DEF AppInv, FormTypes, SaveComment, stateVars, pictureVars, freezeVars, feedVars,
       serverVars
<1>2. PictureTypes'
  BY DEF AppInv, PictureTypes, SaveComment, stateVars, pictureVars, freezeVars, feedVars,
       serverVars
<1>3. CommentTypes'
  BY DEF AppInv, CommentTypes, SaveComment, stateVars, pictureVars, freezeVars, feedVars,
       serverVars
<1>4. StateTypes'
  BY DEF AppInv, StateTypes, SaveComment, stateVars, pictureVars, freezeVars, feedVars,
       serverVars
<1>5. ServerTypes'
  BY DEF AppInv, ServerTypes, SaveComment, stateVars, pictureVars, freezeVars, feedVars,
       serverVars
<1>6. NamedInv'
  BY DEF AppInv, NamedInv, SaveComment, stateVars, pictureVars, freezeVars, feedVars, serverVars
<1>7. FrozenPictureIsNamed'
  BY DEF AppInv, FrozenPictureIsNamed, Paused, SaveComment, stateVars, pictureVars, freezeVars,
       feedVars, serverVars
<1> QED BY <1>1, <1>2, <1>3, <1>4, <1>5, <1>6, <1>7 DEF AppInv

LEMMA SavedKeeps == ASSUME AppAssumption, AppInv, Saved PROVE AppInv'
<1> DEFINE c == [id |-> nextId, frame |-> saving.frame]
<1>0. saving.id \in {0} \cup Ids /\ saving.frame \in Frames /\ saving # Nothing
  BY DEF AppInv, CommentTypes, Saved
<1>a. saving.id = 0 => c \in Comments /\ nextId' \in 1..(MaxComments + 1)
  BY <1>0 DEF AppAssumption, AppInv, NamedInv, CommentTypes, Saved, Comments, Ids
<1>b. saving.id = 0 => comments' = comments \cup {c}
  BY DEF Saved
<1>c. saving.id = 0 => stored' = stored \/ stored' = [stored EXCEPT ![served] = @ \cup {c}]
  BY DEF Saved
<1> HIDE DEF c
<1>1. FormTypes'
  BY DEF AppInv, FormTypes, Saved, feedVars
<1>2. PictureTypes'
  BY DEF AppInv, PictureTypes, Saved, freezeVars, pictureVars
<1>3. CommentTypes'
  BY <1>0, <1>a DEF AppInv, CommentTypes, Saved
<1>4. StateTypes'
  BY <1>a, <1>b DEF AppInv, StateTypes, Saved
<1>5. ServerTypes'
  <2>1. stored' \in [Devices -> SUBSET Comments]
    BY <1>a, <1>c DEF AppInv, ServerTypes, Saved
  <2> QED BY <2>1 DEF AppInv, ServerTypes, Saved
<1>6. NamedInv'
  BY DEF AppInv, NamedInv, Saved, Comments, Ids, pictureVars, freezeVars, feedVars
<1>7. FrozenPictureIsNamed'
  BY DEF AppInv, FrozenPictureIsNamed, Paused, Saved, Comments, Ids, pictureVars, freezeVars,
       feedVars
<1> QED BY <1>1, <1>2, <1>3, <1>4, <1>5, <1>6, <1>7 DEF AppInv

LEMMA SaveFailsKeeps == ASSUME AppAssumption, AppInv, SaveFails PROVE AppInv'
<1>1. FormTypes'
  BY DEF AppInv, FormTypes, SaveFails, stateVars, pictureVars, freezeVars, feedVars, serverVars
<1>2. PictureTypes'
  BY DEF AppInv, PictureTypes, SaveFails, stateVars, pictureVars, freezeVars, feedVars,
       serverVars
<1>3. CommentTypes'
  BY DEF AppInv, CommentTypes, SaveFails, stateVars, pictureVars, freezeVars, feedVars,
       serverVars
<1>4. StateTypes'
  BY DEF AppInv, StateTypes, SaveFails, stateVars, pictureVars, freezeVars, feedVars, serverVars
<1>5. ServerTypes'
  BY DEF AppInv, ServerTypes, SaveFails, stateVars, pictureVars, freezeVars, feedVars,
       serverVars
<1>6. NamedInv'
  BY DEF AppInv, NamedInv, SaveFails, stateVars, pictureVars, freezeVars, feedVars, serverVars
<1>7. FrozenPictureIsNamed'
  BY DEF AppInv, FrozenPictureIsNamed, Paused, SaveFails, stateVars, pictureVars, freezeVars,
       feedVars, serverVars
<1> QED BY <1>1, <1>2, <1>3, <1>4, <1>5, <1>6, <1>7 DEF AppInv

LEMMA DeleteCommentKeeps == ASSUME AppAssumption, AppInv, DeleteComment PROVE AppInv'
<1>1. FormTypes'
  BY DEF AppInv, FormTypes, DeleteComment, Forget, pictureVars, freezeVars, feedVars
<1>2. PictureTypes'
  BY DEF AppInv, PictureTypes, DeleteComment, Forget, pictureVars, freezeVars, feedVars
<1>3. CommentTypes'
  BY DEF AppInv, CommentTypes, DeleteComment, Forget, pictureVars, freezeVars, feedVars
<1>4. StateTypes'
  BY DEF AppInv, StateTypes, DeleteComment, Forget, pictureVars, freezeVars, feedVars
<1>5. ServerTypes'
  BY DEF AppInv, ServerTypes, DeleteComment, Forget, pictureVars, freezeVars, feedVars
<1>6. NamedInv'
  BY DEF AppInv, NamedInv, DeleteComment, Forget, pictureVars, freezeVars, feedVars
<1>7. FrozenPictureIsNamed'
  BY DEF AppInv, FrozenPictureIsNamed, Paused, DeleteComment, Forget, pictureVars, freezeVars,
       feedVars
<1> QED BY <1>1, <1>2, <1>3, <1>4, <1>5, <1>6, <1>7 DEF AppInv

LEMMA SendToChatKeeps == ASSUME AppAssumption, AppInv, SendToChat PROVE AppInv'
<1>1. FormTypes'
  BY DEF AppInv, FormTypes, SendToChat, EnterInteract, Thaw, stateVars, pictureVars, feedVars,
       serverVars
<1>2. PictureTypes'
  BY DEF AppInv, PictureTypes, SendToChat, EnterInteract, Thaw, stateVars, pictureVars,
       feedVars, serverVars
<1>3. CommentTypes'
  <2>1. \A c \in Visible : c.id \in Ids
    BY DEF AppInv, StateTypes, Visible, Comments
  <2>2. sent' \subseteq Ids
    BY <2>1 DEF AppInv, CommentTypes, SendToChat
  <2> QED BY <2>2 DEF AppInv, CommentTypes, SendToChat, EnterInteract
<1>4. StateTypes'
  BY DEF AppInv, StateTypes, SendToChat, EnterInteract, Thaw, stateVars, pictureVars, feedVars,
       serverVars
<1>5. ServerTypes'
  BY DEF AppInv, ServerTypes, SendToChat, EnterInteract, Thaw, stateVars, pictureVars,
       feedVars, serverVars
<1>6. NamedInv'
  BY DEF AppInv, NamedInv, SendToChat, EnterInteract, Thaw, stateVars, pictureVars, feedVars,
       serverVars
<1>7. FrozenPictureIsNamed'
  BY DEF AppInv, FrozenPictureIsNamed, Paused, SendToChat, EnterInteract, Thaw, stateVars,
       pictureVars, feedVars, serverVars
<1> QED BY <1>1, <1>2, <1>3, <1>4, <1>5, <1>6, <1>7 DEF AppInv

\* Each step of AppNext, in its order.
LEMMA AppStep == ASSUME AppAssumption, AppInv, [AppNext]_appVars PROVE AppInv'
<1>1. CASE RunEffects BY <1>1, RunEffectsKeeps
<1>2. CASE Receive BY <1>2, ReceiveKeeps
<1>3. CASE Paint BY <1>3, PaintKeeps
<1>4. CASE PaintBitmap BY <1>4, PaintBitmapKeeps
<1>5. CASE Fallback BY <1>5, FallbackKeeps
<1>6. CASE MarkDisconnected BY <1>6, MarkDisconnectedKeeps
<1>7. CASE LoadBrowserState BY <1>7, LoadBrowserStateKeeps
<1>8. CASE ToolResult BY <1>8, ToolResultKeeps
<1>9. CASE RefreshState BY <1>9, RefreshStateKeeps
<1>10. CASE \E d \in Devices : SelectDevice(d) BY <1>10, SelectDeviceKeeps
<1>11. CASE Serve BY <1>11, ServeKeeps
<1>12. CASE Switched BY <1>12, SwitchedKeeps
<1>13. CASE SwitchFails BY <1>13, SwitchFailsKeeps
<1>14. CASE EnterAnnotate BY <1>14, EnterAnnotateKeeps
<1>15. CASE ToggleInspector BY <1>15, ToggleInspectorKeeps
<1>16. CASE LeaveAnnotate BY <1>16, LeaveAnnotateKeeps
<1>17. CASE Discard BY <1>17, DiscardKeeps
<1>18. CASE Point BY <1>18, PointKeeps
<1>19. CASE EditAnnotation BY <1>19, EditAnnotationKeeps
<1>20. CASE SaveComment BY <1>20, SaveCommentKeeps
<1>21. CASE Saved BY <1>21, SavedKeeps
<1>22. CASE SaveFails BY <1>22, SaveFailsKeeps
<1>23. CASE DeleteComment BY <1>23, DeleteCommentKeeps
<1>24. CASE SendToChat BY <1>24, SendToChatKeeps
<1>25. CASE UNCHANGED appVars
  BY <1>25 DEF AppInv, FormTypes, PictureTypes, CommentTypes, StateTypes, ServerTypes,
       NamedInv, FrozenPictureIsNamed, Paused, appVars, stateVars, pictureVars, freezeVars,
       commentVars, feedVars, serverVars
<1> QED BY <1>1, <1>2, <1>3, <1>4, <1>5, <1>6, <1>7, <1>8, <1>9, <1>10, <1>11, <1>12, <1>13,
     <1>14, <1>15, <1>16, <1>17, <1>18, <1>19, <1>20, <1>21, <1>22, <1>23, <1>24,
     <1>25 DEF AppNext

\* The variables of a viewer keep their types: the annotation a save makes has
\* an identifier, a freeze of an unpainted picture a name.
THEOREM AppTyped == AppAssumption /\ AppSpec => []AppTypeOK
<1> SUFFICES ASSUME AppAssumption PROVE AppSpec => []AppTypeOK
  OBVIOUS
<1>1. AppInit => AppInv
  BY AppInitially
<1>2. AppInv /\ [AppNext]_appVars => AppInv'
  BY AppStep
<1>3. AppInv => AppTypeOK
  BY AppTypes DEF AppInv
<1> QED BY <1>1, <1>2, <1>3, PTL DEF AppSpec

\* The picture is held exactly while Annotate or the Inspector is on, and what is
\* held is what annotations are named after, whatever was being decoded, painted
\* or fetched when it froze (freezePreview and commitFrameId, app/src/index.tsx).
THEOREM PictureCorrect == AppAssumption /\ AppSpec => []FrozenPictureIsNamed
<1> SUFFICES ASSUME AppAssumption PROVE AppSpec => []FrozenPictureIsNamed
  OBVIOUS
<1>1. AppInit => AppInv
  BY AppInitially
<1>2. AppInv /\ [AppNext]_appVars => AppInv'
  BY AppStep
<1>3. AppInv => FrozenPictureIsNamed
  BY DEF AppInv
<1> QED BY <1>1, <1>2, <1>3, PTL DEF AppSpec

=============================================================================
