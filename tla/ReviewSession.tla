----------------------------- MODULE ReviewSession -----------------------------
(* The native connection of one review (packages/mcp/src/session.ts): opening  *)
(* it, moving it to another device, losing it and closing the review, and the  *)
(* demand for the primary preview that browser viewers and packet polls place  *)
(* on it.  Opens and selections run one after the other on #connectionTail;    *)
(* previews are reconciled one after the other on #previewDemandTail; a loss   *)
(* of the connection, a poll, a viewer and close() come between their awaits.  *)
(*                                                                             *)
(* A client is a connection to the backend of its device, numbered as it is    *)
(* acquired.  Of the native core it keeps whether the connection is up and     *)
(* whether it has the preview encoded for it.  Screenshots, the MJPEG          *)
(* fallback, annotations and accessibility recovery are left out.              *)
EXTENDS Integers, Sequences, SequencesExt

CONSTANTS Devices,        \* devices that can be available
          Polls,          \* concurrent previewPackets calls
          MaxClients,     \* bound: connections acquired
          MaxOperations,  \* bound: calls of open and selectDevice
          MaxPolls,       \* bound: calls of previewPackets
          MaxJoins,       \* bound: H.264 viewers that join
          MaxDrops,       \* bound: connections lost
          MaxFailures,    \* bound: capture.preview requests that fail
          Nobody          \* no device, no owner

ASSUME ReviewAssumption ==
  /\ {MaxClients, MaxOperations, MaxPolls, MaxJoins, MaxDrops, MaxFailures} \subseteq Nat
  /\ Nobody \notin Devices \cup Polls /\ "select" \notin Polls \cup {Nobody}

VARIABLES
  links,                \* client -> its socket: "none", "up" or "down"
  asked,                \* client -> capture.preview requests not yet performed
  encodes,              \* client -> the core encodes the preview for it
  troubled,             \* client -> history: a capture.preview of it has failed
  client, bound,        \* this.client, and the client #unsubscribers listen to
  selected,             \* this.device
  connectionGeneration, \* #connectionGeneration
  closing,              \* how far close() has come
  tail,                 \* #connectionTail: the running operation and those behind it
  packetRequests, packetLease, viewers, \* who wants the preview
  demandClient, previewEnabled,         \* what was last asked for, and of whom
  reconciles,           \* #previewDemandTail
  poll,                 \* the previewPackets calls
  used                  \* counters of the bounds

native == <<links, asked, encodes, troubled>>
demand == <<packetRequests, packetLease, demandClient, previewEnabled>>
binding == <<client, bound, selected, connectionGeneration>>
reviewVars == <<native, binding, demand, closing, tail, viewers, reconciles, poll, used>>

Clients == 1..MaxClients
Counted == {"operations", "polls", "joins", "drops", "failures"}
Bound == [operations |-> MaxOperations, polls |-> MaxPolls, joins |-> MaxJoins,
          drops |-> MaxDrops, failures |-> MaxFailures]
Count(x) == used[x] < Bound[x] /\ used' = [used EXCEPT ![x] = @ + 1]

ReviewInit ==
  /\ links = [i \in Clients |-> "none"] /\ asked = [i \in Clients |-> <<>>]
  /\ encodes = [i \in Clients |-> FALSE] /\ troubled = [i \in Clients |-> FALSE]
  /\ client = 0 /\ bound = 0 /\ selected = Nobody /\ connectionGeneration = 0
  /\ closing = "open" /\ tail = <<>>
  /\ packetRequests = 0 /\ packetLease = FALSE /\ viewers = 0
  /\ demandClient = 0 /\ previewEnabled = FALSE /\ reconciles = <<>>
  /\ poll = [p \in Polls |-> [pc |-> "idle", generation |-> 0]]
  /\ used = [x \in Counted |-> 0]

Closed == closing # "open"

(* Whatever runs without waiting has run: the thread takes its next event. *)
Turn ==
  /\ reconciles # <<>> => Head(reconciles).sent /\ ~Head(reconciles).aborted
  /\ tail # <<>> => Head(tail).pc \notin {"queued", "reconciled", "unreconciled"}
  /\ \A p \in Polls : poll[p].pc # "finish"

-----------------------------------------------------------------------------
(* Connections.                                                              *)
Connected(i) == i # 0 /\ links[i] = "up"

(* Those of is are closed: what they were asked for and encoded ends. *)
Cut(is) ==
  /\ links' = [i \in Clients |-> IF i \in is /\ links[i] = "up" THEN "down" ELSE links[i]]
  /\ asked' = [i \in Clients |-> IF i \in is THEN <<>> ELSE asked[i]]
  /\ encodes' = [i \in Clients |-> encodes[i] /\ i \notin is]
  /\ UNCHANGED troubled

(* #resetPreviewDemand *)
ResetDemand ==
  /\ packetRequests' = 0 /\ packetLease' = FALSE
  /\ demandClient' = 0 /\ previewEnabled' = FALSE
  /\ reconciles' = [k \in DOMAIN reconciles |-> [reconciles[k] EXCEPT !.aborted = TRUE]]

NextGeneration == connectionGeneration' = connectionGeneration + 1

(* onDisconnect, as #bindFrames registers it. *)
OnDisconnect ==
  /\ NextGeneration /\ ResetDemand /\ bound' = 0 /\ client' = 0
  /\ UNCHANGED selected

(* The core or the socket of client i fails. *)
Lose(i) ==
  /\ Turn /\ Connected(i) /\ Count("drops") /\ Cut({i})
  /\ IF bound = i /\ client = i THEN OnDisconnect
     ELSE UNCHANGED <<binding, demand, reconciles>>
  /\ UNCHANGED <<closing, tail, viewers, poll>>

-----------------------------------------------------------------------------
(* #connectionOperation                                                      *)
Now == Head(tail)
Waits(pc) == tail' = [tail EXCEPT ![1].pc = pc]
Over == tail' = Tail(tail)

Enqueue(kind, d) ==
  /\ Turn /\ Count("operations")
  /\ tail' = Append(tail, [kind |-> kind, device |-> d, pc |-> "queued", next |-> 0])
  /\ UNCHANGED <<native, binding, demand, closing, viewers, reconciles, poll>>

At(kind, pc) == tail # <<>> /\ Now.kind = kind /\ Now.pc = pc

(* A review that is closed refuses the operation; one that is connected to   *)
(* the device already only refreshes its description.                        *)
Refused ==
  /\ tail # <<>> /\ Now.pc = "queued"
  /\ Closed \/ (Now.kind = "open" /\ Connected(client))
            \/ (Now.kind = "select" /\ selected = Now.device)
  /\ Over
  /\ UNCHANGED <<native, binding, demand, closing, viewers, reconciles, poll, used>>

(* A client that was lost before it was bound is still this.client. *)
OpenBegins ==
  /\ At("open", "queued") /\ ~Closed /\ ~Connected(client)
  /\ IF client # 0
     THEN bound' = 0 /\ ResetDemand /\ Waits("drop")
     ELSE Waits("discover") /\ UNCHANGED <<bound, demand, reconciles>>
  /\ UNCHANGED <<native, client, selected, connectionGeneration, closing,
                 viewers, poll, used>>

OpenDrops ==
  /\ Turn /\ At("open", "drop")
  /\ IF client = 0 THEN Over /\ UNCHANGED binding
     ELSE /\ client' = 0 /\ NextGeneration /\ Waits("discover")
          /\ UNCHANGED <<bound, selected>>
  /\ UNCHANGED <<native, demand, closing, viewers, reconciles, poll, used>>

OpenDiscovers ==
  /\ Turn /\ At("open", "discover")
  /\ \/ Closed /\ Over /\ UNCHANGED selected
     \/ ~Closed /\ selected' = Now.device /\ Waits("acquire")
     \/ ~Closed /\ selected' = Nobody /\ Over
  /\ UNCHANGED <<native, client, bound, connectionGeneration, demand, closing,
                 viewers, reconciles, poll, used>>

Free == {i \in Clients : links[i] = "none"}
Fresh == CHOOSE i \in Free : \A j \in Free : i <= j
Attached ==
  links' = [links EXCEPT ![Fresh] = "up"] /\ UNCHANGED <<asked, encodes, troubled>>

(* The catch of #open. *)
OpenCatches ==
  /\ Cut({client} \ {0}) /\ Over
  /\ bound' = 0 /\ client' = 0 /\ selected' = Nobody /\ NextGeneration
  /\ UNCHANGED <<demand, closing, viewers, reconciles, poll, used>>

(* Acquired after the review was closed, a client is closed at once. *)
OpenAcquires ==
  /\ Turn /\ At("open", "acquire") /\ Free # {}
  /\ IF Closed
     THEN /\ links' = [links EXCEPT ![Fresh] = "down"] /\ Over
          /\ bound' = 0 /\ client' = 0 /\ selected' = Nobody
          /\ UNCHANGED <<asked, encodes, troubled>>
     ELSE /\ Attached /\ client' = Fresh /\ bound' = Fresh
          /\ tail' = [tail EXCEPT ![1].pc = "start", ![1].next = Fresh]
          /\ UNCHANGED selected
  /\ NextGeneration
  /\ UNCHANGED <<demand, closing, viewers, reconciles, poll, used>>

OpenFails == Turn /\ (At("open", "acquire") \/ At("open", "start")) /\ OpenCatches

OpenStarts ==
  /\ Turn /\ At("open", "start") /\ Connected(Now.next)
  /\ IF Closed THEN OpenCatches
     ELSE /\ Waits("status")
          /\ UNCHANGED <<native, binding, demand, closing, viewers, reconciles,
                         poll, used>>

OpenEnds ==
  /\ Turn /\ At("open", "status")
  /\ IF Closed THEN OpenCatches
     ELSE Over /\ UNCHANGED <<native, binding, demand, closing, viewers,
                              reconciles, poll, used>>

-----------------------------------------------------------------------------
(* #selectDevice: the next client is started before the one in use is given  *)
(* up.                                                                       *)
SelectBegins ==
  /\ At("select", "queued") /\ ~Closed /\ selected # Now.device /\ Waits("discover")
  /\ UNCHANGED <<native, binding, demand, closing, viewers, reconciles, poll, used>>

SelectDiscovers ==
  /\ Turn /\ At("select", "discover")
  /\ \/ Over
     \/ ~Closed /\ selected # Now.device /\ Waits("acquire")
  /\ UNCHANGED <<native, binding, demand, closing, viewers, reconciles, poll, used>>

SelectAcquires ==
  /\ Turn /\ At("select", "acquire")
  /\ \/ /\ Free # {} /\ ~Closed /\ Attached
        /\ tail' = [tail EXCEPT ![1].pc = "start", ![1].next = Fresh]
     \/ /\ Free # {} /\ Closed /\ Over
        /\ links' = [links EXCEPT ![Fresh] = "down"]
        /\ UNCHANGED <<asked, encodes, troubled>>
     \/ Over /\ UNCHANGED native
  /\ UNCHANGED <<binding, demand, closing, viewers, reconciles, poll, used>>

(* Mutant: capture.start failed, and the next client is left as it is. *)
MutantLeavesNext ==
  /\ Turn /\ At("select", "start") /\ Over
  /\ UNCHANGED <<native, binding, demand, closing, viewers, reconciles, poll, used>>

SelectFails ==
  /\ Turn /\ At("select", "start") /\ Cut({Now.next}) /\ Over
  /\ UNCHANGED <<binding, demand, closing, viewers, reconciles, poll, used>>

SelectStarts ==
  /\ Turn /\ At("select", "start") /\ Connected(Now.next)
  /\ NextGeneration /\ ResetDemand /\ Waits("release")
  /\ UNCHANGED <<native, client, bound, selected, closing, viewers, poll, used>>

(* Mutant: the client given up keeps its handlers. *)
MutantKeepsHandlers ==
  /\ Turn /\ At("select", "release") /\ Waits("closeOld")
  /\ UNCHANGED <<native, binding, demand, closing, viewers, reconciles, poll, used>>

SelectReleases ==
  /\ Turn /\ At("select", "release") /\ bound' = 0 /\ Waits("closeOld")
  /\ UNCHANGED <<native, client, selected, connectionGeneration, demand, closing,
                 viewers, reconciles, poll, used>>

(* Between the close of the old client and #bindFrames nobody listens to the *)
(* next one: if it is lost there, the selection fails with it in place.      *)
SelectCloses ==
  /\ Turn /\ At("select", "closeOld")
  /\ IF Closed
     THEN Cut({client, Now.next} \ {0}) /\ Over /\ UNCHANGED <<client, selected>>
     ELSE /\ Cut({client} \ {0}) /\ client' = Now.next /\ selected' = Now.device
          /\ IF Connected(Now.next) THEN Waits("status") ELSE Over
  /\ UNCHANGED <<bound, connectionGeneration, demand, closing, viewers,
                 reconciles, poll, used>>

Reconciling(owner, generation) ==
  [owner |-> owner, client |-> client, generation |-> generation,
   sent |-> FALSE, value |-> FALSE, aborted |-> FALSE]

SelectBinds ==
  /\ Turn /\ At("select", "status")
  /\ IF Closed \/ ~Connected(Now.next)
     THEN Cut({Now.next}) /\ Over /\ UNCHANGED <<bound, reconciles>>
     ELSE /\ bound' = Now.next /\ Waits("reconcile")
          /\ reconciles' = Append(reconciles, Reconciling("select", connectionGeneration))
          /\ UNCHANGED native
  /\ UNCHANGED <<client, selected, connectionGeneration, demand, closing,
                 viewers, poll, used>>

SelectEnds ==
  /\ At("select", "reconciled") /\ Over
  /\ UNCHANGED <<native, binding, demand, closing, viewers, reconciles, poll, used>>

(* The catch of #selectDevice, with the next client bound. *)
SelectCatches ==
  /\ At("select", "unreconciled") /\ Cut({Now.next}) /\ Over
  /\ IF Connected(Now.next) /\ bound = Now.next /\ client = Now.next THEN OnDisconnect
     ELSE UNCHANGED <<binding, demand, reconciles>>
  /\ UNCHANGED <<closing, viewers, poll, used>>

-----------------------------------------------------------------------------
(* close(): it waits for a screenshot, for device discovery and the MJPEG    *)
(* fallback, and at last for the operations on #connectionTail.              *)
CloseBegins ==
  /\ Turn /\ closing = "open" /\ closing' = "screenshot"
  /\ NextGeneration /\ ResetDemand
  /\ UNCHANGED <<native, client, bound, selected, tail, viewers, poll, used>>

CloseReleases ==
  /\ Turn /\ closing = "screenshot" /\ closing' = "client"
  /\ bound' = 0 /\ viewers' = 0
  /\ UNCHANGED <<native, client, selected, connectionGeneration, demand, tail,
                 reconciles, poll, used>>

CloseClient ==
  /\ Turn /\ closing = "client" /\ closing' = "tail"
  /\ Cut({client} \ {0}) /\ client' = 0
  /\ UNCHANGED <<bound, selected, connectionGeneration, demand, tail, viewers,
                 reconciles, poll, used>>

CloseEnds ==
  /\ Turn /\ closing = "tail" /\ tail = <<>>
  /\ closing' = "closed" /\ selected' = Nobody
  /\ UNCHANGED <<native, client, bound, connectionGeneration, demand, tail,
                 viewers, reconciles, poll, used>>

-----------------------------------------------------------------------------
(* #reconcilePreviewDemand                                                   *)
Wanted == packetRequests > 0 \/ packetLease \/ viewers > 0

(* The reconciliation at the head is over; who awaits it goes on. *)
Settled(ok) ==
  LET owner == Head(reconciles).owner
  IN /\ reconciles' = Tail(reconciles)
     /\ poll' = IF owner \in Polls
                THEN [poll EXCEPT ![owner].pc = IF ok THEN "read" ELSE "finish"]
                ELSE poll
     /\ IF owner = "select"
        THEN Waits(IF ok THEN "reconciled" ELSE "unreconciled")
        ELSE UNCHANGED tail

IsCurrent(r) == ~Closed /\ r.client = client /\ r.generation = connectionGeneration

ReconcileSkips ==
  LET r == Head(reconciles)
  IN /\ reconciles # <<>> /\ ~r.sent
     /\ \/ ~Connected(r.client) \/ ~IsCurrent(r)
        \/ demandClient = r.client /\ previewEnabled = Wanted
     /\ Settled(TRUE)
     /\ UNCHANGED <<native, binding, demand, closing, viewers, used>>

ReconcileAsks ==
  LET r == Head(reconciles)
  IN /\ reconciles # <<>> /\ ~r.sent
     /\ Connected(r.client) /\ IsCurrent(r)
     /\ demandClient # r.client \/ previewEnabled # Wanted
     /\ IF r.aborted
        THEN Settled(FALSE) /\ UNCHANGED asked
        ELSE /\ reconciles' = [reconciles EXCEPT ![1].sent = TRUE, ![1].value = Wanted]
             /\ asked' = [asked EXCEPT ![r.client] = Append(@, Wanted)]
             /\ UNCHANGED <<poll, tail>>
     /\ UNCHANGED <<links, encodes, troubled, binding, demand, closing, viewers, used>>

(* The core performs capture.preview. *)
Performs(i) ==
  /\ Turn /\ asked[i] # <<>>
  /\ encodes' = [encodes EXCEPT ![i] = Head(asked[i])]
  /\ asked' = [asked EXCEPT ![i] = Tail(@)]
  /\ UNCHANGED <<links, troubled, binding, demand, closing, tail, viewers,
                 reconciles, poll, used>>

ReconcileAnswered ==
  LET r == Head(reconciles)
  IN /\ Turn /\ reconciles # <<>> /\ Connected(r.client) /\ asked[r.client] = <<>>
     /\ IF IsCurrent(r)
        THEN demandClient' = r.client /\ previewEnabled' = r.value
        ELSE UNCHANGED <<demandClient, previewEnabled>>
     /\ Settled(TRUE)
     /\ UNCHANGED <<native, binding, packetRequests, packetLease, closing, viewers, used>>

(* The request is aborted, its connection is gone, its two seconds are over  *)
(* (the core may still perform it) or the core refuses it.                   *)
ReconcileFails ==
  LET r == Head(reconciles)
  IN /\ reconciles # <<>> /\ r.sent
     /\ \/ (r.aborted \/ ~Connected(r.client)) /\ UNCHANGED <<native, used>>
        \/ /\ Turn /\ Connected(r.client) /\ Count("failures")
           /\ troubled' = [troubled EXCEPT ![r.client] = TRUE]
           /\ \/ UNCHANGED asked
              \/ asked[r.client] # <<>>
                   /\ asked' = [asked EXCEPT ![r.client] = Front(@)]
           /\ UNCHANGED <<links, encodes>>
     /\ Settled(FALSE)
     /\ UNCHANGED <<binding, demand, closing, viewers>>

-----------------------------------------------------------------------------
(* Packet polls and browser viewers.                                         *)
Asks(owner) ==
  reconciles' = Append(reconciles, Reconciling(owner, connectionGeneration))

PollBegins(p) ==
  /\ Turn /\ poll[p].pc = "idle" /\ Count("polls")
  /\ poll' = [poll EXCEPT ![p] =
                [pc |-> "reconcile", generation |-> connectionGeneration]]
  /\ packetRequests' = packetRequests + 1
  /\ packetLease' = (packetLease \/ ~Closed)
  /\ Asks(p)
  /\ UNCHANGED <<native, binding, demandClient, previewEnabled, closing, tail, viewers>>

(* The packets are there, the wait is over, or something on the way failed. *)
PollEnds(p) ==
  /\ \/ Turn /\ poll[p].pc = "read"
     \/ poll[p].pc = "finish"
  /\ poll' = [poll EXCEPT ![p] = [pc |-> "idle", generation |-> 0]]
  /\ IF poll[p].generation = connectionGeneration
     THEN /\ packetRequests' = packetRequests - 1
          /\ packetLease' = (packetLease \/ ~Closed)
          /\ Asks(Nobody)
     ELSE UNCHANGED <<packetRequests, packetLease, reconciles>>
  /\ UNCHANGED <<native, binding, demandClient, previewEnabled, closing, tail,
                 viewers, used>>

(* Mutant: the lease ends and nothing is made of it. *)
MutantLeaseEndsSilently ==
  /\ Turn /\ packetLease /\ packetLease' = FALSE
  /\ UNCHANGED <<native, binding, packetRequests, demandClient, previewEnabled,
                 closing, tail, viewers, reconciles, poll, used>>

LeaseExpires ==
  /\ Turn /\ packetLease /\ packetLease' = FALSE /\ Asks(Nobody)
  /\ UNCHANGED <<native, binding, packetRequests, demandClient, previewEnabled,
                 closing, tail, viewers, poll, used>>

ViewerJoins ==
  /\ Turn /\ ~Closed /\ Count("joins") /\ viewers' = viewers + 1 /\ Asks(Nobody)
  /\ UNCHANGED <<native, binding, demand, closing, tail, poll>>

ViewerLeaves ==
  /\ Turn /\ viewers > 0 /\ viewers' = viewers - 1 /\ Asks(Nobody)
  /\ UNCHANGED <<native, binding, demand, closing, tail, poll, used>>

-----------------------------------------------------------------------------
OperationStep ==
  \/ Refused \/ OpenBegins \/ OpenDrops \/ OpenDiscovers \/ OpenAcquires
  \/ OpenFails \/ OpenStarts \/ OpenEnds
  \/ SelectBegins \/ SelectDiscovers \/ SelectAcquires \/ SelectFails
  \/ SelectStarts \/ SelectReleases \/ SelectCloses \/ SelectBinds
  \/ SelectEnds \/ SelectCatches

CloseStep == CloseReleases \/ CloseClient \/ CloseEnds

ReconcileStep ==
  \/ ReconcileSkips \/ ReconcileAsks \/ ReconcileAnswered \/ ReconcileFails
  \/ \E i \in Clients : Performs(i)

ReviewNext ==
  \/ \E kind \in {"open", "select"}, d \in Devices : Enqueue(kind, d)
  \/ OperationStep \/ CloseBegins \/ CloseStep \/ ReconcileStep
  \/ \E i \in Clients : Lose(i)
  \/ \E p \in Polls : PollBegins(p) \/ PollEnds(p)
  \/ LeaseExpires \/ ViewerJoins \/ ViewerLeaves

ReviewSpec == ReviewInit /\ [][ReviewNext]_reviewVars

-----------------------------------------------------------------------------
Pcs == {"queued", "drop", "discover", "acquire", "start", "status", "release",
        "closeOld", "reconcile", "reconciled", "unreconciled"}

(* Every variable has its type; the session's handlers listen to no client   *)
(* but the one it uses.                                                      *)
ReviewTypeOK ==
  /\ links \in [Clients -> {"none", "up", "down"}]
  /\ asked \in [Clients -> Seq(BOOLEAN)]
  /\ encodes \in [Clients -> BOOLEAN] /\ troubled \in [Clients -> BOOLEAN]
  /\ client \in Clients \cup {0} /\ bound \in {0, client}
  /\ selected \in Devices \cup {Nobody} /\ connectionGeneration \in Nat
  /\ closing \in {"open", "screenshot", "client", "tail", "closed"}
  /\ tail \in Seq([kind : {"open", "select"}, device : Devices, pc : Pcs,
                   next : Clients \cup {0}])
  /\ packetRequests \in Int /\ packetLease \in BOOLEAN /\ viewers \in Nat
  /\ demandClient \in Clients \cup {0} /\ previewEnabled \in BOOLEAN
  /\ reconciles \in Seq([owner : Polls \cup {"select", Nobody},
                         client : Clients \cup {0}, generation : Nat,
                         sent : BOOLEAN, value : BOOLEAN, aborted : BOOLEAN])
  /\ poll \in [Polls -> [pc : {"idle", "reconcile", "read", "finish"}, generation : Nat]]
  /\ used \in [Counted -> Nat]

(* session.ts:407-417, 518-551, 595-643, 2464-2485.  No connection to a      *)
(* backend is forgotten: each that is up is the client of the session or the *)
(* one the running operation is about to make it, and a session whose        *)
(* close() has returned has neither, and no preview lease and no viewer,     *)
(* although opens and selections may have been running when it was closed.   *)
NoClientForgotten ==
  /\ \A i \in Clients : Connected(i) =>
       i = client \/ (tail # <<>> /\ Now.next = i)
  /\ closing = "closed" =>
       (\A i \in Clients : ~Connected(i)) /\ ~packetLease /\ viewers = 0

(* session.ts:852-880.  Once nothing is left to reconcile, the core encodes  *)
(* the preview for a connection whose demand has been made known exactly if  *)
(* a packet request, the lease or a viewer wants it, in whatever order they  *)
(* came and went while earlier requests were on their way.  Except where a   *)
(* capture.preview request failed: what the core made of it is not known.    *)
PreviewFollowsDemand ==
  reconciles = <<>> /\ ~Closed /\ Connected(client) /\ demandClient = client
    /\ ~troubled[client]
      => encodes[client] = Wanted

(* docs/architecture.md:320-321, "H.264 browser viewers and embedded packet  *)
(* requests own primary preview demand": no demand of a packet request is    *)
(* left when none is running.                                                *)
DemandIsOwned == packetRequests > 0 => \E p \in Polls : poll[p].pc # "idle"
=============================================================================
