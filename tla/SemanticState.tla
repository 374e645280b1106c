---------------------------- MODULE SemanticState ----------------------------
(* The semantic state of one review session (packages/mcp/src/session.ts):   *)
(* the accessibility snapshot and element tree that tool calls read refs     *)
(* from, the caches in front of them and the foreground identity that guards *)
(* them.  Several calls run at once on one JavaScript thread.  A call runs   *)
(* until its next await; what it awaits is answered by the native core or by *)
(* Metro while other calls go on.                                            *)
(*                                                                           *)
(* A snapshot is abstracted to the application it shows and the semantic     *)
(* generation it was asked in: two snapshots of one application have the     *)
(* same content, so the semantic hash of a snapshot is its application.      *)
(* Cache entries expire after five seconds: here a look-up may miss.         *)
EXTENDS Naturals

CONSTANTS Calls,        \* concurrent tool calls and relay requests
          Apps,         \* applications that can be in front on the device
          None,         \* no application, no snapshot, no output
          MaxSwitches,  \* bound: changes of the foreground application
          MaxTrouble,   \* bound: inputs, failed identity reads, disconnects
          MaxBegun      \* bound: calls begun

ASSUME SemanticAssumption ==
  None \notin Apps \cup Calls /\ MaxSwitches \in Nat /\ MaxTrouble \in Nat /\ MaxBegun \in Nat

VARIABLES
  front,             \* the device: the application in front
  switches, trouble, \* counters of the first two bounds
  begun,             \* calls begun
  connection,        \* this.client: the number of the client, 0 when undefined
  connections,       \* clients so far
  generation,        \* #semanticGeneration
  known,             \* #foregroundAppId
  read,              \* #foregroundRead: the identity read in flight
  lastAccessibility, \* lastAccessibility
  lastElements,      \* lastElements with lastScreenContext
  fiberCache,        \* #fiberCache: outputs by application and hash
  semanticCache,     \* #semanticCache: outputs by hash
  refresh,           \* #semanticRefresh: the call that refreshes each hash
  call               \* the calls and their local variables

device == <<front, switches>>
link == <<connection, connections>>
identity == <<known, read>>
semantic == <<generation, lastAccessibility, lastElements, fiberCache,
              semanticCache, refresh>>
semanticVars == <<device, trouble, begun, link, identity, semantic, call>>

AppId == Apps \cup {None}
Snapshot == [app : Apps, gen : Nat]
(* An element tree: the snapshot it is built on, the identity it was built   *)
(* for and whether Metro's projection is in it.                              *)
Output == [snapshot : Snapshot, app : AppId, fiber : BOOLEAN]

Identifying == {"prepare", "identify", "verify", "confirm",
                "nativeIdentify", "nativeVerify"}
Asking == {"reading", "snapshot", "nativeSnapshot"}
Kinds == {"snapshot", "elements", "prepared", "native"}
Idle == [pc |-> "idle", kind |-> "snapshot", awake |-> FALSE, got |-> None,
         start |-> 0, before |-> 0, gen |-> 0, key |-> None, app |-> None,
         acc |-> None, taken |-> None, fiber |-> FALSE, out |-> None]
NoRead == [phase |-> "none", app |-> None, connection |-> 0]

SemanticInit ==
  /\ front \in Apps /\ switches = 0 /\ trouble = 0 /\ begun = 0
  /\ connection = 1 /\ connections = 1
  /\ generation = 0 /\ known = None /\ read = NoRead
  /\ lastAccessibility = None /\ lastElements = None
  /\ fiberCache = [k \in AppId \X Apps |-> None]
  /\ semanticCache = [k \in AppId |-> None]
  /\ refresh = [k \in AppId |-> None]
  /\ call = [c \in Calls |-> Idle]

-----------------------------------------------------------------------------
(* #clearSemanticState *)
Clear ==
  /\ generation' = generation + 1
  /\ lastAccessibility' = None /\ lastElements' = None
  /\ fiberCache' = [k \in AppId \X Apps |-> None]
  /\ semanticCache' = [k \in AppId |-> None]
  /\ refresh' = [k \in AppId |-> None]

(* No call has been resumed and not yet run: the thread takes its next event. *)
Quiet == read.phase # "void" /\ \A c \in Calls : ~call[c].awake

(* The locals r of a call that now waits at pc. *)
Awaits(r, pc) == [r EXCEPT !.pc = pc, !.awake = FALSE, !.got = None]

(* #refreshForegroundIdentity, called by c whose locals become r: it joins   *)
(* the read in flight or starts one; without a client the read is over at    *)
(* once.                                                                     *)
AskIdentity(c, r) ==
  /\ call' = [call EXCEPT ![c] = Awaits(r, r.pc)]
  /\ read' = IF read.phase # "none" THEN read
             ELSE [phase |-> IF connection = 0 THEN "void" ELSE "asked",
                   app |-> None, connection |-> connection]
  /\ UNCHANGED known

(* The device answers the identity read, or the read fails. *)
Sample ==
  /\ Quiet /\ read.phase = "asked"
  /\ \/ read' = [read EXCEPT !.phase = "sampled", !.app = front]
        /\ UNCHANGED trouble
     \/ /\ trouble < MaxTrouble /\ trouble' = trouble + 1
        /\ read' = [read EXCEPT !.phase = "sampled"]
  /\ UNCHANGED <<device, begun, link, known, semantic, call>>

(* Mutant: a change of identity is noted, and nothing is dropped. *)
MutantKeepsState ==
  LET mine == read.connection = connection
  IN /\ \/ Quiet /\ read.phase = "sampled"
        \/ read.phase = "void"
     /\ read' = NoRead
     /\ known' = IF mine THEN read.app ELSE known
     /\ call' = [c \in Calls |->
                   IF call[c].pc \in Identifying /\ ~call[c].awake
                   THEN [call[c] EXCEPT !.awake = TRUE,
                                        !.got = IF mine THEN read.app ELSE None]
                   ELSE call[c]]
     /\ UNCHANGED <<device, trouble, begun, link, semantic>>

(* The read is over: unless the client has changed it sets the identity and  *)
(* drops what belongs to another one; every call that awaits it is resumed.  *)
Conclude ==
  LET mine == read.connection = connection
      appId == IF mine THEN read.app ELSE None
  IN /\ \/ Quiet /\ read.phase = "sampled"
        \/ read.phase = "void"
     /\ read' = NoRead
     /\ IF mine /\ read.app # known
        THEN known' = read.app /\ Clear
        ELSE UNCHANGED <<known, semantic>>
     /\ call' = [c \in Calls |->
                   IF call[c].pc \in Identifying /\ ~call[c].awake
                   THEN [call[c] EXCEPT !.awake = TRUE, !.got = appId]
                   ELSE call[c]]
     /\ UNCHANGED <<device, trouble, begun, link>>

-----------------------------------------------------------------------------
(* The device and the connection.                                            *)
SwitchApp ==
  /\ Quiet /\ switches < MaxSwitches /\ switches' = switches + 1
  /\ front' \in Apps \ {front}
  /\ UNCHANGED <<trouble, begun, link, identity, semantic, call>>

(* dispatchInput: everything semantic is dropped before the input is sent. *)
Input ==
  /\ Quiet /\ connection # 0 /\ trouble < MaxTrouble
  /\ trouble' = trouble + 1 /\ Clear
  /\ UNCHANGED <<device, begun, link, identity, call>>

(* onDisconnect of the client, which forgets the identity too: what was      *)
(* asked of the client is rejected.  A call that reads the screen context    *)
(* takes the rejection for an absent probe and goes on.                      *)
Disconnect ==
  /\ Quiet /\ connection # 0 /\ trouble < MaxTrouble
  /\ trouble' = trouble + 1 /\ Clear
  /\ connection' = 0 /\ known' = None
  /\ read' = IF read.phase = "none" THEN read
             ELSE [read EXCEPT !.phase = "void", !.app = None]
  /\ call' = [c \in Calls |->
                IF call[c].pc \in Asking THEN Idle
                ELSE IF call[c].pc = "join" /\ call[call[c].taken].pc \in Asking
                     THEN Idle
                ELSE IF call[c].pc = "context" THEN [call[c] EXCEPT !.awake = TRUE]
                ELSE call[c]]
  /\ UNCHANGED <<device, begun, connections>>

(* #open: a new client takes the place of the lost one. *)
Reconnect ==
  /\ Quiet /\ connection = 0
  /\ connections' = connections + 1 /\ connection' = connections'
  /\ UNCHANGED <<device, trouble, begun, identity, semantic, call>>

-----------------------------------------------------------------------------
(* How a call ends.  The call that refreshes a hash answers the calls that   *)
(* joined it, fills the semantic cache if the generation it began in is      *)
(* still the current one, and takes its refresh off the table.               *)
Joined(c) == {d \in Calls : call[d].pc = "join" /\ call[d].taken = c}

Refreshes(c) == call[c].kind = "prepared" /\ call[c].pc # "prepare"

(* Mutant: the output is cached whatever has happened since. *)
MutantCachesAnyway(c, output) ==
  semanticCache' = IF Refreshes(c)
                   THEN [semanticCache EXCEPT ![call[c].key] = output]
                   ELSE semanticCache

CacheSemantic(c, output) ==
  semanticCache' =
    IF Refreshes(c) /\ call[c].before = generation
    THEN [semanticCache EXCEPT ![call[c].key] = output] ELSE semanticCache

RefreshOver(c) ==
  refresh' = [k \in AppId |-> IF refresh[k] = c THEN None ELSE refresh[k]]

Answer(c, output) ==
  /\ call' = [d \in Calls |->
                IF d \in {c} \cup Joined(c)
                THEN [Idle EXCEPT !.pc = "done", !.kind = call[d].kind,
                                  !.start = call[d].start, !.out = output]
                ELSE call[d]]
  /\ CacheSemantic(c, output) /\ RefreshOver(c)

Fail(c) ==
  /\ call' = [d \in Calls |-> IF d \in {c} \cup Joined(c) THEN Idle ELSE call[d]]
  /\ RefreshOver(c) /\ UNCHANGED semanticCache

Built(c, fiber) ==
  [snapshot |-> call[c].acc, app |-> call[c].app, fiber |-> fiber]

-----------------------------------------------------------------------------
(* The calls.                                                                *)
Begin(c, kind) ==
  LET r == [Idle EXCEPT !.kind = kind, !.start = generation]
  IN /\ Quiet /\ call[c].pc \in {"idle", "done"}
     /\ begun < MaxBegun /\ begun' = begun + 1
     /\ \/ /\ kind = "snapshot" /\ connection # 0
           /\ call' = [call EXCEPT ![c] = [r EXCEPT !.pc = "reading", !.gen = generation]]
           /\ UNCHANGED identity
        \/ /\ kind = "elements"
           /\ AskIdentity(c, [r EXCEPT !.pc = "identify", !.before = generation])
        \/ kind = "prepared" /\ AskIdentity(c, [r EXCEPT !.pc = "prepare"])
        \/ kind = "native" /\ AskIdentity(c, [r EXCEPT !.pc = "nativeIdentify"])
     /\ UNCHANGED <<device, trouble, link, semantic>>

(* preparedElementSnapshot after its identity read: a cached output, the     *)
(* refresh in flight, or a refresh of its own from lastAccessibility.        *)
Prepare(c) ==
  LET key == IF lastAccessibility = None THEN None ELSE lastAccessibility.app
      r == [call[c] EXCEPT !.key = key, !.before = generation]
  IN /\ call[c].pc = "prepare" /\ call[c].awake
     /\ \/ /\ semanticCache[key] # None
           /\ lastElements' = semanticCache[key]
           /\ call' = [call EXCEPT ![c] = [Idle EXCEPT
                         !.pc = "done", !.kind = "prepared",
                         !.start = call[c].start, !.out = semanticCache[key]]]
           /\ UNCHANGED <<identity, refresh>>
        \/ /\ refresh[key] # None
           /\ call' = [call EXCEPT ![c] = [Awaits(r, "join") EXCEPT !.taken = refresh[key]]]
           /\ UNCHANGED <<identity, refresh, lastElements>>
        \/ /\ refresh[key] = None
           /\ refresh' = [refresh EXCEPT ![key] = c]
           /\ AskIdentity(c, [r EXCEPT !.pc = "identify", !.acc = lastAccessibility])
           /\ UNCHANGED lastElements
     /\ UNCHANGED <<device, trouble, begun, link, generation, lastAccessibility,
                    fiberCache, semanticCache>>

(* elementSnapshot after its first identity read: the snapshot it was given, *)
(* if no generation has passed, or a new one from the device.                *)
Identified(c) ==
  LET r == [call[c] EXCEPT !.app = call[c].got, !.gen = generation]
  IN /\ call[c].pc = "identify" /\ call[c].awake
     /\ \/ /\ call[c].before = generation /\ call[c].acc # None
           /\ AskIdentity(c, [r EXCEPT !.pc = "verify"])
           /\ UNCHANGED <<semanticCache, refresh>>
        \/ /\ call[c].before # generation \/ call[c].acc = None
           /\ connection # 0
           /\ call' = [call EXCEPT ![c] = Awaits(r, "snapshot")]
           /\ UNCHANGED <<identity, semanticCache, refresh>>
        \/ /\ call[c].before # generation \/ call[c].acc = None
           /\ connection = 0
           /\ Fail(c) /\ UNCHANGED identity
     /\ UNCHANGED <<device, trouble, begun, link, generation, lastAccessibility,
                    lastElements, fiberCache>>

NativeIdentified(c) ==
  /\ call[c].pc = "nativeIdentify" /\ call[c].awake
  /\ IF connection # 0
     THEN /\ call' = [call EXCEPT ![c] = [Awaits(@, "nativeSnapshot") EXCEPT !.gen = generation]]
          /\ UNCHANGED <<semanticCache, refresh>>
     ELSE Fail(c)
  /\ UNCHANGED <<device, trouble, begun, link, identity, generation,
                 lastAccessibility, lastElements, fiberCache>>

(* The device takes the snapshot, between the request and its answer. *)
TakeSnapshot(c) ==
  /\ Quiet /\ call[c].pc \in Asking /\ call[c].taken = None
  /\ call' = [call EXCEPT ![c].taken = front]
  /\ UNCHANGED <<device, trouble, begun, link, identity, semantic>>

(* accessibilitySnapshot and accessibilityObserve: the snapshot is kept if   *)
(* the generation it was asked in is the current one.  The call it belongs   *)
(* to goes on to check the identity again.                                   *)
Snapshotted(c) ==
  LET snapshot == [app |-> call[c].taken, gen |-> call[c].gen]
      r == [call[c] EXCEPT !.acc = snapshot, !.taken = None]
  IN /\ Quiet /\ call[c].pc \in Asking /\ call[c].taken # None
     /\ lastAccessibility' =
          IF call[c].gen = generation THEN snapshot ELSE lastAccessibility
     /\ \/ /\ call[c].pc = "reading"
           /\ call' = [call EXCEPT ![c] = [Idle EXCEPT
                !.pc = "done", !.start = call[c].start,
                !.out = [snapshot |-> snapshot, app |-> None, fiber |-> FALSE]]]
           /\ UNCHANGED identity
        \/ call[c].pc = "snapshot" /\ AskIdentity(c, [r EXCEPT !.pc = "verify"])
        \/ call[c].pc = "nativeSnapshot" /\ AskIdentity(c, Awaits(r, "nativeVerify"))
     /\ UNCHANGED <<device, trouble, begun, link, generation, lastElements,
                    fiberCache, semanticCache, refresh>>

(* elementSnapshot after the second identity read. *)
Verified(c) ==
  LET key == <<call[c].app, call[c].acc.app>>
  IN /\ call[c].pc = "verify" /\ call[c].awake
     /\ \/ /\ call[c].gen # generation
           /\ Fail(c) /\ UNCHANGED <<identity, lastElements>>
        \/ /\ call[c].gen = generation /\ fiberCache[key] # None
           /\ lastElements' = fiberCache[key]
           /\ Answer(c, fiberCache[key]) /\ UNCHANGED identity
        \/ /\ call[c].gen = generation /\ call[c].app # None
           /\ call' = [call EXCEPT ![c] = Awaits(@, "inspect")]
           /\ UNCHANGED <<identity, lastElements, semanticCache, refresh>>
        \/ /\ call[c].gen = generation /\ call[c].app = None
           /\ AskIdentity(c, [call[c] EXCEPT !.pc = "confirm", !.fiber = FALSE])
           /\ UNCHANGED <<lastElements, semanticCache, refresh>>
     /\ UNCHANGED <<device, trouble, begun, link, generation,
                    lastAccessibility, fiberCache>>

(* Metro has a projection for the application, or has not. *)
Inspected(c) ==
  /\ Quiet /\ call[c].pc = "inspect"
  /\ \E fiber \in BOOLEAN :
       AskIdentity(c, [call[c] EXCEPT !.pc = "confirm", !.fiber = fiber])
  /\ UNCHANGED <<device, trouble, begun, link, semantic>>

(* elementSnapshot after the third identity read. *)
Confirmed(c) ==
  LET output == Built(c, TRUE)
  IN /\ call[c].pc = "confirm" /\ call[c].awake
     /\ \/ /\ call[c].gen # generation
           /\ AskIdentity(c, [call[c] EXCEPT !.pc = "nativeIdentify", !.fiber = FALSE])
           /\ UNCHANGED <<lastElements, fiberCache, semanticCache, refresh>>
        \/ /\ call[c].gen = generation /\ call[c].fiber
           /\ lastElements' = output
           /\ fiberCache' = [fiberCache EXCEPT ![<<call[c].app, call[c].acc.app>>] = output]
           /\ Answer(c, output) /\ UNCHANGED identity
        \/ /\ call[c].gen = generation /\ ~call[c].fiber
           /\ call' = [call EXCEPT ![c] = Awaits(@, "context")]
           /\ UNCHANGED <<identity, lastElements, fiberCache, semanticCache, refresh>>
     /\ UNCHANGED <<device, trouble, begun, link, generation, lastAccessibility>>

(* accessibilityElementSnapshot after its second identity read. *)
NativeVerified(c) ==
  /\ call[c].pc = "nativeVerify" /\ call[c].awake
  /\ IF call[c].gen = generation
     THEN /\ call' = [call EXCEPT ![c] = Awaits(@, "context")]
          /\ UNCHANGED <<semanticCache, refresh>>
     ELSE Fail(c)
  /\ UNCHANGED <<device, trouble, begun, link, identity, generation,
                 lastAccessibility, lastElements, fiberCache>>

(* #accessibilityElementOutput: once the screen context is read, or has      *)
(* failed to be, the tree becomes lastElements.                              *)
ContextRead(c) ==
  LET output == Built(c, FALSE)
  IN /\ call[c].pc = "context" /\ (Quiet \/ call[c].awake)
     /\ lastElements' = output /\ Answer(c, output)
     /\ UNCHANGED <<device, trouble, begun, link, identity, generation,
                    lastAccessibility, fiberCache>>

-----------------------------------------------------------------------------
CallStep(c) ==
  \/ \E kind \in Kinds : Begin(c, kind)
  \/ Prepare(c) \/ Identified(c) \/ NativeIdentified(c)
  \/ TakeSnapshot(c) \/ Snapshotted(c)
  \/ Verified(c) \/ Inspected(c) \/ Confirmed(c) \/ NativeVerified(c)
  \/ ContextRead(c)

SemanticNext ==
  \/ Sample \/ Conclude \/ SwitchApp \/ Input \/ Disconnect \/ Reconnect
  \/ \E c \in Calls : CallStep(c)

SemanticSpec == SemanticInit /\ [][SemanticNext]_semanticVars

-----------------------------------------------------------------------------
CallType ==
  [pc : {"idle", "done", "join", "inspect", "context"} \cup Identifying \cup Asking,
   kind : Kinds, awake : BOOLEAN, got : AppId, start : Nat, before : Nat,
   gen : Nat, key : AppId, app : AppId, acc : Snapshot \cup {None},
   taken : AppId \cup Calls, fiber : BOOLEAN,
   out : Output \cup {None}]

(* Every variable has its type; a call that waits in an identity check has a *)
(* read to wait for, and a call that joined a refresh has one that runs.     *)
SemanticTypeOK ==
  /\ front \in Apps /\ switches \in 0..MaxSwitches /\ trouble \in 0..MaxTrouble
  /\ begun \in 0..MaxBegun
  /\ connections \in Nat /\ connection \in {0, connections}
  /\ generation \in Nat /\ known \in AppId
  /\ read \in [phase : {"none", "void", "asked", "sampled"}, app : AppId,
               connection : Nat]
  /\ lastAccessibility \in Snapshot \cup {None}
  /\ lastElements \in Output \cup {None}
  /\ fiberCache \in [AppId \X Apps -> Output \cup {None}]
  /\ semanticCache \in [AppId -> Output \cup {None}]
  /\ refresh \in [AppId -> Calls \cup {None}]
  /\ call \in [Calls -> CallType]
  /\ \A c \in Calls : call[c].pc \in Identifying /\ ~call[c].awake
                        => read.phase # "none"
  /\ \A c \in Calls : call[c].pc = "join"
       => LET owner == call[c].taken
          IN owner \in Calls /\ call[owner].kind = "prepared"
             /\ call[owner].pc \notin {"idle", "done", "join", "prepare"}

(* session.ts:1188-1218, 1138-1186.  A call never answers with elements of a *)
(* semantic generation older than the one it was made in, whichever of the   *)
(* two caches, the snapshot kept by another call or another call's refresh   *)
(* it took them from: after an input or a change of application nobody is    *)
(* told of the screen before it.                                             *)
AnswerNotOlder ==
  \A c \in Calls : call[c].pc = "done" => call[c].out.snapshot.gen >= call[c].start

(* session.ts:1138-1180.  A Fiber projection, made for the application of    *)
(* the first identity read, is merged with a snapshot of that application.   *)
(* The reads after the snapshot and after the inspection may join one begun  *)
(* by another call, which the device answered before the change: the second  *)
(* of them then still sees it.  Stated for at most one change, since a       *)
(* switch there and back between two reads is not visible to them.           *)
ProjectionIsOneApp ==
  switches <= 1 =>
    \A c \in Calls : call[c].pc = "done" /\ call[c].out.fiber
      => call[c].out.snapshot.app = call[c].out.app

(* docs/architecture.md:128-129, "Foreground app changes invalidate Fiber    *)
(* and semantic caches, including stale element refs": the elements that     *)
(* refs are looked up in are of the current generation.  Checked where       *)
(* nothing but a change of application begins a generation.                  *)
ElementsAreCurrent ==
  lastElements # None => lastElements.snapshot.gen = generation
=============================================================================
