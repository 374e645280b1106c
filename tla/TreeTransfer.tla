----------------------------- MODULE TreeTransfer -----------------------------
(***************************************************************************)
(* How a viewer gets the element tree: loadAccessibility and its paged     *)
(* transfer (packages/app/src/index.tsx, helpers.ts), and the one page     *)
(* cache of the server (app_get_element_tree_page, packages/mcp/src/       *)
(* server.ts).                                                             *)
(*                                                                         *)
(* Loads are numbered in the order in which they begin.  A step of a load  *)
(* ends at an await; what the server does for an embedded viewer is a step *)
(* of its own, and goes on after the viewer has given up the call.         *)
(***************************************************************************)
EXTENDS Integers, Sequences

CONSTANTS
    TreeDevices, Simulators,    \* all devices, and those that run iOS
    PageCount,                  \* pages of a tree
    Absent,
    MaxLoads, MaxTreeSwitches, MaxTroubles      \* bounds

TransferAssumption ==
    /\ Simulators \subseteq TreeDevices
    /\ PageCount \in Nat \ {0} /\ MaxLoads \in Nat

Loads == 1..MaxLoads

VARIABLES
    bridged,            \* pages over the bridge; a browser fetches the tree at once
    owner, pending, loading,    \* elementTreeAbortRef, accessibilityRequestPending,
                                \* elementTreeLoading
    load,               \* the loads: see Idle
    begun,
    tree,               \* the tree shown: its load, whether native fallback, its pages
    treeDevice, treeOpen,
    treeSwitching,      \* a selectDevice in progress
    treeServed, generation,     \* the server's device and connectionGeneration
    cache,              \* pageCache
    transfers,          \* transfers ever begun
    treeSwitches, troubles

transferVars == <<bridged, owner, pending, loading, load, begun, tree, treeDevice, treeOpen,
                  treeSwitching, treeServed, generation, cache, transfers, treeSwitches, troubles>>

ownership == <<owner, pending, loading>>
server == <<treeServed, generation, cache, transfers>>
counters == <<begun, treeSwitches, troubles>>

\* at: what the load waits for.  of: the device of its closure, which the server
\* is still to recover.  source: what it asks for.  seen: the server's device
\* and generation when its capture began.  cursor: the transfer its cursors are
\* of.  pages: the transfer of each page it has.  native: the tree is a fallback
\* for React Native's.
Idle == [at |-> "idle", of |-> Absent, aborted |-> FALSE,
         source |-> "elements", seen |-> Absent, cursor |-> 0, pages |-> <<>>, native |-> FALSE]

Steps == {"recover", "recovered", "start", "capture", "started", "refused", "page", "assemble"}
Running == {r \in Loads : load[r].at \in Steps}

LoadStates ==
    [at : Steps \cup {"idle", "applied", "over"}, of : TreeDevices \cup {Absent}, aborted : BOOLEAN,
     source : {"elements", "accessibility"},
     seen : [device : TreeDevices, generation : Nat] \cup {Absent},
     cursor : Nat, pages : Seq(Nat), native : BOOLEAN]

TransferTypeOK ==
    /\ bridged \in BOOLEAN
    /\ owner \in 0..MaxLoads /\ pending \in BOOLEAN /\ loading \in BOOLEAN
    /\ load \in [Loads -> LoadStates]
    /\ begun \in 0..MaxLoads /\ treeDevice \in TreeDevices /\ treeOpen \in BOOLEAN
    /\ tree \in [of : Loads, native : BOOLEAN, pages : Seq(Nat)] \cup {Absent}
    /\ treeSwitching \in [to : TreeDevices, done : BOOLEAN] \cup {Absent}
    /\ treeServed \in TreeDevices /\ generation \in Nat /\ transfers \in Nat
    /\ cache \in [id : Nat, seen : [device : TreeDevices, generation : Nat]] \cup {Absent}

TransferInit ==
    /\ bridged \in BOOLEAN
    /\ owner = 0 /\ pending = FALSE /\ loading = FALSE
    /\ load = [r \in Loads |-> Idle] /\ begun = 0 /\ tree = Absent
    /\ treeDevice \in TreeDevices /\ treeServed = treeDevice /\ generation = 0
    /\ treeOpen = FALSE /\ treeSwitching = Absent
    /\ cache = Absent /\ transfers = 0 /\ treeSwitches = 0 /\ troubles = 0

----------------------------------------------------------------------------
(* The viewer.                                                             *)

Abort(loads, r) == IF r = 0 THEN loads ELSE [loads EXCEPT ![r].aborted = TRUE]

\* loadAccessibility up to its first await.
Begin(quiet) ==
    /\ begun < MaxLoads /\ ~(quiet /\ pending)
    /\ begun' = begun + 1
    /\ load' = [Abort(load, owner) EXCEPT ![begun'] =
                   IF ~quiet /\ treeDevice \in Simulators
                   THEN [Idle EXCEPT !.at = "recover", !.of = treeDevice]
                   ELSE [Idle EXCEPT !.at = "start"]]
    /\ owner' = begun' /\ pending' = TRUE /\ loading' = TRUE

\* Annotate, the opened Inspector, Refresh and Retry ask for a tree.
Ask ==
    /\ Begin(FALSE)
    /\ treeOpen' = TRUE
    /\ UNCHANGED <<bridged, tree, treeDevice, treeSwitching, server, treeSwitches, troubles>>

\* retryElementEnrichment, while a native fallback is shown.
Retry ==
    /\ treeOpen /\ tree # Absent /\ tree.native
    /\ Begin(TRUE)
    /\ UNCHANGED <<bridged, tree, treeDevice, treeOpen, treeSwitching, server, treeSwitches, troubles>>

\* The finally block: a load that was replaced leaves the flags alone.
Finish(r, at) ==
    /\ load' = [load EXCEPT ![r].at = at]
    /\ IF owner = r THEN owner' = 0 /\ pending' = FALSE /\ loading' = FALSE
                    ELSE UNCHANGED ownership

To(r, at) == load' = [load EXCEPT ![r].at = at] /\ UNCHANGED ownership

\* The request of an elements tree has failed: an embedded viewer asks for the
\* accessibility tree instead, once.
FallBack(r) ==
    IF bridged /\ load[r].source = "elements"
    THEN /\ load' = [load EXCEPT ![r].at = "start", ![r].source = "accessibility", ![r].pages = <<>>]
         /\ UNCHANGED ownership
    ELSE Finish(r, "over")

\* An aborted signal makes whatever the load waits for throw.
GiveUp(r) ==
    /\ r \in Running /\ load[r].aborted
    /\ Finish(r, "over")
    /\ UNCHANGED <<bridged, tree, treeDevice, treeOpen, treeSwitching, server, counters>>

\* The provider has been recovered, or could not be.
Recovered(r) ==
    /\ load[r].at = "recovered" /\ ~load[r].aborted
    /\ \/ To(r, "start") /\ UNCHANGED troubles
       \/ /\ troubles < MaxTroubles /\ troubles' = troubles + 1
          /\ Finish(r, "over")
    /\ UNCHANGED <<bridged, tree, treeDevice, treeOpen, treeSwitching, server, begun, treeSwitches>>

\* loadPagedElementTree: a page has come, and the next is asked for.
PageArrives(r) ==
    /\ load[r].at = "started" /\ ~load[r].aborted
    /\ To(r, IF bridged /\ Len(load[r].pages) < PageCount THEN "page" ELSE "assemble")
    /\ UNCHANGED <<bridged, tree, treeDevice, treeOpen, treeSwitching, server, counters>>

Refused(r) ==
    /\ load[r].at = "refused" /\ ~load[r].aborted
    /\ FallBack(r)
    /\ UNCHANGED <<bridged, tree, treeDevice, treeOpen, treeSwitching, server, counters>>

\* assembleElementTreePages takes the pages of one transfer only.
Consistent(pages) == \A k \in DOMAIN pages : pages[k] = pages[1]

Show(r) == tree' = [of |-> r, native |-> load[r].native, pages |-> load[r].pages]

\* Mutant: the digest is awaited and the signal is not looked at again.
MutantApply(r) ==
    /\ load[r].at = "assemble"
    /\ IF Consistent(load[r].pages) THEN Show(r) /\ Finish(r, "applied")
                                    ELSE UNCHANGED tree /\ FallBack(r)
    /\ UNCHANGED <<bridged, treeDevice, treeOpen, treeSwitching, server, counters>>

\* The pages have been assembled: applyElementTree.
Apply(r) ==
    /\ load[r].at = "assemble" /\ ~load[r].aborted
    /\ IF Consistent(load[r].pages) THEN Show(r) /\ Finish(r, "applied")
                                    ELSE UNCHANGED tree /\ FallBack(r)
    /\ UNCHANGED <<bridged, treeDevice, treeOpen, treeSwitching, server, counters>>

\* The timer of the recovery or of the transfer, or markDisconnected.
Interrupted ==
    /\ owner # 0 /\ ~load[owner].aborted /\ troubles < MaxTroubles
    /\ troubles' = troubles + 1
    /\ load' = Abort(load, owner)
    /\ UNCHANGED <<bridged, ownership, tree, treeDevice, treeOpen, treeSwitching, server, begun, treeSwitches>>

\* The Inspector is closed, or Annotate left with the Inspector closed.
CloseInspector ==
    /\ treeOpen /\ treeOpen' = FALSE
    /\ load' = Abort(load, owner)
    /\ UNCHANGED <<bridged, ownership, tree, treeDevice, treeSwitching, server, counters>>

BeginSwitch(d) ==
    /\ treeSwitching = Absent /\ treeSwitches < MaxTreeSwitches /\ d # treeDevice
    /\ treeSwitches' = treeSwitches + 1 /\ treeSwitching' = [to |-> d, done |-> FALSE]
    /\ load' = Abort(load, owner) /\ owner' = 0 /\ pending' = FALSE
    /\ UNCHANGED <<bridged, loading, tree, treeDevice, treeOpen, server, begun, troubles>>

EndSwitch ==
    /\ treeSwitching # Absent /\ treeSwitching.done
    /\ treeSwitching' = Absent /\ treeDevice' = treeSwitching.to
    /\ tree' = Absent /\ treeOpen' = FALSE
    /\ UNCHANGED <<bridged, ownership, load, server, counters>>

----------------------------------------------------------------------------
(* The server.                                                             *)

Connect(d) ==
    /\ treeServed' = d
    /\ generation' = IF treeServed = d THEN generation ELSE generation + 1
    /\ UNCHANGED <<cache, transfers>>

ServeSwitch ==
    /\ treeSwitching # Absent /\ ~treeSwitching.done
    /\ treeSwitching' = [treeSwitching EXCEPT !.done = TRUE]
    /\ Connect(treeSwitching.to)
    /\ UNCHANGED <<bridged, ownership, load, tree, treeDevice, treeOpen, counters>>

\* app_connect_device, or POST /device, for the device of the load, which is
\* performed even when the load has been given up.
Reconnect(r) ==
    /\ load[r].of # Absent
    /\ Connect(load[r].of)
    /\ load' = [load EXCEPT ![r].of = Absent, ![r].at = IF @ = "recover" THEN "recovered" ELSE @]
    /\ UNCHANGED <<bridged, ownership, tree, treeDevice, treeOpen, treeSwitching, counters>>

\* A capture begins; the tree may be of React Native or of the platform.
StartTransfer(r) ==
    /\ load[r].at = "start"
    /\ \E native \in {FALSE, TRUE} :
         load' = [load EXCEPT ![r].at = "capture", ![r].seen = [device |-> treeServed, generation |-> generation],
                              ![r].native = native /\ load[r].source = "elements"]
    /\ UNCHANGED <<bridged, ownership, tree, treeDevice, treeOpen, treeSwitching, server, counters>>

Unchanged(seen) == seen.device = treeServed /\ seen.generation = generation

\* The capture is over: the first page, of a new cache, is on its way.  For a
\* call that was aborted only the cache remains, if the signal came too late.
Captured(r) ==
    /\ load[r].at = "capture"
    /\ IF Unchanged(load[r].seen)
       THEN /\ transfers' = transfers + 1
            /\ cache' = IF bridged THEN [id |-> transfers', seen |-> load[r].seen] ELSE cache
            /\ load' = [load EXCEPT ![r].at = "started", ![r].cursor = transfers', ![r].pages = <<transfers'>>]
       ELSE /\ load' = [load EXCEPT ![r].at = "refused"]
            /\ UNCHANGED <<cache, transfers>>
    /\ UNCHANGED <<bridged, ownership, tree, treeDevice, treeOpen, treeSwitching, treeServed, generation, counters>>

\* An abandoned capture, of a load that is over, still replaces the cache.
LateCapture(r) ==
    /\ bridged /\ load[r].at = "over" /\ load[r].seen # Absent /\ load[r].cursor = 0
    /\ Unchanged(load[r].seen)
    /\ transfers' = transfers + 1
    /\ cache' = [id |-> transfers', seen |-> load[r].seen]
    /\ load' = [load EXCEPT ![r].cursor = transfers']
    /\ UNCHANGED <<bridged, ownership, tree, treeDevice, treeOpen, treeSwitching, treeServed, generation, counters>>

\* The cache is of this device and connection, and has not expired.
Valid == cache # Absent /\ Unchanged(cache.seen)

ContinueTransfer(r) ==
    /\ load[r].at = "page"
    /\ \/ Valid /\ UNCHANGED <<cache, troubles>>
       \/ ~Valid /\ cache' = Absent /\ UNCHANGED troubles
       \/ cache' = Absent /\ troubles < MaxTroubles /\ troubles' = troubles + 1
    /\ load' = IF cache' # Absent /\ cache.id = load[r].cursor
               THEN [load EXCEPT ![r].at = "started", ![r].pages = Append(@, cache.id)]
               ELSE [load EXCEPT ![r].at = "refused"]
    /\ UNCHANGED <<bridged, ownership, tree, treeDevice, treeOpen, treeSwitching, treeServed, generation,
                   transfers, begun, treeSwitches>>

TransferNext ==
    \/ Ask \/ Retry \/ Interrupted \/ CloseInspector \/ EndSwitch \/ ServeSwitch
    \/ \E d \in TreeDevices : BeginSwitch(d)
    \/ \E r \in Loads :
         \/ GiveUp(r) \/ Recovered(r) \/ PageArrives(r) \/ Refused(r) \/ Apply(r)
         \/ Reconnect(r) \/ StartTransfer(r) \/ Captured(r) \/ LateCapture(r) \/ ContinueTransfer(r)

TransferSpec == TransferInit /\ [][TransferNext]_transferVars

----------------------------------------------------------------------------
\* "Closing the inspector, changing device, or replacing a request aborts the
\* UI transfer; late results cannot overwrite the retained tree"
\* (docs/architecture.md): one load at a time may still deliver, no load that
\* was aborted ever does, and the tree is whole and of the newest that did.
TreeIsOfNewestLoad ==
    /\ pending <=> owner # 0
    /\ \A r \in Running : ~load[r].aborted => r = owner
    /\ \A r \in Loads : load[r].at = "applied" => ~load[r].aborted
    /\ tree # Absent => /\ \A r \in Loads : load[r].at = "applied" => r <= tree.of
                        /\ Consistent(tree.pages) /\ Len(tree.pages) = IF bridged THEN PageCount ELSE 1
=============================================================================
