# SimView in TLA+

SimView lets coding agents and people look at and drive an iOS Simulator or an
Android emulator. A TypeScript task (an MCP server or the CLI) talks over a
Unix socket to a native Swift backend, `simview-core`, which owns the device.
Most of what can go wrong in it is order: several tasks race for one backend,
several tool calls share one session, several queues of the backend hand work
to each other, and everything may be cut off half-way. This directory models
those parts, checks them with TLC on small instances, and proves some of the
results with TLAPS for every instance. `PROJECT.json` is the index: which
definition stands for which lines, which run checks what, and which hazard of
the code each property is for.

## The system and its parts

```
 agent ── stdio ── adapter ──┐                    packages/mcp/src/adapter.ts
                             ├── MCP daemon       packages/mcp/src/daemon.ts
 agent ── stdio ── adapter ──┘     │ one session per connection
                                   │              packages/mcp/src/{server,session,metro}.ts
                 browser ── relay ─┤              packages/app
                                   │ SimViewClient  packages/client/src/client.ts
                                   │ Unix socket, framed JSON and images
                             simview-core         native/SimViewCore/.../Server.swift
                   ┌───────────────┼──────────────┬───────────────┐
              capture and      observation   accessibility     Android agent
              preview encoder  coordinator   worker            (adb, Java)
```

| Component | State it keeps | Operations | Hard behaviour | What makes it correct | Modules |
|---|---|---|---|---|---|
| Backend registry (`client/daemon.ts`) | instance directory: `startup.lock`, `record.json`, `core.sock` | acquire, retry, reclaim, spawn, publish, stop, prune | processes that interleave at each system call, die, and act on what they read before | one starter in the critical section, one backend, the lock is always released, every acquire ends | `BackendRegistry`, `BackendRegistryProofs` |
| Shared MCP daemon (`mcp/daemon.ts`, `adapter.ts`, `client/mcp-daemon.ts`) | launcher lock, record, socket; connections and sessions; draining | launch, attach, hand-shake, serve, drain, exit | a handshake suspended across a shutdown; launchers killed; owners that die | no session in a draining daemon, the record outlives the sessions, one daemon serves, everything ends | `McpDaemon`, `McpProofs` |
| Protocol client (`client/client.ts`) | `#pending`, `#writeQueue`, `#writeOffset`, decoder | connect, request, abort, expire, drain, data, disconnect | partial writes, timers and aborts in between | framing holds, nobody is left waiting, every call settles once | `Wire`, `RpcClient`, `Transport`, `CallService`, `TransportProofs` |
| Native connection (`Server.swift` 1-215, 335-400) | control queue, latest preview frame, `writing`, decoder | accept, read, send, flush, close | two threads share the queue under a lock; endless preview | no lost wake-up, framing, answers get out | `NativeConnection`, `Transport` |
| Native server: demand and screenshots (`Server.swift`) | connections, selected device, `captureActive`, `captureGeneration`, pending screenshots | hello, describe, start, preview, stop, screenshot, frame, timeout, disconnect, shutdown | a frame, a timeout, a restart and a departure race for one answer | one answer each, no capture without clients, nobody stops another's capture | `CaptureServer`, `ViewerProofs` |
| Observation coordinator (`ObservationCoordinator.swift`) | newest frame, revisions, prepared image, schedule flag, generation | ingest, observe, prepare, switch policy, clear | the lock is dropped while an image is prepared | the image is of the frame described, one preparation at a time, requests are answered | `ObservationCoordinator`, `ObservationProofs` |
| Semantic state of a session (`session.ts`) | snapshot, elements, screen context, caches, foreground identity, generation | snapshot, elements, prepared elements, native tree, input, reconnect | tool calls interleave at awaits and share each other's reads | no answer of an older screen, a projection is of one application | `SemanticState`, `SessionProofs`, `MCSession` |
| Connection and demand of a session (`session.ts`) | client, generation, operations tail, lease, poll count, viewers, reconciliations | open, select, close, lose, poll, join, leave, reconcile | open, select, close and loss meet at their awaits | no connection forgotten, the preview follows the demand made known to a connection | `ReviewSession`, `SessionProofs`, `MCSession` |
| Element search and taps (`session.ts` 1330-1760, `server.ts`) | native tree, projection, selector, the snapshots both come from | search, resolve, corroborate, hit-test | two trees of different age; the screen changes between discovery and tap | a tap reaches the one element that was meant, or nothing | `ElementSearch`, `NativeTarget`, `ToolProofs` |
| Device actions (`server.ts`, `semantic-interactions.ts`) | receipts, verification, the stage of a text edit | perform_actions, tap_element, clear_text, replace_text | inputs that fail, land late, or are lost half-way | success is claimed only with an observation labelled stable after the last input (and settled, but for a batch that ends with a wait); a text reported as cleared or replaced is so when everything has landed | `ActionBatch`, `ToolProofs` |
| Observation history (`server.ts`, `semantic-state.ts`, `contracts/accessibility.ts`) | the last observations, as indexes from stable keys to hashes | observe relative to an earlier observation | two observers, a reconnect, keys that are not unique | what is left out has not changed | `ObservationHistory`, `ToolProofs` |
| Device list (`server.ts`, `app/index.tsx`) | retained snapshots under cursors | list, next page, expire | eviction and expiry while a list is read | the pages are of one inventory | `DeviceInventory`, `ToolProofs` |
| Metro inspector (`metro.ts`) | connection promise, generation, selected target, negative cache | inspect, close | inspections, dials and closes overtake one another; the app reloads | no debugger connection is forgotten; a tree is of its own app and device | `MetroInspector`, `McpProofs` |
| Fiber projection (`metro.ts`, the expression run in the app) | queues of fibers, visit and output budgets | scan, choose, build | budgets that run out before all roots are seen | roots share the budget; unless the result says it is truncated it leaves out unmeasured tabs only | `FiberTree`, `ToolProofs` |
| Review app: picture and comments (`app/index.tsx`) | frames on their way, the frozen frame, feeds, comments | receive, paint, freeze, annotate, save, switch, reconnect | decoding, switching and pausing overtake one another | a comment names the picture it was drawn on | `ReviewApp`, `ViewerProofs` |
| Review app: element tree (`app/index.tsx`, `helpers.ts`, `server.ts`) | the load that owns the view, the server's page cache | load, page, abort, time out | the server goes on after the viewer has given up | the tree is whole and of the newest load that delivered | `TreeTransfer`, `ViewerProofs` |
| Review app: pointer (`app/index.tsx`) | queue, drain, active pointer | down, move, up, cancel, send | moves are coalesced while an input is on its way | a gesture keeps its shape | `PointerQueue`, `ViewerProofs` |
| Accessibility observation (`AccessibilityObservationCoordinator.swift`, `AccessibilityWorker.swift`, `Server.swift` 1458-1510) | revision, last tree, generation; the request on the worker | observe by events or by polling, mark, reset, submit | the device, the demand and the screen change while the worker waits for seconds | a tree reported unchanged is the one known, captured trees are of the device in use, the deadline holds | `AccessibilityObservation` |
| Android video (`Server.swift` 1074-1253, `AndroidAgentConnection.swift`, `H264Decoder.swift`, `H264DecodeSchedulingPolicy.swift`) | agent, restart count, adb fallback; decoder session, work count and generation | start, read, decode, overflow, resynchronise, fail, replace, fall back | four queues; late callbacks; one failure reported twice | a capture always has a source of pictures, no frame is left out on the way to the decoder, except up to a keyframe | `AndroidVideo`, `AndroidVideoProofs` |
| Process-owner monitor (`client/process-owner.ts`) | subscriptions and one timer | subscribe, check | a failing `ps` | nobody is told of a death that did not happen | not modelled |
| Preview encoder (native) | encoder sessions | accept, encode, rebuild | a framework that fails on its own | a decodable stream | not modelled |
| Compatibility layer, AX shim, probe, XCTest provider, the agent's Java side | - | calls of private frameworks | pure I/O; appears as environment actions | - | not modelled |
| CLI, schemas, core, scripts | - | one-shot commands, schemas, builds | no behaviour over time | - | not modelled |

## The modules

Each action is one stretch of code that nothing else can interrupt: a handler
on the server queue, a critical section under a lock, the code of a JavaScript
callback up to its next `await`, or one system call on a shared directory.
What differs is who interleaves.

### Processes and the core

* **`BackendRegistry`**: `pc[s]` is the suspension point of `acquireDaemon` in
  process `s`; `dir`, `lock`, `record` and `socket` are the files; `backend[b]`
  is the life of the backend process. `Start` to `Retry` follow
  `acquireDaemonAttempt` in order, `Prune*` are `pruneDaemons`, and `Crash`
  kills a starter at any point. `misfire` is a history variable: it turns true
  when a clean-up, acting on what it read earlier, deletes the lock of a live
  starter or the record of a live backend. The code does that (see the
  findings), so exclusion is stated up to it, and the run
  `BackendRegistryDuplicate` shows it happening. Process identifiers are not
  reused (`isAlive` at daemon.ts:102 cannot tell a reused one).
* **`McpDaemon`**: the same for the launchers, with the daemon's own three
  concurrent activities: `main[d]` (start-up), `drain[d]` (shutdown) and one
  `conn[c]` per socket. Sessions are opaque; their close may never end.
* **`ObservationCoordinator`**: the state protected by the NSCondition. A frame
  is a content that is new whenever the luma signature differs meaningfully.
  `queued[g]` counts blocks of generation `g` on the image queue, cancelled ones
  included, because a cancelled block is still there.
* **`CaptureServer`**: handlers of the server queue on an iOS Simulator (the Android
  path is `AndroidVideo`). Those that
  change the capture several times (a demand recount that stops it and cancels
  screenshots, a start that fails) are operators on the record `cap` applied in
  the order of the code. One device; the mismatch test at Server.swift:824 cannot
  fail and is left out. The process may end at any time after `Shutdown`.
* **`AccessibilityObservation`**: `step` is where the one request on the worker is, and
  everything between two steps may be interrupted by `MarkEvent` (a callback of the
  device), `DemandChanges` and `SelectDevice` (the server queue). A tree is named by
  the device, the scope and the screen it shows. `clock` counts from the beginning of
  a request in units of the shortest delay; a capture takes any time up to `Overrun`
  beyond the deadline. A forced unwrap that fails is the step "trapped", which ends
  the process. `late` and `own` are history. The choice between `ios-axp`,
  `android-uiautomation` (which differs only by the fallback) and snapshot-diff is a
  parameter of the request.
* **`AndroidVideo`**: the reader thread of each agent that was reached, the server
  queue `tasks`, the decoder queue `work`, and the units the framework holds
  (`inFlight`), which it gives back in any order. `source` is what the server knows,
  `decoder` is `H264Decoder` with its scheduling policy. Handlers that wait for the
  decoder queue are enabled when it is drained. An agent of an earlier start may
  still be running: its closures carry the generation of the capture, not of the
  agent. `offered` is the unit last taken up for the session, whether or not its
  sample could be made and the framework accepted it: `DecoderIsInStep` is about what
  happens on the way to `submit`, and not about what fails in it.
* **`Wire`, `RpcClient`, `NativeConnection`, `Transport`**: the two ends are modules
  of their own that share only the wire, and `Transport` is their interleaving. A
  frame is two pieces, so that every write and read can be split; a piece is
  misread if a decoder takes it for a head when it is none. `writer` is
  `flushWrites` in its queue. `spoiled` is the one case in which the code itself
  breaks the framing: a response that does not parse (client.ts:351) rejects every
  request and clears a queue whose first frame may be half-written, on a connection
  that stays up.
* **`CallService`** is the abstract specification of the two ends together: calls that
  are issued while the connection is open, settled once, and failed by its end.
  `Transport` instantiates it with a mapping from the client's promises and
  connection to `calls` and `open` (`ServesCalls`), checked by TLC and proved.

### What a session knows

* **`SemanticState`**: `call[c].pc` is the `await` a call is suspended in. A snapshot
  is the application it shows and the semantic generation it was asked in. `front`
  is the device; identity reads are shared between calls (`read`), and are answered
  with the application in front at some moment between the question and the answer.
  Expiry of the five-second caches is a look-up that misses.
* **`ReviewSession`**: `tail` is the chain of opens and selections on
  `#connectionTail` with the step the first one is at, `reconciles` the chain on
  `#previewDemandTail`. Clients are numbered as they are acquired. Microtasks run
  before events: `Turn` is the guard that says so.
* **`MetroInspector`**: `metro` has the inspector's fields, `dial[i]` the connection
  inspection `i` opened, `call[i]` where it is suspended. An evaluation is a message
  on `wire`, a result in the mailbox `box` of the app, and polls of it, each of which
  may fail or time out. `Quiet` lets the continuations of a settled connection
  promise run before the next event. Targets come, go and are mistaken for another
  device's when their connection hash is opaque.
* **`FiberTree`**: the expression that runs in the app, one loop iteration an action:
  the scan over the roots in turn, then the choice within the output budget. What
  the code reads of a fiber (weight, scene, focus, label, and whether a host can be
  measured) is given per fiber; rectangles themselves and names are not modelled.
  `HasFrame` is a rectangle of its own or of something underneath, and `Pruned` what
  `pruneUnmeasuredNavigation` takes away for want of one.

### What a tool call does with it

* **`ElementSearch`** is pure: `searchElements`, its scores (in thousandths), the
  merging of copies, and `unambiguousInteractionSearchMatch`. Texts are sequences of
  pieces, so that "equal", "begins with", "contains as a word" and "contains" differ
  as in the code; three of the nine searched fields are kept. Lists are filtered with
  `Filter` of the module `Lists`, a recursive function, so that proofs can unfold it.
* **`NativeTarget`** extends it: `resolveNativeTap` from the selector to the point.
  The native tree and the projection may change between discovery, the fresh
  capture, and the hit test; geometry is one row of cells, which keeps containment,
  overlap, clipping and the centre. `QueryStandsOut` states what an answered query
  promises: the element can be seen and acted on, and `Outdoes` every other one of the
  native tree, copies of the projection counted for the element they are of.
* **`ActionBatch`**: `at` is the await, `todo` the inputs the handler sends without
  looking in between, `landing` what the device has acknowledged and not yet shown.
  A reading notes how much of each input had been sent when it was made, whether two
  captures in a row were alike (`settled`) and what it is labelled (`stable`): `observe`
  may label a reading stable that never settled (server.ts:1161-1174). Even a settled one
  is no promise that nothing lands later. A wait for an element takes one snapshot
  (server.ts:1516). Every return of `dispatchAction`, `clearText` and `replaceText` is a
  disjunct.
* **`ObservationHistory`**: `observe` takes the previous observation under the caller's
  number, captures, and answers with what was added, changed or removed. `view` is the
  session underneath, `told` the last answer. The hash of a node is the part of it
  the code hashes.
* **`DeviceInventory`**: `listDevices` with its retained snapshots (the newest under
  one total bound, expiring), and the two readers of its pages.

### What a viewer shows

* **`ReviewApp`**: the state of the viewer, its refs, and the feeds. Rendering and
  layout effects belong to the handler that causes them; the passive effects that own
  the feed are `RunEffects`, which may be late. Embedded and browser viewers are two
  values of `embedded`.
* **`TreeTransfer`**: every load of the element tree with its abort signal, its
  timeout, and the server's one page cache.
* **`PointerQueue`**: the handlers of the canvas, and `drainPointerInputs`.

### Composition

`Transport` composes two modules that interact. The `MC*` modules of `Processes`,
`NativeSide`, `Session`, `ToolSide` and `Viewer` put modules side by side that share
no variable: a behaviour is one of the parts, chosen in the initial state by `part`,
and the others stay as they are, so that one run checks several questions. A part that
theorems are about is extended, so that the run evaluates its assumption and checks the
property under the name the theorem has; the others are instanced (in `Viewer` and
`ToolSide` there are none). Where the
code does connect such parts, the connection is an assumption of each: what the core
answers is nondeterministic in `SemanticState` and `ReviewSession`, and a capture is
whatever the screen is in `NativeTarget`, `ActionBatch` and `ObservationHistory`.
Symmetry sets are used only in runs without liveness.

## The runs

All runs set `CHECK_DEADLOCK FALSE`: every bound on calls, frames or processes is
spent at some point, and the system may then rest.

| Run | Parts and instance | Distinct states | Shows |
|---|---|---|---|
| `Processes` | registry: 2 starters (one may be killed), 2 attempts each, 1 prune, 3 backends; daemon: 2 adapters, 2 daemons, 1 connection | 297 063 | exclusion, one backend and reachability up to a misfire; every exit releases the lock; starters and adapters settle, daemons follow them |
| `NativeSide` | transport: 4 requests (2 may expire, 1 answer may not parse), room for one piece, queue of 2, 1 control frame; observation: 2 observers, 2 frames, 1 clear, 1 policy switch, 2 requests | 333 630 | no lost wake-up, framing, nothing owed after the end, the call service, requests settle; images match, one preparation, eager requests and images settle |
| `Session` | semantic: 2 calls over 2 applications with a switch and one trouble; review: 2 clients, 2 operations, 2 polls, a viewer, a loss, a failure; accessibility: 2 observations of 3 screens by events or by polling, a wait of 3, 1 event, reset or switch (158 054) | 1 518 883 | answers are not older, projections are of one application, no client forgotten, the preview follows the demand made known; unchanged trees are the known ones and of the device in use, the deadline bounds captures |
| `ToolSide` | daemon: 2 adapters (one may be killed), 2 daemons, 2 connections (452 102 states); metro: 2 inspections, 2 devices, 2 apps, 2 targets, 1 change, 1 close (444 592); fiber: 4 fibers in 2 roots (29 397); batch: 6 action lists, 1 failure, 1 loss (211 641); target: 12 trees, 3 projections, 13 requests (21 046); inventory: 4 devices, 2 readers (48 232); history: 6 screens, 2 observers, 3 observations (62 502) | 1 269 512 | the record outlives sessions, one serving daemon; no debugger forgotten, trees of their own target; fair projections; success is seen, an edited text is final; taps and queries reach what was meant; pages of one inventory; deltas are complete |
| `Viewer` | app: 2 devices, 2 frames, a switch, a comment, a loss; tree: 2 loads of 2 pages, a switch, a trouble; pointer: 2 pointers, 5 inputs, a failure; capture: 2 clients (writes of one may fail), 2 screenshots, 2 other calls, 1 frame; Android video: 1 capture, 3 units, work for 1, 1 configuration an agent, 2 failures | 1 246 488 | the frozen picture is named, the tree is of the newest load, gestures keep their shape, one answer each, capture serves clients and has a source, the decoder is in step |
| `BackendRegistryDuplicate` | 3 starters, nobody killed | violation | two backends run after the second of two removals of a dead record |
| `ObservationOnDemand` | 1 observer, 1 frame | violation | an on-demand request that starts the capture waits out its deadline |
| `SemanticStaleElements` | 2 calls, 1 switch | violation | elements of the application before are put back |
| `ReviewDemandLeak` | 1 operation, 1 poll | violation | a poll that nobody makes stays counted |
| `ObservationTraps` | the accessibility part of `Session` | violation | a reset that meets the start of an observation ends the process |
| `DispatchIsCounted` | the batches of `ToolSide` | violation | a tap that was sent is reported as nothing dispatched |
| `FeedResumes` | a browser viewer, one switch | violation | the picture never moves again |

### Why the bounds are enough

The hazards need two or three actors and one disturbance, and each bound leaves
room for one more than the shortest bad history that a mutant produces: two
starters and a prune for a stale removal (three starters for the finding), a
lock owner that dies while another waits, a third backend for the retry. In
`ObservationCoordinator` two frames make one stale preparation, and the clear
restarts the revisions once, which is what makes an old image look current. In
`CaptureServer` one frame may wait in the queue while the capture restarts. In
`Transport` room for one piece splits every frame in both directions, and a
control queue of one lets the second answer overflow. `Session` lets every pair of
kinds of call meet. An observation there has one disturbance, because a second one
meets a request in the same states as the first, two screens beyond the initial one
(one that is detected, one that the confirmation meets), and a wait of three units,
of which quiet time, probe and first poll take one each. In `AndroidVideo` work for
one unit makes the second one overflow and the third one the keyframe that
resynchronises; two failures are what kills an agent through the decoder, or the
agent and its replacement. `MetroInspector` needs two inspections for every race over its
one connection (a superseded dial, a joined one, a close between), two devices and
two apps for a wrong target, and one change of targets for a stale one.
`FiberTree` starves a root when the visit limit is below the size of the other one.
The screens of `ObservationHistory` hold an identifier of its own and a shared one,
a node that moves, and one that changes; the history keeps one observation, so that
the second evicts the first. The trees of `NativeTarget` contain each relation of
two elements that the code distinguishes, and the four queries each kind of match.
`DeviceInventory` has four devices in pages of one under a bound of three retained
devices, so that eviction happens while both readers read. A viewer's two frames are
one before and one after the freeze or the switch; two loads are one that supersedes
the other; five inputs are a gesture of one pointer with two moves, and the start of
another's.

### Fairness

* `BackendRegistry`: a starter that is not killed keeps running and each of its
  waits has a deadline (`daemon.ts` 373, 443); the backend's idle timer and its
  forced exit fire. Nothing makes anyone disconnect, prune or be killed.
* `McpDaemon`: launchers and daemons run, their deadlines pass, closed sockets and
  dead owners are noticed. `GiveUp` is strongly fair: the deadline of the
  launcher's loop has passed for good once it has, but the model lets it pass only
  at the top of the loop. A session's own close is not assumed to end; the
  shutdown deadline is what ends it.
* `ObservationCoordinator`: quiet intervals pass, the image queue runs and waiting
  threads poll (25 ms). Deadlines are *not* fair, so that answers are shown not to
  need them.
* `Transport`: neither event loop nor dispatch queue starves a ready block, and
  handlers answer. Timers, aborts and write failures are not assumed, so a
  request is shown to settle without its timer.
* `Session`, `ToolSide` and `Viewer` state no fairness: only safety is checked.

## What is proved

TLAPS checks the following for every value of the constants that satisfies the
module's assumption.

**`BackendRegistryProofs`** (`IInv`, `Invariance`). `ExclusiveUntilMisfire` is not
inductive: it says that two starters are not in the section together, but not why
the second one's `link()` fails. The strengthening `LockInv` says that the lock
names every starter inside the section; two starters inside would both be its
name. It is kept because only `UnlinkLock` of the owner, `Reclaim` of a lock whose
owner is dead, and the removals of the directory take a lock away, and where a
removal takes the lock of somebody alive it is a misfire by definition. For
`SingleBackendUntilMisfire` three more facts are needed: a starter past the check
under the lock faces no live record (`RecordInv`), a child belongs to one starter
and is not yet in the record (`ChildInv`), and every running backend is in the
record or somebody's child (`NoLeakedBackend`); two running backends would then be
two children, hence two starters inside. `AttemptsInv` and `ConnInv` serve the
types and `RecordInv`. Named results: `TypeCorrect`, `MutualExclusion`,
`SingleBackend`, `LockReleased`, `NoLeak`, and the action property `RecordKept`.
`Reachable` states `PublishedIsReachable`. That property speaks of the record; its
inductive form `SocketInv` speaks of every backend that serves, since the socket path
must already be the child's own before the child is published. Its condition is not an
invariant but, once it fails, it fails for good (`DisturbedStays`: a misfire is not undone,
and nobody hands over the child of a killed starter), so a step that ends with the
condition has begun with it. Then no step takes the path from a backend that serves: a
second bind or shutdown would need a second running backend (`OneRunning`); a removal of
the directory would be a misfire, because the record is live or the starter that holds
the lock is (`ServingIsHeld`); and the `unlink` of a failed start runs under the lock,
with a dead record and after its own child has exited, so that nobody serves.

**`McpProofs`**. *The daemon* (`DaemonInv`, `DaemonInvariance`): the lock's argument is that of the registry
(`LockInv`: up to a misfire the lock names every launcher under it). What it protects is
a record: a launcher that clears one holds the lock and has seen that the daemon of the
record has exited, and an exited daemon does not come back (`BornInv`). `RecordInv` is
the fact the properties lack: the record is that of the daemon that binds, serves or
removes it. Nobody but that daemon takes it away, which it does after its sessions
have closed (`DrainInv`) and after it refuses new ones (`ConnInv`). Named results:
`SessionsKeepTheRecord` (`RecordOutlivesSessions`, no session begins in a daemon that drains),
`OneDaemonServes` (`OneServingDaemon`) and `DaemonTypesKept`.
*The Metro inspector* (`MetroInv`, `MetroInvariance`): every dial has a connection generation of its own
(`DialInv`), so of several that are awaited one at most is current when it arrives, and
the others close what they opened. `SessionInv` says that the inspector holds whatever is up
and that what it has noted (target, device) is true of it. For a call that joined another's
connection, `CallInv` carries application and device from the dial to the answer, and
`QuietInv` says that calls resumed by a settled connection all waited for the same one.
Named results: `DebuggersAreHeld` (`NoDebuggerForgotten`), `AnswersAreOfTheirTarget`
(`TreeIsOfOwnTarget`), `MetroTypesKept`.

**`ObservationProofs`** (`IInv`, `Invariance`). `AnswerImageMatches` speaks of answers, and
nothing in it says why an image with the newest revision shows the newest frame.
`PictureInv` does: of the stored image, and of the one in preparation as long as its
generation is current, the revision tells the frame. A `clear` restarts the revisions, so
this needs that what was queued or begun before it is of an earlier generation
(`GenerationInv`). `OnePreparation` is part of the same induction: one block of the
current generation, or none and the flag unset. `CallsInv` only serves the finite range
of generations in the type invariant. Named results: `ImageOfItsFrame`,
`OneLivePreparation`, `TypesKept`.
The module also holds the proofs about `AccessibilityObservation` (`ObservedInv`,
`ObservedInvariance`). A request may be answered from ten places, with a tree it captured
or with one it was left; what makes all of them truthful is that only its own captures
replace the coordinator's last tree: until one of them differs the last tree is the one that was
known, or none after a reset (`KnownInv`), and a reset request finds none rather than
another's. `DeviceInv` follows a captured tree from the read to the answer; the comparison
on the server queue then makes its device the current one. `LateInv`: a capture begun after
the deadline has one of the purposes that lead to an answer. Named results:
`ObservedTreesAreAsReported` (`ObservedTreeIsAsReported`), `DeadlineBounds`
(`DeadlineBoundsCaptures`).

**`ViewerProofs`**. *Captures* (`IInv`, `Invariance`): a handler of the server applies several operators
to the record `cap` in turn, so the invariant is stated of any such record: `Settled` (a
request is answered at most once, is not registered once it is answered, and is neither
before it is made) and `ForClients` (what is registered belongs to this capture and a
connected client, and a timer or the encoder works for it). Each operator has a lemma
that says what it preserves, and a handler's proof follows its composition. Named results:
`OneAnswerEach` (`AnsweredOnce`), `CaptureIsWanted` (`CaptureServesClients`, of which
`AnsweredOnce` is the first conjunct), `CaptureTypesKept`.
*Picture* (`AppInv`): `FrozenPictureIsNamed` does not say why a freeze finds a name.
`NamedInv` does: a picture that is painted is the latest one and has a name, what is
frozen has an identifier, and a comment that is being saved for the first time has a number
left. `PictureCorrect` states the property, `AppTyped` the types.
*Tree* (`TreeInv`): `TreeIsOfNewestLoad` says nothing of loads that are still on their
way. `OwnerInv`: the load that owns the view is the one begun last and still runs, or
none owns it (an owner that had applied its tree would be marked by its successor), and
`Awaits` gives what a load has when it waits for what it waits for. `TreeCorrect` is the
theorem.
*Pointer* (`PointerInv`): `GestureKeepsItsShape` does not say that the input which waits
last is the one enqueued last, so that a move replaces its own predecessor. `Complete`:
whatever was enqueued since the last failure has been sent, is being sent or waits, or is
a move that the next input repeats. The lemmas are about appending, replacing the last
and taking the first of a sequence. `GestureCorrect` needs no assumption.

**`ToolProofs`** holds the inductions about five modules that share no variable. Lists are
induced over by a least counterexample (`LeastNumber`: a set of numbers, unlike a predicate,
can be handed to a lemma), and recursive functions are first shown to exist
(`KeptExists`, `AboveExists`, `DeepExists`).
*A call that acts* (`BatchInv`): `SuccessIsSeen` looks at the answer only. `LatestInv` says
at every await that the latest reading was made after everything that was sent, unless
the screen may have been turned (`Turned`), and is labelled stable only if it settled;
`FallbackInv`, that an accepted action other than a wait or a rotation leaves no reading or a
settled one, which is why the label `observe` falls back on is true there; `VerifiedInv`
says of a destination that was compared that it was after everything sent; `TurnInv`, that
only the last receipt may be a refusal and nothing is sent after it; `TapInv`, that
tap_element reports a tap as sent only when it was accepted.
*A text* (`TextInv`, beside `BatchInv`): inputs land in order, so it is enough to follow what
is on its way, whatever the readings in between show. Until a replacement has typed, no copy
has landed and none is landing; once it has, a text is last of what has still to land
(`LandingInv`), since it is typed last (`TodoInv`). A field that is accepted has been read
without its old text, and nothing that lands later brings that back. `SentInv` counts the
inputs, by which the property tells one text typed from two: a field that was read too
early is typed into again, and may then hold the text twice.
Results: `SuccessCorrect` (`SuccessIsSeen`), `TextCorrect`
(`TextIsFinal`), `BatchTyped`.
*History*: `DeltaIsComplete` is not about the order of steps but about hashes: that the
hash of an observation determines its screen (`HashesDiffer`) holds because keys are distinct
and a node is determined by what is hashed of it, and a delta adds up because keys and nodes
of a screen correspond one to one. Results: `DeltaCorrect`, `HistoryTyped`.
*Pages* (`InventoryInv`): what a reader has is the beginning of the inventory it began
with, and the page behind the cursor it holds goes on exactly where the reader is, in that
inventory, whatever was listed, forgotten or refused in between. Results: `PagesCorrect` (`PagesAreOfOneInventory`), `InventoryTyped`.
*Fibers* (`FiberInv`): `ProjectionIsFair` speaks of the end. While the scan or the choice
is on its way, a root that has something left has had as many turns as any other, up to the
one its place in the round explains (`RoundStaysFair` is the step of both); and every fiber is
accounted for, as an entry or with a reason to be none, or stands behind one that waits in
line, of which at the end there is none (`NothingMissing`). What is chosen and not shown
was pruned as an unmeasured tab or stood under one; being under it and having no rectangle
go together, since a rectangle underneath is one of the tab as well. Results: `ProjectionCorrect`,
`FiberTyped`.
*Tap target* (`TargetInv`): the code takes the only node for which it has evidence;
`SettledInv` says that the evidence in the settled tree is of the one node that is the
result, and every `Rival` of it would have to give evidence itself. `IndexInv` and `HitInv`
do the same for an index and for Android's hit test. `Stands`: what a query
was resolved to can be seen and acted on and outdoes the best copy of any other element, from
the resolution to the answer.
Two parts of `TapReachesItsTarget` were restated on the way, because TLC's trees were too
few to show them false in general: that a name alone makes a node unique fails for nodes
without a role (hence `Rival`, which compares as the code does), and an exact match may tie
in score with an inexact one (hence `Outdoes`). Results: `TapCorrect`, `TargetTyped`.

**`SessionProofs`** has two chains of inductions, since `SemanticState` and `ReviewSession`
share no variable. *Semantic state* (`SemanticInv`): what begins a generation empties the caches, so
a cache holds nothing of another (`KeptInv`); a call keeps the generation its
snapshot was asked in, which is not before its own start (`CallsInv`). The difficulty is
the shared refresh: a call that joins it was made no later than the refresh began, because
one of an earlier generation is not on the table any more, and the answer is not older
than the refresh. `AnswersAreCurrent` (`AnswerNotOlder`) and `SemanticTypesKept` follow.
*One application* (`AppInv`, on top of `SemanticInv`): the property compares what two
identity reads and a snapshot saw at three moments, and a read may have begun before the
call that waits for it. `Traces`: while the generation of a call is the current one, the
application it was told is the one known. `Shows`: where the known application is the one
in front, every snapshot of the generation shows it. Where it is not, `Checks` says that a
call which holds a snapshot of another application cannot have it confirmed: a read that
the device has answered differs from the identity and ends the generation.
`ProjectionsAreOfOneApp` is the theorem; its bound of one change is that of
`ProjectionIsOneApp`.
*Connection* (`SessionInv`): `NoClientForgotten` does not say which connection an operation
may still hold, nor why the catch of `open` closes the right one. `HeadInv` gives for each
`await` of the running operation what it holds: nothing before it acquires; from the
point where it replaces the client of the session, that client, unless it is down.
`BehindInv` says the same of those that wait, `CloseInv` what each stage of `close()` has
already taken away, and `OwnerInv` that a selection awaits one reconciliation at most, so
that the end of another's moves no operation on. `ClientsAreHeld` states
`NoClientForgotten` and the types, with the session's listeners.
*Demand* (`WantInv`, on top of `SessionInv`): `PreviewFollowsDemand` speaks of the moment at
which nothing is on its way, and says nothing of the way there. `SentInv`: a request that
is sent is the first of the queue and, while its connection is up, the last thing the core
was asked. `DemandInv`: what has been made known of the client in use is what the core
encodes, once nothing is on its way to it; and where that is not what is wanted, a
reconciliation of this connection and generation has still to be sent. `QueueInv` keeps
the rest of the queue unsent and aborts nothing that is still useful; `LinksInv` and
`ApartInv` say that nothing was asked of a client which is not yet in place, so that a new
connection begins with an idle core. `PreviewIsWanted` is the theorem; it speaks of a
connection the demand has been made known to, and not of one that `open` has just replaced:
viewers kept over a lost connection wait for the next poll or viewer.

**`TransportProofs`**. `WriterInv`: `writing` is set exactly when a `flushWrites` is
queued, running or failed; a failure is being reported until the connection
closes; and an idle writer of an open connection has an empty queue. `WriterAwake`
follows (`NoLostWakeup`), for any number of requests, any room of the socket and
any limit of the queue. `ShutSettlesAll` proves `ShutOwesNothing`: every path to
"shut" goes through the one operator that rejects all and clears the queue, and
no action adds to it afterwards. `Implements` proves the refinement `ServesCalls`:
under the mapping of `Transport`, each action of the client is a step of
`CallService` or a stutter and no action of the native side changes what it maps to.
It needs `ClientInv` (a shut client owes nothing) and `OpeningInv` (nothing has been
asked while the connection is being opened).
*Framing*: `FramingKept` states `WireIsFramed`, which relates bytes at the reader to what
the writer has not yet written, so it needs both ends and the kernel between them at once.
The lemmas are about streams: what a decoder does with the next piece (`FramedConsumed`),
that a frame may follow whole frames (`FramedExtended`), that a prefix of a framed stream
is framed (`FramedPrefix`), and that what `#flushWrites` leaves in the queue is what it
has not written (`UnwrittenFlushed`). `Types` (theorem `TransportTypes`) adds to the types
that a write offset lies inside a frame of the queue and that a frame which is being sent
belongs to a sending writer. `UpInv`: until the client drops the rest of a frame, the server
has not lost its place, and what it has buffered, what is on the way and what is unwritten
are frames one after another, whole ones while the client may still add to them; the
`disconnect` that empties the queue leaves a prefix. `DownInv` says the same of the other
direction, with the rest of the frame being sent in place of the queue.

**`AndroidVideoProofs`**. `CaptureHasSource` says of the agent of a capture only that it
streams or that its failure waits on the server queue. Two facts are missing for an
induction. The agent's reader carries the generation of this capture, so that the failure
it will report is not taken for one of an earlier capture and ignored; and an agent of 0
means that the screenshots already run in full, since the last MJPEG viewer stops them
only where there is an agent. `AgentInv` adds both, `TypesInv` the types, and `SourceInv`
is their conjunction. The lemmas follow the code: a handler that takes another block off
the queue keeps the failure on it (`TailKeeps`, `ServedHasSource`), whatever is appended
keeps it too (`QueuedHasSource`), and `handleAndroidAgentFailure` leaves a source whether
or not a failure is still queued (`ReplaceHasSource`), which is why it may run twice for
one agent. `AlwaysHasSource` needs no assumption about the constants: neither policy's
limit matters to it.
*The decoder*: `DecoderKeepsStep` states `DecoderIsInStep`, again for any constants. Its two
halves have an invariant each, on top of `SourceInv`. `CountInv`: the count is the number of
the units of the present generation on the decoder queue and with the framework, and no unit
is of a later one, so that a new generation begins with none; the lemmas are about a
cardinality that one step changes by one at most, and about a callback in any order
(`CountedWithout` moves the indices behind the one removed). `StreamInv`: that no gap is
offered to a session is a fact about the whole way of a frame. `ChainInv`: of what the server
will not ignore, a dependent frame comes right after the one it depends on. `BackInv` and
`IdleInv`: so does the next that the reader sends, after the last that is queued or, where
none is, the last that was taken. `FrontInv`: unless the decoder waits for a keyframe, so
does the next that is served, after the last that was taken. `LinksInv`: the decoder queue
keeps this order, up to what was taken up last. `ReadersInv` and `AgesInv` say that
only the agent of the capture streams and that no block is of a later capture: stopping,
starting or replacing leaves nothing that would be taken for a frame of the new stream.
Wherever a frame is left out on the way (ignored, dropped with the queue, without a session,
or lost with the old agent) the invariant shows the next one taken up to be a keyframe. What
fails after that, in `submit` or in the framework, leaves a gap that nothing is proved or
checked of (see the smaller things below).

Model-checked only: all liveness (fairness and ENABLED are beyond the provers), and the type
invariants of the runs, which are conjunctions over the parts or the part a behaviour is
of; each part has its own proved.

## What the code does differently from what is said of it

1. **Duplicate backends** (`daemon.ts:172` against architecture.md:169-170), run
   `BackendRegistryDuplicate`.
2. **On-demand image that is never prepared** (`ObservationCoordinator.swift:231`
   against plans/deferred-performance-reliability.md:109), run
   `ObservationOnDemand`.
3. **Stale element refs** (`session.ts:1241` against architecture.md:128-129), run
   `SemanticStaleElements`.
4. **A packet request nobody makes** (`session.ts:524` against
   architecture.md:320-321), run `ReviewDemandLeak`.
5. **A tap that is not counted** (`semantic-interactions.ts:152` against
   docs/protocol.md:281-282), run `DispatchIsCounted`.
6. **A reset that ends the process** (`AccessibilityObservationCoordinator.swift:192`
   and `:339` against ProtocolTests.swift:634), run `ObservationTraps`.
7. **A feed that does not resume** (`app/index.tsx:658` against
   architecture.md:356-357), run `FeedResumes`.

Smaller things met while modelling, most of them in the models, that no property
is about:

* Core: `setImagePreparationPolicy(.eager)` retries a failed preparation, although
  the comment there leaves that to a later request; a waiter in on-demand mode loses
  its preparation to a policy call. server.ts:251 passes `changeRevision` as
  `afterRevision`; the core compares it with `frameRevision`. A write that fails
  because shutdown closed its connection lets `disconnect` recount demand, and so may
  start the capture of a server that is going down.
* Android: turning an MJPEG preview off, unlike a disconnect, leaves the adb
  screenshots running beside the agent; the branch of `hello` that would start them
  (Server.swift:334-339) cannot be reached, so an MJPEG viewer that enables its preview
  while an agent captures gets no pictures (docs/protocol.md:301-302). An agent that
  refuses to capture keeps its reader thread, whose failure is later taken for that of
  the current source: an agent is then started beside full screenshots. A decoder
  failure and a connection failure of the same agent stop its replacement, too. An
  acknowledgement that comes after its command has timed out is "unexpected" and ends
  the reader. A frame whose sample cannot be made (H264Decoder.swift:126, 146), that the
  framework refuses (161) or fails (192) is discarded while the session stays; no keyframe
  is waited for, and the next frames are decoded without it, although
  plans/deferred-performance-reliability.md:53 rules that out. The failure is reported,
  but only three in a row have an effect, and any frame that decodes sets the count back
  (Server.swift:1247).
* Accessibility: with `requireChange` false and a wait shorter than the first poll,
  snapshot-diff answers the cached tree as stable (docs/protocol.md:137-139). The
  revision of an answer is read after its capture, so a caller that continues from it
  does not see an event that came in between. A capture that ends after a reset is
  recorded in the cleared cache: the tree of the old device can be what an observation
  of the next one falls back on.
* Daemon: `server.listen` follows the publication without looking at `draining`
  (mcp/daemon.ts:183), so a drain in between can leave a socket no record names.
* Session: `open` does not reconcile: viewers that stayed over a lost connection see
  nothing until the next poll or viewer. A selection that fails after the old client
  is closed leaves the dead client and the old device's observation. A
  `capture.preview` performed after its two seconds leaves the core encoding. The
  branch of `open` that reconnects resets the demand before it raises the generation;
  a poll that ends in between can take the count to -1. A native accessibility tree
  has a single identity check, after its capture; it can join a read that another
  call began before the application changed.
* Metro: the late failure of a superseded dial makes the catch of its `inspect`
  disconnect the newer, healthy session. `match` of a screen goes by key *or* name, so
  an inactive route of the same name is reported as exact. A tab of which nothing could
  be measured takes its descendants, unmeasured like itself, out of the projection, and
  `truncated` does not say so (metro.ts:898-905).
* Batches: when the observation after the inputs fails, the latest reading is labelled
  stable whatever it is (server.ts:1161-1174). After a batch that ends by waiting for an
  element that is one snapshot nobody compared with another, and the success says
  "stable post-action observation" (server.ts:1840) of a screen that was never seen to
  settle; `SuccessIsSeen` excepts exactly that. A wait that times out, an orientation that is not supported or a tap that
  does not resolve, before any input, is reported as `inputDispatched: true`. A
  destination verified earlier supersedes a later unstable observation
  (docs/protocol.md:252-255 says a later one). A visual observation that fails after
  the inputs makes `perform_actions` throw without receipts. `set_orientation` leaves
  the semantic state, so success may be claimed from a screen seen before it.
* Search: a projection's copy with the higher score replaces the native one when
  copies are merged, so a lesser native match can become the only native one and win.
  The list of five hides native rivals behind it: of two equal matches, one in the
  list and one beyond it, the first wins. Properties are stated of what is listed.
* History: the compared value of a node leaves out help, placeholder, text and
  component, so that a change in those reads as unchanged. A capture begun before a
  device switch can be kept under the new session; its delta is still relative to the
  observation that was named.
* Viewer: a comment saved in an embedded viewer is gone after switching away and back
  (README.md:361-362 says it survives; app/index.tsx:658 replaces the only state that
  has it). After a failed switch or reconnect the start-up message stays although
  frames are painted. A bitmap or animation frame that comes late paints the device
  before the switch, and a comment made before the first new frame exports that
  picture under the new identifier. A drag held over a switch, or a late answer to a
  hover, belongs to the device before. A comment saved in a browser during a switch is
  stored under the new device; the answer to a deletion is not looked at. A second
  pointer takes over the gesture; changing to annotate mode loses its `up`; after a
  failed `down` later moves are sent without one. `selectDevice` during a load leaves
  `elementTreeLoading` set; a load that was begun during a switch reconnects the old
  device; the late capture of a superseded transfer overwrites the newer one's cache.

## Not modelled

* **Process-owner monitor**: `McpDaemon` uses only its promise, that an adapter learns
  of its owner's death.
* **Preview encoder, iOS compatibility layer, AX shim, XCTest provider, probe, the
  Java side of the Android agent, adb and VideoToolbox**: most of their behaviour is
  that of frameworks or processes whose source is not here; they are environment
  actions (a frame arrives, a capture fails, a tree is answered) of the modules that
  use them. Hazards that live there and are not listed: handlers on the input queue
  (Server.swift:346), the reuse of a closed descriptor (131), a write that fails during
  shutdown (371), a rebuild of the encoder that fails (H264Encoder.swift:109).
* **The image of a visual observation** (session.ts:936) is matched by its arrival;
  no module models images on their way.
* **CLI, schemas, scripts**: no behaviour over time.
* Inside the modelled components: the switch that turns the decoder's bounded scheduling
  off, parameter sets, cancellation of accessibility operations, texts, layouts, suggestions, diagnostics, keyboard
  and wheel input, screenshots of a session, annotations' relay routes, path
  permissions and tokens.
* Collapsed or narrowed in a modelled definition, where no property depends on it:
  `BackendRegistry` publishes in one step (daemon.ts:229-237), attaches or tries again
  (handshake timeouts and identity mismatches are failures to attach), reads a lock that
  vanishes in between as one read, and takes process snapshots and the second record read
  of a prune for granted; `SemanticState` leaves the accessibility revision and the node
  limit out of its cache keys; in `ReviewSession` a viewer joins an open session and
  `devices()` does not fail; `MetroInspector` chooses among targets without platform
  support, title suffixes and Android model names; `DeviceInventory` leaves out the
  deprecated `offset` (server.ts:1012-1019); in `ReviewApp` the awaits of
  `RefreshState` and `SendToChat` are one step each, and another review's tool result
  is not received.

## Plan

The order follows how much depends on a part and how hard it is to test. Modelled:
`BackendRegistry` and `McpDaemon`; `ObservationCoordinator` and `CaptureServer`;
`Wire` to `Transport` with `CallService`; `SemanticState` and `ReviewSession`;
`MetroInspector`, `FiberTree`; `ActionBatch`, `ElementSearch`, `NativeTarget`,
`ObservationHistory`, `DeviceInventory`; `ReviewApp`, `TreeTransfer`, `PointerQueue`;
`AccessibilityObservation` and `AndroidVideo`.

Every safety property of a part is a theorem, and so is the refinement of `CallService`.

Next, as models: the path of a prepared image to its request (session.ts:936), and a
lease service as the abstract specification of `BackendRegistry` up to a misfire.
Liveness under fairness stays with TLC.
