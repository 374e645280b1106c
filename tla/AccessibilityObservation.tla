---------------------- MODULE AccessibilityObservation ----------------------
(***************************************************************************)
(* accessibility.observe on the core: dispatchAccessibility on the server  *)
(* queue, the worker's serial queue, and the coordinator in which a        *)
(* request waits for the element tree to change and to settle              *)
(* (SimViewCore/Accessibility/AccessibilityObservationCoordinator.swift,   *)
(* AccessibilityWorker.swift, Server.swift).                               *)
(*                                                                         *)
(* The worker serves one request at a time, so there is one; what runs     *)
(* beside it are the device's callbacks (markEvent), the server queue,     *)
(* which resets the coordinator whenever demand or device change, and the  *)
(* screen.  The coordinator's lock is released between any two steps here. *)
(* Time counts from the start of the request in units of a poll: a change  *)
(* known before counts as one at the start (quietAnchor).  Scope and node  *)
(* limit are one value; what only describes an answer (strategy, source,   *)
(* counts, dates) is left out.                                             *)
(***************************************************************************)
EXTENDS Integers

CONSTANTS
    Strategies,         \* of {"ios-axp", "snapshot-diff"}
    Scopes,             \* scope and node limit of a request
    Quiets, MaxWaits,      \* settleQuietMs and maxWaitMs of a request
    ProbeDelay, InitialPoll, MaximumPoll,   \* intervals of the same names
    Overrun,            \* bound: how far the clock runs past a deadline
    MaxObserves, MaxScreens,    \* bounds
    MaxDisturbances     \* bound: events, resets and changes of the device

\* What is assumed of the constants; the TLC module asserts it.
AccessibilityAssumption ==
    /\ Strategies \subseteq {"ios-axp", "snapshot-diff"}
    /\ Quiets \subseteq Nat \ {0} /\ MaxWaits \subseteq Nat
    /\ {ProbeDelay, InitialPoll, MaximumPoll} \subseteq Nat \ {0}
    /\ {Overrun, MaxObserves, MaxScreens, MaxDisturbances} \subseteq Nat

VARIABLES
    screen,             \* what the selected device shows
    deviceGeneration,   \* of the server; a device is named by it
    coordinator,        \* see NoTree
    request,            \* the request on the worker, see NoRequest
    step,               \* where it is
    clock,
    answer,             \* the last answer, until the next request; see NoAnswer
    observes, disturbances  \* counters of what is bounded

accessibilityVars ==
    <<screen, deviceGeneration, coordinator, request, step, clock, answer, observes, disturbances>>

Never == -1
NoTree == [device |-> Never, scope |-> Never, screen |-> Never]

\* revision, latestSnapshot with its scope, lastChangedAt, generation.
NoCoordinator == [revision |-> 0, latest |-> NoTree, changedAt |-> 0, generation |-> 0]

\* What was asked for; the device and the coordinator's generation it began with; the
\* tree known then; the last capture's purpose, when it was decided and what it read;
\* whether a change was seen, when a changed tree was; captures of iOS's fallback;
\* the poll; and of the answer to come whether the tree is stable, or the error.
\* "own" is whether the tree was captured for this request, "late" how many captures
\* it began after its deadline.
NoRequest == [strategy |-> "snapshot-diff", after |-> Never, scope |-> Never, quiet |-> 0,
              wait |-> 0, requireChange |-> TRUE, device |-> Never, generation |-> 0,
              known |-> NoTree, purpose |-> "none", decidedAt |-> 0, read |-> NoTree,
              tree |-> NoTree, changed |-> FALSE, detectedAt |-> Never, probes |-> 0,
              pollAt |-> 0, interval |-> 0, stable |-> FALSE, error |-> "none",
              revision |-> 0, own |-> FALSE, late |-> 0]

NoAnswer == [kind |-> "none", revision |-> 0, tree |-> NoTree, known |-> NoTree, own |-> FALSE,
             changed |-> FALSE, stable |-> FALSE, device |-> Never]

AccessibilityInit ==
    /\ screen = 0 /\ deviceGeneration = 0
    /\ coordinator = NoCoordinator
    /\ request = NoRequest /\ step = "idle" /\ clock = 0
    /\ answer = NoAnswer
    /\ observes = 0 /\ disturbances = 0

-----------------------------------------------------------------------------
(* The coordinator's state.                                                *)
Reset(k) == [NoCoordinator EXCEPT !.generation = k.generation + 1]

Changed(k) == [k EXCEPT !.revision = @ + 1, !.changedAt = clock]

Recorded(k, tree) ==
    IF k.latest # tree THEN [Changed(k) EXCEPT !.latest = tree] ELSE k

Cached(k, scope) == IF k.latest.scope = scope THEN k.latest ELSE NoTree

-----------------------------------------------------------------------------
(* What happens beside the request.                                        *)
Disturbs == disturbances < MaxDisturbances /\ disturbances' = disturbances + 1

MarkEvent ==
    /\ Disturbs
    /\ coordinator' = Changed(coordinator)
    /\ UNCHANGED <<screen, deviceGeneration, request, step, clock, answer, observes>>

ScreenChanges ==
    /\ screen < MaxScreens /\ screen' = screen + 1
    /\ UNCHANGED <<deviceGeneration, coordinator, request, step, clock, answer, observes,
                   disturbances>>

\* startCapture, stopCapture and reconcileCaptureDemand of the device in use.
DemandChanges ==
    /\ Disturbs
    /\ coordinator' = Reset(coordinator)
    /\ UNCHANGED <<screen, deviceGeneration, request, step, clock, answer, observes>>

SelectDevice ==
    /\ Disturbs
    /\ deviceGeneration' = deviceGeneration + 1
    /\ coordinator' = Reset(coordinator)
    /\ UNCHANGED <<screen, request, step, clock, answer, observes>>

\* Time passes while the worker waits, captures or is not scheduled.
Tick ==
    /\ step \in {"enter", "loop", "decide", "read", "record"} /\ clock < request.wait + Overrun
    /\ clock' = clock + 1
    /\ UNCHANGED <<screen, deviceGeneration, coordinator, request, step, answer, observes,
                   disturbances>>

-----------------------------------------------------------------------------
(* From the server queue to the worker and back: dispatchAccessibility.     *)
Submit ==
    /\ step = "idle" /\ observes < MaxObserves /\ observes' = observes + 1
    /\ \E strategy \in Strategies, scope \in Scopes, quiet \in Quiets, wait \in MaxWaits,
          requireChange \in BOOLEAN, after \in {Never, answer.revision} :
          request' = [NoRequest EXCEPT
              !.strategy = strategy, !.after = after, !.scope = scope, !.quiet = quiet,
              !.wait = wait, !.requireChange = requireChange, !.device = deviceGeneration]
    /\ step' = "submitted" /\ clock' = 0
    /\ answer' = [NoAnswer EXCEPT !.revision = answer.revision]
    /\ UNCHANGED <<screen, deviceGeneration, coordinator, disturbances>>

Capture(r, purpose) ==
    /\ step' = "read"
    /\ request' = [r EXCEPT !.purpose = purpose, !.decidedAt = clock, !.own = TRUE,
                            !.late = @ + (IF step = "decide" /\ clock >= r.wait THEN 1 ELSE 0)]

FailWith(error) == step' = "complete" /\ request' = [request EXCEPT !.error = error]

AnswerWith(r) == step' = "result" /\ request' = r

\* Whether the device a request was dispatched for is still the one in use: isCurrent
\* before the operation, the completion after it, both on the server queue.
\* Mutant: the device is not looked at.
MutantAnyDevice(r) == TRUE
StillSelected(r) == r.device = deviceGeneration

StartIfCurrent ==
    /\ step = "submitted"
    /\ IF StillSelected(request) THEN step' = "begin" /\ UNCHANGED request
       ELSE FailWith("DEVICE_MISMATCH")
    /\ UNCHANGED <<screen, deviceGeneration, coordinator, clock, answer, observes, disturbances>>

\* The beginning of observe.
BeginObserve ==
    /\ step = "begin"
    /\ coordinator' = [coordinator EXCEPT !.changedAt = 0]
    /\ LET known == Cached(coordinator, request.scope)
           begun == [request EXCEPT !.generation = coordinator.generation, !.known = known] IN
       IF request.after = Never THEN Capture([begun EXCEPT !.known = NoTree], "baseline")
       ELSE IF known = NoTree THEN Capture(begun, "materialize")
       ELSE step' = "enter" /\ request' = begun
    /\ UNCHANGED <<screen, deviceGeneration, clock, answer, observes, disturbances>>

\* The server queue looks at the device once more before it sends the answer.
Complete ==
    /\ step = "complete" /\ step' = "idle"
    /\ answer' =
          IF request.error # "none" \/ ~StillSelected(request)
          THEN [NoAnswer EXCEPT !.kind = "error", !.revision = answer.revision]
          ELSE [NoAnswer EXCEPT
                  !.kind = "result", !.revision = request.revision, !.tree = request.tree,
                  !.known = request.known, !.own = request.own, !.changed = request.changed,
                  !.stable = request.stable, !.device = deviceGeneration]
    /\ request' = NoRequest
    /\ UNCHANGED <<screen, deviceGeneration, coordinator, clock, observes, disturbances>>

-----------------------------------------------------------------------------
(* A capture: the tree is read while events arrive, then recorded.          *)
Read ==
    /\ step = "read"
    /\ \/ /\ step' = "record"
          /\ request' = [request EXCEPT !.read =
                [device |-> request.device, scope |-> request.scope, screen |-> screen]]
       \/ FailWith("ACCESSIBILITY_UNAVAILABLE")
    /\ UNCHANGED <<screen, deviceGeneration, coordinator, clock, answer, observes, disturbances>>

\* Mutant: a tree that still changes is captured again whatever the time.
MutantConfirmsForever(r, differs) == differs
ConfirmsAgain(r, differs) ==
    differs /\ (IF r.strategy = "ios-axp" THEN r.decidedAt ELSE clock) < r.wait

\* Mutant: only events count as changes.
MutantEventsOnly(r, differs) == r
Diffed(r, differs) == [r EXCEPT !.changed = @ \/ differs]

\* What follows a capture, by its purpose; "differs" is what recordSnapshot returned.
Continue(r, differs) ==
    CASE r.purpose = "baseline" -> AnswerWith([r EXCEPT !.stable = TRUE])
      [] r.purpose = "materialize" -> step' = "enter" /\ request' = r
      [] r.purpose = "settled" -> AnswerWith([Diffed(r, differs) EXCEPT !.stable = TRUE])
      [] r.purpose = "deadline" -> AnswerWith(Diffed(r, differs))
      [] r.purpose = "confirm" ->
            IF ConfirmsAgain(r, differs)
            THEN step' = "loop" /\ request' = [r EXCEPT !.detectedAt = clock]
            ELSE AnswerWith([r EXCEPT !.changed = TRUE, !.stable = ~differs])
      [] r.purpose = "probe" ->
            /\ step' = "loop"
            /\ request' = [r EXCEPT !.detectedAt = IF differs THEN clock ELSE Never]
      [] r.purpose = "poll" /\ (differs \/ r.requireChange) ->
            /\ step' = "loop"
            /\ request' =
                  IF differs THEN [r EXCEPT !.changed = TRUE, !.detectedAt = clock]
                  ELSE LET interval == IF 2 * r.interval < MaximumPoll THEN 2 * r.interval
                                       ELSE MaximumPoll IN
                       [r EXCEPT !.interval = interval, !.pollAt = clock + interval]
      [] r.purpose = "poll" /\ ~differs /\ ~r.requireChange -> AnswerWith([r EXCEPT !.stable = TRUE])

Record ==
    /\ step = "record"
    /\ coordinator' = Recorded(coordinator, request.read)
    /\ Continue([request EXCEPT !.tree = request.read, !.read = NoTree], coordinator.latest # request.read)
    /\ UNCHANGED <<screen, deviceGeneration, clock, answer, observes, disturbances>>

-----------------------------------------------------------------------------
(* The two loops.  The generation is compared under a lock of its own.      *)
Enter ==
    /\ step = "enter"
    /\ LET tree == Cached(coordinator, request.scope)
           quiet == IF request.requireChange THEN 0 ELSE request.quiet IN
       IF tree = NoTree
       THEN step' = "trapped" /\ UNCHANGED request
       ELSE /\ step' = "loop"
            /\ request' = [request EXCEPT !.tree = tree, !.interval = InitialPoll,
                              !.pollAt = IF quiet > InitialPoll THEN quiet ELSE InitialPoll]
    /\ UNCHANGED <<screen, deviceGeneration, coordinator, clock, answer, observes, disturbances>>

Loop ==
    /\ step = "loop"
    /\ IF request.generation # coordinator.generation
       THEN FailWith("ACCESSIBILITY_RESET")
       ELSE step' = "decide" /\ UNCHANGED request
    /\ UNCHANGED <<screen, deviceGeneration, coordinator, clock, answer, observes, disturbances>>

Expired == clock >= request.wait
EventChanged == coordinator.revision > request.after
KeepsWaiting == step' = "loop" /\ UNCHANGED request

\* observeEventDriven, of a request that may still be answered.
UsesFallback == request.requireChange
Quiescent == clock >= coordinator.changedAt + request.quiet
Awaited == (~request.requireChange \/ EventChanged) /\ Quiescent
ProbeDue == clock >= (IF request.quiet > ProbeDelay THEN request.quiet ELSE ProbeDelay)
FallbackCapture(purpose) ==
    Capture([request EXCEPT !.probes = @ + 1, !.changed = EventChanged], purpose)

MayProbe == UsesFallback /\ request.probes < 2

DecideOnEvents ==
    LET r == [request EXCEPT !.changed = EventChanged] IN
    CASE request.detectedAt # Never ->
            IF Expired \/ clock >= request.detectedAt + request.quiet
            THEN FallbackCapture("confirm") ELSE KeepsWaiting
      [] request.detectedAt = Never /\ Awaited -> Capture(r, "settled")
      [] request.detectedAt = Never /\ ~Awaited /\ Expired ->
            IF MayProbe THEN FallbackCapture("deadline") ELSE AnswerWith(r)
      [] request.detectedAt = Never /\ ~Awaited /\ ~Expired ->
            IF UsesFallback /\ ~EventChanged /\ request.probes = 0 /\ ProbeDue
            THEN FallbackCapture("probe") ELSE KeepsWaiting

\* observeSnapshotDiff.
DecideOnSnapshots ==
    CASE request.detectedAt # Never ->
            IF clock >= request.detectedAt + request.quiet THEN Capture(request, "confirm")
            ELSE IF Expired THEN AnswerWith(request)
            ELSE KeepsWaiting
      [] request.detectedAt = Never /\ Expired ->
            AnswerWith([request EXCEPT !.changed = @ \/ EventChanged,
                        !.stable = ~request.requireChange /\ clock >= request.quiet])
      [] request.detectedAt = Never /\ ~Expired ->
            IF clock >= request.pollAt THEN Capture(request, "poll") ELSE KeepsWaiting

Decide ==
    /\ step = "decide"
    /\ IF request.strategy = "ios-axp" THEN DecideOnEvents ELSE DecideOnSnapshots
    /\ UNCHANGED <<screen, deviceGeneration, coordinator, clock, answer, observes, disturbances>>

\* The revision is read when the answer is made, not when the tree was.
Result ==
    /\ step = "result" /\ step' = "complete"
    /\ request' = [request EXCEPT !.revision = coordinator.revision]
    /\ UNCHANGED <<screen, deviceGeneration, coordinator, clock, answer, observes, disturbances>>

\* A trap ends the process.
AccessibilityNext ==
    /\ step # "trapped"
    /\ \/ MarkEvent \/ ScreenChanges \/ DemandChanges \/ SelectDevice \/ Tick
       \/ Submit \/ StartIfCurrent \/ BeginObserve \/ Read \/ Record
       \/ Enter \/ Loop \/ Decide \/ Result \/ Complete

AccessibilitySpec == AccessibilityInit /\ [][AccessibilityNext]_accessibilityVars

-----------------------------------------------------------------------------
AccessibilityTypeOK ==
    /\ step \in {"idle", "submitted", "begin", "read", "record", "enter", "loop", "decide", "result",
                 "complete", "trapped"}
    /\ request.probes \in 0..3 /\ request.interval \in 0..MaximumPoll
    /\ {coordinator.latest, request.tree, request.read} \subseteq
          [device : Nat, scope : Scopes, screen : Nat] \cup {NoTree}
    /\ answer.kind \in {"none", "result", "error"}

\* An answer that reports no change carries the tree that was known when its request
\* began: whichever of events, probes, polls and the deadline ended it, a caller that
\* goes on with the old tree has missed nothing that was captured.
UnchangedTreeIsTheSame ==
    answer.kind = "result" /\ ~answer.changed /\ answer.known # NoTree =>
        answer.tree = answer.known

\* A tree that was captured for a request is of the device in use when it is answered,
\* although the device may be changed at any time of the seconds the request takes.
AnswerIsOfItsDevice == answer.kind = "result" /\ answer.own => answer.tree.device = answer.device

\* An answer without a change carries the tree known before, and a tree captured for a
\* request is of the device in use when it is answered.
ObservedTreeIsAsReported == UnchangedTreeIsTheSame /\ AnswerIsOfItsDevice

\* A request begins at most one capture once its deadline has passed: a tree that never
\* settles does not hold the worker, on which every other request waits.
DeadlineBoundsCaptures == request.late <= 1

\* A reset is reported to the request it meets (ProtocolTests.swift:598-635): it does
\* not end the process.
ResetIsReported == step # "trapped"
=============================================================================
