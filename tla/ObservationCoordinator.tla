------------------------ MODULE ObservationCoordinator ------------------------
(***************************************************************************)
(* The warm-frame store of the native server                               *)
(* (native/SimViewCore/.../Observation/ObservationCoordinator.swift).      *)
(*                                                                         *)
(* Five threads share one NSCondition: the capture callback (ingest), the  *)
(* server queue (setImagePreparationPolicy, clear), any number of          *)
(* observation threads (observe) and the serial image queue                *)
(* (encodeNewest), which drops the lock while it prepares the JPEG.  What  *)
(* a thread does between taking and releasing the lock is one action.      *)
(*                                                                         *)
(* A frame is its content, a number that is new for every frame that       *)
(* differs meaningfully from the one before.  Intervals are abstracted:    *)
(* "elapsed" holds those who have seen no meaningful change for as long as *)
(* they asked for, and a deadline may pass at any moment.                  *)
(***************************************************************************)
EXTENDS Naturals, FiniteSets

CONSTANTS
    Observers,      \* threads that may be inside observe at a time
    Encoder,        \* the image queue
    Revisions,      \* the afterRevision values requests carry (0: none)
    MaxFrames,      \* bound: frames the device delivers
    MaxClears,      \* bound: calls of clear
    MaxPolicies,    \* bound: calls of setImagePreparationPolicy
    MaxRequests,    \* bound: calls of observe
    Nil

Policies == {"eagerOnChange", "onDemand"}
Contents == 1..MaxFrames
Generations == 0..(MaxClears + MaxPolicies)
Preparations == [content : Contents, revision : 0..MaxFrames, generation : Generations]

\* What is assumed of the constants; the TLC module asserts it.
ObservationAssumption ==
    /\ Encoder \notin Observers
    /\ Nil \notin Nat /\ Nil \notin Preparations
    /\ Revisions \subseteq Nat
    /\ {MaxFrames, MaxClears, MaxPolicies, MaxRequests} \subseteq Nat

VARIABLES
    policy, frame, frameRevision, changeRevision, elapsed,
    image, imageRevision, failedRevision,   \* image: preparedImage, as the content it shows
    encodeScheduled, generation,
    queued,         \* generation -> encodeNewest calls that wait on the image queue
    encoding,       \* the preparation that runs outside the lock
    observer,       \* observe: the request and, when it has returned, its answer
    used            \* the bounded calls made so far

store == <<frame, frameRevision, changeRevision, elapsed>>
prepared == <<image, imageRevision, failedRevision>>
scheduling == <<encodeScheduled, generation, queued>>
observationVars == <<policy, store, prepared, scheduling, encoding, observer, used>>

Waiters == Observers \union {Encoder}    \* those who wait for a quiet interval
Calls == {"frames", "clears", "policies", "requests"}
Bound(call) == CASE call = "frames" -> MaxFrames
                 [] call = "clears" -> MaxClears
                 [] call = "policies" -> MaxPolicies
                 [] call = "requests" -> MaxRequests

Idle == [at |-> "idle", visual |-> FALSE, after |-> 0, image |-> Nil,
         shows |-> Nil]

ObservationInit ==
    /\ policy \in Policies
    /\ frame = Nil /\ frameRevision = 0 /\ changeRevision = 0 /\ elapsed = Waiters
    /\ image = Nil /\ imageRevision = 0 /\ failedRevision = Nil
    /\ encodeScheduled = FALSE /\ generation = 0
    /\ queued = [g \in Generations |-> 0]
    /\ encoding = Nil
    /\ observer = [o \in Observers |-> Idle]
    /\ used = [c \in Calls |-> 0]

Use(call) ==
    /\ used[call] < Bound(call)
    /\ used' = [used EXCEPT ![call] = @ + 1]

\* scheduleEncode: one more encodeNewest on the image queue, for generation g.
Scheduled(q, g) == [q EXCEPT ![g] = @ + 1]

-----------------------------------------------------------------------------

(* setImagePreparationPolicy: going on-demand cancels what was scheduled,  *)
(* going eager catches up with a frame whose image is out of date.         *)
CancelsEncode(p) == p = "onDemand" /\ encodeScheduled

\* Mutant: going eager waits for the next change.
MutantNeverCatchesUp(p) == FALSE

CatchesUp(p) ==
    p = "eagerOnChange" /\ frame # Nil /\ imageRevision # changeRevision /\ ~encodeScheduled

SetPolicy(p) ==
    /\ Use("policies")
    /\ policy' = p
    /\ generation' = IF CancelsEncode(p) THEN generation + 1 ELSE generation
    /\ encodeScheduled' = IF CancelsEncode(p) THEN FALSE ELSE encodeScheduled \/ CatchesUp(p)
    /\ queued' = IF CatchesUp(p) THEN Scheduled(queued, generation) ELSE queued
    /\ UNCHANGED <<store, prepared, encoding, observer>>

(* ingest: the device delivers a frame; the first one and every one that   *)
(* differs from its predecessor is a change.                               *)
NewContent == used["frames"] + 1

Ingest ==
    /\ Use("frames")
    /\ \E changed \in IF frame = Nil THEN {TRUE} ELSE BOOLEAN :
         LET schedules == changed /\ policy = "eagerOnChange" /\ ~encodeScheduled
         IN  /\ frame' = IF changed THEN NewContent ELSE frame
             /\ frameRevision' = frameRevision + 1
             /\ changeRevision' = IF changed THEN changeRevision + 1 ELSE changeRevision
             /\ failedRevision' = IF changed THEN Nil ELSE failedRevision
             /\ elapsed' = IF changed THEN {} ELSE elapsed
             /\ encodeScheduled' = (encodeScheduled \/ schedules)
             /\ queued' = IF schedules THEN Scheduled(queued, generation) ELSE queued
    /\ UNCHANGED <<policy, image, imageRevision, generation, encoding, observer>>

\* clear: the capture stopped; every revision restarts at zero.
Clear ==
    /\ Use("clears")
    /\ frame' = Nil /\ frameRevision' = 0 /\ changeRevision' = 0 /\ elapsed' = Waiters
    /\ image' = Nil /\ imageRevision' = 0 /\ failedRevision' = Nil
    /\ encodeScheduled' = FALSE
    /\ generation' = generation + 1
    /\ UNCHANGED <<policy, queued, encoding, observer>>

\* Someone's quiet interval passes without a meaningful change.
QuietElapses(x) ==
    /\ x \notin elapsed
    /\ elapsed' = elapsed \union {x}
    /\ UNCHANGED <<policy, frame, frameRevision, changeRevision, prepared, scheduling,
                   encoding, observer, used>>

-----------------------------------------------------------------------------
(* observe                                                                 *)
ImageCurrent == image # Nil /\ imageRevision = changeRevision
Failed == failedRevision = changeRevision

\* The entry: a visual request may retry a failure that precedes it, and asks
\* for an image unless one is current or on its way.
Observe(o) ==
    LET waiting(visual, after) == [Idle EXCEPT !.at = "waiting", !.visual = visual, !.after = after]
    IN  /\ observer[o].at # "waiting"
        /\ Use("requests")
        /\ \E visual \in BOOLEAN, after \in Revisions :
             LET schedules == visual /\ ~ImageCurrent /\ ~encodeScheduled
             IN  /\ observer' = [observer EXCEPT ![o] = waiting(visual, after)]
                 /\ failedRevision' = IF visual /\ Failed THEN Nil ELSE failedRevision
                 /\ encodeScheduled' = (encodeScheduled \/ schedules)
                 /\ queued' = IF schedules THEN Scheduled(queued, generation) ELSE queued
        \* its quiet interval is measured from the last change, not from here
        /\ \E quiet \in BOOLEAN :
             elapsed' = IF quiet \/ frame = Nil THEN elapsed \union {o} ELSE elapsed \ {o}
        /\ UNCHANGED <<policy, frame, frameRevision, changeRevision, image, imageRevision,
                       generation, encoding>>

PostAction(o) == frameRevision > observer[o].after
Stable(o) == PostAction(o) /\ o \in elapsed
ImageReady(o) == ~observer[o].visual \/ ImageCurrent \/ Failed

\* What observe returns to its caller: the newest frame, with the image when it
\* is the image of that frame.
Answer(o) ==
    [Idle EXCEPT !.at = IF frameRevision = 0 THEN "unavailable" ELSE "answered",
                 !.image = IF observer[o].visual /\ imageRevision = changeRevision
                           THEN image ELSE Nil,
                 !.shows = frame]

Return(o) ==
    /\ observer' = [observer EXCEPT ![o] = Answer(o)]
    /\ UNCHANGED <<policy, store, prepared, scheduling, encoding, used>>

ReturnStable(o) ==
    /\ observer[o].at = "waiting"
    /\ Stable(o) /\ ImageReady(o)
    /\ Return(o)

DeadlinePasses(o) ==
    /\ observer[o].at = "waiting"
    /\ ~(Stable(o) /\ ImageReady(o))
    /\ Return(o)

-----------------------------------------------------------------------------
(* encodeNewest, on the serial image queue                                 *)
Dequeued(g) == [queued EXCEPT ![g] = @ - 1]

\* Mutant: encodeNewest looks at the flag only.
MutantFlagOnly(g) == ~encodeScheduled

\* A call whose schedule was cancelled, or that finds no frame, does nothing more.
Cancelled(g) == g # generation \/ ~encodeScheduled

EncodeDropped(g) ==
    /\ encoding = Nil /\ queued[g] > 0
    /\ Cancelled(g) \/ (Encoder \in elapsed /\ frame = Nil)
    /\ queued' = Dequeued(g)
    /\ encodeScheduled' = (encodeScheduled /\ Cancelled(g))
    /\ UNCHANGED <<policy, store, prepared, generation, encoding, observer, used>>

\* After the quiet interval (the call puts itself back until then) it takes the
\* newest frame and prepares it with the lock released.
EncodeBegin(g) ==
    /\ encoding = Nil /\ queued[g] > 0
    /\ ~Cancelled(g)
    /\ Encoder \in elapsed /\ frame # Nil
    /\ queued' = Dequeued(g)
    /\ encoding' = [content |-> frame, revision |-> changeRevision, generation |-> generation]
    /\ UNCHANGED <<policy, store, prepared, encodeScheduled, generation, observer, used>>

\* Mutant: the generation is not looked at again after the preparation.
MutantAlwaysCurrent == TRUE

EncodeIsCurrent == encoding.generation = generation
EncodeIsNewest == encoding.revision = changeRevision

\* The preparation was cancelled while it ran: its result is dropped.
EncodeStale ==
    /\ encoding # Nil /\ ~EncodeIsCurrent
    /\ encoding' = Nil
    /\ UNCHANGED <<policy, store, prepared, scheduling, observer, used>>

EncodeDone ==
    /\ encoding # Nil /\ EncodeIsCurrent /\ EncodeIsNewest
    /\ image' = encoding.content
    /\ imageRevision' = encoding.revision
    /\ failedRevision' = Nil
    /\ encodeScheduled' = FALSE
    /\ encoding' = Nil
    /\ UNCHANGED <<policy, store, generation, queued, observer, used>>

EncodeFailed ==
    /\ encoding # Nil /\ EncodeIsCurrent /\ EncodeIsNewest
    /\ failedRevision' = encoding.revision
    /\ encodeScheduled' = FALSE
    /\ encoding' = Nil
    /\ UNCHANGED <<policy, store, image, imageRevision, generation, queued, observer, used>>

\* Mutant: an image of an older screen is dropped and nothing is scheduled.
MutantNoSecondAttempt ==
    /\ encoding # Nil /\ EncodeIsCurrent /\ ~EncodeIsNewest
    /\ encoding' = Nil
    /\ UNCHANGED <<policy, store, prepared, scheduling, observer, used>>

\* The screen changed meanwhile: try again with the newest frame.
EncodeAgain ==
    /\ encoding # Nil /\ EncodeIsCurrent /\ ~EncodeIsNewest
    /\ queued' = Scheduled(queued, encoding.generation)
    /\ encoding' = Nil
    /\ UNCHANGED <<policy, store, prepared, encodeScheduled, generation, observer, used>>

Encode ==
    \/ \E g \in Generations : EncodeDropped(g) \/ EncodeBegin(g)
    \/ EncodeStale \/ EncodeDone \/ EncodeFailed \/ EncodeAgain

-----------------------------------------------------------------------------
ObservationNext ==
    \/ \E p \in Policies : SetPolicy(p)
    \/ Ingest
    \/ Clear
    \/ \E x \in Waiters : QuietElapses(x)
    \/ \E o \in Observers : Observe(o) \/ ReturnStable(o) \/ DeadlinePasses(o)
    \/ Encode

ObservationSpec == ObservationInit /\ [][ObservationNext]_observationVars

(* Intervals pass, the image queue runs its work and a waiting thread      *)
(* polls its condition every 25 ms.  Deadlines are not assumed to pass:    *)
(* what is promised must not need them.                                    *)
ObservationFairness ==
    /\ \A x \in Waiters : WF_observationVars(QuietElapses(x))
    /\ \A o \in Observers : WF_observationVars(ReturnStable(o))
    /\ WF_observationVars(Encode)

ObservationFairSpec == ObservationSpec /\ ObservationFairness

-----------------------------------------------------------------------------
Observations ==
    [at : {"idle", "waiting", "answered", "unavailable"}, visual : BOOLEAN,
     after : Revisions \union {0}, image : Contents \union {Nil},
     shows : Contents \union {Nil}]

\* Every variable holds a value of its kind.
ObservationTypeOK ==
    /\ policy \in Policies
    /\ frame \in Contents \union {Nil}
    /\ frameRevision \in 0..MaxFrames
    /\ changeRevision \in 0..frameRevision
    /\ elapsed \subseteq Waiters
    /\ image \in Contents \union {Nil}
    /\ imageRevision \in 0..MaxFrames
    /\ failedRevision \in 0..MaxFrames \union {Nil}
    /\ encodeScheduled \in BOOLEAN
    /\ generation \in Generations
    /\ queued \in [Generations -> Nat]
    /\ encoding \in Preparations \union {Nil}
    /\ observer \in [Observers -> Observations]
    /\ used \in [Calls -> Nat]

(* An answer that carries an image carries the image of the very frame its *)
(* metadata describe: neither an older screen, nor one from before the     *)
(* capture restarted, whose revision numbers repeat.                       *)
AnswerImageMatches ==
    \A o \in Observers : observer[o].image # Nil => observer[o].image = observer[o].shows

(* The image queue holds one live preparation exactly when one is marked   *)
(* as scheduled: a cancelled one never revives beside its successor, and   *)
(* none is lost while the flag keeps others from scheduling it.            *)
LiveTasks == queued[generation] + (IF encoding # Nil /\ EncodeIsCurrent THEN 1 ELSE 0)

OnePreparation == LiveTasks = IF encodeScheduled THEN 1 ELSE 0

(* While images are prepared eagerly, a request is answered without        *)
(* reaching its deadline once a frame it may return has arrived: none      *)
(* stays in such a wait.  (Requests are finitely many.)                    *)
EagerObserverAnswered ==
    ~<>[](\E o \in Observers :
            policy = "eagerOnChange" /\ observer[o].at = "waiting" /\ PostAction(o))

(* While images are prepared eagerly, the newest screen ends up with its   *)
(* image or with a failed attempt, however frames and restarts interleave. *)
EagerImageSettles ==
    <>[](policy = "eagerOnChange" /\ frame # Nil) => <>[](ImageCurrent \/ Failed)

(* "Prove the first visual request prepares and returns one image within   *)
(* its deadline" (plans/deferred-performance-reliability.md:109, on-demand *)
(* preparation): a visual request does not sit out its deadline over a     *)
(* frame it may return.                                                    *)
OnDemandObserverAnswered ==
    \A o \in Observers :
        ~<>[](/\ policy = "onDemand" /\ observer[o].at = "waiting" /\ observer[o].visual
              /\ PostAction(o))
=============================================================================
