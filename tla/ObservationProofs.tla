-------------------------- MODULE ObservationProofs --------------------------
(***************************************************************************)
(* What ObservationCoordinator promises whatever the number of observers,  *)
(* frames, restarts and policy switches: an answer carries the image of    *)
(* the screen it describes, and one preparation is live exactly while one  *)
(* is marked as scheduled; and what AccessibilityObservation promises of   *)
(* the answers of the operation beside it, accessibility.observe.          *)
(***************************************************************************)
EXTENDS ObservationCoordinator, AccessibilityObservation, TLAPS

-----------------------------------------------------------------------------
(* The inductive invariant.                                                *)

\* No call is made more often than its bound.
CallsInv == \A c \in Calls : used[c] <= Bound(c)

\* Generations grow, by at most one for each call that cancels; only the
\* current one and its predecessors were ever given to the image queue.
GenerationInv ==
    /\ generation <= used["clears"] + used["policies"]
    /\ \A g \in Generations : g > generation => queued[g] = 0
    /\ encoding # Nil => encoding.generation <= generation

\* The revisions count the frames of this capture; an image that claims the
\* revision of the newest frame shows that frame, whether it is stored or
\* still being prepared by a preparation that nobody cancelled.
PictureInv ==
    /\ frame = Nil <=> changeRevision = 0
    /\ frameRevision <= used["frames"]
    /\ image = Nil <=> imageRevision = 0
    /\ imageRevision <= changeRevision
    /\ imageRevision = changeRevision => image = frame
    /\ (encoding # Nil /\ EncodeIsCurrent) =>
          /\ encoding.revision \in 1..changeRevision
          /\ encoding.revision = changeRevision => encoding.content = frame

IInv ==
    /\ ObservationTypeOK /\ CallsInv /\ GenerationInv
    /\ OnePreparation /\ PictureInv /\ AnswerImageMatches

-----------------------------------------------------------------------------
LEMMA BoundsAreNaturals ==
    ASSUME ObservationAssumption
    PROVE  /\ MaxFrames \in Nat /\ MaxClears \in Nat /\ MaxPolicies \in Nat
           /\ MaxRequests \in Nat /\ 0 \in Generations /\ Nil \notin Nat
BY DEF ObservationAssumption, Generations

LEMMA GenerationsAre ==
    ASSUME ObservationAssumption
    PROVE  \A g : g \in Generations <=> g \in Nat /\ g <= MaxClears + MaxPolicies
BY BoundsAreNaturals DEF Generations

LEMMA Initially == ASSUME ObservationAssumption, ObservationInit PROVE IInv
<1> USE DEF ObservationInit
<1>1. Idle \in Observations
  BY DEF Idle, Observations
<1>2. ObservationTypeOK
  <2>1. changeRevision \in 0..frameRevision /\ imageRevision \in 0..MaxFrames
    BY BoundsAreNaturals
  <2>2. queued \in [Generations -> Nat] /\ used \in [Calls -> Nat]
    OBVIOUS
  <2>3. observer \in [Observers -> Observations]
    BY <1>1
  <2> QED
    BY <2>1, <2>2, <2>3, BoundsAreNaturals DEF ObservationTypeOK
<1>3. CallsInv
  BY BoundsAreNaturals DEF CallsInv, Calls, Bound
<1>4. GenerationInv /\ OnePreparation
  BY BoundsAreNaturals DEF GenerationInv, OnePreparation, LiveTasks, Calls
<1>5. PictureInv
  BY DEF PictureInv, Calls
<1>6. AnswerImageMatches
  BY DEF AnswerImageMatches, Idle
<1> QED
  BY <1>2, <1>3, <1>4, <1>5, <1>6 DEF IInv

\* Calls that are counted stay within their bounds.
LEMMA UseCounts ==
    ASSUME ObservationAssumption, IInv, NEW call \in Calls, Use(call)
    PROVE  /\ CallsInv'
           /\ used' \in [Calls -> Nat]
           /\ used[call] \in Nat /\ used'[call] = used[call] + 1
           /\ used[call] + 1 <= Bound(call)
           /\ \A c \in Calls : c # call => used'[c] = used[c]
<1>1. used \in [Calls -> Nat] /\ CallsInv
  BY DEF IInv, ObservationTypeOK
<1>2. \A c \in Calls : Bound(c) \in Nat
  BY DEF Calls, Bound, ObservationAssumption
<1>3. used' = [used EXCEPT ![call] = used[call] + 1] /\ used[call] < Bound(call)
  BY DEF Use
<1>4. used' \in [Calls -> Nat] /\ used[call] \in Nat
  BY <1>1, <1>3
<1>5. used'[call] = used[call] + 1 /\ \A c \in Calls : c # call => used'[c] = used[c]
  BY <1>1, <1>3
<1>6. used[call] + 1 <= Bound(call)
  BY <1>2, <1>3, <1>4
<1>7. ASSUME NEW c \in Calls PROVE used'[c] <= Bound(c)'
  BY <1>1, <1>5, <1>6 DEF CallsInv, Bound
<1> QED
  BY <1>4, <1>5, <1>6, <1>7 DEF CallsInv

\* One more preparation for a generation leaves the others as they are.
LEMMA ScheduledCounts ==
    ASSUME NEW q \in [Generations -> Nat], NEW g \in Generations
    PROVE  /\ Scheduled(q, g) \in [Generations -> Nat]
           /\ Scheduled(q, g)[g] = q[g] + 1
           /\ \A h \in Generations : h # g => Scheduled(q, g)[h] = q[h]
BY DEF Scheduled

\* Nothing changes for the live preparations, or one is scheduled.
LEMMA SameTasks ==
    ASSUME OnePreparation, encoding' = encoding, EncodeIsCurrent' <=> EncodeIsCurrent,
           queued'[generation'] = queued[generation], encodeScheduled' <=> encodeScheduled
    PROVE  OnePreparation'
BY DEF OnePreparation, LiveTasks

LEMMA OneMoreTask ==
    ASSUME ObservationTypeOK, OnePreparation,
           encoding' = encoding, EncodeIsCurrent' <=> EncodeIsCurrent,
           queued'[generation'] = queued[generation] + 1, encodeScheduled', ~encodeScheduled
    PROVE  OnePreparation'
<1>1. queued[generation] \in Nat
  BY DEF ObservationTypeOK
<1>2. queued[generation] = 0 /\ ~(encoding # Nil /\ EncodeIsCurrent)
  BY <1>1 DEF OnePreparation, LiveTasks
<1> QED
  BY <1>2 DEF OnePreparation, LiveTasks

-----------------------------------------------------------------------------
(* setImagePreparationPolicy, ingest and clear.                            *)

LEMMA SetPolicyKeeps ==
    ASSUME ObservationAssumption, IInv, NEW p \in Policies, SetPolicy(p)
    PROVE  IInv'
<1> USE BoundsAreNaturals DEF IInv, ObservationTypeOK
<1>1. "policies" \in Calls /\ "clears" \in Calls /\ "frames" \in Calls /\ Use("policies")
  BY DEF Calls, SetPolicy
<1>2. CallsInv' /\ used' \in [Calls -> Nat]
      /\ used'["policies"] = used["policies"] + 1 /\ used["policies"] + 1 <= MaxPolicies
      /\ used'["clears"] = used["clears"] /\ used["clears"] <= MaxClears
      /\ used'["frames"] = used["frames"]
      /\ used["policies"] \in Nat /\ used["clears"] \in Nat
  BY <1>1, UseCounts DEF Bound, CallsInv
<1>3. UNCHANGED <<frame, frameRevision, changeRevision, elapsed, image, imageRevision,
                  failedRevision, encoding, observer>> /\ policy' = p
  BY DEF SetPolicy, store, prepared
<1>4. CASE CancelsEncode(p)
  <2>1. generation' = generation + 1 /\ encodeScheduled' = FALSE /\ queued' = queued
    BY <1>4 DEF SetPolicy, CancelsEncode, CatchesUp
  <2>2. generation + 1 \in Generations /\ generation + 1 <= used'["clears"] + used'["policies"]
    <3>1. generation \in Nat /\ generation <= used["clears"] + used["policies"]
      BY GenerationsAre DEF GenerationInv
    <3>2. generation + 1 <= used'["clears"] + used'["policies"]
      BY <1>2, <3>1
    <3> HIDE DEF IInv, ObservationTypeOK
    <3>3. generation + 1 <= MaxClears + MaxPolicies
      BY <1>2, <3>1
    <3> QED
      BY <3>1, <3>2, <3>3, GenerationsAre
  <2>3. queued[generation + 1] = 0
    BY <2>2, GenerationsAre DEF GenerationInv
  <2>4. ObservationTypeOK'
    BY <1>2, <1>3, <2>1, <2>2
  <2>5. ~(encoding # Nil /\ EncodeIsCurrent)'
    BY <1>3, <2>1 DEF GenerationInv, EncodeIsCurrent, Generations, Preparations
  <2>6. GenerationInv'
    <3>1. \A g \in Generations : g > generation + 1 => queued[g] = 0
      BY GenerationsAre DEF GenerationInv
    <3>2. encoding # Nil => encoding.generation <= generation + 1
      BY GenerationsAre DEF GenerationInv, Preparations
    <3> QED
      BY <1>3, <2>1, <2>2, <3>1, <3>2 DEF GenerationInv
  <2>7. OnePreparation'
    BY <2>1, <2>3, <2>5 DEF OnePreparation, LiveTasks
  <2>8. PictureInv' /\ AnswerImageMatches'
    BY <1>2, <1>3, <2>5 DEF PictureInv, AnswerImageMatches
  <2> QED
    BY <1>2, <2>4, <2>6, <2>7, <2>8
<1>5. CASE ~CancelsEncode(p)
  <2>1. generation' = generation
    BY <1>5 DEF SetPolicy
  <2>0. encodeScheduled' = (encodeScheduled \/ CatchesUp(p))
    BY <1>5 DEF SetPolicy
  <2>2. queued' = IF CatchesUp(p) THEN Scheduled(queued, generation) ELSE queued
    BY DEF SetPolicy
  <2>3. /\ queued' \in [Generations -> Nat]
        /\ \A g \in Generations : g # generation => queued'[g] = queued[g]
        /\ CatchesUp(p) => queued'[generation] = queued[generation] + 1
        /\ ~CatchesUp(p) => queued'[generation] = queued[generation]
    BY <2>2, ScheduledCounts
  <2>4. ObservationTypeOK'
    BY <1>2, <1>3, <2>1, <2>0, <2>3
  <2>5. EncodeIsCurrent' <=> EncodeIsCurrent
    BY <1>3, <2>1 DEF EncodeIsCurrent
  <2>6. GenerationInv'
    <3>1. generation' <= used'["clears"] + used'["policies"]
      BY <1>2, <2>1, GenerationsAre DEF GenerationInv
    <3>2. \A g \in Generations : g > generation => queued'[g] = 0
      BY <2>3, GenerationsAre DEF GenerationInv
    <3> QED
      BY <1>3, <2>1, <3>1, <3>2 DEF GenerationInv
  <2>7. CatchesUp(p) => ~encodeScheduled
    BY DEF CatchesUp
  <2>8. OnePreparation'
    <3> HIDE DEF IInv, ObservationTypeOK
    <3>1. CASE CatchesUp(p)
      <4>1. queued'[generation'] = queued[generation] + 1
        BY <2>1, <2>3, <3>1
      <4>2. encodeScheduled' /\ ~encodeScheduled
        BY <2>0, <2>7, <3>1, Zenon
      <4> QED
        BY <1>3, <2>5, <4>1, <4>2, OneMoreTask DEF IInv
    <3>2. CASE ~CatchesUp(p)
      <4>1. queued'[generation'] = queued[generation]
        BY <2>1, <2>3, <3>2 DEF IInv, ObservationTypeOK
      <4>2. encodeScheduled' <=> encodeScheduled
        BY <2>0, <3>2, Zenon
      <4> QED
        BY <1>3, <2>5, <4>1, <4>2, SameTasks DEF IInv
    <3> QED
      BY <3>1, <3>2
  <2>9. PictureInv' /\ AnswerImageMatches'
    BY <1>2, <1>3, <2>5 DEF PictureInv, AnswerImageMatches
  <2> QED
    BY <1>2, <2>4, <2>6, <2>8, <2>9
<1> QED
  BY <1>4, <1>5

LEMMA IngestKeeps ==
    ASSUME ObservationAssumption, IInv, Ingest
    PROVE  IInv'
<1> USE BoundsAreNaturals DEF IInv, ObservationTypeOK
<1>1. "policies" \in Calls /\ "clears" \in Calls /\ "frames" \in Calls /\ Use("frames")
  BY DEF Calls, Ingest
<1>2. /\ CallsInv' /\ used' \in [Calls -> Nat]
      /\ used'["frames"] = used["frames"] + 1 /\ used["frames"] + 1 <= MaxFrames
      /\ used'["clears"] = used["clears"] /\ used'["policies"] = used["policies"]
      /\ used["frames"] \in Nat
  BY <1>1, UseCounts DEF Bound
<1>3. UNCHANGED <<policy, image, imageRevision, generation, encoding, observer>>
  BY DEF Ingest
<1>4. frameRevision' = frameRevision + 1 /\ frameRevision' \in 0..MaxFrames
      /\ frameRevision' <= used'["frames"]
  BY <1>2 DEF Ingest, PictureInv
<1>5. EncodeIsCurrent' <=> EncodeIsCurrent
  BY <1>3 DEF EncodeIsCurrent
<1>6. PICK changed \in BOOLEAN :
         /\ frame = Nil => changed
         /\ frame' = IF changed THEN NewContent ELSE frame
         /\ changeRevision' = IF changed THEN changeRevision + 1 ELSE changeRevision
         /\ failedRevision' = IF changed THEN Nil ELSE failedRevision
         /\ elapsed' = IF changed THEN {} ELSE elapsed
         /\ encodeScheduled' =
               (encodeScheduled \/ (changed /\ policy = "eagerOnChange" /\ ~encodeScheduled))
         /\ queued' = IF changed /\ policy = "eagerOnChange" /\ ~encodeScheduled
                      THEN Scheduled(queued, generation) ELSE queued
  BY DEF Ingest
<1> DEFINE schedules == changed /\ policy = "eagerOnChange" /\ ~encodeScheduled
<1>7. /\ queued' \in [Generations -> Nat]
      /\ schedules => queued'[generation] = queued[generation] + 1
      /\ ~schedules => queued'[generation] = queued[generation]
      /\ \A g \in Generations : g # generation => queued'[g] = queued[g]
  BY <1>6, ScheduledCounts
<1>8. OnePreparation'
  <2>1. CASE schedules
    BY <1>3, <1>5, <1>6, <1>7, <2>1, OneMoreTask
  <2>2. CASE ~schedules
    <3>1. encodeScheduled' <=> encodeScheduled
      BY <1>6, <2>2, Zenon
    <3> QED
      BY <1>3, <1>5, <1>7, <2>2, <3>1, SameTasks
  <2> QED
    BY <2>1, <2>2
<1>9. GenerationInv'
  BY <1>2, <1>3, <1>7, GenerationsAre DEF GenerationInv
<1>10. NewContent \in Contents /\ NewContent # Nil
  BY <1>2 DEF NewContent, Contents
<1>11. frame' \in Contents \union {Nil} /\ changeRevision' \in 0..frameRevision'
       /\ failedRevision' \in 0..MaxFrames \union {Nil} /\ elapsed' \subseteq Waiters
  BY <1>4, <1>6, <1>10
<1>12. ObservationTypeOK'
  <2>1. encodeScheduled' \in BOOLEAN
    BY <1>6
  <2> QED
    BY <1>2, <1>3, <1>4, <1>7, <1>11, <2>1
<1>13. PictureInv'
  <2>1. CASE changed
    <3>1. frame' = NewContent /\ changeRevision' = changeRevision + 1
      BY <1>6, <2>1
    <3> QED
      BY <1>3, <1>4, <1>5, <1>10, <3>1 DEF PictureInv
  <2>2. CASE ~changed
    BY <1>3, <1>4, <1>5, <1>6, <2>2 DEF PictureInv
  <2> QED
    BY <2>1, <2>2
<1>14. AnswerImageMatches'
  BY <1>3 DEF AnswerImageMatches
<1> QED
  BY <1>2, <1>8, <1>9, <1>12, <1>13, <1>14

\* What was prepared before a restart belongs to an older generation.
LEMMA ClearKeeps ==
    ASSUME ObservationAssumption, IInv, Clear
    PROVE  IInv'
<1> USE BoundsAreNaturals DEF IInv, ObservationTypeOK
<1>1. "policies" \in Calls /\ "clears" \in Calls /\ "frames" \in Calls /\ Use("clears")
  BY DEF Calls, Clear
<1>2. /\ CallsInv' /\ used' \in [Calls -> Nat]
      /\ used'["clears"] = used["clears"] + 1 /\ used["clears"] + 1 <= MaxClears
      /\ used'["policies"] = used["policies"] /\ used["policies"] <= MaxPolicies
      /\ used["clears"] \in Nat /\ used["policies"] \in Nat /\ used'["frames"] \in Nat
  BY <1>1, UseCounts DEF Bound, CallsInv
<1>3. UNCHANGED <<policy, queued, encoding, observer>> /\ generation' = generation + 1
  BY DEF Clear
<1>4. /\ frame' = Nil /\ frameRevision' = 0 /\ changeRevision' = 0 /\ elapsed' = Waiters
      /\ image' = Nil /\ imageRevision' = 0 /\ failedRevision' = Nil
      /\ encodeScheduled' = FALSE
  BY DEF Clear
<1>5. generation \in Nat /\ generation <= used["clears"] + used["policies"]
  BY GenerationsAre DEF GenerationInv
<1>6. generation' \in Generations /\ generation' <= used'["clears"] + used'["policies"]
  <2> HIDE DEF IInv, ObservationTypeOK
  <2> QED
    BY <1>2, <1>3, <1>5, GenerationsAre
<1>7. queued'[generation'] = 0
  BY <1>3, <1>5, <1>6 DEF GenerationInv
<1>8. encoding' # Nil => encoding.generation # generation'
  BY <1>3, <1>5, GenerationsAre DEF GenerationInv, Preparations
<1>9. ObservationTypeOK'
  <2>1. changeRevision' \in 0..frameRevision' /\ frameRevision' \in 0..MaxFrames
        /\ imageRevision' \in 0..MaxFrames
    BY <1>4
  <2>2. elapsed' \subseteq Waiters /\ encodeScheduled' \in BOOLEAN
    BY <1>4
  <2> QED
    BY <1>2, <1>3, <1>4, <1>6, <2>1, <2>2
<1>10. GenerationInv'
  <2>1. \A g \in Generations : g > generation + 1 => queued[g] = 0
    BY <1>5, GenerationsAre DEF GenerationInv
  <2>2. encoding # Nil => encoding.generation <= generation + 1
    BY <1>5, GenerationsAre DEF GenerationInv, Preparations
  <2> QED
    BY <1>3, <1>6, <2>1, <2>2 DEF GenerationInv
<1>11. OnePreparation'
  BY <1>3, <1>4, <1>7, <1>8 DEF OnePreparation, LiveTasks, EncodeIsCurrent
<1>12. PictureInv'
  BY <1>2, <1>3, <1>4, <1>8 DEF PictureInv, EncodeIsCurrent
<1>13. AnswerImageMatches'
  BY <1>3 DEF AnswerImageMatches
<1> QED
  BY <1>2, <1>9, <1>10, <1>11, <1>12, <1>13

LEMMA QuietElapsesKeeps ==
    ASSUME IInv, NEW x \in Waiters, QuietElapses(x)
    PROVE  IInv'
BY DEF IInv, QuietElapses, prepared, scheduling, ObservationTypeOK, CallsInv, Bound,
       GenerationInv, OnePreparation, LiveTasks, EncodeIsCurrent, PictureInv, AnswerImageMatches

-----------------------------------------------------------------------------
(* observe.                                                                *)

LEMMA ObserveKeeps ==
    ASSUME ObservationAssumption, IInv, NEW o \in Observers, Observe(o)
    PROVE  IInv'
<1> USE BoundsAreNaturals DEF IInv, ObservationTypeOK
<1>1. "policies" \in Calls /\ "clears" \in Calls /\ "frames" \in Calls
      /\ "requests" \in Calls /\ Use("requests")
  BY DEF Calls, Observe
<1>2. /\ CallsInv' /\ used' \in [Calls -> Nat]
      /\ used'["frames"] = used["frames"] /\ used'["clears"] = used["clears"]
      /\ used'["policies"] = used["policies"]
  BY <1>1, UseCounts DEF Bound
<1>3. UNCHANGED <<policy, frame, frameRevision, changeRevision, image, imageRevision,
                  generation, encoding>>
  BY DEF Observe
<1>4. PICK visual \in BOOLEAN, after \in Revisions :
         LET schedules == visual /\ ~ImageCurrent /\ ~encodeScheduled
         IN  /\ observer' = [observer EXCEPT ![o] =
                   [Idle EXCEPT !.at = "waiting", !.visual = visual, !.after = after]]
             /\ failedRevision' = IF visual /\ Failed THEN Nil ELSE failedRevision
             /\ encodeScheduled' = (encodeScheduled \/ schedules)
             /\ queued' = IF schedules THEN Scheduled(queued, generation) ELSE queued
  BY DEF Observe
<1> DEFINE schedules == visual /\ ~ImageCurrent /\ ~encodeScheduled
<1>5. EncodeIsCurrent' <=> EncodeIsCurrent
  BY <1>3 DEF EncodeIsCurrent
<1>6. /\ queued' \in [Generations -> Nat]
      /\ schedules => queued'[generation] = queued[generation] + 1
      /\ ~schedules => queued'[generation] = queued[generation]
      /\ \A g \in Generations : g # generation => queued'[g] = queued[g]
  BY <1>4, ScheduledCounts
<1>7. OnePreparation'
  <2>1. CASE schedules
    BY <1>3, <1>4, <1>5, <1>6, <2>1, OneMoreTask
  <2>2. CASE ~schedules
    <3>1. encodeScheduled' <=> encodeScheduled
      BY <1>4, <2>2, Zenon
    <3> QED
      BY <1>3, <1>5, <1>6, <2>2, <3>1, SameTasks
  <2> QED
    BY <2>1, <2>2
<1>8. GenerationInv'
  BY <1>2, <1>3, <1>6, GenerationsAre DEF GenerationInv
<1> DEFINE asked == [Idle EXCEPT !.at = "waiting", !.visual = visual, !.after = after]
<1>9. asked \in Observations /\ asked.image = Nil
  BY DEF Idle, Observations
<1> HIDE DEF asked
<1>10. observer' = [observer EXCEPT ![o] = asked]
  BY <1>4 DEF asked
<1>11. ObservationTypeOK'
  <2>1. encodeScheduled' \in BOOLEAN /\ failedRevision' \in 0..MaxFrames \union {Nil}
    BY <1>4
  <2>2. observer' \in [Observers -> Observations]
    BY <1>9, <1>10
  <2>3. elapsed' \subseteq Waiters
    BY DEF Observe, Waiters
  <2> QED
    BY <1>2, <1>3, <1>6, <2>1, <2>2, <2>3
<1>12. PictureInv'
  BY <1>2, <1>3, <1>5 DEF PictureInv
<1>13. AnswerImageMatches'
  BY <1>9, <1>10 DEF AnswerImageMatches
<1> QED
  BY <1>2, <1>7, <1>8, <1>11, <1>12, <1>13

\* The image of an answer is the stored one, taken only when it is current.
LEMMA ReturnKeeps ==
    ASSUME ObservationAssumption, IInv, NEW o \in Observers, Return(o)
    PROVE  IInv'
<1> USE DEF IInv, ObservationTypeOK
<1>1. UNCHANGED <<policy, store, prepared, scheduling, encoding, used>>
      /\ observer' = [observer EXCEPT ![o] = Answer(o)]
  BY DEF Return
<1>2. Answer(o) \in Observations
  BY DEF Answer, Idle, Observations
<1>3. Answer(o).image # Nil => Answer(o).image = Answer(o).shows
  BY DEF Answer, Idle, PictureInv
<1>4. observer' \in [Observers -> Observations] /\ AnswerImageMatches'
  BY <1>1, <1>2, <1>3 DEF AnswerImageMatches
<1>5. ObservationTypeOK' /\ CallsInv' /\ GenerationInv' /\ OnePreparation' /\ PictureInv'
  BY <1>1, <1>4 DEF store, prepared, scheduling, CallsInv, Bound, GenerationInv,
       OnePreparation, LiveTasks, EncodeIsCurrent, PictureInv
<1> QED
  BY <1>4, <1>5

-----------------------------------------------------------------------------
(* encodeNewest.                                                           *)

LEMMA DequeuedCounts ==
    ASSUME ObservationTypeOK, NEW g \in Generations, queued[g] > 0
    PROVE  /\ Dequeued(g) \in [Generations -> Nat]
           /\ Dequeued(g)[g] = queued[g] - 1
           /\ \A h \in Generations : h # g => Dequeued(g)[h] = queued[h]
BY DEF Dequeued, ObservationTypeOK

\* A call of the image queue that does nothing more was not the live one, or
\* found no frame and unscheduled itself.
LEMMA EncodeDroppedKeeps ==
    ASSUME ObservationAssumption, IInv, NEW g \in Generations, EncodeDropped(g)
    PROVE  IInv'
<1> USE DEF IInv, ObservationTypeOK
<1>1. UNCHANGED <<policy, frame, frameRevision, changeRevision, elapsed, image, imageRevision,
                  failedRevision, generation, encoding, observer, used>>
  BY DEF EncodeDropped, store, prepared
<1>2. encoding = Nil /\ queued[g] > 0 /\ queued' = Dequeued(g)
      /\ encodeScheduled' = (encodeScheduled /\ Cancelled(g))
  BY DEF EncodeDropped
<1>3. queued' \in [Generations -> Nat] /\ encodeScheduled' \in BOOLEAN
  BY <1>2, DequeuedCounts
<1>4. GenerationInv'
  <2>1. ASSUME NEW h \in Generations, h > generation PROVE queued'[h] = 0
    BY <1>2, <2>1, DequeuedCounts DEF GenerationInv
  <2> QED
    BY <1>1, <2>1 DEF GenerationInv
<1>5. OnePreparation'
  <2>1. CASE g = generation
    <3>1. queued[generation] = 1 /\ encodeScheduled
      BY <1>2, <2>1 DEF OnePreparation, LiveTasks
    <3>2. ~encodeScheduled'
      BY <1>2, <2>1, <3>1 DEF Cancelled
    <3>3. queued'[generation] = 0
      BY <1>2, <2>1, <3>1, DequeuedCounts
    <3> QED
      BY <1>1, <1>2, <3>2, <3>3 DEF OnePreparation, LiveTasks
  <2>2. CASE g # generation
    <3>1. encodeScheduled' <=> encodeScheduled
      BY <1>2, <2>2 DEF Cancelled
    <3>2. queued'[generation] = queued[generation]
      BY <1>2, <2>2, DequeuedCounts
    <3>3. EncodeIsCurrent' <=> EncodeIsCurrent
      BY <1>1 DEF EncodeIsCurrent
    <3> QED
      BY <1>1, <3>1, <3>2, <3>3, SameTasks
  <2> QED
    BY <2>1, <2>2
<1>6. ObservationTypeOK'
  BY <1>1, <1>3
<1>7. CallsInv' /\ PictureInv' /\ AnswerImageMatches'
  BY <1>1 DEF CallsInv, Bound, PictureInv, EncodeIsCurrent, AnswerImageMatches
<1> QED
  BY <1>4, <1>5, <1>6, <1>7

LEMMA EncodeBeginKeeps ==
    ASSUME ObservationAssumption, IInv, NEW g \in Generations, EncodeBegin(g)
    PROVE  IInv'
<1> USE DEF IInv, ObservationTypeOK
<1>1. UNCHANGED <<policy, frame, frameRevision, changeRevision, elapsed, image, imageRevision,
                  failedRevision, encodeScheduled, generation, observer, used>>
  BY DEF EncodeBegin, store, prepared
<1>2. encoding = Nil /\ queued[g] > 0 /\ queued' = Dequeued(g)
      /\ g = generation /\ encodeScheduled /\ frame # Nil
  BY DEF EncodeBegin, Cancelled
<1> DEFINE task == [content |-> frame, revision |-> changeRevision, generation |-> generation]
<1>3. encoding' = task
  BY DEF EncodeBegin
<1>4. task \in Preparations
  <2>1. frame \in Contents /\ changeRevision \in 0..MaxFrames
    BY <1>2, BoundsAreNaturals
  <2> QED
    BY <2>1 DEF Preparations
<1>5. task # Nil /\ task.generation = generation /\ task.revision = changeRevision
      /\ task.content = frame
  BY <1>4 DEF ObservationAssumption
<1> HIDE DEF task
<1>6. queued' \in [Generations -> Nat]
  BY <1>2, DequeuedCounts
<1>7. GenerationInv'
  <2>1. ASSUME NEW h \in Generations, h > generation PROVE queued'[h] = 0
    BY <1>2, <2>1, GenerationsAre, DequeuedCounts DEF GenerationInv
  <2> QED
    BY <1>1, <1>3, <1>5, <2>1, GenerationsAre DEF GenerationInv
<1>8. OnePreparation'
  <2>1. queued[generation] = 1
    BY <1>2 DEF OnePreparation, LiveTasks
  <2>2. queued'[generation] = 0
    BY <1>2, <2>1, DequeuedCounts
  <2> QED
    BY <1>1, <1>2, <1>3, <1>5, <2>2 DEF OnePreparation, LiveTasks, EncodeIsCurrent
<1>9. ObservationTypeOK'
  BY <1>1, <1>3, <1>4, <1>6
<1>10. PictureInv'
  <2>1. changeRevision \in 1..changeRevision
    BY <1>2 DEF PictureInv
  <2> QED
    BY <1>1, <1>3, <1>5, <2>1 DEF PictureInv
<1>11. CallsInv' /\ AnswerImageMatches'
  BY <1>1 DEF CallsInv, Bound, AnswerImageMatches
<1> QED
  BY <1>7, <1>8, <1>9, <1>10, <1>11

\* The end of a preparation: its result counts only in its own generation.
LEMMA EncodeEndKeeps ==
    ASSUME ObservationAssumption, IInv, EncodeStale \/ EncodeDone \/ EncodeFailed \/ EncodeAgain
    PROVE  IInv'
<1> USE DEF IInv, ObservationTypeOK
<1>1. UNCHANGED <<policy, frame, frameRevision, changeRevision, elapsed, generation,
                  observer, used>> /\ encoding # Nil /\ encoding' = Nil
  BY DEF EncodeStale, EncodeDone, EncodeFailed, EncodeAgain, store, prepared, scheduling
<1>2. encoding \in Preparations
  BY <1>1
<1>3. CallsInv' /\ AnswerImageMatches'
  BY <1>1 DEF CallsInv, Bound, AnswerImageMatches
<1>4. queued' \in [Generations -> Nat] /\ queued[generation] \in Nat
      /\ \A g \in Generations : g # generation => queued'[g] = queued[g]
  BY ScheduledCounts
     DEF EncodeStale, EncodeDone, EncodeFailed, EncodeAgain, scheduling, EncodeIsCurrent
<1>5. GenerationInv'
  <2>1. ASSUME NEW h \in Generations, h > generation PROVE queued'[h] = 0
    BY <1>4, <2>1, GenerationsAre DEF GenerationInv
  <2> QED
    BY <1>1, <2>1 DEF GenerationInv
<1>6. CASE EncodeStale
  <2>1. UNCHANGED <<image, imageRevision, failedRevision, encodeScheduled, queued>>
    BY <1>6 DEF EncodeStale, prepared, scheduling
  <2>2. OnePreparation'
    BY <1>1, <1>6, <2>1 DEF EncodeStale, OnePreparation, LiveTasks
  <2>3. ObservationTypeOK' /\ PictureInv'
    BY <1>1, <2>1 DEF PictureInv
  <2> QED
    BY <1>3, <1>5, <2>2, <2>3
<1>7. ASSUME EncodeIsCurrent
      PROVE  queued[generation] = 0 /\ encodeScheduled
  BY <1>1, <1>4, <1>7 DEF OnePreparation, LiveTasks
<1>8. CASE EncodeDone
  <2>1. /\ image' = encoding.content /\ imageRevision' = encoding.revision
        /\ failedRevision' = Nil /\ encodeScheduled' = FALSE /\ queued' = queued
        /\ EncodeIsCurrent /\ encoding.revision = changeRevision
    BY <1>8 DEF EncodeDone, EncodeIsNewest
  <2>2. encoding.content = frame /\ changeRevision # 0
    BY <1>1, <2>1 DEF PictureInv
  <2>3. OnePreparation'
    BY <1>1, <1>7, <2>1 DEF OnePreparation, LiveTasks
  <2>4. ObservationTypeOK'
    BY <1>1, <1>2, <1>4, <2>1 DEF Preparations
  <2>5. PictureInv'
    BY <1>1, <2>1, <2>2 DEF PictureInv
  <2> QED
    BY <1>3, <1>5, <2>3, <2>4, <2>5
<1>9. CASE EncodeFailed
  <2>1. /\ UNCHANGED <<image, imageRevision, queued>>
        /\ failedRevision' = encoding.revision /\ encodeScheduled' = FALSE
        /\ EncodeIsCurrent
    BY <1>9 DEF EncodeFailed
  <2>2. OnePreparation'
    BY <1>1, <1>7, <2>1 DEF OnePreparation, LiveTasks
  <2>3. ObservationTypeOK'
    BY <1>1, <1>2, <2>1 DEF Preparations
  <2>4. PictureInv'
    BY <1>1, <2>1 DEF PictureInv
  <2> QED
    BY <1>3, <1>5, <2>2, <2>3, <2>4
<1>10. CASE EncodeAgain
  <2>1. /\ UNCHANGED <<image, imageRevision, failedRevision, encodeScheduled>>
        /\ queued' = Scheduled(queued, generation) /\ EncodeIsCurrent
    BY <1>10 DEF EncodeAgain, EncodeIsCurrent, prepared
  <2>2. queued'[generation] = 1
    BY <1>7, <2>1, ScheduledCounts
  <2>3. OnePreparation'
    BY <1>1, <1>7, <2>1, <2>2 DEF OnePreparation, LiveTasks
  <2>4. ObservationTypeOK' /\ PictureInv'
    BY <1>1, <1>4, <2>1 DEF PictureInv
  <2> QED
    BY <1>3, <1>5, <2>3, <2>4
<1> QED
  BY <1>6, <1>8, <1>9, <1>10

-----------------------------------------------------------------------------
LEMMA StepKeeps ==
    ASSUME ObservationAssumption, IInv, [ObservationNext]_observationVars
    PROVE  IInv'
<1>1. CASE UNCHANGED observationVars
  BY <1>1 DEF observationVars, store, prepared, scheduling, IInv, ObservationTypeOK, CallsInv,
       Bound, GenerationInv, OnePreparation, LiveTasks, EncodeIsCurrent, PictureInv,
       AnswerImageMatches
<1>2. ASSUME NEW p \in Policies, SetPolicy(p) PROVE IInv'
  BY <1>2, SetPolicyKeeps
<1>3. CASE Ingest
  BY <1>3, IngestKeeps
<1>4. CASE Clear
  BY <1>4, ClearKeeps
<1>5. ASSUME NEW x \in Waiters, QuietElapses(x) PROVE IInv'
  BY <1>5, QuietElapsesKeeps
<1>6. ASSUME NEW o \in Observers, Observe(o) \/ ReturnStable(o) \/ DeadlinePasses(o)
      PROVE  IInv'
  BY <1>6, ObserveKeeps, ReturnKeeps DEF ReturnStable, DeadlinePasses
<1>7. CASE Encode
  BY <1>7, EncodeDroppedKeeps, EncodeBeginKeeps, EncodeEndKeeps DEF Encode
<1> QED
  BY <1>1, <1>2, <1>3, <1>4, <1>5, <1>6, <1>7 DEF ObservationNext

LEMMA Invariance == ObservationAssumption /\ ObservationSpec => []IInv
<1> SUFFICES ASSUME ObservationAssumption PROVE ObservationSpec => []IInv
  OBVIOUS
<1>1. ObservationInit => IInv
  BY Initially
<1>2. IInv /\ [ObservationNext]_observationVars => IInv'
  BY StepKeeps
<1> QED
  BY <1>1, <1>2, PTL DEF ObservationSpec

\* Every variable of the store and of the image queue keeps its kind; the
\* generation, which grows with every cancellation, stays within its range.
THEOREM TypesKept == ObservationAssumption /\ ObservationSpec => []ObservationTypeOK
<1>1. IInv => ObservationTypeOK
  BY DEF IInv
<1> QED
  BY Invariance, <1>1, PTL

\* However frames, restarts, policy switches and preparations interleave, an
\* answer that carries an image carries the image of the frame it describes.
THEOREM ImageOfItsFrame == ObservationAssumption /\ ObservationSpec => []AnswerImageMatches
<1>1. IInv => AnswerImageMatches
  BY DEF IInv
<1> QED
  BY Invariance, <1>1, PTL

\* A cancelled preparation never revives beside its successor, and none is
\* lost while the flag keeps others from being scheduled.
THEOREM OneLivePreparation == ObservationAssumption /\ ObservationSpec => []OnePreparation
<1>1. IInv => OnePreparation
  BY DEF IInv
<1> QED
  BY Invariance, <1>1, PTL

-----------------------------------------------------------------------------
(* accessibility.observe.  What a request knows when it is answered follows    *)
(* from what has been recorded while it ran: only its own captures replace the *)
(* last tree, and a reset removes it, which no later step takes for the tree   *)
(* that was known.                                                             *)
Trees == [device : Int, scope : Scopes \cup {Never}, screen : Int]
Steps == {"idle", "submitted", "begin", "read", "record", "enter", "loop", "decide", "result",
          "complete", "trapped"}
Purposes == {"none", "baseline", "materialize", "settled", "deadline", "confirm", "probe", "poll"}
Errors == {"none", "DEVICE_MISMATCH", "ACCESSIBILITY_UNAVAILABLE", "ACCESSIBILITY_RESET"}
Requests ==
    [strategy : {"ios-axp", "snapshot-diff"}, after : Int, scope : Scopes \cup {Never},
     quiet : Nat, wait : Nat, requireChange : BOOLEAN, device : Int, generation : Int,
     known : Trees, purpose : Purposes, decidedAt : Int, read : Trees, tree : Trees,
     changed : BOOLEAN, detectedAt : Int, probes : Nat, pollAt : Int, interval : Nat,
     stable : BOOLEAN, error : Errors, revision : Int, own : BOOLEAN, late : Nat]
Coordinators == [revision : Nat, latest : Trees, changedAt : Nat, generation : Nat]
Answers == [kind : {"none", "result", "error"}, revision : Int, tree : Trees, known : Trees,
            own : BOOLEAN, changed : BOOLEAN, stable : BOOLEAN, device : Int]

TypesInv ==
    /\ screen \in Nat /\ deviceGeneration \in Nat /\ clock \in Nat
    /\ coordinator \in Coordinators /\ request \in Requests /\ answer \in Answers
    /\ step \in Steps

Capturing == step \in {"read", "record"}
Looping == step \in {"loop", "decide"}
Answered == step = "result" \/ (step = "complete" /\ request.error = "none")

\* A capture that begins late is the last of its request.
LateInv ==
    /\ request.late <= 1
    /\ ~Capturing /\ step \notin {"result", "complete"} => request.late = 0
    /\ Capturing => request.decidedAt <= clock
    /\ Capturing /\ request.late # 0 =>
          request.wait <= request.decidedAt /\ request.purpose \in {"confirm", "settled", "deadline"}

\* Until a changed tree is captured the last tree is the one that was known, or none.
KnownInv ==
    /\ Capturing => request.purpose # "none"
    /\ Capturing /\ request.purpose = "probe" => request.strategy = "ios-axp"
    /\ Capturing /\ request.purpose = "confirm" => request.detectedAt # Never
    /\ step \in {"submitted", "begin"} => request.detectedAt = Never
    /\ Capturing /\ request.purpose \in {"settled", "deadline", "probe", "poll"} =>
          request.detectedAt = Never
    /\ request.known # NoTree =>
          /\ Capturing => request.purpose \notin {"baseline", "materialize"}
          /\ step = "enter" => request.detectedAt = Never
          /\ (step = "enter" \/ Capturing \/ Looping) /\ request.detectedAt = Never =>
                coordinator.latest \in {request.known, NoTree}
          /\ Looping /\ request.detectedAt = Never => request.tree = request.known
          /\ (Capturing \/ Looping) /\ request.detectedAt # Never
                /\ request.strategy = "snapshot-diff" => request.changed
          /\ Answered => request.changed \/ request.tree = request.known

DeviceInv ==
    /\ step # "idle" => request.device \in Nat
    /\ step \in {"submitted", "begin"} => ~request.own
    /\ step = "record" => request.read.device = request.device
    /\ step = "enter" /\ request.own =>
          coordinator.latest = NoTree \/ coordinator.latest.device = request.device
    /\ (Looping \/ Answered) /\ request.own => request.tree.device = request.device

ObservedInv == TypesInv /\ LateInv /\ KnownInv /\ DeviceInv /\ ObservedTreeIsAsReported

-----------------------------------------------------------------------------
\* What runs beside the request leaves it alone.
LEMMA NoTreeFacts ==
    /\ NoTree \in Trees /\ NoTree.device = Never /\ Never \notin Nat
    /\ NoCoordinator \in Coordinators /\ NoCoordinator.latest = NoTree
  BY DEF NoTree, Trees, Never, NoCoordinator, Coordinators

LEMMA ObservedStays ==
    ASSUME ObservedInv, UNCHANGED <<request, step, answer>>, clock' = clock,
           screen' \in Nat, deviceGeneration' \in Nat, coordinator' \in Coordinators,
           coordinator'.latest \in {coordinator.latest, NoTree}
    PROVE  ObservedInv'
<1>1. TypesInv'
  BY DEF ObservedInv, TypesInv
<1>2. LateInv'
  BY DEF ObservedInv, LateInv, Capturing
<1>3. KnownInv'
  BY DEF ObservedInv, KnownInv, Capturing, Looping, Answered
<1>4. DeviceInv'
  BY NoTreeFacts DEF ObservedInv, DeviceInv, Looping, Answered
<1>5. ObservedTreeIsAsReported'
  BY DEF ObservedInv, ObservedTreeIsAsReported, UnchangedTreeIsTheSame, AnswerIsOfItsDevice
<1> QED
  BY <1>1, <1>2, <1>3, <1>4, <1>5 DEF ObservedInv

LEMMA ResetFacts ==
    ASSUME NEW k \in Coordinators
    PROVE  /\ Reset(k) \in Coordinators /\ Reset(k).latest = NoTree
  BY NoTreeFacts DEF Reset, Coordinators, NoCoordinator, NoTree

LEMMA BesideKeeps ==
    ASSUME ObservedInv, MarkEvent \/ ScreenChanges \/ DemandChanges \/ SelectDevice
    PROVE  ObservedInv'
<1>1. coordinator \in Coordinators /\ screen \in Nat /\ deviceGeneration \in Nat /\ clock \in Nat
  BY DEF ObservedInv, TypesInv
<1>2. CASE MarkEvent
  <2> DEFINE n == coordinator.revision + 1
  <2>1. n \in Nat
    BY <1>1 DEF Coordinators
  <2>2. coordinator' = [coordinator EXCEPT !.revision = n, !.changedAt = clock]
    BY <1>2 DEF MarkEvent, Changed
  <2> HIDE DEF n
  <2>3. coordinator' \in Coordinators /\ coordinator'.latest = coordinator.latest
    BY <1>1, <2>1, <2>2 DEF Coordinators
  <2> QED
    BY <1>1, <1>2, <2>3, ObservedStays DEF MarkEvent
<1>3. CASE ScreenChanges
  BY <1>1, <1>3, ObservedStays DEF ScreenChanges
<1>4. CASE DemandChanges
  BY <1>1, <1>4, ResetFacts, ObservedStays DEF DemandChanges
<1>5. CASE SelectDevice
  BY <1>1, <1>5, ResetFacts, ObservedStays DEF SelectDevice
<1> QED
  BY <1>2, <1>3, <1>4, <1>5

LEMMA TickKeeps == ASSUME ObservedInv, Tick PROVE ObservedInv'
<1>1. /\ UNCHANGED <<screen, deviceGeneration, coordinator, request, step, answer>>
      /\ clock' = clock + 1 /\ clock \in Nat
  BY DEF Tick, ObservedInv, TypesInv
<1>2. TypesInv'
  BY <1>1 DEF ObservedInv, TypesInv
<1>3. LateInv'
  BY <1>1 DEF ObservedInv, LateInv, Capturing, TypesInv, Requests
<1>4. KnownInv' /\ DeviceInv' /\ ObservedTreeIsAsReported'
  BY <1>1 DEF ObservedInv, KnownInv, DeviceInv, Capturing, Looping, Answered,
    ObservedTreeIsAsReported, UnchangedTreeIsTheSame, AnswerIsOfItsDevice
<1> QED
  BY <1>2, <1>3, <1>4 DEF ObservedInv

-----------------------------------------------------------------------------
\* The request goes on to s with the locals r, and no answer is given.
GoesOn(r, s) == request' = r /\ step' = s /\ UNCHANGED <<screen, deviceGeneration, clock, answer>>

LEMMA GoesOnTypes ==
    ASSUME ObservedInv, NEW r \in Requests, NEW s \in Steps, GoesOn(r, s),
           coordinator' \in Coordinators, LateInv', KnownInv', DeviceInv'
    PROVE  ObservedInv'
<1>1. TypesInv'
  BY DEF GoesOn, ObservedInv, TypesInv
<1>2. ObservedTreeIsAsReported'
  BY DEF GoesOn, ObservedInv, ObservedTreeIsAsReported, UnchangedTreeIsTheSame,
    AnswerIsOfItsDevice
<1> QED
  BY <1>1, <1>2 DEF ObservedInv

LEMMA FreshFacts ==
    /\ NoRequest \in Requests /\ NoRequest.late = 0 /\ NoRequest.own = FALSE
    /\ NoRequest.error = "none" /\ NoRequest.known = NoTree /\ NoRequest.detectedAt = Never
  BY NoTreeFacts DEF NoRequest, Requests, Never, Purposes, Errors

LEMMA FailKeeps ==
    ASSUME ObservedInv, NEW error \in Errors \ {"none"}, FailWith(error), coordinator' = coordinator,
           UNCHANGED <<screen, deviceGeneration, clock, answer>>, step # "idle"
    PROVE  ObservedInv'
<1> DEFINE r == [request EXCEPT !.error = error]
<1>1. request \in Requests /\ coordinator \in Coordinators
  BY DEF ObservedInv, TypesInv
<1>2. /\ r \in Requests /\ r.error = error /\ r.late = request.late
      /\ r.device = request.device
  BY <1>1 DEF Requests
<1>3. GoesOn(r, "complete") /\ "complete" \in Steps
  BY DEF FailWith, GoesOn, Steps
<1> HIDE DEF r
<1>4. LateInv' /\ KnownInv' /\ DeviceInv'
  BY <1>2, <1>3 DEF GoesOn, ObservedInv, LateInv, KnownInv, DeviceInv, Capturing, Looping, Answered
<1> QED
  BY <1>1, <1>2, <1>3, <1>4, GoesOnTypes

LEMMA SubmitKeeps == ASSUME AccessibilityAssumption, ObservedInv, Submit PROVE ObservedInv'
<1>1. PICK strategy \in Strategies, scope \in Scopes, quiet \in Quiets, wait \in MaxWaits,
           requireChange \in BOOLEAN, after \in {Never, answer.revision} :
           request' = [NoRequest EXCEPT
              !.strategy = strategy, !.after = after, !.scope = scope, !.quiet = quiet,
              !.wait = wait, !.requireChange = requireChange, !.device = deviceGeneration]
  BY DEF Submit
<1>2. /\ strategy \in {"ios-axp", "snapshot-diff"} /\ scope \in Scopes \cup {Never}
      /\ quiet \in Nat /\ wait \in Nat /\ after \in Int
      /\ deviceGeneration \in Nat /\ deviceGeneration \in Int
      /\ answer \in Answers /\ coordinator \in Coordinators /\ screen \in Nat
  <2>1. /\ answer \in Answers /\ coordinator \in Coordinators /\ screen \in Nat
        /\ deviceGeneration \in Nat
    BY DEF ObservedInv, TypesInv
  <2>2. answer.revision \in Int /\ Never \in Int
    BY <2>1 DEF Answers, Never
  <2>3. Strategies \subseteq {"ios-axp", "snapshot-diff"} /\ Quiets \subseteq Nat
        /\ MaxWaits \subseteq Nat
    BY DEF AccessibilityAssumption
  <2> QED
    BY <2>1, <2>2, <2>3
<1>3. /\ request' \in Requests /\ request'.late = 0 /\ request'.known = NoTree
      /\ request'.device = deviceGeneration /\ request'.own = FALSE
      /\ request'.detectedAt = Never
  BY <1>1, <1>2, FreshFacts DEF Requests
<1>4. /\ step' = "submitted" /\ clock' = 0
      /\ UNCHANGED <<screen, deviceGeneration, coordinator>>
      /\ answer' = [NoAnswer EXCEPT !.revision = answer.revision]
  BY DEF Submit
<1>5. answer' \in Answers /\ answer'.kind = "none"
  <2>1. NoAnswer \in Answers /\ NoAnswer.kind = "none"
    BY NoTreeFacts DEF NoAnswer, Answers, Never
  <2>2. answer.revision \in Int
    BY <1>2 DEF Answers
  <2> QED
    BY <1>4, <2>1, <2>2 DEF Answers
<1>6. TypesInv'
  BY <1>2, <1>3, <1>4, <1>5 DEF TypesInv, Steps
<1>7. LateInv' /\ KnownInv' /\ DeviceInv'
  BY <1>2, <1>3, <1>4 DEF LateInv, KnownInv, DeviceInv, Capturing, Looping, Answered
<1>8. ObservedTreeIsAsReported'
  BY <1>5 DEF ObservedTreeIsAsReported, UnchangedTreeIsTheSame, AnswerIsOfItsDevice
<1> QED
  BY <1>6, <1>7, <1>8 DEF ObservedInv

LEMMA IsCurrentKeeps == ASSUME ObservedInv, StartIfCurrent PROVE ObservedInv'
<1>1. CASE FailWith("DEVICE_MISMATCH")
  BY <1>1, FailKeeps DEF StartIfCurrent, Errors
<1>2. CASE step' = "begin" /\ UNCHANGED request
  <2>1. GoesOn(request, "begin") /\ "begin" \in Steps /\ request \in Requests
        /\ coordinator' = coordinator /\ coordinator \in Coordinators /\ step = "submitted"
    BY <1>2 DEF StartIfCurrent, GoesOn, Steps, ObservedInv, TypesInv
  <2>2. LateInv' /\ KnownInv' /\ DeviceInv'
    BY <2>1 DEF GoesOn, ObservedInv, LateInv, KnownInv, DeviceInv, Capturing, Looping, Answered
  <2> QED
    BY <2>1, <2>2, GoesOnTypes
<1> QED
  BY <1>1, <1>2 DEF StartIfCurrent

LEMMA CompleteKeeps == ASSUME ObservedInv, Complete PROVE ObservedInv'
<1>1. /\ step = "complete" /\ step' = "idle" /\ request' = NoRequest
      /\ UNCHANGED <<screen, deviceGeneration, coordinator, clock>>
      /\ request \in Requests /\ answer \in Answers /\ deviceGeneration \in Nat
  BY DEF Complete, ObservedInv, TypesInv
<1>2. /\ answer' \in Answers
      /\ answer'.kind = "result" =>
           /\ request.error = "none" /\ request.device = deviceGeneration
           /\ answer'.tree = request.tree /\ answer'.known = request.known
           /\ answer'.own = request.own /\ answer'.changed = request.changed
           /\ answer'.device = deviceGeneration
  <2>1. NoAnswer \in Answers
    BY NoTreeFacts DEF NoAnswer, Answers, Never
  <2>2. CASE request.error # "none" \/ ~StillSelected(request)
    <3>1. answer' = [NoAnswer EXCEPT !.kind = "error", !.revision = answer.revision]
      BY <2>2 DEF Complete
    <3> QED
      BY <1>1, <2>1, <3>1 DEF Answers
  <2>3. CASE ~(request.error # "none" \/ ~StillSelected(request))
    <3>1. answer' = [NoAnswer EXCEPT
                  !.kind = "result", !.revision = request.revision, !.tree = request.tree,
                  !.known = request.known, !.own = request.own, !.changed = request.changed,
                  !.stable = request.stable, !.device = deviceGeneration]
      BY <2>3 DEF Complete
    <3>2. deviceGeneration \in Int
      BY <1>1
    <3> QED
      BY <1>1, <2>1, <2>3, <3>1, <3>2 DEF Answers, Requests, StillSelected
  <2> QED
    BY <2>2, <2>3
<1>3. TypesInv'
  BY <1>1, <1>2, FreshFacts DEF ObservedInv, TypesInv, Steps
<1>4. LateInv' /\ KnownInv' /\ DeviceInv'
  BY <1>1, FreshFacts DEF LateInv, KnownInv, DeviceInv, Capturing, Looping, Answered
<1>5. ObservedTreeIsAsReported'
  BY <1>1, <1>2 DEF ObservedInv, KnownInv, DeviceInv, Answered, ObservedTreeIsAsReported,
    UnchangedTreeIsTheSame, AnswerIsOfItsDevice
<1> QED
  BY <1>3, <1>4, <1>5 DEF ObservedInv

-----------------------------------------------------------------------------
\* The request begins a capture with the locals r.
LEMMA CaptureFacts ==
    ASSUME NEW r \in Requests, NEW purpose \in Purposes, Capture(r, purpose), clock \in Nat
    PROVE  /\ step' = "read" /\ request' \in Requests /\ request'.purpose = purpose
           /\ request'.decidedAt = clock /\ request'.own = TRUE
           /\ request'.late = r.late + (IF step = "decide" /\ clock >= r.wait THEN 1 ELSE 0)
           /\ request'.wait = r.wait /\ request'.strategy = r.strategy
           /\ request'.known = r.known /\ request'.detectedAt = r.detectedAt
           /\ request'.changed = r.changed /\ request'.device = r.device
<1> DEFINE n == r.late + (IF step = "decide" /\ clock >= r.wait THEN 1 ELSE 0)
<1>1. n \in Nat /\ clock \in Int
  BY DEF Requests
<1>2. /\ step' = "read"
      /\ request' = [r EXCEPT !.purpose = purpose, !.decidedAt = clock, !.own = TRUE, !.late = n]
  BY DEF Capture
<1>3. n = r.late + (IF step = "decide" /\ clock >= r.wait THEN 1 ELSE 0)
  OBVIOUS
<1> HIDE DEF n
<1>4. /\ request' \in Requests /\ request'.purpose = purpose
      /\ request'.decidedAt = clock /\ request'.own = TRUE /\ request'.late = n
      /\ request'.wait = r.wait /\ request'.strategy = r.strategy
      /\ request'.known = r.known /\ request'.detectedAt = r.detectedAt
      /\ request'.changed = r.changed /\ request'.device = r.device
  BY <1>1, <1>2 DEF Requests
<1> QED
  BY <1>2, <1>3, <1>4

LEMMA BeginKeeps == ASSUME ObservedInv, BeginObserve PROVE ObservedInv'
<1> DEFINE known == Cached(coordinator, request.scope)
           begun == [request EXCEPT !.generation = coordinator.generation, !.known = known]
           bare == [begun EXCEPT !.known = NoTree]
<1>1. /\ step = "begin" /\ request \in Requests /\ coordinator \in Coordinators /\ clock \in Nat
      /\ UNCHANGED <<screen, deviceGeneration, clock, answer>>
      /\ request.late = 0 /\ request.own = FALSE /\ request.detectedAt = Never
      /\ request.device \in Nat
  BY DEF BeginObserve, ObservedInv, TypesInv, LateInv, KnownInv, DeviceInv, Capturing, Requests
<1>2. coordinator' \in Coordinators /\ coordinator'.latest = coordinator.latest
  BY <1>1 DEF BeginObserve, Coordinators
<1>3. /\ known \in Trees /\ known \in {coordinator.latest, NoTree}
      /\ coordinator.generation \in Int
  BY <1>1, NoTreeFacts DEF Cached, Coordinators
<1>4. IF request.after = Never THEN Capture(bare, "baseline")
      ELSE IF known = NoTree THEN Capture(begun, "materialize")
      ELSE step' = "enter" /\ request' = begun
  BY DEF BeginObserve
<1>6. /\ begun = [request EXCEPT !.generation = coordinator.generation, !.known = known]
      /\ bare = [begun EXCEPT !.known = NoTree]
  OBVIOUS
<1> HIDE DEF known, begun
<1>7. /\ begun \in Requests /\ begun.late = 0 /\ begun.own = FALSE /\ begun.detectedAt = Never
      /\ begun.device = request.device /\ begun.known = known
  BY <1>1, <1>3, <1>6 DEF Requests
<1> HIDE DEF bare
<1>8. /\ bare \in Requests /\ bare.late = 0 /\ bare.device = request.device /\ bare.known = NoTree
  BY <1>6, <1>7, NoTreeFacts DEF Requests
<1>9. CASE step' = "enter" /\ request' = begun /\ known # NoTree
  <2>1. GoesOn(begun, "enter") /\ "enter" \in Steps
    BY <1>1, <1>9 DEF GoesOn, Steps
  <2>2. LateInv' /\ KnownInv' /\ DeviceInv'
    BY <1>1, <1>2, <1>3, <1>7, <1>9 DEF LateInv, KnownInv, DeviceInv, Capturing, Looping, Answered
  <2> QED
    BY <1>2, <1>7, <2>1, <2>2, GoesOnTypes
<1>10. ASSUME NEW r \in {bare, begun}, NEW purpose \in {"baseline", "materialize"},
              Capture(r, purpose), r.known = NoTree
       PROVE  ObservedInv'
  <2>1. r \in Requests /\ r.late = 0 /\ r.device = request.device /\ purpose \in Purposes
    BY <1>7, <1>8, <1>10 DEF Purposes
  <2>2. /\ step' = "read" /\ request' \in Requests /\ request'.purpose = purpose
        /\ request'.decidedAt = clock /\ request'.late = 0
        /\ request'.known = NoTree /\ request'.device = request.device
    <3>1. /\ step' = "read" /\ request' \in Requests /\ request'.purpose = purpose
          /\ request'.decidedAt = clock /\ request'.known = r.known
          /\ request'.late = r.late + (IF step = "decide" /\ clock >= r.wait THEN 1 ELSE 0)
          /\ request'.device = r.device
      BY <1>1, <1>10, <2>1, CaptureFacts
    <3>2. step # "decide"
      BY <1>1
    <3> QED
      BY <1>10, <2>1, <3>1, <3>2
  <2>3. LateInv' /\ KnownInv' /\ DeviceInv'
    BY <1>1, <2>2 DEF LateInv, KnownInv, DeviceInv, Capturing, Looping, Answered
  <2>4. PICK q \in Requests : q = request'
    BY <2>2
  <2>5. GoesOn(q, "read") /\ "read" \in Steps
    BY <1>1, <2>2, <2>4 DEF GoesOn, Steps
  <2> QED
    BY <1>2, <2>3, <2>4, <2>5, GoesOnTypes
<1> QED
  BY <1>4, <1>7, <1>8, <1>9, <1>10

LEMMA ReadKeeps == ASSUME ObservedInv, Read PROVE ObservedInv'
<1>1. /\ step = "read" /\ request \in Requests /\ coordinator \in Coordinators /\ screen \in Nat
      /\ UNCHANGED <<screen, deviceGeneration, coordinator, clock, answer>>
  BY DEF Read, ObservedInv, TypesInv
<1>2. CASE FailWith("ACCESSIBILITY_UNAVAILABLE")
  BY <1>1, <1>2, FailKeeps DEF Errors
<1>3. CASE /\ step' = "record"
           /\ request' = [request EXCEPT !.read =
                [device |-> request.device, scope |-> request.scope, screen |-> screen]]
  <2> DEFINE tree == [device |-> request.device, scope |-> request.scope, screen |-> screen]
  <2>1. tree \in Trees /\ tree.device = request.device
    BY <1>1 DEF Trees, Requests
  <2>2. request' = [request EXCEPT !.read = tree]
    BY <1>3
  <2> HIDE DEF tree
  <2> DEFINE r == [request EXCEPT !.read = tree]
  <2>3. /\ r \in Requests /\ r.read = tree /\ r.device = request.device /\ r.late = request.late
        /\ r.purpose = request.purpose /\ r.decidedAt = request.decidedAt /\ r.wait = request.wait
        /\ r.strategy = request.strategy /\ r.detectedAt = request.detectedAt
        /\ r.known = request.known /\ r.changed = request.changed
    BY <1>1, <2>1 DEF Requests
  <2>4. GoesOn(r, "record") /\ "record" \in Steps
    BY <1>1, <1>3, <2>2 DEF GoesOn, Steps
  <2> HIDE DEF r
  <2>5. LateInv' /\ KnownInv' /\ DeviceInv'
    BY <1>1, <2>1, <2>3, <2>4
    DEF GoesOn, ObservedInv, LateInv, KnownInv, DeviceInv, Capturing, Looping, Answered
  <2> QED
    BY <1>1, <2>3, <2>4, <2>5, GoesOnTypes
<1> QED
  BY <1>2, <1>3 DEF Read

-----------------------------------------------------------------------------
\* The coordinator's last tree is the captured one, whatever it was before.
LEMMA RecordedFacts ==
    ASSUME NEW k \in Coordinators, NEW tree \in Trees, clock \in Nat
    PROVE  Recorded(k, tree) \in Coordinators /\ Recorded(k, tree).latest = tree
<1> DEFINE n == k.revision + 1
<1>1. n \in Nat
  BY DEF Coordinators
<1>2. Recorded(k, tree) =
         IF k.latest # tree
         THEN [[k EXCEPT !.revision = n, !.changedAt = clock] EXCEPT !.latest = tree] ELSE k
  BY DEF Recorded, Changed
<1> HIDE DEF n
<1> QED
  BY <1>1, <1>2 DEF Coordinators

\* The interval after a poll that saw no change.
Doubled(r) == IF 2 * r.interval < MaximumPoll THEN 2 * r.interval ELSE MaximumPoll

\* What a request with the locals r, which has captured a tree, does by its purpose.
Outcome(r, differs) ==
    \/ /\ r.purpose = "baseline"
       /\ AnswerWith([r EXCEPT !.stable = TRUE])
    \/ r.purpose = "materialize" /\ step' = "enter" /\ request' = r
    \/ /\ r.purpose = "settled"
       /\ AnswerWith([Diffed(r, differs) EXCEPT !.stable = TRUE])
    \/ r.purpose = "deadline" /\ AnswerWith(Diffed(r, differs))
    \/ /\ r.purpose = "confirm" /\ ConfirmsAgain(r, differs)
       /\ step' = "loop" /\ request' = [r EXCEPT !.detectedAt = clock]
    \/ /\ r.purpose = "confirm" /\ ~ConfirmsAgain(r, differs)
       /\ AnswerWith([r EXCEPT !.changed = TRUE, !.stable = ~differs])
    \/ /\ r.purpose = "probe" /\ step' = "loop"
       /\ request' = [r EXCEPT !.detectedAt = IF differs THEN clock ELSE Never]
    \/ /\ r.purpose = "poll" /\ differs /\ step' = "loop"
       /\ request' = [r EXCEPT !.changed = TRUE, !.detectedAt = clock]
    \/ /\ r.purpose = "poll" /\ ~differs /\ step' = "loop"
       /\ request' = [r EXCEPT !.interval = Doubled(r), !.pollAt = clock + Doubled(r)]
    \/ /\ r.purpose = "poll" /\ ~differs
       /\ AnswerWith([r EXCEPT !.stable = TRUE])

LEMMA ContinueCases ==
    ASSUME NEW r \in Requests, NEW differs \in BOOLEAN, Continue(r, differs),
           r.purpose # "none"
    PROVE  Outcome(r, differs)
<1>1. r.purpose \in Purposes
  BY DEF Requests
<1>2. CASE r.purpose = "baseline"
  BY <1>2 DEF Continue, Outcome
<1>3. CASE r.purpose = "materialize"
  BY <1>3 DEF Continue, Outcome
<1>4. CASE r.purpose = "settled"
  BY <1>4 DEF Continue, Outcome
<1>5. CASE r.purpose = "deadline"
  BY <1>5 DEF Continue, Outcome
<1>6. CASE r.purpose = "confirm"
  BY <1>6 DEF Continue, Outcome
<1>7. CASE r.purpose = "probe"
  BY <1>7 DEF Continue, Outcome
<1>8. CASE r.purpose = "poll" /\ (differs \/ r.requireChange)
  BY <1>8 DEF Continue, Outcome, Doubled
<1>9. CASE r.purpose = "poll" /\ ~differs /\ ~r.requireChange
  BY <1>9 DEF Continue, Outcome
<1> QED
  BY <1>1, <1>2, <1>3, <1>4, <1>5, <1>6, <1>7, <1>8, <1>9 DEF Purposes

\* What of the locals the invariant speaks of, before and after.
Kept(q, r) ==
    /\ q \in Requests /\ q.device = r.device /\ q.own = r.own /\ q.late = r.late
    /\ q.known = r.known /\ q.tree = r.tree /\ q.strategy = r.strategy
    /\ q.error = r.error

LEMMA RecordKeeps ==
    ASSUME AccessibilityAssumption, ObservedInv, Record PROVE ObservedInv'
<1> DEFINE r == [request EXCEPT !.tree = request.read, !.read = NoTree]
           differs == coordinator.latest # request.read
<1>1. /\ step = "record" /\ request \in Requests /\ coordinator \in Coordinators /\ clock \in Nat
      /\ UNCHANGED <<screen, deviceGeneration, clock, answer>>
      /\ request.read \in Trees /\ Continue(r, differs)
      /\ coordinator' = Recorded(coordinator, request.read)
  BY DEF Record, ObservedInv, TypesInv, Requests
<1>2. coordinator' \in Coordinators /\ coordinator'.latest = request.read
  BY <1>1, RecordedFacts
<1>3. /\ r \in Requests /\ r.tree = request.read /\ r.device = request.device
      /\ r.late = request.late /\ r.own = request.own /\ r.error = request.error
      /\ r.purpose = request.purpose /\ r.decidedAt = request.decidedAt /\ r.wait = request.wait
      /\ r.strategy = request.strategy /\ r.detectedAt = request.detectedAt
      /\ r.known = request.known /\ r.changed = request.changed /\ r.requireChange = request.requireChange
  BY <1>1, NoTreeFacts DEF Requests
<1>4. differs \in BOOLEAN
  OBVIOUS
<1>5. ~differs => coordinator.latest = request.read
  OBVIOUS
<1> HIDE DEF r, differs
<1>6. /\ r.purpose # "none" /\ r.device \in Nat /\ r.tree.device = r.device /\ r.tree # NoTree
      /\ r.late <= 1
      /\ r.late # 0 => r.wait <= r.decidedAt /\ r.purpose \in {"confirm", "settled", "deadline"}
      /\ r.decidedAt <= clock
      /\ r.purpose = "probe" => r.strategy = "ios-axp"
      /\ r.purpose = "confirm" => r.detectedAt # Never
      /\ r.purpose \in {"settled", "deadline", "probe", "poll"} => r.detectedAt = Never
  BY <1>1, <1>3, NoTreeFacts DEF ObservedInv, LateInv, KnownInv, DeviceInv, Capturing
<1>7. r.known # NoTree =>
         /\ r.purpose \notin {"baseline", "materialize"}
         /\ r.detectedAt = Never => coordinator.latest \in {r.known, NoTree}
         /\ r.detectedAt # Never /\ r.strategy = "snapshot-diff" => r.changed
  BY <1>1, <1>3 DEF ObservedInv, KnownInv, Capturing
<1>8. r.known # NoTree /\ r.detectedAt = Never /\ ~differs => r.tree = r.known
  BY <1>3, <1>5, <1>6, <1>7
<1>9. clock # Never /\ clock \in Int /\ Never \in Int /\ r.detectedAt \in Int
  BY <1>1, <1>3 DEF Never, Requests
<1>10. ASSUME NEW q, Kept(q, r), AnswerWith(q), q.known # NoTree => q.changed \/ q.tree = q.known
       PROVE  ObservedInv'
  <2>1. GoesOn(q, "result") /\ "result" \in Steps /\ q \in Requests
    BY <1>1, <1>10 DEF AnswerWith, GoesOn, Steps, Kept
  <2>2. LateInv' /\ KnownInv' /\ DeviceInv'
    BY <1>6, <1>10, <2>1
    DEF GoesOn, Kept, LateInv, KnownInv, DeviceInv, Capturing, Looping, Answered
  <2> QED
    BY <1>2, <2>1, <2>2, GoesOnTypes
<1>11. ASSUME NEW q, Kept(q, r), q.late = 0, step' = "loop", request' = q,
              q.known # NoTree /\ q.detectedAt = Never => q.tree = q.known,
              q.detectedAt # Never /\ q.strategy = "snapshot-diff" /\ q.known # NoTree => q.changed
       PROVE  ObservedInv'
  <2>1. GoesOn(q, "loop") /\ "loop" \in Steps /\ q \in Requests
    BY <1>1, <1>11 DEF GoesOn, Steps, Kept
  <2>2. LateInv' /\ KnownInv' /\ DeviceInv'
    BY <1>2, <1>3, <1>6, <1>11, <2>1
    DEF GoesOn, Kept, LateInv, KnownInv, DeviceInv, Capturing, Looping, Answered
  <2> QED
    BY <1>2, <2>1, <2>2, GoesOnTypes
<1>12. CASE r.purpose = "baseline" /\ AnswerWith([r EXCEPT !.stable = TRUE])
  <2> DEFINE q == [r EXCEPT !.stable = TRUE]
  <2>1. Kept(q, r)
    BY <1>3 DEF Kept, Requests
  <2> QED
    BY <1>7, <1>10, <1>12, <2>1 DEF Kept
<1>13. CASE r.purpose = "materialize" /\ step' = "enter" /\ request' = r
  <2>1. GoesOn(r, "enter") /\ "enter" \in Steps
    BY <1>1, <1>13 DEF GoesOn, Steps
  <2>2. LateInv' /\ KnownInv' /\ DeviceInv'
    BY <1>2, <1>3, <1>6, <1>7, <1>13, <2>1
    DEF GoesOn, LateInv, KnownInv, DeviceInv, Capturing, Looping, Answered
  <2> QED
    BY <1>2, <1>3, <2>1, <2>2, GoesOnTypes
<1>14. Diffed(r, differs) = [r EXCEPT !.changed = r.changed \/ differs]
  BY DEF Diffed
<1>15. CASE r.purpose = "settled" /\ AnswerWith([Diffed(r, differs) EXCEPT !.stable = TRUE])
  <2> DEFINE q == [r EXCEPT !.changed = r.changed \/ differs, !.stable = TRUE]
  <2>1. Kept(q, r) /\ q.changed = (r.changed \/ differs)
    BY <1>3, <1>4 DEF Kept, Requests
  <2>2. AnswerWith(q)
    <3>1. [Diffed(r, differs) EXCEPT !.stable = TRUE] = q
      BY <1>3, <1>14 DEF Requests
    <3> QED
      BY <1>15, <3>1
  <2> HIDE DEF q
  <2> QED
    BY <1>6, <1>8, <1>10, <1>15, <2>1, <2>2 DEF Kept
<1>16. CASE r.purpose = "deadline" /\ AnswerWith(Diffed(r, differs))
  <2> DEFINE q == [r EXCEPT !.changed = r.changed \/ differs]
  <2>1. Kept(q, r) /\ q.changed = (r.changed \/ differs)
    BY <1>3, <1>4 DEF Kept, Requests
  <2>2. AnswerWith(q)
    BY <1>14, <1>16
  <2> HIDE DEF q
  <2> QED
    BY <1>6, <1>8, <1>10, <1>16, <2>1, <2>2 DEF Kept
<1>17. CASE /\ r.purpose = "confirm" /\ ConfirmsAgain(r, differs)
            /\ step' = "loop" /\ request' = [r EXCEPT !.detectedAt = clock]
  <2> DEFINE q == [r EXCEPT !.detectedAt = clock]
  <2>1. Kept(q, r) /\ q.changed = r.changed /\ q.detectedAt = clock
    BY <1>3, <1>9 DEF Kept, Requests
  <2>2. r.late = 0
    <3>1. r.wait \in Nat /\ r.decidedAt \in Int /\ clock \in Int
          /\ r.strategy \in {"ios-axp", "snapshot-diff"}
      BY <1>3, <1>9 DEF Requests
    <3>2. r.strategy = "ios-axp" => r.decidedAt < r.wait
      BY <1>17 DEF ConfirmsAgain
    <3>3. r.strategy # "ios-axp" => clock < r.wait
      BY <1>17 DEF ConfirmsAgain
    <3> QED
      BY <1>6, <3>1, <3>2, <3>3
  <2> HIDE DEF q
  <2>3. request' = q /\ step' = "loop"
    BY <1>17 DEF q
  <2> QED
    BY <1>6, <1>7, <1>9, <1>11, <1>17, <2>1, <2>2, <2>3 DEF Kept
<1>18. CASE /\ r.purpose = "confirm" /\ ~ConfirmsAgain(r, differs)
            /\ AnswerWith([r EXCEPT !.changed = TRUE, !.stable = ~differs])
  <2> DEFINE q == [r EXCEPT !.changed = TRUE, !.stable = ~differs]
  <2>1. Kept(q, r) /\ q.changed
    BY <1>3, <1>4 DEF Kept, Requests
  <2> QED
    BY <1>10, <1>18, <2>1
<1>19. CASE /\ r.purpose = "probe" /\ step' = "loop"
            /\ request' = [r EXCEPT !.detectedAt = IF differs THEN clock ELSE Never]
  <2> DEFINE at == IF differs THEN clock ELSE Never
  <2>1. at \in Int /\ (~differs \/ at # Never)
    BY <1>4, <1>9
  <2> DEFINE q == [r EXCEPT !.detectedAt = at]
  <2> HIDE DEF at
  <2>2. Kept(q, r) /\ q.detectedAt = at
    BY <1>3, <2>1 DEF Kept, Requests
  <2>3. request' = q /\ step' = "loop"
    BY <1>19 DEF q, at
  <2>4. r.late = 0 /\ r.strategy = "ios-axp" /\ r.detectedAt = Never
    BY <1>6, <1>19
  <2> HIDE DEF q
  <2> QED
    BY <1>8, <1>11, <2>1, <2>2, <2>3, <2>4 DEF Kept
<1>20. CASE /\ r.purpose = "poll" /\ differs /\ step' = "loop"
            /\ request' = [r EXCEPT !.changed = TRUE, !.detectedAt = clock]
  <2> DEFINE q == [r EXCEPT !.changed = TRUE, !.detectedAt = clock]
  <2>1. Kept(q, r) /\ q.changed /\ q.detectedAt = clock
    BY <1>3, <1>9 DEF Kept, Requests
  <2>2. request' = q /\ step' = "loop" /\ r.late = 0
    BY <1>6, <1>20
  <2> HIDE DEF q
  <2> QED
    BY <1>9, <1>11, <2>1, <2>2 DEF Kept
<1>21. CASE /\ r.purpose = "poll" /\ ~differs /\ step' = "loop"
            /\ request' = [r EXCEPT !.interval = Doubled(r), !.pollAt = clock + Doubled(r)]
  <2> DEFINE interval == Doubled(r)
  <2>1. interval \in Nat /\ clock + interval \in Int
    <3>1. MaximumPoll \in Nat /\ r.interval \in Nat
      BY <1>3 DEF AccessibilityAssumption, Requests
    <3> QED
      BY <1>1, <3>1 DEF Doubled
  <2>2. request' = [r EXCEPT !.interval = interval, !.pollAt = clock + interval]
    BY <1>21
  <2> HIDE DEF interval
  <2> DEFINE at == clock + interval
             q == [r EXCEPT !.interval = interval, !.pollAt = at]
  <2>3. at \in Int /\ request' = q
    BY <2>1, <2>2
  <2> HIDE DEF at
  <2>4. Kept(q, r) /\ q.detectedAt = r.detectedAt
    BY <1>3, <2>1, <2>3 DEF Kept, Requests
  <2>5. step' = "loop" /\ r.late = 0 /\ r.detectedAt = Never
    BY <1>6, <1>21
  <2> HIDE DEF q
  <2> QED
    BY <1>8, <1>11, <1>21, <2>3, <2>4, <2>5 DEF Kept
<1>22. CASE /\ r.purpose = "poll" /\ ~differs
            /\ AnswerWith([r EXCEPT !.stable = TRUE])
  <2> DEFINE q == [r EXCEPT !.stable = TRUE]
  <2>1. Kept(q, r) /\ q.changed = r.changed
    BY <1>3 DEF Kept, Requests
  <2>2. AnswerWith(q)
    BY <1>22
  <2> HIDE DEF q
  <2> QED
    BY <1>6, <1>8, <1>10, <1>22, <2>1, <2>2 DEF Kept
<1>23. Outcome(r, differs)
  BY <1>1, <1>3, <1>4, <1>6, ContinueCases
<1> QED
  BY <1>12, <1>13, <1>15, <1>16, <1>17, <1>18, <1>19, <1>20, <1>21, <1>22, <1>23 DEF Outcome

LEMMA EnterKeeps == ASSUME AccessibilityAssumption, ObservedInv, Enter PROVE ObservedInv'
<1> DEFINE tree == Cached(coordinator, request.scope)
           quiet == IF request.requireChange THEN 0 ELSE request.quiet
           at == IF quiet > InitialPoll THEN quiet ELSE InitialPoll
<1>1. /\ step = "enter" /\ request \in Requests /\ coordinator \in Coordinators
      /\ UNCHANGED <<screen, deviceGeneration, coordinator, clock, answer>>
      /\ IF tree = NoTree THEN step' = "trapped" /\ UNCHANGED request
         ELSE /\ step' = "loop"
              /\ request' = [request EXCEPT !.tree = tree, !.interval = InitialPoll, !.pollAt = at]
  BY DEF Enter, ObservedInv, TypesInv
<1>2. /\ tree \in Trees /\ tree \in {coordinator.latest, NoTree}
      /\ InitialPoll \in Nat /\ at \in Int
  BY <1>1, NoTreeFacts DEF Cached, Coordinators, AccessibilityAssumption, Requests
<1> HIDE DEF tree, at
<1>3. CASE step' = "trapped" /\ UNCHANGED request
  <2>1. GoesOn(request, "trapped") /\ "trapped" \in Steps
    BY <1>1, <1>3 DEF GoesOn, Steps
  <2>2. LateInv' /\ KnownInv' /\ DeviceInv'
    BY <1>1, <2>1
    DEF GoesOn, ObservedInv, LateInv, KnownInv, DeviceInv, Capturing, Looping, Answered
  <2> QED
    BY <1>1, <2>1, <2>2, GoesOnTypes
<1>4. CASE /\ tree # NoTree /\ step' = "loop"
           /\ request' = [request EXCEPT !.tree = tree, !.interval = InitialPoll, !.pollAt = at]
  <2> DEFINE r == [request EXCEPT !.tree = tree, !.interval = InitialPoll, !.pollAt = at]
  <2>1. /\ r \in Requests /\ r.tree = tree /\ r.device = request.device /\ r.late = request.late
        /\ r.own = request.own /\ r.strategy = request.strategy /\ r.known = request.known
        /\ r.detectedAt = request.detectedAt
    BY <1>1, <1>2 DEF Requests
  <2>2. GoesOn(r, "loop") /\ "loop" \in Steps
    BY <1>1, <1>4 DEF GoesOn, Steps
  <2> HIDE DEF r
  <2>3. LateInv' /\ KnownInv' /\ DeviceInv'
    BY <1>1, <1>2, <1>4, <2>1, <2>2
    DEF GoesOn, ObservedInv, LateInv, KnownInv, DeviceInv, Capturing, Looping, Answered
  <2> QED
    BY <1>1, <2>1, <2>2, <2>3, GoesOnTypes
<1> QED
  BY <1>1, <1>3, <1>4

LEMMA LoopKeeps == ASSUME ObservedInv, Loop PROVE ObservedInv'
<1>1. /\ step = "loop" /\ request \in Requests /\ coordinator \in Coordinators
      /\ UNCHANGED <<screen, deviceGeneration, coordinator, clock, answer>>
  BY DEF Loop, ObservedInv, TypesInv
<1>2. CASE FailWith("ACCESSIBILITY_RESET")
  BY <1>1, <1>2, FailKeeps DEF Errors
<1>3. CASE step' = "decide" /\ UNCHANGED request
  <2>1. GoesOn(request, "decide") /\ "decide" \in Steps
    BY <1>1, <1>3 DEF GoesOn, Steps
  <2>2. LateInv' /\ KnownInv' /\ DeviceInv'
    BY <1>1, <2>1
    DEF GoesOn, ObservedInv, LateInv, KnownInv, DeviceInv, Capturing, Looping, Answered
  <2> QED
    BY <1>1, <2>1, <2>2, GoesOnTypes
<1> QED
  BY <1>2, <1>3 DEF Loop

LEMMA ResultKeeps == ASSUME ObservedInv, Result PROVE ObservedInv'
<1> DEFINE r == [request EXCEPT !.revision = coordinator.revision]
<1>1. /\ step = "result" /\ request \in Requests /\ coordinator \in Coordinators
      /\ UNCHANGED <<screen, deviceGeneration, coordinator, clock, answer>>
      /\ step' = "complete" /\ request' = r
  BY DEF Result, ObservedInv, TypesInv
<1>2. coordinator.revision \in Int
  BY <1>1 DEF Coordinators
<1>3. Kept(r, request) /\ r.changed = request.changed
  BY <1>1, <1>2 DEF Kept, Requests
<1>4. GoesOn(r, "complete") /\ "complete" \in Steps
  BY <1>1 DEF GoesOn, Steps
<1> HIDE DEF r
<1>5. LateInv' /\ KnownInv' /\ DeviceInv'
  BY <1>1, <1>3, <1>4
  DEF GoesOn, Kept, ObservedInv, LateInv, KnownInv, DeviceInv, Capturing, Looping, Answered
<1> QED
  BY <1>1, <1>3, <1>4, <1>5, GoesOnTypes DEF Kept

\* A capture that is begun in the loop, with the locals r.
LEMMA LoopCaptureKeeps ==
    ASSUME ObservedInv, step = "decide", NEW r, Kept(r, request),
           r.wait = request.wait, r.detectedAt = request.detectedAt,
           r.changed = request.changed \/ r.strategy = "ios-axp",
           NEW purpose \in {"settled", "deadline", "confirm", "probe", "poll"},
           Capture(r, purpose),
           purpose = "confirm" <=> r.detectedAt # Never,
           purpose = "probe" => r.strategy = "ios-axp",
           purpose \in {"probe", "poll"} => ~Expired,
           UNCHANGED <<screen, deviceGeneration, coordinator, clock, answer>>
    PROVE  ObservedInv'
<1>1. /\ r \in Requests /\ request \in Requests /\ coordinator \in Coordinators /\ clock \in Nat
      /\ request.late = 0 /\ purpose \in Purposes
  BY DEF ObservedInv, TypesInv, Kept, LateInv, Capturing, Purposes
<1>2. /\ step' = "read" /\ request' \in Requests /\ request'.purpose = purpose
      /\ request'.decidedAt = clock /\ request'.own = TRUE
      /\ request'.late = r.late + (IF step = "decide" /\ clock >= r.wait THEN 1 ELSE 0)
      /\ request'.wait = r.wait /\ request'.strategy = r.strategy
      /\ request'.known = r.known /\ request'.detectedAt = r.detectedAt
      /\ request'.changed = r.changed /\ request'.device = r.device
  BY <1>1, CaptureFacts
<1>3. request'.late = (IF Expired THEN 1 ELSE 0)
  BY <1>1, <1>2 DEF Kept, Expired
<1>4. PICK q \in Requests : q = request'
  BY <1>2
<1>5. GoesOn(q, "read") /\ "read" \in Steps
  BY <1>2, <1>4 DEF GoesOn, Steps
<1>6. LateInv'
  <2>1. request.wait \in Nat
    BY <1>1 DEF Requests
  <2> QED
    BY <1>1, <1>2, <1>3, <2>1 DEF LateInv, Capturing, Expired
<1>7. KnownInv'
  BY <1>2 DEF Kept, ObservedInv, KnownInv, Capturing, Looping, Answered
<1>8. DeviceInv'
  BY <1>2 DEF Kept, ObservedInv, DeviceInv, Looping, Answered
<1> QED
  BY <1>1, <1>4, <1>5, <1>6, <1>7, <1>8, GoesOnTypes

\* An answer from the loop.
LEMMA LoopAnswerKeeps ==
    ASSUME ObservedInv, step = "decide", NEW r, Kept(r, request), AnswerWith(r),
           request.detectedAt = Never \/ r.changed \/ request.known = NoTree,
           UNCHANGED <<screen, deviceGeneration, coordinator, clock, answer>>
    PROVE  ObservedInv'
<1>1. GoesOn(r, "result") /\ "result" \in Steps /\ r \in Requests /\ coordinator \in Coordinators
  BY DEF AnswerWith, GoesOn, Steps, Kept, ObservedInv, TypesInv
<1>2. LateInv' /\ KnownInv' /\ DeviceInv'
  BY <1>1
  DEF GoesOn, Kept, ObservedInv, LateInv, KnownInv, DeviceInv, Capturing, Looping, Answered
<1> QED
  BY <1>1, <1>2, GoesOnTypes

LEMMA WaitsKeeps ==
    ASSUME ObservedInv, step = "decide", KeepsWaiting,
           UNCHANGED <<screen, deviceGeneration, coordinator, clock, answer>>
    PROVE  ObservedInv'
<1>1. /\ GoesOn(request, "loop") /\ "loop" \in Steps /\ request \in Requests
      /\ coordinator \in Coordinators
  BY DEF KeepsWaiting, GoesOn, Steps, ObservedInv, TypesInv
<1>2. LateInv' /\ KnownInv' /\ DeviceInv'
  BY <1>1
  DEF GoesOn, ObservedInv, LateInv, KnownInv, DeviceInv, Capturing, Looping, Answered
<1> QED
  BY <1>1, <1>2, GoesOnTypes

LEMMA DecideKeeps == ASSUME ObservedInv, Decide PROVE ObservedInv'
<1>1. /\ step = "decide" /\ request \in Requests
      /\ UNCHANGED <<screen, deviceGeneration, coordinator, clock, answer>>
      /\ coordinator \in Coordinators
  BY DEF Decide, ObservedInv, TypesInv
<1>2. CASE KeepsWaiting
  BY <1>1, <1>2, WaitsKeeps
<1>3. EventChanged \in BOOLEAN
  BY DEF EventChanged
<1>4. CASE request.strategy = "ios-axp" /\ ~KeepsWaiting
  <2> DEFINE r == [request EXCEPT !.changed = EventChanged]
  <2>1. Kept(r, request) /\ r.wait = request.wait /\ r.detectedAt = request.detectedAt
    BY <1>1, <1>3 DEF Kept, Requests
  <2>2. DecideOnEvents
    BY <1>4 DEF Decide
  <2>3. ASSUME NEW purpose \in {"deadline", "confirm", "probe"}, FallbackCapture(purpose),
               purpose = "confirm" <=> request.detectedAt # Never,
               purpose = "probe" => ~Expired
        PROVE  ObservedInv'
    <3> DEFINE n == request.probes + 1
               q == [request EXCEPT !.probes = n, !.changed = EventChanged]
    <3>1. n \in Nat
      BY <1>1 DEF Requests
    <3>2. Capture(q, purpose)
      BY <2>3 DEF FallbackCapture
    <3> HIDE DEF n
    <3>3. Kept(q, request) /\ q.wait = request.wait /\ q.detectedAt = request.detectedAt
      BY <1>1, <1>3, <3>1 DEF Kept, Requests
    <3> HIDE DEF q
    <3>4. q.strategy = "ios-axp"
      BY <1>4, <3>3 DEF Kept
    <3> QED
      BY <1>1, <2>3, <3>2, <3>3, <3>4, LoopCaptureKeeps
  <2>4. CASE request.detectedAt # Never
    <3>1. FallbackCapture("confirm")
      BY <1>4, <2>2, <2>4 DEF DecideOnEvents
    <3> QED
      BY <2>3, <2>4, <3>1
  <2>5. CASE request.detectedAt = Never /\ Awaited
    <3>1. Capture(r, "settled")
      BY <2>2, <2>5 DEF DecideOnEvents
    <3> HIDE DEF r
    <3>2. r.strategy = "ios-axp"
      BY <1>4, <2>1 DEF Kept
    <3> QED
      BY <1>1, <2>1, <2>5, <3>1, <3>2, LoopCaptureKeeps
  <2>6. CASE request.detectedAt = Never /\ ~Awaited /\ Expired
    <3>1. FallbackCapture("deadline") \/ AnswerWith(r)
      BY <2>2, <2>6 DEF DecideOnEvents
    <3> HIDE DEF r
    <3> QED
      BY <1>1, <2>1, <2>3, <2>6, <3>1, LoopAnswerKeeps
  <2>7. CASE request.detectedAt = Never /\ ~Awaited /\ ~Expired
    <3>1. FallbackCapture("probe")
      BY <1>4, <2>2, <2>7 DEF DecideOnEvents
    <3> QED
      BY <2>3, <2>7, <3>1
  <2> QED
    BY <2>4, <2>5, <2>6, <2>7
<1>5. CASE request.strategy # "ios-axp" /\ ~KeepsWaiting
  <2>1. DecideOnSnapshots
    BY <1>5 DEF Decide
  <2>2. Kept(request, request)
    BY <1>1 DEF Kept
  <2>3. request.detectedAt # Never /\ request.known # NoTree => request.changed
    BY <1>1, <1>5 DEF ObservedInv, KnownInv, Looping, Requests
  <2>4. CASE request.detectedAt # Never
    <3>1. Capture(request, "confirm") \/ AnswerWith(request)
      BY <1>5, <2>1, <2>4 DEF DecideOnSnapshots
    <3> QED
      BY <1>1, <2>2, <2>3, <2>4, <3>1, LoopCaptureKeeps, LoopAnswerKeeps
  <2>5. CASE request.detectedAt = Never /\ Expired
    <3> DEFINE stable == ~request.requireChange /\ clock >= request.quiet
               q == [request EXCEPT !.changed = request.changed \/ EventChanged, !.stable = stable]
    <3>1. AnswerWith(q)
      BY <2>1, <2>5 DEF DecideOnSnapshots
    <3>2. stable \in BOOLEAN
      OBVIOUS
    <3> HIDE DEF stable
    <3>3. Kept(q, request)
      BY <1>1, <1>3, <3>2 DEF Kept, Requests
    <3> HIDE DEF q
    <3> QED
      BY <1>1, <2>5, <3>1, <3>3, LoopAnswerKeeps
  <2>6. CASE request.detectedAt = Never /\ ~Expired
    <3>1. Capture(request, "poll")
      BY <1>5, <2>1, <2>6 DEF DecideOnSnapshots
    <3> QED
      BY <1>1, <2>2, <2>6, <3>1, LoopCaptureKeeps
  <2> QED
    BY <2>4, <2>5, <2>6
<1> QED
  BY <1>2, <1>4, <1>5

-----------------------------------------------------------------------------
LEMMA ObservedInvariance ==
    ASSUME AccessibilityAssumption
    PROVE  AccessibilitySpec => []ObservedInv
<1>1. AccessibilityInit => ObservedInv
  <2> SUFFICES ASSUME AccessibilityInit PROVE ObservedInv
    OBVIOUS
  <2>1. screen = 0 /\ deviceGeneration = 0 /\ clock = 0 /\ coordinator = NoCoordinator
        /\ request = NoRequest /\ step = "idle" /\ answer = NoAnswer
    BY DEF AccessibilityInit
  <2>2. NoAnswer \in Answers /\ NoAnswer.kind = "none"
    BY NoTreeFacts DEF NoAnswer, Answers, Never
  <2>3. TypesInv
    BY <2>1, <2>2, NoTreeFacts, FreshFacts DEF TypesInv, Steps
  <2>4. LateInv /\ KnownInv /\ DeviceInv
    BY <2>1, FreshFacts DEF LateInv, KnownInv, DeviceInv, Capturing, Looping, Answered
  <2>5. ObservedTreeIsAsReported
    BY <2>1, <2>2 DEF ObservedTreeIsAsReported, UnchangedTreeIsTheSame, AnswerIsOfItsDevice
  <2> QED
    BY <2>3, <2>4, <2>5 DEF ObservedInv
<1>2. ObservedInv /\ [AccessibilityNext]_accessibilityVars => ObservedInv'
  <2>1. ASSUME ObservedInv, UNCHANGED accessibilityVars PROVE ObservedInv'
    BY <2>1 DEF accessibilityVars, ObservedInv, TypesInv, LateInv, KnownInv, DeviceInv, Capturing,
      Looping, Answered, ObservedTreeIsAsReported, UnchangedTreeIsTheSame, AnswerIsOfItsDevice
  <2>2. ASSUME ObservedInv, AccessibilityNext PROVE ObservedInv'
    BY <2>2, BesideKeeps, TickKeeps, SubmitKeeps, IsCurrentKeeps, BeginKeeps, ReadKeeps,
      RecordKeeps, EnterKeeps, LoopKeeps, DecideKeeps, ResultKeeps, CompleteKeeps
    DEF AccessibilityNext
  <2> QED
    BY <2>1, <2>2
<1> QED
  BY <1>1, <1>2, PTL DEF AccessibilitySpec

\* An answer without a change carries the tree that was known, whichever of events,
\* probes, polls and the deadline ended it, and a tree captured for a request is of the
\* device in use when it is answered.
THEOREM ObservedTreesAreAsReported ==
    ASSUME AccessibilityAssumption
    PROVE  AccessibilitySpec => []ObservedTreeIsAsReported
<1>1. ObservedInv => ObservedTreeIsAsReported
  BY DEF ObservedInv
<1> QED
  BY ObservedInvariance, <1>1, PTL

\* A request begins at most one capture after its deadline.
THEOREM DeadlineBounds ==
    ASSUME AccessibilityAssumption
    PROVE  AccessibilitySpec => []DeadlineBoundsCaptures
<1>1. ObservedInv => DeadlineBoundsCaptures
  BY DEF ObservedInv, LateInv, DeadlineBoundsCaptures
<1> QED
  BY ObservedInvariance, <1>1, PTL
=============================================================================
