----------------------------- MODULE SessionProofs -----------------------------
(* What holds of a session of a review for any number of calls, applications,  *)
(* devices, connections and polls: of its semantic state (SemanticState) first,*)
(* of its connection and its demand for the preview (ReviewSession) below.     *)
EXTENDS SemanticState, ReviewSession, SequenceTheorems, WellFoundedInduction, TLAPS

-----------------------------------------------------------------------------
(* The semantic state.  Generations run through it: what a cache holds is of   *)
(* the current one, since whatever begins a generation empties the caches; a   *)
(* call keeps the generation its snapshot was asked in, which is not before    *)
(* the one the call was made in; a call that joined another's refresh was made *)
(* no later than that refresh began, since a refresh of an earlier generation  *)
(* is not on the table any more; and a refresh answers with nothing older than *)
(* its own beginning.                                                          *)
Ends == {"idle", "done"}
Reads == {"verify", "inspect", "confirm", "nativeVerify", "context"}
CallPcs == Ends \cup {"join", "inspect", "context"} \cup Identifying \cup Asking

\* What a call with the locals r has to show in generation g.
Sound(r, g) ==
  /\ r \in CallType
  /\ r.start <= g /\ r.before <= g /\ r.gen <= g
  /\ r.kind = "prepared" /\ r.pc \notin Ends \cup {"prepare"} => r.start <= r.before
  /\ r.pc = "prepare" => r.kind = "prepared"
  /\ r.pc = "reading" => r.kind # "prepared"
  /\ r.pc = "identify" => r.start <= r.before /\ (r.acc # None => r.acc.gen = r.before)
  /\ r.pc \in Asking \cup Reads =>
       r.start <= r.gen /\ (r.kind = "prepared" => r.before <= r.gen)
  /\ r.pc \in Reads => r.acc \in Snapshot /\ r.acc.gen = r.gen
  /\ r.pc # "join" => r.taken \in AppId
  /\ r.pc \notin Asking \cup {"join"} => r.taken = None
  /\ r.pc = "done" => r.out \in Output /\ r.start <= r.out.snapshot.gen

CallsInv == \A c \in Calls : Sound(call[c], generation)

\* The call with the locals r runs a refresh.
Works(r) == r.kind = "prepared" /\ r.pc \notin Ends \cup {"join", "prepare"}

\* A call with the locals r may wait for the refresh of the call it names.
MayJoin(r) ==
  r.taken \in Calls /\ Works(call[r.taken]) /\ r.start <= call[r.taken].before

JoinInv == \A c \in Calls : call[c].pc = "join" => MayJoin(call[c])

RefreshInv ==
  /\ refresh \in [AppId -> Calls \cup {None}]
  /\ \A k \in AppId : refresh[k] # None =>
       Works(call[refresh[k]]) /\ call[refresh[k]].before = generation

KeptInv ==
  /\ lastAccessibility \in Snapshot \cup {None}
  /\ lastElements \in Output \cup {None}
  /\ fiberCache \in [AppId \X Apps -> Output \cup {None}]
  /\ semanticCache \in [AppId -> Output \cup {None}]
  /\ lastAccessibility # None => lastAccessibility.gen = generation
  /\ \A k \in AppId \X Apps : fiberCache[k] # None => fiberCache[k].snapshot.gen = generation
  /\ \A k \in AppId : semanticCache[k] # None => semanticCache[k].snapshot.gen = generation

\* The types of what is not told of the calls and the caches.
PlainInv ==
  /\ front \in Apps /\ switches \in 0..MaxSwitches /\ trouble \in 0..MaxTrouble
  /\ begun \in 0..MaxBegun
  /\ connections \in Nat /\ connection \in {0, connections}
  /\ generation \in Nat /\ known \in AppId
  /\ read \in [phase : {"none", "void", "asked", "sampled"}, app : AppId, connection : Nat]

\* Who waits in an identity check has a read to wait for.
WaitInv ==
  \A c \in Calls : call[c].pc \in Identifying /\ ~call[c].awake => read.phase # "none"

SemanticInv ==
  /\ PlainInv /\ KeptInv /\ RefreshInv /\ WaitInv
  /\ call \in [Calls -> CallType] /\ CallsInv /\ JoinInv

LEMMA SemanticInvGives == SemanticInv => SemanticTypeOK /\ AnswerNotOlder
<1> SUFFICES ASSUME SemanticInv PROVE SemanticTypeOK /\ AnswerNotOlder
  OBVIOUS
<1> USE DEF SemanticInv
<1>1. /\ \A c \in Calls : call[c].pc \in Identifying /\ ~call[c].awake
                        => read.phase # "none"
  BY DEF WaitInv
<1>2. \A c \in Calls : call[c].pc = "join"
       => LET owner == call[c].taken
          IN owner \in Calls /\ call[owner].kind = "prepared"
             /\ call[owner].pc \notin {"idle", "done", "join", "prepare"}
  BY DEF JoinInv, MayJoin, Works, Ends
<1>3. SemanticTypeOK
  BY <1>1, <1>2 DEF SemanticTypeOK, PlainInv, KeptInv, RefreshInv
<1>4. AnswerNotOlder
  <2> SUFFICES ASSUME NEW c \in Calls, call[c].pc = "done"
               PROVE call[c].out.snapshot.gen >= call[c].start
    BY DEF AnswerNotOlder
  <2>1. Sound(call[c], generation)
    BY DEF CallsInv
  <2>2. call[c].start <= call[c].out.snapshot.gen /\ call[c].out \in Output /\ call[c].start \in Nat
    BY <2>1 DEF Sound, CallType
  <2> QED
    BY <2>2 DEF Output, Snapshot
<1> QED
  BY <1>3, <1>4

-----------------------------------------------------------------------------
\* What a change of a call's locals leaves in them.
LEMMA AwaitsFacts ==
  ASSUME NEW r \in CallType, NEW pc \in CallPcs
  PROVE  /\ Awaits(r, pc) \in CallType
         /\ Awaits(r, pc).pc = pc /\ Awaits(r, pc).awake = FALSE /\ Awaits(r, pc).got = None
         /\ Awaits(r, pc).kind = r.kind /\ Awaits(r, pc).start = r.start
         /\ Awaits(r, pc).before = r.before /\ Awaits(r, pc).gen = r.gen
         /\ Awaits(r, pc).key = r.key /\ Awaits(r, pc).app = r.app
         /\ Awaits(r, pc).acc = r.acc /\ Awaits(r, pc).taken = r.taken
         /\ Awaits(r, pc).fiber = r.fiber /\ Awaits(r, pc).out = r.out
<1>1. pc \in {"idle", "done", "join", "inspect", "context"} \cup Identifying \cup Asking
  BY DEF CallPcs, Ends
<1>2. None \in AppId
  BY DEF AppId
<1>3. Awaits(r, pc) \in CallType
  BY <1>1, <1>2 DEF Awaits, CallType
<1> QED
  BY <1>3 DEF Awaits, CallType

LEMMA IdleFacts ==
  /\ Idle \in CallType
  /\ \A g \in Nat : Sound(Idle, g)
<1>1. Idle \in CallType
  BY DEF Idle, CallType, Kinds, AppId
<1>2. \A g \in Nat : Sound(Idle, g)
  BY <1>1 DEF Sound, Idle, Ends, Reads, Asking, AppId
<1> QED
  BY <1>1, <1>2

\* A generation later a call has no less to show.
LEMMA SoundLater ==
  ASSUME NEW g \in Nat, NEW r, Sound(r, g)
  PROVE  Sound(r, g + 1)
<1>1. r.start \in Nat /\ r.before \in Nat /\ r.gen \in Nat
  BY DEF Sound, CallType
<1> QED
  BY <1>1 DEF Sound

-----------------------------------------------------------------------------
\* What is known of each call.
LEMMA CallFacts ==
  ASSUME SemanticInv, NEW c \in Calls
  PROVE  /\ call[c] \in CallType /\ Sound(call[c], generation)
         /\ call[c].pc \in CallPcs /\ call[c].kind \in Kinds
         /\ call[c].start \in Nat /\ call[c].before \in Nat /\ call[c].gen \in Nat
         /\ call[c].app \in AppId /\ call[c].got \in AppId
         /\ call[c].acc \in Snapshot \cup {None} /\ call[c].key \in AppId
         /\ generation \in Nat
<1>1. call[c] \in CallType /\ Sound(call[c], generation) /\ generation \in Nat
  BY DEF SemanticInv, CallsInv, PlainInv
<1> QED
  BY <1>1 DEF CallType, CallPcs, Ends

\* Call c goes on with the locals r, the other calls stay where they are.
LEMMA OneCall ==
  ASSUME SemanticInv, NEW c \in Calls, NEW r, Sound(r, generation),
         call' = [call EXCEPT ![c] = r], generation' = generation,
         Works(call[c]) => Works(r) /\ r.before = call[c].before,
         r.pc = "join" => MayJoin(r),
         r.pc \in Identifying /\ ~r.awake => read'.phase # "none",
         read.phase # "none" => read'.phase # "none"
  PROVE  /\ call' \in [Calls -> CallType] /\ CallsInv' /\ JoinInv' /\ WaitInv'
         /\ \A d \in Calls : Works(call[d]) =>
              Works(call'[d]) /\ call'[d].before = call[d].before
         /\ call'[c] = r
<1> USE DEF SemanticInv
<1>1. r \in CallType
  BY DEF Sound
<1>2. call' \in [Calls -> CallType] /\ call'[c] = r
  BY <1>1
<1>3. CallsInv'
  <2> SUFFICES ASSUME NEW d \in Calls PROVE Sound(call'[d], generation)
    BY DEF CallsInv
  <2> QED
    BY DEF CallsInv
<1>4. \A d \in Calls : Works(call[d]) => Works(call'[d]) /\ call'[d].before = call[d].before
  OBVIOUS
<1>5. JoinInv'
  <2> SUFFICES ASSUME NEW d \in Calls, call'[d].pc = "join"
               PROVE /\ call'[d].taken \in Calls /\ Works(call'[call'[d].taken])
                     /\ call'[d].start <= call'[call'[d].taken].before
    BY DEF JoinInv, MayJoin
  <2>1. /\ call'[d].taken \in Calls /\ Works(call[call'[d].taken])
        /\ call'[d].start <= call[call'[d].taken].before
    BY DEF JoinInv, MayJoin
  <2> QED
    BY <2>1, <1>4
<1>6. WaitInv'
  BY DEF WaitInv
<1> QED
  BY <1>2, <1>3, <1>4, <1>5, <1>6

\* Call c ends and the calls that joined its refresh end with it, each with the
\* locals q[d].
LEMMA EndTogether ==
  ASSUME SemanticInv, NEW c \in Calls, NEW q,
         \A d \in {c} \cup Joined(c) : Sound(q[d], generation) /\ q[d].pc \in Ends,
         call' = [d \in Calls |-> IF d \in {c} \cup Joined(c) THEN q[d] ELSE call[d]],
         RefreshOver(c), generation' = generation, read' = read
  PROVE  /\ call' \in [Calls -> CallType] /\ CallsInv' /\ JoinInv' /\ WaitInv'
         /\ RefreshInv'
<1> USE DEF SemanticInv
<1>1. call' \in [Calls -> CallType]
  <2> SUFFICES ASSUME NEW d \in Calls PROVE call'[d] \in CallType
    OBVIOUS
  <2> QED
    BY DEF Sound
<1>2. CallsInv'
  <2> SUFFICES ASSUME NEW d \in Calls PROVE Sound(call'[d], generation)
    BY DEF CallsInv
  <2> QED
    BY DEF CallsInv
<1>3. ASSUME NEW d \in Calls, Works(call[d]), d # c
      PROVE  call'[d] = call[d]
  BY <1>3 DEF Joined, Works
<1>4. JoinInv'
  <2> SUFFICES ASSUME NEW d \in Calls, call'[d].pc = "join"
               PROVE /\ call'[d].taken \in Calls /\ Works(call'[call'[d].taken])
                     /\ call'[d].start <= call'[call'[d].taken].before
    BY DEF JoinInv, MayJoin
  <2>1. d \notin {c} \cup Joined(c) /\ call'[d] = call[d]
    BY DEF Ends
  <2>2. /\ call[d].taken \in Calls /\ Works(call[call[d].taken])
        /\ call[d].start <= call[call[d].taken].before
    BY <2>1 DEF JoinInv, MayJoin
  <2>3. call[d].taken # c
    BY <2>1 DEF Joined
  <2> QED
    BY <2>1, <2>2, <2>3, <1>3
<1>5. WaitInv'
  BY DEF WaitInv, Ends, Identifying
<1>6. RefreshInv'
  <2>1. refresh' \in [AppId -> Calls \cup {None}]
    BY DEF RefreshInv, RefreshOver
  <2>2. ASSUME NEW k \in AppId, refresh'[k] # None
        PROVE  Works(call'[refresh'[k]]) /\ call'[refresh'[k]].before = generation
    <3>1. refresh'[k] = refresh[k] /\ refresh[k] # c /\ refresh[k] \in Calls
      BY <2>2 DEF RefreshOver, RefreshInv
    <3>2. Works(call[refresh[k]]) /\ call[refresh[k]].before = generation
      BY <2>2, <3>1 DEF RefreshInv
    <3> QED
      BY <3>1, <3>2, <1>3
  <2> QED
    BY <2>1, <2>2 DEF RefreshInv
<1> QED
  BY <1>1, <1>2, <1>4, <1>5, <1>6

LEMMA FailKeeps ==
  ASSUME SemanticInv, NEW c \in Calls, Fail(c), generation' = generation, read' = read
  PROVE  /\ call' \in [Calls -> CallType] /\ CallsInv' /\ JoinInv' /\ WaitInv'
         /\ RefreshInv'
<1> DEFINE q == [d \in Calls |-> Idle]
<1>1. \A d \in {c} \cup Joined(c) : q[d] = Idle
  BY DEF Joined
<1>2. call' = [d \in Calls |-> IF d \in {c} \cup Joined(c) THEN q[d] ELSE call[d]]
  BY <1>1 DEF Fail
<1>3. Sound(Idle, generation) /\ Idle.pc \in Ends
  BY IdleFacts DEF Idle, Ends, SemanticInv, PlainInv
<1>4. \A d \in {c} \cup Joined(c) : Sound(q[d], generation) /\ q[d].pc \in Ends
  BY <1>1, <1>3
<1>5. RefreshOver(c)
  BY DEF Fail
<1> HIDE DEF q
<1> QED
  BY <1>2, <1>4, <1>5, EndTogether

\* The locals of a call that has its answer.
Done(kind, start, output) ==
  [Idle EXCEPT !.pc = "done", !.kind = kind, !.start = start, !.out = output]

LEMMA DoneFacts ==
  ASSUME NEW kind \in Kinds, NEW start \in Nat, NEW g \in Nat, NEW output \in Output,
         start <= output.snapshot.gen, start <= g
  PROVE  Sound(Done(kind, start, output), g) /\ Done(kind, start, output).pc = "done"
<1> DEFINE q == Done(kind, start, output)
<1>1. None \in AppId /\ Idle \in CallType
  BY IdleFacts DEF AppId
<1>2. /\ q.pc = "done" /\ q.kind = kind /\ q.start = start /\ q.out = output
      /\ q.before = 0 /\ q.gen = 0 /\ q.taken = None
  BY DEF Idle, Done
<1>3. q \in CallType
  BY <1>1 DEF CallType, Idle, Done
<1>4. Sound(q, g)
  <2> HIDE DEF q
  <2> QED
    BY <1>1, <1>2, <1>3 DEF Sound, Ends, Reads, Asking
<1> QED
  BY <1>2, <1>4

LEMMA AnswerKeeps ==
  ASSUME SemanticInv, NEW c \in Calls, call[c].pc \in Reads, NEW output \in Output,
         output.snapshot.gen <= generation, call[c].start <= output.snapshot.gen,
         call[c].kind = "prepared" => call[c].before <= output.snapshot.gen,
         Answer(c, output), generation' = generation, read' = read
  PROVE  /\ call' \in [Calls -> CallType] /\ CallsInv' /\ JoinInv' /\ WaitInv'
         /\ RefreshInv'
         /\ semanticCache' \in [AppId -> Output \cup {None}]
         /\ \A k \in AppId : semanticCache'[k] # None =>
              semanticCache'[k].snapshot.gen = generation
<1> DEFINE q == [d \in Calls |-> Done(call[d].kind, call[d].start, output)]
<1>1. c \in {c} \cup Joined(c) /\ Joined(c) \subseteq Calls
  BY DEF Joined
<1>2. call' = [d \in Calls |-> IF d \in {c} \cup Joined(c) THEN q[d] ELSE call[d]]
  BY <1>1 DEF Answer, Done
<1>3. output.snapshot.gen \in Nat
  BY DEF Output, Snapshot
<1>4. ASSUME NEW d \in {c} \cup Joined(c)
      PROVE  Sound(q[d], generation) /\ q[d].pc \in Ends
  <2>1. d \in Calls
    BY <1>1
  <2>2. CASE d = c
    <3>1. call[c].kind \in Kinds /\ call[c].start \in Nat /\ call[c].start <= generation
          /\ generation \in Nat
      BY CallFacts DEF Sound
    <3>2. Sound(Done(call[c].kind, call[c].start, output), generation)
          /\ Done(call[c].kind, call[c].start, output).pc = "done"
      BY <3>1, DoneFacts
    <3> QED
      BY <2>2, <3>2 DEF Ends
  <2>3. CASE d \in Joined(c)
    <3>1. call[d].start <= call[c].before /\ call[c].kind = "prepared"
      BY <2>1, <2>3 DEF Joined, SemanticInv, JoinInv, MayJoin, Works
    <3>2. call[d].start \in Nat /\ call[c].before \in Nat /\ call[d].start <= generation
      BY <2>1, CallFacts DEF Sound
    <3>3. call[d].start <= output.snapshot.gen
      BY <3>1, <3>2, <1>3
    <3>4. call[d].kind \in Kinds /\ generation \in Nat
      BY <2>1, CallFacts
    <3>5. Sound(Done(call[d].kind, call[d].start, output), generation)
          /\ Done(call[d].kind, call[d].start, output).pc = "done"
      BY <3>2, <3>3, <3>4, DoneFacts
    <3> QED
      BY <2>1, <3>5 DEF Ends
  <2> QED
    BY <2>2, <2>3
<1>5. RefreshOver(c)
  BY DEF Answer
<1>6. /\ call' \in [Calls -> CallType] /\ CallsInv' /\ JoinInv' /\ WaitInv'
      /\ RefreshInv'
  <2> HIDE DEF q
  <2> QED
    BY <1>2, <1>4, <1>5, EndTogether
<1>7. /\ semanticCache' \in [AppId -> Output \cup {None}]
      /\ \A k \in AppId : semanticCache'[k] # None =>
              semanticCache'[k].snapshot.gen = generation
  <2>1. /\ semanticCache \in [AppId -> Output \cup {None}]
        /\ \A k \in AppId : semanticCache[k] # None =>
              semanticCache[k].snapshot.gen = generation
    BY DEF SemanticInv, KeptInv
  <2>2. \/ semanticCache' = semanticCache
        \/ /\ call[c].kind = "prepared" /\ call[c].before = generation
           /\ semanticCache' = [semanticCache EXCEPT ![call[c].key] = output]
    BY DEF Answer, CacheSemantic, Refreshes
  <2>3. CASE semanticCache' = semanticCache
    BY <2>1, <2>3
  <2>4. CASE /\ call[c].kind = "prepared" /\ call[c].before = generation
             /\ semanticCache' = [semanticCache EXCEPT ![call[c].key] = output]
    <3>1. output.snapshot.gen = generation
      BY <1>3, <2>4, CallFacts
    <3> QED
      BY <2>1, <2>4, <3>1
  <2> QED
    BY <2>2, <2>3, <2>4
<1> QED
  BY <1>6, <1>7

\* A read of the identity is asked for, or joined.
LEMMA AskFacts ==
  ASSUME SemanticInv, NEW c \in Calls, NEW r, AskIdentity(c, r)
  PROVE  /\ call' = [call EXCEPT ![c] = Awaits(r, r.pc)]
         /\ read' \in [phase : {"none", "void", "asked", "sampled"}, app : AppId,
                        connection : Nat]
         /\ read'.phase # "none" /\ known' = known
  BY DEF AskIdentity, SemanticInv, PlainInv, AppId

-----------------------------------------------------------------------------
\* What the steps of the device, the connection and the identity read keep.
Woken(r, got) == [r EXCEPT !.awake = TRUE, !.got = got]

LEMMA WakeFacts ==
  ASSUME NEW g \in Nat, NEW r, Sound(r, g), NEW got \in AppId
  PROVE  /\ Sound(Woken(r, got), g) /\ Woken(r, got).pc = r.pc
         /\ Woken(r, got).kind = r.kind /\ Woken(r, got).start = r.start
         /\ Woken(r, got).before = r.before /\ Woken(r, got).taken = r.taken
         /\ Woken(r, got).awake
<1> DEFINE q == Woken(r, got)
<1>1. r \in CallType
  BY DEF Sound
<1>2. q \in CallType
  BY <1>1 DEF CallType, Woken
<1>3. /\ q.pc = r.pc /\ q.kind = r.kind /\ q.start = r.start /\ q.before = r.before
      /\ q.taken = r.taken /\ q.awake /\ q.gen = r.gen /\ q.acc = r.acc /\ q.out = r.out
  BY <1>1 DEF CallType, Woken
<1>4. Sound(q, g)
  <2> HIDE DEF q
  <2> QED
    BY <1>2, <1>3 DEF Sound
<1> QED
  BY <1>3, <1>4

LEMMA ClearFacts ==
  ASSUME SemanticInv, Clear
  PROVE  KeptInv' /\ RefreshInv' /\ generation' = generation + 1 /\ generation' \in Nat
<1>1. generation \in Nat
  BY DEF SemanticInv, PlainInv
<1> QED
  BY <1>1 DEF Clear, KeptInv, RefreshInv

\* The calls keep their locals, but for what wakes them, while one generation ends.
LEMMA CallsLater ==
  ASSUME SemanticInv, generation' \in {generation, generation + 1},
         call' \in [Calls -> CallType],
         \A c \in Calls : /\ Sound(call'[c], generation)
                          /\ call'[c].pc = call[c].pc /\ call'[c].kind = call[c].kind
                          /\ call'[c].start = call[c].start
                          /\ call'[c].before = call[c].before
                          /\ call'[c].taken = call[c].taken
  PROVE  CallsInv' /\ JoinInv' /\ \A c \in Calls : Works(call'[c]) <=> Works(call[c])
<1>1. generation \in Nat
  BY DEF SemanticInv, PlainInv
<1>2. CallsInv'
  BY <1>1, SoundLater DEF CallsInv
<1>3. \A c \in Calls : Works(call'[c]) <=> Works(call[c])
  BY DEF Works
<1>4. JoinInv'
  <2> SUFFICES ASSUME NEW d \in Calls, call'[d].pc = "join"
               PROVE /\ call'[d].taken \in Calls /\ Works(call'[call'[d].taken])
                     /\ call'[d].start <= call'[call'[d].taken].before
    BY DEF JoinInv, MayJoin
  <2>1. /\ call[d].taken \in Calls /\ Works(call[call[d].taken])
        /\ call[d].start <= call[call[d].taken].before
    BY DEF SemanticInv, JoinInv, MayJoin
  <2> QED
    BY <2>1, <1>3
<1> QED
  BY <1>2, <1>3, <1>4

LEMMA CallsStay ==
  ASSUME SemanticInv, UNCHANGED call, generation' \in {generation, generation + 1}
  PROVE  /\ call' \in [Calls -> CallType] /\ CallsInv' /\ JoinInv'
         /\ \A c \in Calls : Works(call'[c]) <=> Works(call[c])
  BY CallsLater DEF SemanticInv, CallsInv

LEMMA SameSemantic ==
  ASSUME SemanticInv, UNCHANGED semantic,
         \A c \in Calls : Works(call[c]) => Works(call'[c]) /\ call'[c].before = call[c].before
  PROVE  KeptInv' /\ RefreshInv' /\ generation' = generation
  BY DEF semantic, SemanticInv, KeptInv, RefreshInv

LEMMA SampleKeeps ==
  ASSUME SemanticAssumption, SemanticInv, Sample PROVE SemanticInv'
<1>1. UNCHANGED call /\ generation' = generation /\ UNCHANGED semantic
  BY DEF Sample, semantic
<1>2. /\ call' \in [Calls -> CallType] /\ CallsInv' /\ JoinInv'
      /\ KeptInv' /\ RefreshInv'
  BY <1>1, CallsStay, SameSemantic DEF SemanticInv
<1>3. PlainInv'
  <2>1. read' \in [phase : {"none", "void", "asked", "sampled"}, app : AppId, connection : Nat]
    BY DEF Sample, SemanticInv, PlainInv, AppId
  <2>2. trouble' \in 0..MaxTrouble
    BY DEF Sample, SemanticInv, PlainInv, SemanticAssumption
  <2> QED
    BY <1>1, <2>1, <2>2 DEF Sample, SemanticInv, PlainInv, device, link
<1>4. WaitInv'
  BY <1>1 DEF Sample, SemanticInv, WaitInv, PlainInv
<1> QED
  BY <1>2, <1>3, <1>4 DEF SemanticInv

LEMMA ConcludeKeeps ==
  ASSUME SemanticAssumption, SemanticInv, Conclude PROVE SemanticInv'
<1> DEFINE mine == read.connection = connection
           appId == IF mine THEN read.app ELSE None
<1>1. appId \in AppId /\ generation \in Nat
  BY DEF SemanticInv, PlainInv, AppId
<1>2. \/ Clear /\ known' = read.app
      \/ UNCHANGED <<known, semantic>>
  BY DEF Conclude
<1>3. generation' \in {generation, generation + 1}
  BY <1>2 DEF Clear, semantic
<1>4. call' = [c \in Calls |->
                 IF call[c].pc \in Identifying /\ ~call[c].awake
                 THEN [call[c] EXCEPT !.awake = TRUE, !.got = appId]
                 ELSE call[c]]
  BY DEF Conclude
<1>5. \A c \in Calls :
         /\ Sound(call'[c], generation)
         /\ call'[c].pc = call[c].pc /\ call'[c].kind = call[c].kind
         /\ call'[c].start = call[c].start
         /\ call'[c].before = call[c].before
         /\ call'[c].taken = call[c].taken
         /\ call'[c].pc \in Identifying => call'[c].awake
  <2> TAKE c \in Calls
  <2> HIDE DEF appId
  <2>1. Sound(call[c], generation)
    BY DEF SemanticInv, CallsInv
  <2>2. CASE call[c].pc \in Identifying /\ ~call[c].awake
    <3>1. call'[c] = Woken(call[c], appId)
      BY <1>4, <2>2 DEF Woken
    <3>2. /\ Sound(Woken(call[c], appId), generation)
          /\ Woken(call[c], appId).pc = call[c].pc
          /\ Woken(call[c], appId).kind = call[c].kind
          /\ Woken(call[c], appId).start = call[c].start
          /\ Woken(call[c], appId).before = call[c].before
          /\ Woken(call[c], appId).taken = call[c].taken
          /\ Woken(call[c], appId).awake
      BY <1>1, <2>1, WakeFacts
    <3> QED
      BY <3>1, <3>2, Zenon
  <2>3. CASE ~(call[c].pc \in Identifying /\ ~call[c].awake)
    BY <1>4, <2>1, <2>3
  <2> QED
    BY <2>2, <2>3
<1> HIDE DEF appId
<1>6. call' \in [Calls -> CallType]
  BY <1>4, <1>5 DEF Sound
<1>7. CallsInv' /\ JoinInv' /\ \A c \in Calls : Works(call'[c]) <=> Works(call[c])
  BY <1>3, <1>5, <1>6, CallsLater
<1>8. KeptInv' /\ RefreshInv'
  <2>1. CASE Clear
    BY <2>1, ClearFacts
  <2>2. CASE UNCHANGED <<known, semantic>>
    BY <2>2, <1>5, <1>7, SameSemantic
  <2> QED
    BY <1>2, <2>1, <2>2
<1>9. PlainInv'
  <2>1. known' \in AppId /\ generation' \in Nat
    BY <1>1, <1>2, <1>3 DEF SemanticInv, PlainInv, semantic
  <2>2. read' = NoRead /\ UNCHANGED <<device, trouble, begun, link>>
    BY DEF Conclude
  <2> QED
    BY <2>1, <2>2 DEF SemanticInv, PlainInv, NoRead, device, link, AppId
<1>10. WaitInv'
  BY <1>5 DEF WaitInv
<1> QED
  BY <1>6, <1>7, <1>8, <1>9, <1>10 DEF SemanticInv

LEMMA DeviceKeeps ==
  ASSUME SemanticAssumption, SemanticInv, SwitchApp \/ Input \/ Reconnect PROVE SemanticInv'
<1>1. UNCHANGED call /\ (Clear \/ UNCHANGED semantic) /\ generation' \in {generation, generation + 1}
  BY DEF SwitchApp, Input, Reconnect, semantic, Clear
<1>2. /\ call' \in [Calls -> CallType] /\ CallsInv' /\ JoinInv'
      /\ \A c \in Calls : Works(call'[c]) <=> Works(call[c])
  BY <1>1, CallsStay
<1>3. KeptInv' /\ RefreshInv'
  BY <1>1, <1>2, ClearFacts, SameSemantic
<1>4. generation' \in Nat
  BY <1>1 DEF SemanticInv, PlainInv
<1>5. PlainInv'
  BY <1>4 DEF SwitchApp, Input, Reconnect, SemanticInv, PlainInv, device, link, identity,
    SemanticAssumption
<1>6. WaitInv'
  BY <1>1 DEF SwitchApp, Input, Reconnect, SemanticInv, WaitInv, identity
<1> QED
  BY <1>1, <1>2, <1>3, <1>5, <1>6 DEF SemanticInv

LEMMA DisconnectKeeps ==
  ASSUME SemanticAssumption, SemanticInv, Disconnect PROVE SemanticInv'
<1>1. KeptInv' /\ RefreshInv' /\ generation' = generation + 1 /\ generation' \in Nat
      /\ generation \in Nat
  BY ClearFacts DEF Disconnect, SemanticInv, PlainInv
<1>2. ASSUME NEW c \in Calls
      PROVE  \/ /\ call'[c] = Idle
                /\ \/ call[c].pc \in Asking
                   \/ call[c].pc = "join" /\ call[call[c].taken].pc \in Asking
             \/ /\ call[c].pc \notin Asking
                /\ ~(call[c].pc = "join" /\ call[call[c].taken].pc \in Asking)
                /\ Sound(call'[c], generation)
                /\ call'[c].pc = call[c].pc /\ call'[c].kind = call[c].kind
                /\ call'[c].start = call[c].start /\ call'[c].before = call[c].before
                /\ call'[c].taken = call[c].taken
                /\ call'[c].awake = call[c].awake \/ call[c].pc = "context"
  <2>1. Sound(call[c], generation) /\ call[c].got \in AppId /\ call[c] \in CallType
    BY CallFacts
  <2>2. CASE call[c].pc = "context"
    <3>1. call'[c] = [call[c] EXCEPT !.awake = TRUE]
      BY <2>2 DEF Disconnect, Asking
    <3>2. [call[c] EXCEPT !.awake = TRUE] = Woken(call[c], call[c].got)
      BY <2>1 DEF CallType, Woken
    <3>3. /\ Sound(call'[c], generation)
          /\ call'[c].pc = call[c].pc /\ call'[c].kind = call[c].kind
          /\ call'[c].start = call[c].start /\ call'[c].before = call[c].before
          /\ call'[c].taken = call[c].taken
      BY <1>1, <2>1, <3>1, <3>2, WakeFacts
    <3> QED
      BY <2>2, <3>3 DEF Asking
  <2>3. CASE call[c].pc # "context"
    BY <2>1, <2>3 DEF Disconnect
  <2> QED
    BY <2>2, <2>3
<1>3. ASSUME NEW c \in Calls
      PROVE  call'[c] \in CallType /\ Sound(call'[c], generation + 1)
  BY <1>1, <1>2, IdleFacts, SoundLater DEF Sound
<1>4. call' \in [Calls -> CallType]
  BY <1>3 DEF Disconnect
<1>5. CallsInv'
  BY <1>1, <1>3 DEF CallsInv
<1>6. JoinInv'
  <2> SUFFICES ASSUME NEW d \in Calls, call'[d].pc = "join"
               PROVE /\ call'[d].taken \in Calls /\ Works(call'[call'[d].taken])
                     /\ call'[d].start <= call'[call'[d].taken].before
    BY DEF JoinInv, MayJoin
  <2>1. /\ call[d].pc = "join" /\ call'[d].taken = call[d].taken
        /\ call'[d].start = call[d].start /\ call[call[d].taken].pc \notin Asking
    BY <1>2 DEF Idle
  <2>2. /\ call[d].taken \in Calls /\ Works(call[call[d].taken])
        /\ call[d].start <= call[call[d].taken].before
    BY <2>1 DEF SemanticInv, JoinInv, MayJoin
  <2>3. call[call[d].taken].pc # "join"
    BY <2>2 DEF Works
  <2>4. LET o == call[d].taken IN
        call'[o].pc = call[o].pc /\ call'[o].kind = call[o].kind /\ call'[o].before = call[o].before
    BY <1>2, <2>1, <2>2, <2>3
  <2> QED
    BY <2>1, <2>2, <2>4 DEF Works
<1>7. PlainInv'
  <2>1. connection' = 0 /\ known' = None /\ connections' = connections
    BY DEF Disconnect
  <2>2. read' \in [phase : {"none", "void", "asked", "sampled"}, app : AppId, connection : Nat]
    BY DEF Disconnect, SemanticInv, PlainInv, AppId
  <2> QED
    BY <1>1, <2>1, <2>2 DEF Disconnect, SemanticInv, PlainInv, AppId, device, SemanticAssumption
<1>8. WaitInv'
  <2> SUFFICES ASSUME NEW d \in Calls, call'[d].pc \in Identifying, ~call'[d].awake
               PROVE  read'.phase # "none"
    BY DEF WaitInv
  <2>1. call[d].pc \in Identifying /\ ~call[d].awake
    BY <1>2 DEF Idle, Identifying
  <2>2. read.phase # "none"
    BY <2>1 DEF SemanticInv, WaitInv
  <2> QED
    BY <2>2 DEF Disconnect, SemanticInv, PlainInv
<1> QED
  BY <1>1, <1>4, <1>5, <1>6, <1>7, <1>8 DEF SemanticInv

-----------------------------------------------------------------------------
\* The locals of a call as it is made.
New(pc, kind, start, before, gen) ==
  [Idle EXCEPT !.pc = pc, !.kind = kind, !.start = start, !.before = before, !.gen = gen]

LEMMA NewFacts ==
  ASSUME NEW g \in Nat, NEW pc \in {"reading", "identify", "prepare", "nativeIdentify"},
         NEW kind \in Kinds, NEW before \in {0, g}, NEW gen \in {0, g},
         kind = "prepared" <=> pc = "prepare", pc = "reading" => gen = g,
         pc = "identify" => before = g
  PROVE  Sound(New(pc, kind, g, before, gen), g) /\ New(pc, kind, g, before, gen).pc = pc
<1> DEFINE q == New(pc, kind, g, before, gen)
<1>1. /\ q.pc = pc /\ q.kind = kind /\ q.start = g /\ q.before = before /\ q.gen = gen
      /\ q.taken = None /\ q.acc = None
  BY DEF New, Idle
<1>2. q \in CallType
  <2>1. None \in AppId /\ Idle \in CallType
    BY IdleFacts DEF AppId
  <2>2. pc \in {"idle", "done", "join", "inspect", "context"} \cup Identifying \cup Asking
    BY DEF Identifying, Asking
  <2>3. before \in Nat /\ gen \in Nat
    OBVIOUS
  <2> QED
    BY <2>1, <2>2, <2>3 DEF New, CallType
<1>3. Sound(q, g)
  <2> HIDE DEF q
  <2> QED
    BY <1>1, <1>2 DEF Sound, Ends, Reads, Asking, AppId
<1> QED
  BY <1>1, <1>3

\* The locals of a call that goes on, with those it changes.
Moved(r, pc, before, gen, key, app, acc, taken) ==
  [r EXCEPT !.pc = pc, !.awake = FALSE, !.got = None, !.before = before, !.gen = gen,
            !.key = key, !.app = app, !.acc = acc, !.taken = taken]

LEMMA MovedPcs ==
  /\ {"join", "inspect", "context", "snapshot", "nativeSnapshot", "identify", "verify", "confirm",
      "nativeIdentify", "nativeVerify"}
        \subseteq {"idle", "done", "join", "inspect", "context"} \cup Identifying \cup Asking
  /\ None \in AppId
  BY DEF Identifying, Asking, AppId

-----------------------------------------------------------------------------
\* Call c goes on with the locals r, and what belongs to no call stays as it is or
\* is of the current generation.
LEMMA GoesOnKeeping ==
  ASSUME SemanticInv, NEW c \in Calls, NEW r, Sound(r, generation),
         call' = [call EXCEPT ![c] = r],
         Works(call[c]) => Works(r) /\ r.before = call[c].before,
         r.pc = "join" => MayJoin(r),
         r.pc \in Identifying /\ ~r.awake => read'.phase # "none",
         read.phase # "none" => read'.phase # "none",
         read' \in [phase : {"none", "void", "asked", "sampled"}, app : AppId,
                    connection : Nat],
         UNCHANGED <<device, trouble, link, known, generation, refresh>>, KeptInv',
         begun' \in 0..MaxBegun
  PROVE  SemanticInv'
<1>1. generation' = generation /\ refresh' = refresh
  OBVIOUS
<1>2. /\ call' \in [Calls -> CallType] /\ CallsInv' /\ JoinInv' /\ WaitInv'
      /\ \A d \in Calls : Works(call[d]) => Works(call'[d]) /\ call'[d].before = call[d].before
  BY <1>1, OneCall
<1>3. RefreshInv'
  BY <1>1, <1>2 DEF SemanticInv, RefreshInv
<1>4. PlainInv'
  BY <1>1 DEF SemanticInv, PlainInv, device, link
<1> QED
  BY <1>2, <1>3, <1>4 DEF SemanticInv

\* The same, where nothing that belongs to no call changes.
LEMMA GoesOn ==
  ASSUME SemanticInv, NEW c \in Calls, NEW r, Sound(r, generation),
         call' = [call EXCEPT ![c] = r],
         Works(call[c]) => Works(r) /\ r.before = call[c].before,
         r.pc = "join" => MayJoin(r),
         r.pc \in Identifying /\ ~r.awake => read'.phase # "none",
         read.phase # "none" => read'.phase # "none",
         read' \in [phase : {"none", "void", "asked", "sampled"}, app : AppId,
                    connection : Nat],
         UNCHANGED <<device, trouble, link, known, semantic>>, begun' \in 0..MaxBegun
  PROVE  SemanticInv'
<1>1. generation' = generation /\ refresh' = refresh /\ KeptInv'
  BY DEF semantic, SemanticInv, KeptInv
<1> QED
  BY <1>1, GoesOnKeeping

\* A call that has its snapshot goes on to wait for what it reads beside it.
LEMMA WaitsReading ==
  ASSUME SemanticInv, NEW c \in Calls, NEW pc \in {"inspect", "context"}, call[c].pc \in Reads,
         call' = [call EXCEPT ![c] = Awaits(@, pc)],
         UNCHANGED <<device, trouble, link, identity, semantic>>, begun' \in 0..MaxBegun
  PROVE  SemanticInv'
<1> DEFINE q == Awaits(call[c], pc)
<1>1. call[c] \in CallType /\ Sound(call[c], generation) /\ pc \in CallPcs
  BY CallFacts DEF CallPcs
<1>2. /\ q \in CallType /\ q.pc = pc /\ q.kind = call[c].kind /\ q.start = call[c].start
      /\ q.before = call[c].before /\ q.gen = call[c].gen /\ q.acc = call[c].acc
      /\ q.taken = call[c].taken
  BY <1>1, AwaitsFacts
<1>3. call' = [call EXCEPT ![c] = q] /\ read' = read /\ known' = known
  BY DEF identity
<1> HIDE DEF q
<1>4. Sound(q, generation)
  BY <1>1, <1>2 DEF Sound, Ends, Reads, Asking
<1>5. Works(q) <=> Works(call[c])
  BY <1>2 DEF Works, Ends, Reads
<1> QED
  BY <1>2, <1>3, <1>4, <1>5, GoesOn DEF Identifying, SemanticInv, PlainInv

\* The same, asking for the identity read.
LEMMA GoesOnAsking ==
  ASSUME SemanticInv, NEW c \in Calls, NEW r, NEW q, AskIdentity(c, r), q = Awaits(r, r.pc),
         Sound(q, generation), q.pc \in Identifying \cup {"nativeVerify"},
         Works(call[c]) => Works(q) /\ q.before = call[c].before,
         UNCHANGED <<device, trouble, link, semantic>>, begun' \in 0..MaxBegun
  PROVE  SemanticInv'
<1>1. /\ call' = [call EXCEPT ![c] = q]
      /\ read' \in [phase : {"none", "void", "asked", "sampled"}, app : AppId,
                    connection : Nat]
      /\ read'.phase # "none" /\ known' = known
  BY AskFacts
<1>2. q.pc # "join"
  BY DEF Identifying
<1> QED
  BY <1>1, <1>2, GoesOn

\* Call c fails, and the calls that joined it with it.
LEMMA FailsWhole ==
  ASSUME SemanticInv, NEW c \in Calls, Fail(c),
         UNCHANGED <<device, trouble, begun, link, identity, generation, lastAccessibility,
                     lastElements, fiberCache>>
  PROVE  SemanticInv'
<1>1. read' = read /\ generation' = generation /\ known' = known
      /\ semanticCache' = semanticCache
  BY DEF identity, Fail
<1>2. /\ call' \in [Calls -> CallType] /\ CallsInv' /\ JoinInv' /\ WaitInv' /\ RefreshInv'
  BY <1>1, FailKeeps
<1>3. KeptInv'
  BY <1>1 DEF SemanticInv, KeptInv
<1>4. PlainInv'
  BY <1>1 DEF SemanticInv, PlainInv, device, link
<1> QED
  BY <1>2, <1>3, <1>4 DEF SemanticInv

\* Call c answers with output, of the snapshot it kept or of the fiber cache.
LEMMA AnswersWhole ==
  ASSUME SemanticInv, NEW c \in Calls, call[c].pc \in Reads, NEW output \in Output,
         output.snapshot.gen <= generation, call[c].start <= output.snapshot.gen,
         call[c].kind = "prepared" => call[c].before <= output.snapshot.gen,
         Answer(c, output), lastElements' = output,
         fiberCache' \in [AppId \X Apps -> Output \cup {None}],
         \A k \in AppId \X Apps : fiberCache'[k] # None =>
            fiberCache'[k].snapshot.gen = generation,
         UNCHANGED <<device, trouble, begun, link, identity, generation, lastAccessibility>>
  PROVE  SemanticInv'
<1>1. read' = read /\ generation' = generation /\ known' = known
  BY DEF identity
<1>2. /\ call' \in [Calls -> CallType] /\ CallsInv' /\ JoinInv' /\ WaitInv' /\ RefreshInv'
      /\ semanticCache' \in [AppId -> Output \cup {None}]
      /\ \A k \in AppId : semanticCache'[k] # None =>
           semanticCache'[k].snapshot.gen = generation
  BY <1>1, AnswerKeeps
<1>3. KeptInv'
  BY <1>1, <1>2 DEF SemanticInv, KeptInv
<1>4. PlainInv'
  BY <1>1 DEF SemanticInv, PlainInv, device, link
<1> QED
  BY <1>2, <1>3, <1>4 DEF SemanticInv

LEMMA BeginKeeps ==
  ASSUME SemanticAssumption, SemanticInv, NEW c \in Calls, NEW kind \in Kinds, Begin(c, kind)
  PROVE  SemanticInv'
<1> DEFINE r == [Idle EXCEPT !.kind = kind, !.start = generation]
<1>1. /\ call[c].pc \in Ends /\ generation \in Nat /\ begun' \in 0..MaxBegun
      /\ UNCHANGED <<device, trouble, link, semantic>>
  BY DEF Begin, SemanticInv, PlainInv, SemanticAssumption, Ends
<1>2. ~Works(call[c])
  BY <1>1 DEF Works
<1>3. /\ Idle \in CallType /\ Idle.awake = FALSE /\ Idle.got = None /\ Idle.gen = 0
      /\ Idle.before = 0 /\ Idle.pc = "idle"
  BY IdleFacts DEF Idle
<1>4. CASE /\ kind = "snapshot" /\ UNCHANGED identity
           /\ call' = [call EXCEPT ![c] = [r EXCEPT !.pc = "reading", !.gen = generation]]
  <2> DEFINE p == [r EXCEPT !.pc = "reading", !.gen = generation]
             q == New("reading", "snapshot", generation, 0, generation)
  <2>1. p = q /\ call' = [call EXCEPT ![c] = p]
    BY <1>3, <1>4 DEF New, CallType
  <2>2. Sound(q, generation) /\ q.pc = "reading"
    BY <1>1, NewFacts DEF Kinds
  <2>3. read' = read /\ known' = known
    BY <1>4 DEF identity
  <2> HIDE DEF p, q
  <2> QED
    BY <1>1, <1>2, <2>1, <2>2, <2>3, GoesOn DEF Identifying, SemanticInv, PlainInv
<1>5. CASE kind = "elements"
           /\ AskIdentity(c, [r EXCEPT !.pc = "identify", !.before = generation])
  <2> DEFINE p == [r EXCEPT !.pc = "identify", !.before = generation]
             q == New("identify", "elements", generation, generation, 0)
  <2>1. p.pc = "identify" /\ Awaits(p, "identify") = q
    BY <1>3, <1>5 DEF Awaits, New, CallType
  <2>2. Sound(q, generation) /\ q.pc = "identify"
    BY <1>1, NewFacts DEF Kinds
  <2>3. AskIdentity(c, p)
    BY <1>5
  <2> HIDE DEF p, q
  <2> QED
    BY <1>1, <1>2, <2>1, <2>2, <2>3, GoesOnAsking DEF Identifying
<1>6. CASE kind = "prepared" /\ AskIdentity(c, [r EXCEPT !.pc = "prepare"])
  <2> DEFINE p == [r EXCEPT !.pc = "prepare"]
             q == New("prepare", "prepared", generation, 0, 0)
  <2>1. p.pc = "prepare" /\ Awaits(p, "prepare") = q
    BY <1>3, <1>6 DEF Awaits, New, CallType
  <2>2. Sound(q, generation) /\ q.pc = "prepare"
    BY <1>1, NewFacts DEF Kinds
  <2>3. AskIdentity(c, p)
    BY <1>6
  <2> HIDE DEF p, q
  <2> QED
    BY <1>1, <1>2, <2>1, <2>2, <2>3, GoesOnAsking DEF Identifying
<1>7. CASE kind = "native" /\ AskIdentity(c, [r EXCEPT !.pc = "nativeIdentify"])
  <2> DEFINE p == [r EXCEPT !.pc = "nativeIdentify"]
             q == New("nativeIdentify", "native", generation, 0, 0)
  <2>1. p.pc = "nativeIdentify" /\ Awaits(p, "nativeIdentify") = q
    BY <1>3, <1>7 DEF Awaits, New, CallType
  <2>2. Sound(q, generation) /\ q.pc = "nativeIdentify"
    BY <1>1, NewFacts DEF Kinds
  <2>3. AskIdentity(c, p)
    BY <1>7
  <2> HIDE DEF p, q
  <2> QED
    BY <1>1, <1>2, <2>1, <2>2, <2>3, GoesOnAsking DEF Identifying
<1> QED
  BY <1>4, <1>5, <1>6, <1>7 DEF Begin

LEMMA IdentifiedKeeps ==
  ASSUME SemanticAssumption, SemanticInv, NEW c \in Calls, Identified(c)
  PROVE  SemanticInv'
<1> DEFINE r == [call[c] EXCEPT !.app = call[c].got, !.gen = generation]
<1>1. /\ call[c].pc = "identify" /\ begun' \in 0..MaxBegun /\ UNCHANGED <<device, trouble, link>>
  BY DEF Identified, SemanticInv, PlainInv
<1>2. /\ call[c] \in CallType /\ Sound(call[c], generation) /\ generation \in Nat
      /\ call[c].before \in Nat /\ call[c].key \in AppId /\ call[c].got \in AppId
      /\ call[c].acc \in Snapshot \cup {None} /\ None \in AppId
  BY CallFacts DEF CallType, AppId
<1>3. /\ call[c].taken = None /\ call[c].start <= call[c].before
      /\ call[c].start <= generation /\ call[c].before <= generation
      /\ call[c].acc # None => call[c].acc.gen = call[c].before
  BY <1>1, <1>2 DEF Sound, Asking
<1>4. CASE /\ call[c].before = generation /\ call[c].acc # None
           /\ AskIdentity(c, [r EXCEPT !.pc = "verify"])
           /\ UNCHANGED <<semanticCache, refresh>>
  <2> DEFINE p == [r EXCEPT !.pc = "verify"]
             q == Moved(call[c], "verify", call[c].before, generation, call[c].key,
                        call[c].got, call[c].acc, None)
  <2>1. p.pc = "verify" /\ Awaits(p, "verify") = q
    BY <1>2, <1>3 DEF Awaits, Moved, CallType
  <2>2. /\ q \in CallType /\ q.pc = "verify" /\ q.kind = call[c].kind /\ q.start = call[c].start
        /\ q.before = call[c].before /\ q.gen = generation /\ q.acc = call[c].acc /\ q.taken = None
    BY <1>2, MovedPcs, ZenonT(40) DEF Moved, CallType
  <2>3. AskIdentity(c, p) /\ UNCHANGED semantic
    BY <1>4 DEF Identified, semantic
  <2> HIDE DEF p, q
  <2>4. Sound(q, generation)
    BY <1>2, <1>3, <1>4, <2>2 DEF Sound, Ends, Reads, Asking
  <2>5. Works(q) <=> Works(call[c])
    BY <1>1, <2>2 DEF Works, Ends
  <2> QED
    BY <1>1, <2>1, <2>2, <2>3, <2>4, <2>5, GoesOnAsking DEF Identifying
<1>5. CASE call' = [call EXCEPT ![c] = Awaits(r, "snapshot")]
           /\ UNCHANGED <<identity, semanticCache, refresh>>
  <2> DEFINE q == Moved(call[c], "snapshot", call[c].before, generation, call[c].key,
                        call[c].got, call[c].acc, None)
  <2>1. Awaits(r, "snapshot") = q
    BY <1>2, <1>3 DEF Awaits, Moved, CallType
  <2>2. /\ q \in CallType /\ q.pc = "snapshot" /\ q.kind = call[c].kind /\ q.start = call[c].start
        /\ q.before = call[c].before /\ q.gen = generation /\ q.acc = call[c].acc /\ q.taken = None
    BY <1>2, MovedPcs, ZenonT(40) DEF Moved, CallType
  <2>3. call' = [call EXCEPT ![c] = q] /\ UNCHANGED <<known, semantic>> /\ read' = read
    BY <1>5, <2>1 DEF Identified, semantic, identity
  <2> HIDE DEF q
  <2>4. Sound(q, generation)
    BY <1>2, <1>3, <2>2 DEF Sound, Ends, Reads, Asking
  <2>5. Works(q) <=> Works(call[c])
    BY <1>1, <2>2 DEF Works, Ends
  <2> QED
    BY <1>1, <2>2, <2>3, <2>4, <2>5, GoesOn DEF Identifying, SemanticInv, PlainInv
<1>6. CASE Fail(c) /\ UNCHANGED identity
  BY <1>6, FailsWhole DEF Identified
<1> QED
  BY <1>4, <1>5, <1>6 DEF Identified

LEMMA NativeIdentifiedKeeps ==
  ASSUME SemanticAssumption, SemanticInv, NEW c \in Calls, NativeIdentified(c)
  PROVE  SemanticInv'
<1>1. call[c].pc = "nativeIdentify" /\ begun' \in 0..MaxBegun
  BY DEF NativeIdentified, SemanticInv, PlainInv
<1>2. /\ call[c] \in CallType /\ Sound(call[c], generation) /\ generation \in Nat
      /\ call[c].before \in Nat /\ call[c].key \in AppId /\ call[c].app \in AppId
      /\ call[c].acc \in Snapshot \cup {None} /\ None \in AppId
  BY CallFacts DEF CallType, AppId
<1>3. CASE /\ call' = [call EXCEPT ![c] = [Awaits(@, "nativeSnapshot") EXCEPT !.gen = generation]]
           /\ UNCHANGED <<semanticCache, refresh>>
  <2> DEFINE q == Moved(call[c], "nativeSnapshot", call[c].before, generation, call[c].key,
                        call[c].app, call[c].acc, None)
  <2>1. [Awaits(call[c], "nativeSnapshot") EXCEPT !.gen = generation] = q
    <3>1. call[c].taken = None
      BY <1>1, <1>2 DEF Sound, Asking
    <3> QED
      BY <1>2, <3>1 DEF Awaits, Moved, CallType
  <2>2. /\ q \in CallType /\ q.pc = "nativeSnapshot" /\ q.kind = call[c].kind
        /\ q.start = call[c].start /\ q.before = call[c].before /\ q.gen = generation
        /\ q.acc = call[c].acc /\ q.taken = None
    BY <1>2, MovedPcs, ZenonT(40) DEF Moved, CallType
  <2>3. call' = [call EXCEPT ![c] = q] /\ UNCHANGED <<known, semantic, device, trouble, link>>
        /\ read' = read
    BY <1>3, <2>1 DEF NativeIdentified, semantic, identity
  <2> HIDE DEF q
  <2>4. Sound(q, generation)
    BY <1>1, <1>2, <2>2 DEF Sound, Ends, Reads, Asking
  <2>5. Works(q) <=> Works(call[c])
    BY <1>1, <2>2 DEF Works, Ends
  <2> QED
    BY <1>1, <2>2, <2>3, <2>4, <2>5, GoesOn DEF Identifying, SemanticInv, PlainInv
<1>4. CASE Fail(c)
  BY <1>4, FailsWhole DEF NativeIdentified
<1> QED
  BY <1>3, <1>4 DEF NativeIdentified

LEMMA TakeSnapshotKeeps ==
  ASSUME SemanticAssumption, SemanticInv, NEW c \in Calls, TakeSnapshot(c)
  PROVE  SemanticInv'
<1> DEFINE q == [call[c] EXCEPT !.taken = front]
<1>1. /\ call[c].pc \in Asking /\ begun' \in 0..MaxBegun /\ front \in AppId
      /\ UNCHANGED <<known, semantic, device, trouble, link>> /\ read' = read
  BY DEF TakeSnapshot, SemanticInv, PlainInv, identity, AppId
<1>2. call[c] \in CallType /\ Sound(call[c], generation)
  BY CallFacts
<1>3. call' = [call EXCEPT ![c] = q]
  BY <1>2 DEF TakeSnapshot
<1>4. /\ q \in CallType /\ q.pc = call[c].pc /\ q.kind = call[c].kind
      /\ q.start = call[c].start /\ q.before = call[c].before /\ q.gen = call[c].gen
      /\ q.taken = front
  BY <1>1, <1>2 DEF CallType
<1> HIDE DEF q
<1>5. Sound(q, generation)
  BY <1>1, <1>2, <1>4 DEF Sound, Ends, Reads, Asking
<1>6. Works(q) <=> Works(call[c])
  BY <1>4 DEF Works
<1> QED
  BY <1>1, <1>3, <1>4, <1>5, <1>6, GoesOn DEF Identifying, Asking, SemanticInv, PlainInv

\* A call that has its snapshot asks for the third identity read.
LEMMA ConfirmAsked ==
  ASSUME SemanticInv, NEW c \in Calls, NEW fiber \in BOOLEAN, call[c].pc \in Reads,
         AskIdentity(c, [call[c] EXCEPT !.pc = "confirm", !.fiber = fiber]),
         UNCHANGED <<device, trouble, link, semantic>>, begun' \in 0..MaxBegun
  PROVE  SemanticInv'
<1> DEFINE r == [call[c] EXCEPT !.fiber = fiber]
           p == [call[c] EXCEPT !.pc = "confirm", !.fiber = fiber]
           q == Moved(r, "confirm", call[c].before, call[c].gen, call[c].key,
                      call[c].app, call[c].acc, None)
<1>1. /\ call[c] \in CallType /\ Sound(call[c], generation) /\ generation \in Nat
      /\ call[c].before \in Nat /\ call[c].gen \in Nat /\ call[c].key \in AppId
      /\ call[c].app \in AppId /\ call[c].acc \in Snapshot \cup {None} /\ None \in AppId
  BY CallFacts DEF AppId
<1>2. call[c].taken = None
  BY <1>1 DEF Sound, Asking, Reads
<1>3. p.pc = "confirm" /\ Awaits(p, "confirm") = q
  BY <1>1, <1>2 DEF Awaits, Moved, CallType
<1>4. r \in CallType /\ r.kind = call[c].kind /\ r.start = call[c].start
  BY <1>1 DEF CallType
<1>5. AskIdentity(c, p)
  OBVIOUS
<1>6. /\ q \in CallType /\ q.pc = "confirm" /\ q.kind = call[c].kind /\ q.start = call[c].start
      /\ q.before = call[c].before /\ q.gen = call[c].gen /\ q.acc = call[c].acc
      /\ q.taken = None
  <2> HIDE DEF r
  <2> QED
    BY <1>1, <1>4, MovedPcs, ZenonT(40) DEF Moved, CallType
<1> HIDE DEF p, q
<1>7. Sound(q, generation)
  BY <1>1, <1>6 DEF Sound, Ends, Reads, Asking
<1>8. Works(q) <=> Works(call[c])
  BY <1>6 DEF Works, Ends, Reads
<1> QED
  BY <1>3, <1>5, <1>6, <1>7, <1>8, GoesOnAsking DEF Identifying

LEMMA InspectedKeeps ==
  ASSUME SemanticAssumption, SemanticInv, NEW c \in Calls, Inspected(c)
  PROVE  SemanticInv'
<1>1. PICK fiber \in BOOLEAN :
         AskIdentity(c, [call[c] EXCEPT !.pc = "confirm", !.fiber = fiber])
  BY DEF Inspected
<1>2. /\ call[c].pc = "inspect" /\ begun' \in 0..MaxBegun
      /\ UNCHANGED <<device, trouble, link, semantic>>
  BY DEF Inspected, SemanticInv, PlainInv
<1> QED
  BY <1>1, <1>2, ConfirmAsked DEF Reads

LEMMA PrepareKeeps ==
  ASSUME SemanticAssumption, SemanticInv, NEW c \in Calls, Prepare(c)
  PROVE  SemanticInv'
<1> DEFINE key == IF lastAccessibility = None THEN None ELSE lastAccessibility.app
           r == [call[c] EXCEPT !.key = key, !.before = generation]
<1>1. /\ call[c].pc = "prepare" /\ generation' = generation
      /\ UNCHANGED <<device, trouble, begun, link, lastAccessibility, fiberCache, semanticCache>>
  BY DEF Prepare
<1>2. /\ call[c] \in CallType /\ Sound(call[c], generation) /\ generation \in Nat
      /\ call[c].gen \in Nat /\ call[c].app \in AppId /\ call[c].start \in Nat
      /\ call[c].kind = "prepared" /\ call[c].taken = None /\ call[c].start <= generation
      /\ None \in AppId
  BY <1>1, CallFacts DEF Sound, Asking, AppId
<1>3. key \in AppId /\ ~Works(call[c])
  BY <1>1 DEF SemanticInv, KeptInv, Snapshot, AppId, Works
<1> HIDE DEF key
<1>4. CASE /\ semanticCache[key] # None
           /\ lastElements' = semanticCache[key]
           /\ call' = [call EXCEPT ![c] = [Idle EXCEPT
                         !.pc = "done", !.kind = "prepared",
                         !.start = call[c].start, !.out = semanticCache[key]]]
           /\ UNCHANGED <<identity, refresh>>
  <2> DEFINE output == semanticCache[key]
             q == Done("prepared", call[c].start, output)
  <2>1. output \in Output /\ output.snapshot.gen = generation
    BY <1>3, <1>4 DEF SemanticInv, KeptInv
  <2>2. call' = [call EXCEPT ![c] = q]
    BY <1>4 DEF Done
  <2>3. Sound(q, generation) /\ q.pc = "done"
    <3>1. call[c].start <= output.snapshot.gen
      BY <1>2, <2>1
    <3> HIDE DEF output
    <3> QED
      BY <1>2, <2>1, <3>1, DoneFacts DEF Kinds
  <2>4. read' = read /\ known' = known
    BY <1>4 DEF identity
  <2> HIDE DEF q
  <2>5. /\ call' \in [Calls -> CallType] /\ CallsInv' /\ JoinInv' /\ WaitInv'
        /\ \A d \in Calls : Works(call[d]) => Works(call'[d]) /\ call'[d].before = call[d].before
    BY <1>1, <1>3, <2>2, <2>3, <2>4, OneCall DEF Identifying
  <2>6. RefreshInv' /\ KeptInv'
    BY <1>1, <1>4, <2>1, <2>5 DEF SemanticInv, RefreshInv, KeptInv
  <2>7. PlainInv'
    BY <1>1, <2>4 DEF SemanticInv, PlainInv, device, link
  <2> QED
    BY <2>5, <2>6, <2>7 DEF SemanticInv
<1>5. CASE /\ refresh[key] # None
           /\ call' = [call EXCEPT ![c] = [Awaits(r, "join") EXCEPT !.taken = refresh[key]]]
           /\ UNCHANGED <<identity, refresh, lastElements>>
  <2> DEFINE q == Moved(call[c], "join", generation, call[c].gen, key, call[c].app,
                        call[c].acc, refresh[key])
  <2>1. [Awaits(r, "join") EXCEPT !.taken = refresh[key]] = q
    BY <1>2 DEF Awaits, Moved, CallType
  <2>2. refresh[key] \in Calls /\ Works(call[refresh[key]])
        /\ call[refresh[key]].before = generation
    BY <1>3, <1>5 DEF SemanticInv, RefreshInv
  <2>3. /\ q \in CallType /\ q.pc = "join" /\ q.kind = call[c].kind /\ q.start = call[c].start
        /\ q.before = generation /\ q.gen = call[c].gen /\ q.taken = refresh[key]
    <3>1. call[c].acc \in Snapshot \cup {None} /\ refresh[key] \in AppId \cup Calls
      BY <2>2, CallFacts
    <3> QED
      BY <1>2, <1>3, <3>1, MovedPcs, ZenonT(40) DEF Moved, CallType
  <2>4. call' = [call EXCEPT ![c] = q] /\ read' = read
        /\ UNCHANGED <<device, trouble, link, known, semantic>>
    BY <1>1, <1>5, <2>1 DEF identity, semantic
  <2> HIDE DEF q
  <2>5. Sound(q, generation) /\ MayJoin(q)
    BY <1>2, <2>2, <2>3 DEF Sound, Ends, Reads, Asking, MayJoin
  <2>6. begun' \in 0..MaxBegun
    BY <1>1 DEF SemanticInv, PlainInv
  <2> QED
    BY <1>3, <2>3, <2>4, <2>5, <2>6, GoesOn DEF Identifying, SemanticInv, PlainInv
<1>6. CASE /\ refresh[key] = None
           /\ refresh' = [refresh EXCEPT ![key] = c]
           /\ AskIdentity(c, [r EXCEPT !.pc = "identify", !.acc = lastAccessibility])
           /\ UNCHANGED lastElements
  <2> DEFINE p == [r EXCEPT !.pc = "identify", !.acc = lastAccessibility]
             q == Moved(call[c], "identify", generation, call[c].gen, key, call[c].app,
                        lastAccessibility, None)
  <2>1. p.pc = "identify" /\ Awaits(p, "identify") = q
    BY <1>2 DEF Awaits, Moved, CallType
  <2>2. /\ lastAccessibility \in Snapshot \cup {None}
        /\ lastAccessibility # None => lastAccessibility.gen = generation
    BY DEF SemanticInv, KeptInv
  <2>3. /\ q \in CallType /\ q.pc = "identify" /\ q.kind = call[c].kind
        /\ q.start = call[c].start /\ q.before = generation /\ q.gen = call[c].gen
        /\ q.acc = lastAccessibility /\ q.taken = None
    BY <1>2, <1>3, <2>2, MovedPcs, ZenonT(40) DEF Moved, CallType
  <2>4. AskIdentity(c, p)
    BY <1>6
  <2> HIDE DEF p, q
  <2>5. /\ call' = [call EXCEPT ![c] = q]
        /\ read' \in [phase : {"none", "void", "asked", "sampled"}, app : AppId,
                      connection : Nat]
        /\ read'.phase # "none" /\ known' = known
    BY <2>1, <2>4, AskFacts
  <2>6. Sound(q, generation) /\ Works(q)
    BY <1>2, <2>2, <2>3 DEF Sound, Ends, Reads, Asking, Works
  <2>7. /\ call' \in [Calls -> CallType] /\ CallsInv' /\ JoinInv' /\ WaitInv'
        /\ \A d \in Calls : Works(call[d]) => Works(call'[d]) /\ call'[d].before = call[d].before
        /\ call'[c] = q
    BY <1>1, <1>3, <2>3, <2>5, <2>6, OneCall
  <2>8. KeptInv'
    BY <1>1, <1>6 DEF SemanticInv, KeptInv
  <2>9. RefreshInv'
    <3>1. refresh' \in [AppId -> Calls \cup {None}]
      BY <1>6 DEF SemanticInv, RefreshInv
    <3>2. ASSUME NEW k \in AppId, refresh'[k] # None
          PROVE  Works(call'[refresh'[k]]) /\ call'[refresh'[k]].before = generation
      <4>1. CASE k = key
        BY <1>3, <1>6, <2>3, <2>6, <2>7, <4>1 DEF SemanticInv, RefreshInv
      <4>2. CASE k # key
        BY <1>6, <2>7, <3>2, <4>2 DEF SemanticInv, RefreshInv
      <4> QED
        BY <4>1, <4>2
    <3> QED
      BY <1>1, <3>1, <3>2 DEF RefreshInv
  <2>10. PlainInv'
    BY <1>1, <2>5 DEF SemanticInv, PlainInv, device, link
  <2> QED
    BY <2>7, <2>8, <2>9, <2>10 DEF SemanticInv
<1> QED
  BY <1>4, <1>5, <1>6 DEF Prepare, key

LEMMA SnapshottedKeeps ==
  ASSUME SemanticAssumption, SemanticInv, NEW c \in Calls, Snapshotted(c)
  PROVE  SemanticInv'
<1> DEFINE snapshot == [app |-> call[c].taken, gen |-> call[c].gen]
           r == [call[c] EXCEPT !.acc = snapshot, !.taken = None]
<1>1. /\ call[c].pc \in Asking /\ call[c].taken # None
      /\ UNCHANGED <<device, trouble, begun, link, generation, refresh>>
      /\ lastAccessibility' \in {snapshot, lastAccessibility}
      /\ lastAccessibility' = snapshot =>
           call[c].gen = generation \/ snapshot = lastAccessibility
      /\ begun' \in 0..MaxBegun
  BY DEF Snapshotted, SemanticInv, PlainInv
<1>2. /\ call[c] \in CallType /\ Sound(call[c], generation) /\ generation \in Nat
      /\ call[c].before \in Nat /\ call[c].gen \in Nat /\ call[c].key \in AppId
      /\ call[c].app \in AppId /\ call[c].start \in Nat /\ None \in AppId
      /\ call[c].kind \in Kinds
  BY CallFacts DEF AppId
<1>3. /\ snapshot \in Snapshot /\ snapshot.gen = call[c].gen
      /\ call[c].start <= call[c].gen /\ call[c].gen <= generation
      /\ call[c].kind = "prepared" => call[c].before <= call[c].gen
  BY <1>1, <1>2 DEF Sound, Asking, Snapshot, AppId
<1> HIDE DEF snapshot
<1>4. KeptInv'
  <2>1. UNCHANGED <<generation, lastElements, fiberCache, semanticCache>>
    BY DEF Snapshotted
  <2>2. lastAccessibility' \in Snapshot \cup {None}
        /\ (lastAccessibility' # None => lastAccessibility'.gen = generation)
    BY <1>1, <1>3 DEF SemanticInv, KeptInv
  <2> QED
    BY <2>1, <2>2 DEF SemanticInv, KeptInv
<1>5. CASE /\ call[c].pc = "reading"
           /\ call' = [call EXCEPT ![c] = [Idle EXCEPT
                !.pc = "done", !.start = call[c].start,
                !.out = [snapshot |-> snapshot, app |-> None, fiber |-> FALSE]]]
           /\ UNCHANGED identity
  <2> DEFINE output == [snapshot |-> snapshot, app |-> None, fiber |-> FALSE]
             q == Done("snapshot", call[c].start, output)
  <2>1. output \in Output /\ output.snapshot.gen = call[c].gen
    BY <1>2, <1>3 DEF Output
  <2>2. q = [Idle EXCEPT !.pc = "done", !.start = call[c].start, !.out = output]
    <3> HIDE DEF output
    <3>1. Idle \in CallType /\ Idle.kind = "snapshot"
      BY IdleFacts DEF Idle
    <3> QED
      BY <3>1 DEF Done, CallType
  <2> HIDE DEF output
  <2>3. Sound(q, generation) /\ q.pc = "done"
    <3>1. call[c].start <= output.snapshot.gen /\ call[c].start <= generation
      BY <1>2, <1>3, <2>1
    <3> QED
      BY <1>2, <2>1, <3>1, DoneFacts DEF Kinds
  <2>4. call' = [call EXCEPT ![c] = q] /\ read' = read /\ known' = known
    BY <1>5, <2>2 DEF identity, output
  <2>5. ~Works(call[c])
    BY <1>2, <1>5 DEF Sound, Works
  <2> HIDE DEF q
  <2> QED
    BY <1>1, <1>4, <2>3, <2>4, <2>5, GoesOnKeeping DEF Identifying, SemanticInv, PlainInv
<1>6. CASE call[c].pc = "snapshot" /\ AskIdentity(c, [r EXCEPT !.pc = "verify"])
  <2> DEFINE p == [r EXCEPT !.pc = "verify"]
             q == Moved(call[c], "verify", call[c].before, call[c].gen, call[c].key,
                        call[c].app, snapshot, None)
  <2>1. p.pc = "verify" /\ Awaits(p, "verify") = q
    BY <1>2 DEF Awaits, Moved, CallType
  <2>2. /\ q \in CallType /\ q.pc = "verify" /\ q.kind = call[c].kind /\ q.start = call[c].start
        /\ q.before = call[c].before /\ q.gen = call[c].gen /\ q.acc = snapshot /\ q.taken = None
    BY <1>2, <1>3, MovedPcs, ZenonT(40) DEF Moved, CallType
  <2>3. AskIdentity(c, p)
    BY <1>6
  <2> HIDE DEF p, q
  <2>4. /\ call' = [call EXCEPT ![c] = q]
        /\ read' \in [phase : {"none", "void", "asked", "sampled"}, app : AppId,
                      connection : Nat]
        /\ read'.phase # "none" /\ known' = known
    BY <2>1, <2>3, AskFacts
  <2>5. Sound(q, generation)
    BY <1>2, <1>3, <1>6, <2>2 DEF Sound, Ends, Reads, Asking
  <2>6. Works(q) <=> Works(call[c])
    BY <1>6, <2>2 DEF Works, Ends
  <2> QED
    BY <1>1, <1>4, <2>2, <2>4, <2>5, <2>6, GoesOnKeeping
<1>7. CASE call[c].pc = "nativeSnapshot" /\ AskIdentity(c, Awaits(r, "nativeVerify"))
  <2> DEFINE p == Awaits(r, "nativeVerify")
             q == Moved(call[c], "nativeVerify", call[c].before, call[c].gen, call[c].key,
                        call[c].app, snapshot, None)
  <2>1. p.pc = "nativeVerify" /\ Awaits(p, "nativeVerify") = q
    BY <1>2 DEF Awaits, Moved, CallType
  <2>2. /\ q \in CallType /\ q.pc = "nativeVerify" /\ q.kind = call[c].kind
        /\ q.start = call[c].start /\ q.before = call[c].before /\ q.gen = call[c].gen
        /\ q.acc = snapshot /\ q.taken = None
    BY <1>2, <1>3, MovedPcs, ZenonT(40) DEF Moved, CallType
  <2>3. AskIdentity(c, p)
    BY <1>7
  <2> HIDE DEF p, q
  <2>4. /\ call' = [call EXCEPT ![c] = q]
        /\ read' \in [phase : {"none", "void", "asked", "sampled"}, app : AppId,
                      connection : Nat]
        /\ read'.phase # "none" /\ known' = known
    BY <2>1, <2>3, AskFacts
  <2>5. Sound(q, generation)
    BY <1>2, <1>3, <1>7, <2>2 DEF Sound, Ends, Reads, Asking
  <2>6. Works(q) <=> Works(call[c])
    BY <1>7, <2>2 DEF Works, Ends
  <2> QED
    BY <1>1, <1>4, <2>2, <2>4, <2>5, <2>6, GoesOnKeeping
<1> QED
  BY <1>5, <1>6, <1>7 DEF Snapshotted, snapshot

LEMMA VerifiedKeeps ==
  ASSUME SemanticAssumption, SemanticInv, NEW c \in Calls, Verified(c)
  PROVE  SemanticInv'
<1> DEFINE key == <<call[c].app, call[c].acc.app>>
<1>1. /\ call[c].pc = "verify" /\ begun' \in 0..MaxBegun
      /\ UNCHANGED <<device, trouble, begun, link, generation, lastAccessibility, fiberCache>>
  BY DEF Verified, SemanticInv, PlainInv
<1>2. /\ call[c] \in CallType /\ Sound(call[c], generation) /\ generation \in Nat
      /\ call[c].before \in Nat /\ call[c].gen \in Nat /\ call[c].key \in AppId
      /\ call[c].app \in AppId /\ call[c].start \in Nat /\ None \in AppId
      /\ call[c].acc \in Snapshot /\ call[c].taken = None
      /\ call[c].start <= generation /\ call[c].before <= generation
  BY <1>1, CallFacts DEF AppId, Sound, Reads, Asking
<1>3. CASE Fail(c) /\ UNCHANGED <<identity, lastElements>>
  BY <1>1, <1>3, FailsWhole
<1>4. CASE /\ fiberCache[key] # None /\ lastElements' = fiberCache[key]
           /\ Answer(c, fiberCache[key]) /\ UNCHANGED identity
  <2> DEFINE output == fiberCache[key]
  <2>1. key \in AppId \X Apps
    BY <1>2 DEF Snapshot
  <2>2. output \in Output /\ output.snapshot.gen = generation
    BY <1>4, <2>1 DEF SemanticInv, KeptInv
  <2>3. /\ fiberCache' \in [AppId \X Apps -> Output \cup {None}]
        /\ \A k \in AppId \X Apps : fiberCache'[k] # None =>
             fiberCache'[k].snapshot.gen = generation
    BY <1>1 DEF SemanticInv, KeptInv
  <2>4. Answer(c, output) /\ lastElements' = output
    BY <1>4
  <2>5. call[c].pc \in Reads
    BY <1>1 DEF Reads
  <2> HIDE DEF output
  <2>6. /\ output.snapshot.gen <= generation /\ call[c].start <= output.snapshot.gen
        /\ call[c].before <= output.snapshot.gen
    BY <1>2, <2>2
  <2> QED
    BY <1>1, <1>4, <2>2, <2>3, <2>4, <2>5, <2>6, AnswersWhole
<1>5. CASE /\ call' = [call EXCEPT ![c] = Awaits(@, "inspect")]
           /\ UNCHANGED <<identity, lastElements, semanticCache, refresh>>
  BY <1>1, <1>5, WaitsReading DEF semantic, Reads
<1>6. CASE /\ AskIdentity(c, [call[c] EXCEPT !.pc = "confirm", !.fiber = FALSE])
           /\ UNCHANGED <<lastElements, semanticCache, refresh>>
  BY <1>1, <1>6, ConfirmAsked DEF semantic, Reads
<1> QED
  BY <1>3, <1>4, <1>5, <1>6 DEF Verified

\* What a call answers with once it has its snapshot.
LEMMA BuiltFacts ==
  ASSUME SemanticInv, NEW c \in Calls, NEW fiber \in BOOLEAN, call[c].pc \in Reads
  PROVE  /\ Built(c, fiber) \in Output /\ Built(c, fiber).snapshot.gen = call[c].gen
         /\ Built(c, fiber).snapshot.gen <= generation
         /\ call[c].start <= Built(c, fiber).snapshot.gen
         /\ call[c].kind = "prepared" => call[c].before <= Built(c, fiber).snapshot.gen
<1>1. /\ call[c].acc \in Snapshot /\ call[c].acc.gen = call[c].gen /\ call[c].app \in AppId
      /\ call[c].gen <= generation /\ call[c].start <= call[c].gen
      /\ call[c].kind = "prepared" => call[c].before <= call[c].gen
  BY CallFacts DEF Sound
<1>2. Built(c, fiber) \in Output /\ Built(c, fiber).snapshot = call[c].acc
  BY <1>1 DEF Built, Output
<1> QED
  BY <1>1, <1>2

LEMMA ConfirmedKeeps ==
  ASSUME SemanticAssumption, SemanticInv, NEW c \in Calls, Confirmed(c)
  PROVE  SemanticInv'
<1> DEFINE output == Built(c, TRUE)
<1>1. /\ call[c].pc = "confirm" /\ begun' \in 0..MaxBegun
      /\ UNCHANGED <<device, trouble, begun, link, generation, lastAccessibility>>
  BY DEF Confirmed, SemanticInv, PlainInv
<1>2. /\ call[c] \in CallType /\ Sound(call[c], generation) /\ generation \in Nat
      /\ call[c].before \in Nat /\ call[c].gen \in Nat /\ call[c].key \in AppId
      /\ call[c].app \in AppId /\ call[c].start \in Nat /\ None \in AppId
      /\ call[c].acc \in Snapshot /\ call[c].taken = None
  BY <1>1, CallFacts DEF AppId, Sound, Reads, Asking
<1>3. CASE /\ AskIdentity(c, [call[c] EXCEPT !.pc = "nativeIdentify", !.fiber = FALSE])
           /\ UNCHANGED <<lastElements, fiberCache, semanticCache, refresh>>
  <2> DEFINE r == [call[c] EXCEPT !.fiber = FALSE]
             p == [call[c] EXCEPT !.pc = "nativeIdentify", !.fiber = FALSE]
             q == Moved(r, "nativeIdentify", call[c].before, call[c].gen, call[c].key,
                        call[c].app, call[c].acc, None)
  <2>1. p.pc = "nativeIdentify" /\ Awaits(p, "nativeIdentify") = q
    BY <1>2 DEF Awaits, Moved, CallType
  <2>2. r \in CallType /\ r.kind = call[c].kind /\ r.start = call[c].start
    BY <1>2 DEF CallType
  <2>3. AskIdentity(c, p)
    BY <1>3
  <2>4. /\ q \in CallType /\ q.pc = "nativeIdentify" /\ q.kind = call[c].kind
        /\ q.start = call[c].start /\ q.before = call[c].before /\ q.gen = call[c].gen
        /\ q.taken = None
    <3> HIDE DEF r
    <3> QED
      BY <1>2, <2>2, MovedPcs, ZenonT(40) DEF Moved, CallType
  <2> HIDE DEF p, q
  <2>5. Sound(q, generation)
    BY <1>1, <1>2, <2>4 DEF Sound, Ends, Reads, Asking
  <2>6. Works(q) <=> Works(call[c])
    BY <1>1, <2>4 DEF Works, Ends
  <2>7. UNCHANGED semantic
    BY <1>1, <1>3 DEF semantic
  <2> QED
    BY <1>1, <2>1, <2>3, <2>4, <2>5, <2>6, <2>7, GoesOnAsking DEF Identifying
<1>4. CASE /\ call[c].gen = generation /\ lastElements' = output
           /\ fiberCache' = [fiberCache EXCEPT ![<<call[c].app, call[c].acc.app>>] = output]
           /\ Answer(c, output) /\ UNCHANGED identity
  <2>1. <<call[c].app, call[c].acc.app>> \in AppId \X Apps
    BY <1>2 DEF Snapshot
  <2>2. call[c].pc \in Reads /\ TRUE \in BOOLEAN
    BY <1>1 DEF Reads
  <2>3. /\ output \in Output /\ output.snapshot.gen = call[c].gen
        /\ output.snapshot.gen <= generation /\ call[c].start <= output.snapshot.gen
        /\ call[c].kind = "prepared" => call[c].before <= output.snapshot.gen
    BY <2>2, BuiltFacts
  <2>4. Answer(c, output) /\ lastElements' = output
    BY <1>4
  <2> HIDE DEF output
  <2>5. /\ fiberCache' \in [AppId \X Apps -> Output \cup {None}]
        /\ \A k \in AppId \X Apps : fiberCache'[k] # None =>
             fiberCache'[k].snapshot.gen = generation
    BY <1>4, <2>1, <2>3 DEF SemanticInv, KeptInv
  <2> QED
    BY <1>1, <1>4, <2>2, <2>3, <2>4, <2>5, AnswersWhole
<1>5. CASE /\ call' = [call EXCEPT ![c] = Awaits(@, "context")]
           /\ UNCHANGED <<identity, lastElements, fiberCache, semanticCache, refresh>>
  BY <1>1, <1>5, WaitsReading DEF semantic, Reads
<1> QED
  BY <1>3, <1>4, <1>5 DEF Confirmed

LEMMA NativeVerifiedKeeps ==
  ASSUME SemanticAssumption, SemanticInv, NEW c \in Calls, NativeVerified(c)
  PROVE  SemanticInv'
<1>1. call[c].pc = "nativeVerify" /\ begun' \in 0..MaxBegun
  BY DEF NativeVerified, SemanticInv, PlainInv
<1>2. CASE /\ call' = [call EXCEPT ![c] = Awaits(@, "context")]
           /\ UNCHANGED <<semanticCache, refresh>>
  BY <1>1, <1>2, WaitsReading DEF NativeVerified, semantic, Reads
<1>3. CASE Fail(c)
  BY <1>3, FailsWhole DEF NativeVerified
<1> QED
  BY <1>2, <1>3 DEF NativeVerified

LEMMA ContextReadKeeps ==
  ASSUME SemanticAssumption, SemanticInv, NEW c \in Calls, ContextRead(c)
  PROVE  SemanticInv'
<1> DEFINE output == Built(c, FALSE)
<1>1. /\ call[c].pc \in Reads /\ FALSE \in BOOLEAN
      /\ lastElements' = output /\ Answer(c, output)
      /\ UNCHANGED <<device, trouble, begun, link, identity, generation, lastAccessibility,
                     fiberCache>>
  BY DEF ContextRead, Reads
<1>2. /\ output \in Output
      /\ output.snapshot.gen <= generation /\ call[c].start <= output.snapshot.gen
      /\ call[c].kind = "prepared" => call[c].before <= output.snapshot.gen
  BY <1>1, BuiltFacts
<1> HIDE DEF output
<1>3. /\ fiberCache' \in [AppId \X Apps -> Output \cup {None}]
      /\ \A k \in AppId \X Apps : fiberCache'[k] # None =>
           fiberCache'[k].snapshot.gen = generation
  BY <1>1 DEF SemanticInv, KeptInv
<1> QED
  BY <1>1, <1>2, <1>3, AnswersWhole

-----------------------------------------------------------------------------
LEMMA SemanticStep ==
  ASSUME SemanticAssumption, SemanticInv, [SemanticNext]_semanticVars PROVE SemanticInv'
<1>1. ASSUME NEW c \in Calls, CallStep(c) PROVE SemanticInv'
  BY <1>1, BeginKeeps, PrepareKeeps, IdentifiedKeeps, NativeIdentifiedKeeps, TakeSnapshotKeeps,
    SnapshottedKeeps, VerifiedKeeps, InspectedKeeps, ConfirmedKeeps, NativeVerifiedKeeps,
    ContextReadKeeps DEF CallStep
<1>2. CASE UNCHANGED semanticVars
  <2>1. UNCHANGED <<front, switches, trouble, begun, connection, connections, known, read, call,
                    semantic, generation>>
    BY <1>2 DEF semanticVars, device, link, identity, semantic
  <2>2. /\ call' \in [Calls -> CallType] /\ CallsInv' /\ JoinInv' /\ KeptInv' /\ RefreshInv'
    BY <2>1, CallsStay, SameSemantic DEF SemanticInv
  <2>3. PlainInv' /\ WaitInv'
    BY <2>1 DEF SemanticInv, PlainInv, WaitInv
  <2> QED
    BY <2>2, <2>3 DEF SemanticInv
<1> QED
  BY <1>1, <1>2, SampleKeeps, ConcludeKeeps, DeviceKeeps, DisconnectKeeps DEF SemanticNext

LEMMA SemanticStart == SemanticAssumption /\ SemanticInit => SemanticInv
<1> SUFFICES ASSUME SemanticAssumption, SemanticInit PROVE SemanticInv
  OBVIOUS
<1> USE DEF SemanticInit
<1>1. PlainInv
  BY DEF PlainInv, NoRead, AppId, SemanticAssumption
<1>2. KeptInv /\ RefreshInv
  BY DEF KeptInv, RefreshInv
<1>3. \A c \in Calls : call[c] = Idle
  OBVIOUS
<1>4. call \in [Calls -> CallType] /\ CallsInv
  BY <1>1, <1>3, IdleFacts DEF CallsInv, PlainInv
<1>5. WaitInv /\ JoinInv
  BY <1>3 DEF WaitInv, JoinInv, Idle, Identifying
<1> QED
  BY <1>1, <1>2, <1>4, <1>5 DEF SemanticInv

LEMMA SemanticInvariance == SemanticAssumption /\ SemanticSpec => []SemanticInv
<1> SUFFICES ASSUME SemanticAssumption PROVE SemanticSpec => []SemanticInv
  OBVIOUS
<1>1. SemanticInit => SemanticInv
  BY SemanticStart
<1>2. SemanticInv /\ [SemanticNext]_semanticVars => SemanticInv'
  BY SemanticStep
<1> QED
  BY <1>1, <1>2, PTL DEF SemanticSpec

\* Every variable of the semantic state keeps its kind, every call that waits in an
\* identity check has a read to wait for, and every call that joined a refresh has
\* one that runs.
THEOREM SemanticTypesKept == SemanticAssumption /\ SemanticSpec => []SemanticTypeOK
<1>1. SemanticInv => SemanticTypeOK
  BY SemanticInvGives
<1> QED
  BY SemanticInvariance, <1>1, PTL

\* Whichever cache, kept snapshot or other call's refresh an answer comes from, it
\* shows no generation older than the one its call was made in.
THEOREM AnswersAreCurrent == SemanticAssumption /\ SemanticSpec => []AnswerNotOlder
<1>1. SemanticInv => AnswerNotOlder
  BY SemanticInvGives
<1> QED
  BY SemanticInvariance, <1>1, PTL

-----------------------------------------------------------------------------
(* One application.  The identity of a generation is the one read when it      *)
(* began: a call that goes on in the generation it identified the application  *)
(* in has that application.  Where the identity is the application in front,   *)
(* every snapshot of the generation shows it, since at most one change of      *)
(* application lies before the generation; where it is not, the next read that *)
(* the device answers ends the generation, so that a snapshot of another       *)
(* application does not survive a read that begins after the snapshot.  The    *)
(* read after a snapshot may have begun before it; the read after that cannot. *)
Tracing == {"snapshot", "verify", "inspect", "confirm"}
Confirming(r) == r.pc \in {"inspect", "confirm"} \/ (r.pc = "verify" /\ r.awake)
OneApp(output) == output.fiber => output.snapshot.app = output.app

ReadInv ==
  /\ read.phase = "void" => connection = 0
  /\ read.phase \in {"void", "asked"} => read.app = None
  /\ read.phase \in {"asked", "sampled"} => connection # 0 /\ read.connection = connection
  /\ connection = 0 => known = None

FrontInv == switches = 0 => known \in {front, None} /\ read.app \in {front, None}

\* What the call with the locals r knows of the application, where k is the identity,
\* g the generation, d the read in flight, f the application in front, s the changes.
Finds(r, k) == r.pc \in Identifying /\ r.awake /\ r.got # None => r.got = k
Traces(r, k, g) == r.pc \in Tracing /\ r.gen = g /\ r.app # None => r.app = k
Shows(r, k, g, f, s) ==
  s <= 1 /\ k = f =>
    /\ r.pc \in Asking /\ r.taken # None /\ r.gen = g => r.taken = f
    /\ r.pc = "identify" /\ r.acc # None /\ r.acc.gen = g => r.acc.app = f
    /\ r.pc \in Reads /\ r.acc.gen = g => r.acc.app = f
Checks(r, k, g, d, s) ==
  s <= 1 /\ Confirming(r) /\ r.gen = g /\ r.app # None /\ r.acc.app # r.app =>
    /\ d.phase = "sampled" => d.app # k
    /\ ~(r.pc = "confirm" /\ r.awake)
Projects(r, s) ==
  /\ r.pc = "inspect" \/ (r.pc = "confirm" /\ r.fiber) => r.app # None
  /\ r.pc = "done" /\ s <= 1 => OneApp(r.out)
Fits(r, k, g, d, f, s) ==
  /\ Finds(r, k) /\ Traces(r, k, g) /\ Shows(r, k, g, f, s) /\ Checks(r, k, g, d, s)
  /\ Projects(r, s)

FitsInv == \A c \in Calls : Fits(call[c], known, generation, read, front, switches)

CachesInv ==
  switches <= 1 =>
    /\ known = front /\ lastAccessibility # None => lastAccessibility.app = front
    /\ \A k \in AppId \X Apps : fiberCache[k] # None => OneApp(fiberCache[k])
    /\ \A k \in AppId : semanticCache[k] # None => OneApp(semanticCache[k])

AppInv == ReadInv /\ FrontInv /\ FitsInv /\ CachesInv

LEMMA AppInvGives == AppInv => ProjectionIsOneApp
  BY DEF AppInv, FitsInv, Fits, Projects, OneApp, ProjectionIsOneApp

\* A generation later nothing that was read of the application is of the current one.
LEMMA LaterFits ==
  ASSUME NEW g \in Nat, NEW r, Sound(r, g), NEW k, Finds(r, k), NEW d, NEW f,
         NEW s, Projects(r, s)
  PROVE  Fits(r, k, g + 1, d, f, s)
<1>1. r.gen \in Nat /\ r.gen # g + 1
  BY DEF Sound, CallType
<1>2. r.pc \in Reads => r.acc.gen # g + 1
  BY <1>1 DEF Sound
<1>3. r.pc = "identify" /\ r.acc # None => r.acc.gen # g + 1
  BY DEF Sound, CallType
<1> QED
  BY <1>1, <1>2, <1>3 DEF Fits, Traces, Shows, Checks

\* A read that ends, or is asked for, tells a call nothing of the application.
LEMMA StayFits ==
  ASSUME NEW r, NEW k, NEW g, NEW d, NEW f, NEW s, Fits(r, k, g, d, f, s),
         NEW e, e.phase = "sampled" => e = d
  PROVE  Fits(r, k, g, e, f, s)
  BY DEF Fits, Checks

LEMMA IdleFits ==
  ASSUME NEW k, NEW g, NEW d, NEW f, NEW s PROVE Fits(Idle, k, g, d, f, s)
<1>1. Idle.pc = "idle" /\ Idle.awake = FALSE
  BY DEF Idle
<1> QED
  BY <1>1 DEF Fits, Finds, Traces, Shows, Checks, Projects, Identifying, Tracing, Asking,
    Reads, Confirming

LEMMA DoneFits ==
  ASSUME NEW kind, NEW start, NEW output, NEW k, NEW g, NEW d, NEW f, NEW s,
         s <= 1 => OneApp(output)
  PROVE  Fits(Done(kind, start, output), k, g, d, f, s)
<1>1. Done(kind, start, output).pc = "done" /\ Done(kind, start, output).out = output
  BY DEF Idle, Done
<1> QED
  BY <1>1 DEF Fits, Finds, Traces, Shows, Checks, Projects, Identifying, Tracing, Asking,
    Reads, Confirming

\* The read in flight goes on, or one is asked for.
ReadGoesOn ==
  \/ read' = read
  \/ read.phase = "none" /\ read' = [phase |-> IF connection = 0 THEN "void" ELSE "asked",
                                     app |-> None, connection |-> connection]

LEMMA AskGoesOn ==
  ASSUME NEW c, NEW r, AskIdentity(c, r) PROVE ReadGoesOn /\ known' = known
  BY DEF AskIdentity, ReadGoesOn

LEMMA ReadFacts ==
  ASSUME AppInv, ReadGoesOn, UNCHANGED <<device, connection, known>>
  PROVE  ReadInv' /\ FrontInv' /\ (read'.phase = "sampled" => read' = read)
<1>1. front' = front /\ switches' = switches /\ connection' = connection /\ known' = known
  BY DEF device
<1>2. CASE read' = read
  BY <1>1, <1>2 DEF AppInv, ReadInv, FrontInv
<1>3. CASE read.phase = "none"
           /\ read' = [phase |-> IF connection = 0 THEN "void" ELSE "asked",
                       app |-> None, connection |-> connection]
  BY <1>1, <1>3 DEF AppInv, ReadInv, FrontInv
<1> QED
  BY <1>2, <1>3 DEF ReadGoesOn

\* Call c goes on with the locals q.
LEMMA OneFits ==
  ASSUME AppInv, NEW c \in Calls, NEW q, call' = [call EXCEPT ![c] = q],
         call \in [Calls -> CallType], ReadGoesOn,
         UNCHANGED <<device, link, known, generation>>, CachesInv',
         Fits(q, known, generation, read, front, switches)
  PROVE  AppInv'
<1>1. /\ front' = front /\ switches' = switches /\ known' = known /\ generation' = generation
      /\ connection' = connection
  BY DEF device, link
<1>2. ReadInv' /\ FrontInv' /\ (read'.phase = "sampled" => read' = read)
  BY <1>1, ReadFacts
<1>3. ASSUME NEW d \in Calls
      PROVE  Fits(call'[d], known, generation, read', front, switches)
  <2>1. Fits(call'[d], known, generation, read, front, switches)
    BY DEF AppInv, FitsInv
  <2> QED
    BY <1>2, <2>1, StayFits
<1>4. FitsInv'
  BY <1>1, <1>3 DEF FitsInv
<1> QED
  BY <1>2, <1>4 DEF AppInv

\* The calls of D end together, each with the locals q gives it.
LEMMA EndFits ==
  ASSUME AppInv, NEW D \in SUBSET Calls, NEW q,
         call' = [d \in Calls |-> IF d \in D THEN q[d] ELSE call[d]],
         \A d \in D : Fits(q[d], known, generation, read, front, switches),
         UNCHANGED <<device, link, identity, generation>>, CachesInv'
  PROVE  AppInv'
<1>1. /\ front' = front /\ switches' = switches /\ known' = known /\ generation' = generation
      /\ read' = read /\ connection' = connection
  BY DEF device, link, identity
<1>2. \A d \in Calls : Fits(call'[d], known, generation, read, front, switches)
  BY DEF AppInv, FitsInv
<1>3. FitsInv'
  BY <1>1, <1>2 DEF FitsInv
<1>4. ReadInv' /\ FrontInv'
  BY <1>1 DEF AppInv, ReadInv, FrontInv
<1> QED
  BY <1>3, <1>4 DEF AppInv

LEMMA FailFits ==
  ASSUME AppInv, NEW c \in Calls, Fail(c),
         UNCHANGED <<device, link, identity, generation, lastAccessibility, fiberCache>>
  PROVE  AppInv'
<1> DEFINE q == [d \in Calls |-> Idle]
<1>1. {c} \cup Joined(c) \in SUBSET Calls
  BY DEF Joined
<1>2. call' = [d \in Calls |-> IF d \in {c} \cup Joined(c) THEN q[d] ELSE call[d]]
  BY <1>1 DEF Fail
<1>3. \A d \in {c} \cup Joined(c) : Fits(q[d], known, generation, read, front, switches)
  BY <1>1, IdleFits
<1>4. CachesInv'
  BY DEF Fail, AppInv, CachesInv, device, identity
<1> HIDE DEF q
<1> QED
  BY <1>1, <1>2, <1>3, <1>4, EndFits

LEMMA AnswerFits ==
  ASSUME SemanticInv, AppInv, NEW c \in Calls, NEW output, switches <= 1 => OneApp(output),
         Answer(c, output), UNCHANGED <<device, link, identity, generation, lastAccessibility>>,
         switches <= 1 =>
           \A k \in AppId \X Apps : fiberCache'[k] # None => OneApp(fiberCache'[k])
  PROVE  AppInv'
<1> DEFINE q == [d \in Calls |-> Done(call[d].kind, call[d].start, output)]
<1>1. {c} \cup Joined(c) \in SUBSET Calls
  BY DEF Joined
<1>2. call' = [d \in Calls |-> IF d \in {c} \cup Joined(c) THEN q[d] ELSE call[d]]
  BY <1>1 DEF Answer, Done
<1>3. \A d \in {c} \cup Joined(c) : Fits(q[d], known, generation, read, front, switches)
  BY <1>1, DoneFits
<1>4. CachesInv'
  <2>1. /\ front' = front /\ switches' = switches /\ known' = known
        /\ lastAccessibility' = lastAccessibility
    BY DEF device, identity
  <2>2. semanticCache \in [AppId -> Output \cup {None}]
    BY DEF SemanticInv, KeptInv
  <2>3. \A k \in AppId : semanticCache'[k] = output \/ semanticCache'[k] = semanticCache[k]
    BY <2>2 DEF Answer, CacheSemantic
  <2> QED
    BY <2>1, <2>3 DEF AppInv, CachesInv
<1> HIDE DEF q
<1> QED
  BY <1>1, <1>2, <1>3, <1>4, EndFits

-----------------------------------------------------------------------------
\* What the device, the connection and the identity read keep.
LEMMA SampleFits == ASSUME SemanticInv, AppInv, Sample PROVE AppInv'
<1>1. /\ UNCHANGED <<front, switches, connection, known, generation, call,
                     lastAccessibility, fiberCache, semanticCache>>
      /\ read.phase = "asked" /\ \A c \in Calls : ~call[c].awake
  BY DEF Sample, Quiet, device, link, semantic
<1>2. /\ read' \in {[read EXCEPT !.phase = "sampled", !.app = front],
                    [read EXCEPT !.phase = "sampled"]}
      /\ read.app = None
  BY <1>1 DEF Sample, AppInv, ReadInv
<1>3. /\ read'.phase = "sampled" /\ read'.app \in {front, None}
      /\ read'.connection = read.connection
  BY <1>2 DEF SemanticInv, PlainInv
<1>4. ReadInv' /\ FrontInv' /\ CachesInv'
  BY <1>1, <1>3 DEF AppInv, ReadInv, FrontInv, CachesInv
<1>5. ASSUME NEW c \in Calls
      PROVE  Fits(call[c], known, generation, read', front, switches)
  <2>1. Fits(call[c], known, generation, read, front, switches) /\ Sound(call[c], generation)
        /\ ~call[c].awake
    BY <1>1, CallFacts DEF AppInv, FitsInv
  <2> DEFINE r == call[c]
  <2> HIDE DEF r
  <2>2. ASSUME switches <= 1, Confirming(r), r.gen = generation, r.app # None,
               r.acc.app # r.app
        PROVE  read'.app # known
    <3>1. r.pc \in Tracing /\ r.pc \in Reads
      BY <2>2 DEF Confirming, Tracing, Reads
    <3>2. r.app = known /\ known # None
      BY <2>1, <2>2, <3>1 DEF Fits, Traces, r
    <3>3. r.acc.gen = generation
      BY <2>1, <2>2, <3>1 DEF Sound, r
    <3>4. known # front
      BY <2>1, <2>2, <3>1, <3>2, <3>3 DEF Fits, Shows, r
    <3> QED
      BY <1>3, <3>2, <3>4
  <2>3. Checks(call[c], known, generation, read', switches)
    BY <2>1, <2>2 DEF Checks, r
  <2> QED
    BY <2>1, <2>3 DEF Fits
<1>6. FitsInv'
  BY <1>1, <1>5 DEF FitsInv
<1> QED
  BY <1>4, <1>6 DEF AppInv

LEMMA ConcludeFits == ASSUME SemanticInv, AppInv, Conclude PROVE AppInv'
<1> DEFINE mine == read.connection = connection
           appId == IF mine THEN read.app ELSE None
<1>1. /\ UNCHANGED <<front, switches, connection>> /\ read' = NoRead
      /\ \/ read.phase = "sampled" /\ \A c \in Calls : ~call[c].awake
         \/ read.phase = "void"
      /\ \/ mine /\ read.app # known /\ known' = read.app /\ Clear
         \/ ~(mine /\ read.app # known) /\ UNCHANGED <<known, semantic>>
  BY DEF Conclude, Quiet, device, link
<1>2. \A c \in Calls :
         call'[c] = IF call[c].pc \in Identifying /\ ~call[c].awake
                    THEN Woken(call[c], appId) ELSE call[c]
  BY DEF Conclude, Woken
<1>3. read'.phase = "none" /\ read'.app = None
  BY <1>1 DEF NoRead
<1>4. appId \in AppId /\ generation \in Nat
  BY DEF SemanticInv, PlainInv, AppId
<1> HIDE DEF appId
<1>5. ASSUME NEW c \in Calls
      PROVE  LET q == Woken(call[c], appId) IN
             /\ q.pc = call[c].pc /\ q.gen = call[c].gen /\ q.app = call[c].app
             /\ q.acc = call[c].acc /\ q.taken = call[c].taken /\ q.fiber = call[c].fiber
             /\ q.out = call[c].out /\ q.awake /\ q.got = appId
             /\ Sound(q, generation)
  <2>1. call[c] \in CallType /\ Sound(call[c], generation)
    BY CallFacts
  <2>2. Sound(Woken(call[c], appId), generation)
    BY <1>4, <2>1, WakeFacts
  <2> QED
    BY <2>1, <2>2 DEF CallType, Woken
<1>6. CASE mine /\ read.app # known /\ known' = read.app /\ Clear
  <2>1. read.phase = "sampled" /\ \A c \in Calls : ~call[c].awake
    BY <1>1, <1>6 DEF AppInv, ReadInv
  <2>2. ReadInv' /\ FrontInv' /\ CachesInv'
    BY <1>1, <1>3, <1>6, <2>1 DEF AppInv, ReadInv, FrontInv, CachesInv, Clear
  <2>3. generation' = generation + 1
    BY <1>6 DEF Clear
  <2>4. ASSUME NEW c \in Calls
        PROVE  Fits(call'[c], read.app, generation + 1, read', front, switches)
    <3>1. Sound(call[c], generation) /\ ~call[c].awake
          /\ Projects(call[c], switches)
      BY <2>1, CallFacts DEF AppInv, FitsInv, Fits
    <3>2. Sound(call'[c], generation) /\ Projects(call'[c], switches)
          /\ Finds(call'[c], read.app)
      <4>1. CASE call[c].pc \in Identifying /\ ~call[c].awake
        <5>1. call'[c] = Woken(call[c], appId) /\ appId = read.app
          BY <1>2, <1>6, <4>1 DEF appId
        <5> QED
          BY <1>5, <3>1, <5>1 DEF Projects, Finds
      <4>2. CASE ~(call[c].pc \in Identifying /\ ~call[c].awake)
        BY <1>2, <3>1, <4>2 DEF Finds
      <4> QED
        BY <4>1, <4>2
    <3> QED
      BY <1>4, <3>2, LaterFits
  <2>5. FitsInv'
    BY <1>1, <1>6, <2>3, <2>4 DEF FitsInv
  <2> QED
    BY <2>2, <2>5 DEF AppInv
<1>7. CASE ~(mine /\ read.app # known) /\ UNCHANGED <<known, semantic>>
  <2>1. UNCHANGED <<known, generation, lastAccessibility, fiberCache, semanticCache>>
    BY <1>7 DEF semantic
  <2>2. ReadInv' /\ FrontInv' /\ CachesInv'
    BY <1>1, <1>3, <2>1 DEF AppInv, ReadInv, FrontInv, CachesInv
  <2>3. appId # None => appId = known
    BY <1>7 DEF appId
  <2>4. ASSUME NEW c \in Calls
        PROVE  Fits(call'[c], known, generation, read', front, switches)
    <3>1. Fits(call[c], known, generation, read, front, switches)
      BY DEF AppInv, FitsInv
    <3>2. CASE ~(call[c].pc \in Identifying /\ ~call[c].awake)
      <4>1. call'[c] = call[c]
        BY <1>2, <3>2
      <4> QED
        BY <1>3, <3>1, <4>1, StayFits
    <3>3. CASE call[c].pc \in Identifying /\ ~call[c].awake
      <4> DEFINE q == Woken(call[c], appId)
      <4>1. /\ q.pc = call[c].pc /\ q.gen = call[c].gen /\ q.app = call[c].app
            /\ q.acc = call[c].acc /\ q.taken = call[c].taken /\ q.fiber = call[c].fiber
            /\ q.out = call[c].out /\ q.awake /\ q.got = appId
        BY <1>5
      <4>2. call'[c] = q
        BY <1>2, <3>3
      <4> HIDE DEF q
      <4>3. Finds(q, known)
        BY <2>3, <4>1 DEF Finds
      <4>4. Traces(q, known, generation) /\ Shows(q, known, generation, front, switches)
            /\ Projects(q, switches)
        BY <3>1, <4>1 DEF Fits, Traces, Shows, Projects
      <4>5. ASSUME switches <= 1, q.pc = "confirm", q.gen = generation, q.app # None,
                   q.acc.app # q.app
            PROVE  FALSE
        <5>1. /\ known # None /\ q.app = known
              /\ read.phase = "sampled" => read.app # known
          BY <3>1, <4>1, <4>5 DEF Fits, Traces, Checks, Tracing, Confirming, SemanticInv, PlainInv
        <5>2. CASE read.phase = "sampled"
          BY <1>7, <5>1, <5>2 DEF AppInv, ReadInv
        <5>3. CASE read.phase = "void"
          BY <5>1, <5>3 DEF AppInv, ReadInv
        <5> QED
          BY <1>1, <5>2, <5>3
      <4>6. Checks(q, known, generation, read', switches)
        BY <1>3, <4>5 DEF Checks
      <4> QED
        BY <4>2, <4>3, <4>4, <4>6 DEF Fits
    <3> QED
      BY <3>2, <3>3
  <2>5. FitsInv'
    BY <1>1, <2>1, <2>4 DEF FitsInv
  <2> QED
    BY <2>2, <2>5 DEF AppInv
<1> QED
  BY <1>1, <1>6, <1>7

LEMMA SwitchFits == ASSUME SemanticAssumption, SemanticInv, AppInv, SwitchApp PROVE AppInv'
<1>1. /\ UNCHANGED <<connection, known, read, generation, call, lastAccessibility, fiberCache,
                     semanticCache>>
      /\ switches' = switches + 1 /\ front' \in Apps \ {front} /\ switches \in Nat
  BY DEF SwitchApp, link, identity, semantic, SemanticInv, PlainInv
<1>2. switches' <= 1 => known # front' /\ switches <= 1
  BY <1>1 DEF SemanticAssumption, AppInv, FrontInv
<1>3. ReadInv' /\ FrontInv' /\ CachesInv'
  BY <1>1, <1>2 DEF AppInv, ReadInv, FrontInv, CachesInv
<1>4. FitsInv'
  BY <1>1, <1>2 DEF AppInv, FitsInv, Fits, Shows, Checks, Projects
<1> QED
  BY <1>3, <1>4 DEF AppInv

LEMMA InputFits == ASSUME SemanticInv, AppInv, Input PROVE AppInv'
<1>1. /\ UNCHANGED <<front, switches, connection, known, read, call>>
      /\ Clear /\ generation' = generation + 1 /\ generation \in Nat
  BY DEF Input, device, link, identity, Clear, SemanticInv, PlainInv
<1>2. ReadInv' /\ FrontInv' /\ CachesInv'
  BY <1>1 DEF AppInv, ReadInv, FrontInv, CachesInv, Clear
<1>3. \A c \in Calls : Fits(call[c], known, generation + 1, read, front, switches)
  BY <1>1, CallFacts, LaterFits DEF AppInv, FitsInv, Fits
<1>4. FitsInv'
  BY <1>1, <1>3 DEF FitsInv
<1> QED
  BY <1>2, <1>4 DEF AppInv

LEMMA DisconnectFits == ASSUME SemanticInv, AppInv, Disconnect PROVE AppInv'
<1>1. /\ UNCHANGED <<front, switches>> /\ connection' = 0 /\ known' = None
      /\ Clear /\ generation' = generation + 1 /\ generation \in Nat
      /\ read.phase # "void" /\ \A c \in Calls : ~call[c].awake
      /\ read' = IF read.phase = "none" THEN read
                 ELSE [read EXCEPT !.phase = "void", !.app = None]
  BY DEF Disconnect, Quiet, device, Clear, SemanticInv, PlainInv
<1>2. \/ read.phase = "none" /\ read' = read
      \/ read'.phase = "void" /\ read'.app = None
  BY <1>1 DEF SemanticInv, PlainInv
<1>3. ReadInv' /\ FrontInv' /\ CachesInv'
  BY <1>1, <1>2 DEF AppInv, ReadInv, FrontInv, CachesInv, Clear
<1>4. ASSUME NEW c \in Calls
      PROVE  Fits(call'[c], None, generation + 1, read', front, switches)
  <2>1. Sound(call[c], generation) /\ call[c] \in CallType /\ ~call[c].awake
        /\ Projects(call[c], switches)
    BY <1>1, CallFacts DEF AppInv, FitsInv, Fits
  <2>2. CASE call'[c] = Idle
    BY <2>2, IdleFits
  <2>3. CASE call'[c] = call[c]
    <3>1. Finds(call[c], None)
      BY <2>1 DEF Finds
    <3> QED
      BY <1>1, <2>1, <2>3, <3>1, LaterFits
  <2>4. CASE call[c].pc = "context" /\ call'[c] = [call[c] EXCEPT !.awake = TRUE]
    <3> DEFINE q == Woken(call[c], call[c].got)
    <3>1. Sound(q, generation) /\ q.pc = call[c].pc
      BY <1>1, <2>1, WakeFacts, CallFacts
    <3>2. call'[c] = q
      BY <2>1, <2>4 DEF Woken, CallType
    <3> HIDE DEF q
    <3>3. Finds(q, None) /\ Projects(q, switches)
      BY <2>4, <3>1 DEF Finds, Projects, Identifying
    <3> QED
      BY <1>1, <3>1, <3>2, <3>3, LaterFits
  <2> QED
    BY <2>2, <2>3, <2>4 DEF Disconnect
<1>5. FitsInv'
  BY <1>1, <1>4 DEF FitsInv
<1> QED
  BY <1>3, <1>5 DEF AppInv

LEMMA ReconnectFits == ASSUME SemanticInv, AppInv, Reconnect PROVE AppInv'
<1>1. /\ UNCHANGED <<front, switches, known, read, generation, call, lastAccessibility,
                     fiberCache, semanticCache>>
      /\ connection = 0 /\ read.phase # "void" /\ connection' # 0
  BY DEF Reconnect, Quiet, device, identity, semantic, SemanticInv, PlainInv
<1>2. ReadInv' /\ FrontInv' /\ CachesInv'
  BY <1>1 DEF AppInv, ReadInv, FrontInv, CachesInv
<1>3. FitsInv'
  BY <1>1 DEF AppInv, FitsInv
<1> QED
  BY <1>2, <1>3 DEF AppInv

-----------------------------------------------------------------------------
\* What the steps of a call keep.
LEMMA CallFits ==
  ASSUME AppInv, NEW c \in Calls
  PROVE  Fits(call[c], known, generation, read, front, switches)
  BY DEF AppInv, FitsInv

LEMMA CachesStay ==
  ASSUME AppInv, UNCHANGED <<device, known, lastAccessibility, fiberCache, semanticCache>>
  PROVE  CachesInv'
  BY DEF AppInv, CachesInv, device

\* Call c asks for the identity read with the locals r.
LEMMA AskFits ==
  ASSUME SemanticInv, AppInv, NEW c \in Calls, NEW r, AskIdentity(c, r),
         UNCHANGED <<device, link, generation>>, known' = known => CachesInv',
         Fits(Awaits(r, r.pc), known, generation, read, front, switches)
  PROVE  AppInv'
<1> DEFINE q == Awaits(r, r.pc)
<1>1. call' = [call EXCEPT ![c] = q] /\ call \in [Calls -> CallType]
  BY AskFacts DEF SemanticInv
<1>2. ReadGoesOn /\ known' = known
  BY AskGoesOn
<1>3. Fits(q, known, generation, read, front, switches)
  OBVIOUS
<1> HIDE DEF q
<1> QED
  BY <1>1, <1>2, <1>3, OneFits

\* A call that has read nothing of the application yet.
LEMMA FreshFits ==
  ASSUME NEW q, NEW k, NEW g, NEW d, NEW f, NEW s, ~q.awake,
         q.pc \in {"reading", "identify", "prepare", "nativeIdentify", "join"},
         q.pc = "reading" => q.taken = None, q.pc = "identify" => q.acc = None
  PROVE  Fits(q, k, g, d, f, s)
  BY DEF Fits, Finds, Traces, Shows, Checks, Projects, Identifying, Tracing, Asking,
    Reads, Confirming

LEMMA BeginFits ==
  ASSUME SemanticInv, AppInv, NEW c \in Calls, NEW kind \in Kinds, Begin(c, kind) PROVE AppInv'
<1> DEFINE r == [Idle EXCEPT !.kind = kind, !.start = generation]
<1>1. /\ UNCHANGED <<device, link, generation, lastAccessibility, fiberCache, semanticCache>>
      /\ call \in [Calls -> CallType]
  BY DEF Begin, semantic, SemanticInv
<1>2. known' = known => CachesInv'
  BY <1>1, CachesStay
<1>3. CASE /\ UNCHANGED identity
           /\ call' = [call EXCEPT ![c] = [r EXCEPT !.pc = "reading", !.gen = generation]]
  <2> DEFINE q == [r EXCEPT !.pc = "reading", !.gen = generation]
  <2>1. q.pc = "reading" /\ q.taken = None /\ ~q.awake
    BY DEF Idle
  <2>2. call' = [call EXCEPT ![c] = q] /\ known' = known /\ ReadGoesOn
    BY <1>3 DEF identity, ReadGoesOn
  <2> HIDE DEF q
  <2>3. Fits(q, known, generation, read, front, switches)
    BY <2>1, FreshFits
  <2> QED
    BY <1>1, <1>2, <2>2, <2>3, OneFits
<1>4. ASSUME NEW p, AskIdentity(c, p), ~Awaits(p, p.pc).awake,
             Awaits(p, p.pc).pc \in {"identify", "prepare", "nativeIdentify"},
             Awaits(p, p.pc).acc = None
      PROVE  AppInv'
  <2>1. Fits(Awaits(p, p.pc), known, generation, read, front, switches)
    BY <1>4, FreshFits
  <2> QED
    BY <1>1, <1>2, <1>4, <2>1, AskFits
<1>5. CASE AskIdentity(c, [r EXCEPT !.pc = "identify", !.before = generation])
  <2> DEFINE p == [r EXCEPT !.pc = "identify", !.before = generation]
  <2>1. Awaits(p, p.pc).pc = "identify" /\ ~Awaits(p, p.pc).awake /\ Awaits(p, p.pc).acc = None
    BY DEF Awaits, Idle
  <2> HIDE DEF p
  <2> QED
    BY <1>4, <1>5, <2>1 DEF p
<1>6. CASE AskIdentity(c, [r EXCEPT !.pc = "prepare"])
  <2> DEFINE p == [r EXCEPT !.pc = "prepare"]
  <2>1. Awaits(p, p.pc).pc = "prepare" /\ ~Awaits(p, p.pc).awake /\ Awaits(p, p.pc).acc = None
    BY DEF Awaits, Idle
  <2> HIDE DEF p
  <2> QED
    BY <1>4, <1>6, <2>1 DEF p
<1>7. CASE AskIdentity(c, [r EXCEPT !.pc = "nativeIdentify"])
  <2> DEFINE p == [r EXCEPT !.pc = "nativeIdentify"]
  <2>1. /\ Awaits(p, p.pc).pc = "nativeIdentify" /\ ~Awaits(p, p.pc).awake
        /\ Awaits(p, p.pc).acc = None
    BY DEF Awaits, Idle
  <2> HIDE DEF p
  <2> QED
    BY <1>4, <1>7, <2>1 DEF p
<1> QED
  BY <1>3, <1>5, <1>6, <1>7 DEF Begin

LEMMA PrepareFits ==
  ASSUME SemanticInv, AppInv, NEW c \in Calls, Prepare(c) PROVE AppInv'
<1> DEFINE key == IF lastAccessibility = None THEN None ELSE lastAccessibility.app
           r == [call[c] EXCEPT !.key = key, !.before = generation]
<1>1. /\ UNCHANGED <<device, link, generation, lastAccessibility, fiberCache, semanticCache>>
      /\ call \in [Calls -> CallType] /\ call[c] \in CallType
  BY CallFacts DEF Prepare, SemanticInv
<1>2. known' = known => CachesInv'
  BY <1>1, CachesStay
<1>3. key \in AppId
  BY DEF SemanticInv, KeptInv, Snapshot, AppId
<1> HIDE DEF key
<1>4. CASE /\ semanticCache[key] # None /\ UNCHANGED identity
           /\ call' = [call EXCEPT ![c] = [Idle EXCEPT
                         !.pc = "done", !.kind = "prepared",
                         !.start = call[c].start, !.out = semanticCache[key]]]
  <2> DEFINE q == Done("prepared", call[c].start, semanticCache[key])
  <2>1. call' = [call EXCEPT ![c] = q] /\ known' = known /\ ReadGoesOn
    BY <1>4 DEF Done, identity, ReadGoesOn
  <2>2. switches <= 1 => OneApp(semanticCache[key])
    BY <1>3, <1>4 DEF AppInv, CachesInv
  <2>3. Fits(q, known, generation, read, front, switches)
    BY <2>2, DoneFits
  <2> HIDE DEF q
  <2> QED
    BY <1>1, <1>2, <2>1, <2>3, OneFits
<1>5. CASE /\ call' = [call EXCEPT ![c] = [Awaits(r, "join") EXCEPT !.taken = refresh[key]]]
           /\ UNCHANGED identity
  <2> DEFINE q == [Awaits(r, "join") EXCEPT !.taken = refresh[key]]
  <2>1. q.pc = "join" /\ ~q.awake
    BY <1>1 DEF Awaits, CallType
  <2>2. call' = [call EXCEPT ![c] = q] /\ known' = known /\ ReadGoesOn
    BY <1>5 DEF identity, ReadGoesOn
  <2> HIDE DEF q
  <2>3. Fits(q, known, generation, read, front, switches)
    BY <2>1, FreshFits
  <2> QED
    BY <1>1, <1>2, <2>2, <2>3, OneFits
<1>6. CASE AskIdentity(c, [r EXCEPT !.pc = "identify", !.acc = lastAccessibility])
  <2> DEFINE p == [r EXCEPT !.pc = "identify", !.acc = lastAccessibility]
             q == Awaits(p, p.pc)
  <2>1. q.pc = "identify" /\ ~q.awake /\ q.acc = lastAccessibility
    BY <1>1 DEF Awaits, CallType
  <2>2. AskIdentity(c, p)
    BY <1>6
  <2> HIDE DEF p
  <2>3. Fits(q, known, generation, read, front, switches)
    <3> HIDE DEF q
    <3> QED
      BY <2>1 DEF AppInv, CachesInv, Fits, Finds, Traces, Shows, Checks, Projects, Identifying,
        Tracing, Asking, Reads, Confirming
  <2> QED
    BY <1>1, <1>2, <2>2, <2>3, AskFits
<1> QED
  BY <1>4, <1>5, <1>6 DEF Prepare, key

LEMMA IdentifiedFits ==
  ASSUME SemanticInv, AppInv, NEW c \in Calls, Identified(c) PROVE AppInv'
<1> DEFINE r == [call[c] EXCEPT !.app = call[c].got, !.gen = generation]
<1>1. /\ call[c].pc = "identify" /\ call[c].awake
      /\ UNCHANGED <<device, link, generation, lastAccessibility, fiberCache, lastElements>>
      /\ call \in [Calls -> CallType] /\ call[c] \in CallType
  BY CallFacts DEF Identified, SemanticInv
<1>2. semanticCache' = semanticCache /\ known' = known => CachesInv'
  BY <1>1, CachesStay
<1>3. /\ call[c].got # None => call[c].got = known
      /\ switches <= 1 /\ known = front /\ call[c].acc # None /\ call[c].acc.gen = generation
           => call[c].acc.app = front
      /\ call[c].acc # None => call[c].acc.gen = call[c].before
      /\ call[c].taken = None
  BY <1>1, CallFits, CallFacts DEF Fits, Finds, Shows, Identifying, Sound, Asking
<1>4. CASE /\ call[c].before = generation /\ call[c].acc # None
           /\ AskIdentity(c, [r EXCEPT !.pc = "verify"])
           /\ UNCHANGED semanticCache
  <2> DEFINE p == [r EXCEPT !.pc = "verify"]
             q == Awaits(p, p.pc)
  <2>1. q.pc = "verify" /\ ~q.awake /\ q.acc = call[c].acc /\ q.gen = generation
        /\ q.app = call[c].got
    BY <1>1 DEF Awaits, CallType
  <2>2. AskIdentity(c, p)
    BY <1>4
  <2> HIDE DEF p
  <2>3. Fits(q, known, generation, read, front, switches)
    <3> HIDE DEF q
    <3> QED
      BY <1>3, <1>4, <2>1 DEF Fits, Finds, Traces, Shows, Checks, Projects, Identifying,
        Tracing, Asking, Reads, Confirming
  <2> QED
    BY <1>1, <1>2, <1>4, <2>2, <2>3, AskFits
<1>5. CASE call' = [call EXCEPT ![c] = Awaits(r, "snapshot")]
           /\ UNCHANGED <<identity, semanticCache>>
  <2> DEFINE q == Awaits(r, "snapshot")
  <2>1. q.pc = "snapshot" /\ ~q.awake /\ q.taken = None /\ q.gen = generation
        /\ q.app = call[c].got
    BY <1>1, <1>3 DEF Awaits, CallType
  <2>2. call' = [call EXCEPT ![c] = q] /\ known' = known /\ ReadGoesOn
    BY <1>5 DEF identity, ReadGoesOn
  <2> HIDE DEF q
  <2>3. Fits(q, known, generation, read, front, switches)
    BY <1>3, <2>1 DEF Fits, Finds, Traces, Shows, Checks, Projects, Identifying, Tracing,
      Asking, Reads, Confirming
  <2> QED
    BY <1>1, <1>2, <1>5, <2>2, <2>3, OneFits
<1>6. CASE Fail(c) /\ UNCHANGED identity
  BY <1>1, <1>6, FailFits
<1> QED
  BY <1>4, <1>5, <1>6 DEF Identified

LEMMA NativeIdentifiedFits ==
  ASSUME SemanticInv, AppInv, NEW c \in Calls, NativeIdentified(c) PROVE AppInv'
<1>1. /\ call[c].pc = "nativeIdentify" /\ call \in [Calls -> CallType] /\ call[c] \in CallType
      /\ UNCHANGED <<device, link, identity, generation, lastAccessibility, fiberCache>>
  BY CallFacts DEF NativeIdentified, SemanticInv
<1>2. CASE /\ call' = [call EXCEPT ![c] = [Awaits(@, "nativeSnapshot") EXCEPT !.gen = generation]]
           /\ UNCHANGED semanticCache
  <2> DEFINE q == [Awaits(call[c], "nativeSnapshot") EXCEPT !.gen = generation]
  <2>1. q.pc = "nativeSnapshot" /\ ~q.awake /\ q.taken = None
    <3>1. call[c].taken = None
      BY <1>1, CallFacts DEF Sound, Asking
    <3> QED
      BY <1>1, <3>1 DEF Awaits, CallType
  <2>2. call' = [call EXCEPT ![c] = q] /\ known' = known /\ ReadGoesOn
    BY <1>1, <1>2 DEF identity, ReadGoesOn
  <2>3. CachesInv'
    BY <1>1, <1>2, <2>2, CachesStay
  <2> HIDE DEF q
  <2>4. Fits(q, known, generation, read, front, switches)
    BY <2>1 DEF Fits, Finds, Traces, Shows, Checks, Projects, Identifying, Tracing, Asking,
      Reads, Confirming
  <2> QED
    BY <1>1, <2>2, <2>3, <2>4, OneFits
<1>3. CASE Fail(c)
  BY <1>1, <1>3, FailFits
<1> QED
  BY <1>2, <1>3 DEF NativeIdentified

LEMMA TakeSnapshotFits ==
  ASSUME SemanticInv, AppInv, NEW c \in Calls, TakeSnapshot(c) PROVE AppInv'
<1> DEFINE q == [call[c] EXCEPT !.taken = front]
<1>1. /\ call[c].pc \in Asking /\ call \in [Calls -> CallType] /\ call[c] \in CallType
      /\ UNCHANGED <<device, link, known, generation, lastAccessibility, fiberCache,
                     semanticCache>>
      /\ call' = [call EXCEPT ![c] = q] /\ ReadGoesOn
  BY CallFacts DEF TakeSnapshot, identity, semantic, ReadGoesOn, SemanticInv
<1>2. /\ q.pc = call[c].pc /\ q.taken = front /\ q.gen = call[c].gen /\ q.app = call[c].app
  BY <1>1 DEF CallType
<1>3. CachesInv'
  BY <1>1, CachesStay
<1> HIDE DEF q
<1>4. Fits(q, known, generation, read, front, switches)
  BY <1>1, <1>2, CallFits DEF Fits, Finds, Traces, Shows, Checks, Projects, Identifying,
    Tracing, Asking, Reads, Confirming
<1> QED
  BY <1>1, <1>3, <1>4, OneFits

LEMMA SnapshottedFits ==
  ASSUME SemanticInv, AppInv, NEW c \in Calls, Snapshotted(c) PROVE AppInv'
<1> DEFINE snapshot == [app |-> call[c].taken, gen |-> call[c].gen]
           r == [call[c] EXCEPT !.acc = snapshot, !.taken = None]
<1>1. /\ call[c].pc \in Asking /\ call[c].taken # None
      /\ UNCHANGED <<device, link, generation, fiberCache, semanticCache>>
      /\ lastAccessibility' = IF call[c].gen = generation THEN snapshot ELSE lastAccessibility
      /\ call \in [Calls -> CallType] /\ call[c] \in CallType
  BY CallFacts DEF Snapshotted, SemanticInv
<1>2. /\ Shows(call[c], known, generation, front, switches)
      /\ Traces(call[c], known, generation)
      /\ snapshot.app = call[c].taken /\ snapshot.gen = call[c].gen
  BY CallFits DEF Fits
<1> HIDE DEF snapshot
<1>3. known' = known => CachesInv'
  BY <1>1, <1>2 DEF AppInv, CachesInv, Shows, device
<1>4. CASE /\ call' = [call EXCEPT ![c] = [Idle EXCEPT
                !.pc = "done", !.start = call[c].start,
                !.out = [snapshot |-> snapshot, app |-> None, fiber |-> FALSE]]]
           /\ UNCHANGED identity
  <2> DEFINE output == [snapshot |-> snapshot, app |-> None, fiber |-> FALSE]
             q == [Idle EXCEPT !.pc = "done", !.start = call[c].start, !.out = output]
  <2>1. call' = [call EXCEPT ![c] = q] /\ known' = known /\ ReadGoesOn
    BY <1>4 DEF identity, ReadGoesOn
  <2>2. q.pc = "done" /\ q.out = output /\ ~output.fiber
    BY DEF Idle
  <2> HIDE DEF q, output
  <2>3. Fits(q, known, generation, read, front, switches)
    BY <2>2 DEF Fits, Finds, Traces, Shows, Checks, Projects, OneApp, Identifying, Tracing,
      Asking, Reads, Confirming
  <2> QED
    BY <1>1, <1>3, <2>1, <2>3, OneFits
<1>5. CASE call[c].pc = "snapshot" /\ AskIdentity(c, [r EXCEPT !.pc = "verify"])
  <2> DEFINE p == [r EXCEPT !.pc = "verify"]
             q == Awaits(p, p.pc)
  <2>1. /\ q.pc = "verify" /\ ~q.awake /\ q.acc = snapshot /\ q.gen = call[c].gen
        /\ q.app = call[c].app
    BY <1>1 DEF Awaits, CallType
  <2>2. AskIdentity(c, p)
    BY <1>5
  <2> HIDE DEF p
  <2>3. Fits(q, known, generation, read, front, switches)
    <3> HIDE DEF q
    <3> QED
      BY <1>1, <1>2, <1>5, <2>1 DEF Fits, Finds, Traces, Shows, Checks, Projects, Identifying,
        Tracing, Asking, Reads, Confirming
  <2> QED
    BY <1>1, <1>3, <2>2, <2>3, AskFits
<1>6. CASE call[c].pc = "nativeSnapshot" /\ AskIdentity(c, Awaits(r, "nativeVerify"))
  <2> DEFINE p == Awaits(r, "nativeVerify")
             q == Awaits(p, p.pc)
  <2>1. q.pc = "nativeVerify" /\ ~q.awake /\ q.acc = snapshot /\ q.gen = call[c].gen
    BY <1>1 DEF Awaits, CallType
  <2>2. AskIdentity(c, p)
    BY <1>6
  <2> HIDE DEF p
  <2>3. Fits(q, known, generation, read, front, switches)
    <3> HIDE DEF q
    <3> QED
      BY <1>1, <1>2, <1>6, <2>1 DEF Fits, Finds, Traces, Shows, Checks, Projects, Identifying,
        Tracing, Asking, Reads, Confirming
  <2> QED
    BY <1>1, <1>3, <2>2, <2>3, AskFits
<1> QED
  BY <1>4, <1>5, <1>6 DEF Snapshotted, snapshot

\* A call that has its snapshot goes on to read the screen context beside it.
LEMMA ContextFits ==
  ASSUME SemanticInv, AppInv, NEW c \in Calls, call[c].pc \in Reads,
         call' = [call EXCEPT ![c] = Awaits(@, "context")],
         UNCHANGED <<device, link, identity, generation, lastAccessibility, fiberCache,
                     semanticCache>>
  PROVE  AppInv'
<1> DEFINE q == Awaits(call[c], "context")
<1>1. call[c] \in CallType /\ call \in [Calls -> CallType]
  BY CallFacts DEF SemanticInv
<1>2. q.pc = "context" /\ ~q.awake /\ q.acc = call[c].acc
  BY <1>1 DEF Awaits, CallType
<1>3. call' = [call EXCEPT ![c] = q] /\ known' = known /\ ReadGoesOn
  BY DEF identity, ReadGoesOn
<1>4. CachesInv'
  BY <1>3, CachesStay
<1> HIDE DEF q
<1>5. Fits(q, known, generation, read, front, switches)
  BY <1>2, CallFits DEF Fits, Finds, Traces, Shows, Checks, Projects, Identifying, Tracing,
    Asking, Reads, Confirming
<1> QED
  BY <1>1, <1>3, <1>4, <1>5, OneFits

\* A call that has its snapshot asks for the third identity read.
LEMMA ConfirmFits ==
  ASSUME SemanticInv, AppInv, NEW c \in Calls, NEW fiber \in BOOLEAN,
         \/ call[c].pc = "inspect"
         \/ call[c].pc = "verify" /\ call[c].app = None /\ ~fiber,
         AskIdentity(c, [call[c] EXCEPT !.pc = "confirm", !.fiber = fiber]),
         UNCHANGED <<device, link, generation, lastAccessibility, fiberCache, semanticCache>>
  PROVE  AppInv'
<1> DEFINE p == [call[c] EXCEPT !.pc = "confirm", !.fiber = fiber]
           q == Awaits(p, p.pc)
<1>1. call[c] \in CallType
  BY CallFacts
<1>2. /\ q.pc = "confirm" /\ ~q.awake /\ q.acc = call[c].acc /\ q.gen = call[c].gen
      /\ q.app = call[c].app /\ q.fiber = fiber
  BY <1>1 DEF Awaits, CallType
<1>3. AskIdentity(c, p)
  OBVIOUS
<1>4. known' = known => CachesInv'
  BY CachesStay
<1> HIDE DEF p
<1>5. Fits(q, known, generation, read, front, switches)
  <2> HIDE DEF q
  <2> QED
    BY <1>2, CallFits DEF Fits, Finds, Traces, Shows, Checks, Projects, Identifying,
      Tracing, Asking, Reads, Confirming
<1> QED
  BY <1>3, <1>4, <1>5, AskFits

LEMMA VerifiedFits ==
  ASSUME SemanticInv, AppInv, NEW c \in Calls, Verified(c) PROVE AppInv'
<1> DEFINE key == <<call[c].app, call[c].acc.app>>
<1>1. /\ call[c].pc = "verify" /\ call[c].awake
      /\ UNCHANGED <<device, link, generation, lastAccessibility, fiberCache>>
      /\ call \in [Calls -> CallType] /\ call[c] \in CallType
  BY CallFacts DEF Verified, SemanticInv
<1>2. CASE Fail(c) /\ UNCHANGED identity
  BY <1>1, <1>2, FailFits
<1>3. CASE /\ fiberCache[key] # None /\ Answer(c, fiberCache[key]) /\ UNCHANGED identity
  <2>1. key \in AppId \X Apps
    BY <1>1, CallFacts DEF Sound, Reads, Snapshot
  <2>2. switches <= 1 => OneApp(fiberCache[key])
    BY <1>3, <2>1 DEF AppInv, CachesInv
  <2>3. switches <= 1 =>
          \A k \in AppId \X Apps : fiberCache'[k] # None => OneApp(fiberCache'[k])
    BY <1>1 DEF AppInv, CachesInv
  <2> HIDE DEF key
  <2> QED
    BY <1>1, <1>3, <2>2, <2>3, AnswerFits
<1>4. CASE /\ call[c].app # None /\ call' = [call EXCEPT ![c] = Awaits(@, "inspect")]
           /\ UNCHANGED <<identity, semanticCache>>
  <2> DEFINE q == Awaits(call[c], "inspect")
  <2>1. /\ q.pc = "inspect" /\ ~q.awake /\ q.acc = call[c].acc /\ q.gen = call[c].gen
        /\ q.app = call[c].app
    BY <1>1 DEF Awaits, CallType
  <2>2. call' = [call EXCEPT ![c] = q] /\ known' = known /\ ReadGoesOn
    BY <1>4 DEF identity, ReadGoesOn
  <2>3. CachesInv'
    BY <1>1, <1>4, <2>2, CachesStay
  <2> HIDE DEF q
  <2>4. Fits(q, known, generation, read, front, switches)
    BY <1>1, <1>4, <2>1, CallFits DEF Fits, Finds, Traces, Shows, Checks, Projects,
      Identifying, Tracing, Asking, Reads, Confirming
  <2> QED
    BY <1>1, <2>2, <2>3, <2>4, OneFits
<1>5. CASE /\ call[c].app = None
           /\ AskIdentity(c, [call[c] EXCEPT !.pc = "confirm", !.fiber = FALSE])
           /\ UNCHANGED semanticCache
  BY <1>1, <1>5, ConfirmFits
<1> QED
  BY <1>2, <1>3, <1>4, <1>5 DEF Verified

LEMMA InspectedFits ==
  ASSUME SemanticInv, AppInv, NEW c \in Calls, Inspected(c) PROVE AppInv'
<1>1. PICK fiber \in BOOLEAN :
         AskIdentity(c, [call[c] EXCEPT !.pc = "confirm", !.fiber = fiber])
  BY DEF Inspected
<1>2. /\ call[c].pc = "inspect"
      /\ UNCHANGED <<device, link, generation, lastAccessibility, fiberCache, semanticCache>>
  BY DEF Inspected, semantic
<1> QED
  BY <1>1, <1>2, ConfirmFits

LEMMA ConfirmedFits ==
  ASSUME SemanticInv, AppInv, NEW c \in Calls, Confirmed(c) PROVE AppInv'
<1> DEFINE output == Built(c, TRUE)
<1>1. /\ call[c].pc = "confirm" /\ call[c].awake
      /\ UNCHANGED <<device, link, generation, lastAccessibility>>
      /\ call[c] \in CallType /\ call[c].pc \in Reads
  BY CallFacts DEF Confirmed, Reads
<1>2. CASE /\ AskIdentity(c, [call[c] EXCEPT !.pc = "nativeIdentify", !.fiber = FALSE])
           /\ UNCHANGED <<fiberCache, semanticCache>>
  <2> DEFINE p == [call[c] EXCEPT !.pc = "nativeIdentify", !.fiber = FALSE]
             q == Awaits(p, p.pc)
  <2>1. q.pc = "nativeIdentify" /\ ~q.awake
    BY <1>1 DEF Awaits, CallType
  <2>2. AskIdentity(c, p) /\ (known' = known => CachesInv')
    BY <1>1, <1>2, CachesStay
  <2> HIDE DEF p
  <2>3. Fits(q, known, generation, read, front, switches)
    <3> HIDE DEF q
    <3> QED
      BY <2>1, FreshFits
  <2> QED
    BY <1>1, <2>2, <2>3, AskFits
<1>3. CASE /\ call[c].gen = generation /\ call[c].fiber
           /\ fiberCache' = [fiberCache EXCEPT ![<<call[c].app, call[c].acc.app>>] = output]
           /\ Answer(c, output) /\ UNCHANGED identity
  <2>1. switches <= 1 => OneApp(output)
    BY <1>1, <1>3, CallFits DEF Fits, Checks, Projects, Confirming, OneApp, Built
  <2> HIDE DEF output
  <2>2. ASSUME switches <= 1
        PROVE  \A k \in AppId \X Apps : fiberCache'[k] # None => OneApp(fiberCache'[k])
    <3>1. fiberCache \in [AppId \X Apps -> Output \cup {None}]
      BY DEF SemanticInv, KeptInv
    <3>2. \A k \in AppId \X Apps : fiberCache'[k] = output \/ fiberCache'[k] = fiberCache[k]
      BY <1>3, <3>1
    <3> QED
      BY <2>1, <2>2, <3>2 DEF AppInv, CachesInv
  <2> QED
    BY <1>1, <1>3, <2>1, <2>2, AnswerFits
<1>4. CASE /\ call' = [call EXCEPT ![c] = Awaits(@, "context")]
           /\ UNCHANGED <<identity, fiberCache, semanticCache>>
  BY <1>1, <1>4, ContextFits
<1> QED
  BY <1>2, <1>3, <1>4 DEF Confirmed

LEMMA NativeVerifiedFits ==
  ASSUME SemanticInv, AppInv, NEW c \in Calls, NativeVerified(c) PROVE AppInv'
<1>1. /\ call[c].pc \in Reads
      /\ UNCHANGED <<device, link, identity, generation, lastAccessibility, fiberCache>>
  BY DEF NativeVerified, Reads
<1>2. CASE /\ call' = [call EXCEPT ![c] = Awaits(@, "context")] /\ UNCHANGED semanticCache
  BY <1>1, <1>2, ContextFits
<1>3. CASE Fail(c)
  BY <1>1, <1>3, FailFits
<1> QED
  BY <1>2, <1>3 DEF NativeVerified

LEMMA ContextReadFits ==
  ASSUME SemanticInv, AppInv, NEW c \in Calls, ContextRead(c) PROVE AppInv'
<1> DEFINE output == Built(c, FALSE)
<1>1. /\ Answer(c, output)
      /\ UNCHANGED <<device, link, identity, generation, lastAccessibility, fiberCache>>
  BY DEF ContextRead
<1>2. OneApp(output)
  BY DEF OneApp, Built
<1>3. switches <= 1 =>
        \A k \in AppId \X Apps : fiberCache'[k] # None => OneApp(fiberCache'[k])
  BY <1>1 DEF AppInv, CachesInv
<1> HIDE DEF output
<1> QED
  BY <1>1, <1>2, <1>3, AnswerFits

-----------------------------------------------------------------------------
LEMMA AppStep ==
  ASSUME SemanticAssumption, SemanticInv, AppInv, [SemanticNext]_semanticVars PROVE AppInv'
<1>1. ASSUME NEW c \in Calls, CallStep(c) PROVE AppInv'
  BY <1>1, BeginFits, PrepareFits, IdentifiedFits, NativeIdentifiedFits, TakeSnapshotFits,
    SnapshottedFits, VerifiedFits, InspectedFits, ConfirmedFits, NativeVerifiedFits,
    ContextReadFits DEF CallStep
<1>2. CASE UNCHANGED semanticVars
  BY <1>2 DEF semanticVars, device, link, identity, semantic, AppInv, ReadInv, FrontInv,
    FitsInv, CachesInv
<1> QED
  BY <1>1, <1>2, SampleFits, ConcludeFits, SwitchFits, InputFits, DisconnectFits,
    ReconnectFits DEF SemanticNext

LEMMA AppStart == SemanticAssumption /\ SemanticInit => AppInv
<1> SUFFICES ASSUME SemanticAssumption, SemanticInit PROVE AppInv
  OBVIOUS
<1>1. ReadInv /\ FrontInv /\ CachesInv
  BY DEF SemanticInit, ReadInv, FrontInv, CachesInv, NoRead
<1>2. FitsInv
  BY IdleFits DEF SemanticInit, FitsInv
<1> QED
  BY <1>1, <1>2 DEF AppInv

\* session.ts:1138-1180.  A Fiber projection is merged with a snapshot of the
\* application it was made for, where the application in front changes once at most:
\* for any number of calls, identity reads they share, inputs and reconnections.
THEOREM ProjectionsAreOfOneApp ==
  SemanticAssumption /\ SemanticSpec => []ProjectionIsOneApp
<1> SUFFICES ASSUME SemanticAssumption PROVE SemanticSpec => []ProjectionIsOneApp
  OBVIOUS
<1>1. SemanticInit => AppInv
  BY AppStart
<1>2. SemanticInv /\ AppInv /\ [SemanticNext]_semanticVars => AppInv'
  BY AppStep
<1>3. SemanticSpec => []SemanticInv
  BY SemanticInvariance
<1>4. AppInv => ProjectionIsOneApp
  BY AppInvGives
<1> QED
  BY <1>1, <1>2, <1>3, <1>4, PTL DEF SemanticSpec

-----------------------------------------------------------------------------
(* The connection of a session.  The running operation is the head of          *)
(* #connectionTail; those behind it have begun nothing.  Where it stands says  *)
(* which connection it holds beside the client of the session: none before it  *)
(* acquires one, and from the point where the client is replaced the one it    *)
(* acquired is that client, unless it is down.  A selection waits for one      *)
(* reconciliation at most, and does nothing else while it does, so that the    *)
(* reconciliation moves no other operation on.                                 *)
Operation == [kind : {"open", "select"}, device : Devices, pc : Pcs, next : Clients \cup {0}]
Reconciliation ==
  [owner : Polls \cup {"select", Nobody}, client : Clients \cup {0}, generation : Nat,
   sent : BOOLEAN, value : BOOLEAN, aborted : BOOLEAN]
PollCall == [pc : {"idle", "reconcile", "read", "finish"}, generation : Nat]

Before == {"queued", "drop", "discover", "acquire"}
Placed == {"status", "reconcile", "reconciled", "unreconciled"}

\* The connection the running operation holds agrees with where it stands.
HeadInv ==
  tail # <<>> =>
    LET o == tail[1] IN
    /\ o.pc \in Before <=> o.next = 0
    /\ o.next # 0 => links[o.next] # "none"
    /\ o.kind = "open" => o.pc \in Before \cup {"start", "status"}
    /\ o.kind = "select" => o.pc # "drop"
    /\ o.pc = "drop" => bound = 0 /\ ~Connected(client)
    /\ o.kind = "open" /\ o.pc \in {"discover", "acquire"} => client = 0
    /\ (o.kind = "open" \/ o.pc \in Placed) /\ Connected(o.next) => client = o.next
    /\ o.kind = "select" /\ o.pc \in {"closeOld", "status"} => bound = 0

\* The operations behind the running one have begun nothing.
BehindInv == \A k \in 2..Len(tail) : tail[k].pc = "queued" /\ tail[k].next = 0

ClientInv ==
  /\ bound \in {0, client}
  /\ client # 0 => links[client] # "none"
  /\ \A i \in Clients : Connected(i) => i = client \/ (tail # <<>> /\ tail[1].next = i)

CloseInv ==
  /\ Closed => ~packetLease
  /\ closing \in {"client", "tail", "closed"} => bound = 0 /\ viewers = 0
  /\ closing \in {"tail", "closed"} => client = 0
  /\ closing = "closed" => \A k \in DOMAIN tail : tail[k].pc = "queued"

Selecting == tail # <<>> /\ tail[1].kind = "select" /\ tail[1].pc = "reconcile"
Mine(k) == reconciles[k].owner = "select"

OwnerInv ==
  /\ (\E k \in DOMAIN reconciles : Mine(k)) => Selecting
  /\ \A k, l \in DOMAIN reconciles : Mine(k) /\ Mine(l) => k = l

\* Everything of ReviewTypeOK but the listeners of the session.
KindsInv ==
  /\ links \in [Clients -> {"none", "up", "down"}]
  /\ asked \in [Clients -> Seq(BOOLEAN)]
  /\ encodes \in [Clients -> BOOLEAN] /\ troubled \in [Clients -> BOOLEAN]
  /\ client \in Clients \cup {0} /\ bound \in Clients \cup {0}
  /\ selected \in Devices \cup {Nobody} /\ connectionGeneration \in Nat
  /\ closing \in {"open", "screenshot", "client", "tail", "closed"}
  /\ tail \in Seq(Operation)
  /\ packetRequests \in Int /\ packetLease \in BOOLEAN /\ viewers \in Nat
  /\ demandClient \in Clients \cup {0} /\ previewEnabled \in BOOLEAN
  /\ reconciles \in Seq(Reconciliation)
  /\ poll \in [Polls -> PollCall]
  /\ used \in [Counted -> Nat]

SessionInv ==
  /\ KindsInv /\ ClientInv /\ HeadInv /\ BehindInv /\ CloseInv /\ OwnerInv

LEMMA SessionInvGives ==
  ASSUME ReviewAssumption, SessionInv PROVE ReviewTypeOK /\ NoClientForgotten
<1>1. ReviewTypeOK
  BY DEF SessionInv, KindsInv, ClientInv, ReviewTypeOK, Operation, Reconciliation, PollCall
<1>2. \A i \in Clients : Connected(i) => i = client \/ (tail # <<>> /\ Now.next = i)
  <2>1. tail # <<>> => Now = tail[1]
    BY HeadTailProperties DEF Now, SessionInv, KindsInv
  <2> QED
    BY <2>1 DEF SessionInv, ClientInv
<1>3. ASSUME closing = "closed"
      PROVE  (\A i \in Clients : ~Connected(i)) /\ ~packetLease /\ viewers = 0
  <2>1. client = 0 /\ ~packetLease /\ viewers = 0
        /\ \A k \in DOMAIN tail : tail[k].pc = "queued"
    BY <1>3 DEF SessionInv, CloseInv, Closed
  <2>2. tail # <<>> => tail[1].next = 0
    <3>1. tail # <<>> => 1 \in DOMAIN tail
      BY HeadTailProperties DEF SessionInv, KindsInv
    <3> QED
      BY <2>1, <3>1 DEF SessionInv, HeadInv, Before
  <2>3. 0 \notin Clients
    BY DEF Clients
  <2> QED
    BY <2>1, <2>2, <2>3 DEF SessionInv, ClientInv
<1> QED
  BY <1>1, <1>2, <1>3 DEF NoClientForgotten

-----------------------------------------------------------------------------
\* The running operation moves on.
LEMMA TailFacts ==
  ASSUME tail \in Seq(Operation), tail # <<>>
  PROVE  /\ Len(tail) \in Nat /\ Len(tail) >= 1 /\ DOMAIN tail = 1..Len(tail)
         /\ Now = tail[1] /\ \A k \in 1..Len(tail) : tail[k] \in Operation
  BY HeadTailProperties DEF Now

LEMMA MovesFacts ==
  ASSUME tail \in Seq(Operation), tail # <<>>, NEW o \in Operation
  PROVE  LET t == [tail EXCEPT ![1] = o] IN
         /\ t \in Seq(Operation) /\ t # <<>> /\ Len(t) = Len(tail) /\ t[1] = o
         /\ \A k \in 2..Len(tail) : t[k] = tail[k]
<1>1. /\ Len(tail) \in Nat /\ Len(tail) >= 1 /\ DOMAIN tail = 1..Len(tail)
      /\ \A k \in 1..Len(tail) : tail[k] \in Operation
  BY TailFacts
<1> DEFINE t == [tail EXCEPT ![1] = o]
<1>2. t \in [1..Len(tail) -> Operation]
  BY <1>1
<1>3. t \in Seq(Operation) /\ Len(t) = Len(tail)
  BY <1>1, <1>2
<1> QED
  BY <1>1, <1>3

LEMMA WaitsFacts ==
  ASSUME tail \in Seq(Operation), tail # <<>>, NEW pc \in Pcs, Waits(pc)
  PROVE  /\ tail' \in Seq(Operation) /\ tail' # <<>> /\ Len(tail') = Len(tail)
         /\ tail'[1].kind = tail[1].kind /\ tail'[1].device = tail[1].device
         /\ tail'[1].pc = pc /\ tail'[1].next = tail[1].next
         /\ \A k \in 2..Len(tail) : tail'[k] = tail[k]
<1> DEFINE o == [tail[1] EXCEPT !.pc = pc]
<1>1. tail[1] \in Operation
  BY TailFacts
<1>2. tail' = [tail EXCEPT ![1] = o]
  BY DEF Waits
<1>3. /\ o \in Operation /\ o.kind = tail[1].kind /\ o.device = tail[1].device
      /\ o.pc = pc /\ o.next = tail[1].next
  BY <1>1 DEF Operation
<1> HIDE DEF o
<1> QED
  BY <1>2, <1>3, MovesFacts

LEMMA AcquiresFacts ==
  ASSUME tail \in Seq(Operation), tail # <<>>, NEW i \in Clients,
         tail' = [tail EXCEPT ![1].pc = "start", ![1].next = i]
  PROVE  /\ tail' \in Seq(Operation) /\ tail' # <<>> /\ Len(tail') = Len(tail)
         /\ tail'[1].kind = tail[1].kind /\ tail'[1].device = tail[1].device
         /\ tail'[1].pc = "start" /\ tail'[1].next = i
         /\ \A k \in 2..Len(tail) : tail'[k] = tail[k]
<1> DEFINE p == [tail[1] EXCEPT !.pc = "start"]
           o == [p EXCEPT !.next = i]
<1>1. tail[1] \in Operation /\ 1 \in DOMAIN tail
  BY TailFacts
<1>2. tail' = [tail EXCEPT ![1] = o]
  <2>1. [tail EXCEPT ![1].pc = "start", ![1].next = i]
          = [[tail EXCEPT ![1] = [@ EXCEPT !.pc = "start"]] EXCEPT ![1] = [@ EXCEPT !.next = i]]
    OBVIOUS
  <2> QED
    BY <1>1, <2>1
<1>3. p \in Operation /\ p.kind = tail[1].kind /\ p.device = tail[1].device /\ p.pc = "start"
  BY <1>1 DEF Operation, Pcs
<1> HIDE DEF p
<1>4. /\ o \in Operation /\ o.kind = p.kind /\ o.device = p.device
      /\ o.pc = p.pc /\ o.next = i
  BY <1>3 DEF Operation
<1> HIDE DEF o
<1> DEFINE t == [tail EXCEPT ![1] = o]
<1>5. /\ t \in Seq(Operation) /\ t # <<>> /\ Len(t) = Len(tail) /\ t[1] = o
      /\ \A k \in 2..Len(tail) : t[k] = tail[k]
  BY <1>4, MovesFacts
<1>6. tail' = t
  BY <1>2
<1> HIDE DEF t
<1> QED
  BY <1>3, <1>4, <1>5, <1>6

LEMMA OverFacts ==
  ASSUME tail \in Seq(Operation), tail # <<>>, Over
  PROVE  /\ tail' \in Seq(Operation) /\ Len(tail') = Len(tail) - 1
         /\ DOMAIN tail' = 1..Len(tail')
         /\ \A k \in 1..Len(tail') : tail'[k] = tail[k + 1] /\ k + 1 \in 2..Len(tail)
         /\ tail' # <<>> => 1 \in 1..Len(tail')
<1>1. Len(tail) \in Nat /\ Len(tail) >= 1
  BY TailFacts
<1>2. /\ tail' \in Seq(Operation) /\ Len(tail') = Len(tail) - 1
      /\ \A k \in 1..Len(tail') : tail'[k] = tail[k + 1]
  BY HeadTailProperties DEF Over
<1>3. tail' # <<>> => Len(tail') # 0
  BY <1>2, EmptySeq
<1> QED
  BY <1>1, <1>2, <1>3

\* A connection not yet acquired is there to be acquired.
LEMMA FreshIsFree ==
  ASSUME ReviewAssumption, Free # {} PROVE Fresh \in Clients /\ links[Fresh] = "none"
<1> DEFINE Less == {ss \in Nat \X Nat : ss[1] < ss[2]}
<1>1. IsWellFoundedOn(Less, Nat)
  BY NatLessThanWellFounded DEF OpToRel
<1>2. Free \subseteq Nat
  BY DEF Free, Clients
<1>3. \E i \in Free : \A j \in Free : ~ (<<j, i>> \in Less)
  <2> HIDE DEF Less
  <2> QED
    BY <1>1, <1>2, WFMin
<1>4. PICK i \in Free : \A j \in Free : i <= j
  <2>1. \A i, j \in Nat : j < i => <<j, i>> \in Less
    OBVIOUS
  <2> HIDE DEF Less
  <2>2. \A i, j \in Nat : ~ (<<j, i>> \in Less) => i <= j
    BY <2>1
  <2> QED
    BY <1>2, <1>3, <2>2
<1>5. Fresh \in Free
  BY <1>4 DEF Fresh
<1> QED
  BY <1>5 DEF Free

LEMMA CutFacts ==
  ASSUME KindsInv, NEW is, Cut(is)
  PROVE  /\ links' \in [Clients -> {"none", "up", "down"}]
         /\ asked' \in [Clients -> Seq(BOOLEAN)]
         /\ encodes' \in [Clients -> BOOLEAN] /\ troubled' \in [Clients -> BOOLEAN]
         /\ \A i \in Clients : (links'[i] = "none") <=> (links[i] = "none")
         /\ \A i \in Clients : (links'[i] = "up") <=> (links[i] = "up" /\ i \notin is)
<1>1. links \in [Clients -> {"none", "up", "down"}] /\ asked \in [Clients -> Seq(BOOLEAN)]
      /\ encodes \in [Clients -> BOOLEAN] /\ troubled \in [Clients -> BOOLEAN]
  BY DEF KindsInv
<1>2. /\ links' \in [Clients -> {"none", "up", "down"}]
      /\ \A i \in Clients : (links'[i] = "none") <=> (links[i] = "none")
      /\ \A i \in Clients : (links'[i] = "up") <=> (links[i] = "up" /\ i \notin is)
  BY <1>1 DEF Cut
<1>3. asked' \in [Clients -> Seq(BOOLEAN)]
  <2>1. <<>> \in Seq(BOOLEAN)
    BY EmptySeq
  <2> QED
    BY <1>1, <2>1 DEF Cut
<1>4. encodes' \in [Clients -> BOOLEAN]
  <2>1. \A i \in Clients : (encodes[i] /\ i \notin is) \in BOOLEAN
    OBVIOUS
  <2> QED
    BY <2>1, Zenon DEF Cut
<1> QED
  BY <1>1, <1>2, <1>3, <1>4 DEF Cut

LEMMA ResetFacts ==
  ASSUME reconciles \in Seq(Reconciliation), ResetDemand
  PROVE  /\ packetRequests' = 0 /\ packetLease' = FALSE
         /\ demandClient' = 0 /\ previewEnabled' = FALSE
         /\ packetRequests' \in Int /\ packetLease' \in BOOLEAN
         /\ demandClient' \in Clients \cup {0} /\ previewEnabled' \in BOOLEAN
         /\ reconciles' \in Seq(Reconciliation) /\ DOMAIN reconciles' = DOMAIN reconciles
         /\ \A k \in DOMAIN reconciles : reconciles'[k].owner = reconciles[k].owner
<1>1. Len(reconciles) \in Nat /\ DOMAIN reconciles = 1..Len(reconciles)
      /\ \A k \in 1..Len(reconciles) : reconciles[k] \in Reconciliation
  OBVIOUS
<1>2. \A r \in Reconciliation : LET q == [r EXCEPT !.aborted = TRUE] IN
        q \in Reconciliation /\ q.owner = r.owner
  BY DEF Reconciliation
<1>3. reconciles' = [k \in 1..Len(reconciles) |-> [reconciles[k] EXCEPT !.aborted = TRUE]]
  BY <1>1 DEF ResetDemand
<1>4. reconciles' \in [1..Len(reconciles) -> Reconciliation]
  BY <1>1, <1>2, <1>3
<1>5. reconciles' \in Seq(Reconciliation)
  BY <1>1, <1>4
<1>6. packetLease' = FALSE /\ packetLease' \in BOOLEAN /\ previewEnabled' = FALSE
      /\ previewEnabled' \in BOOLEAN
  BY Zenon DEF ResetDemand
<1>7. \A k \in DOMAIN reconciles : reconciles'[k].owner = reconciles[k].owner
  BY <1>1, <1>2, <1>3
<1>8. DOMAIN reconciles' = DOMAIN reconciles
  BY <1>1, <1>3
<1>9. packetRequests' = 0 /\ demandClient' = 0 /\ 0 \in Int /\ 0 \in Clients \cup {0}
  BY DEF ResetDemand
<1> QED
  BY <1>5, <1>6, <1>7, <1>8, <1>9

\* A reconciliation the running operation does not wait for.
LEMMA AsksFacts ==
  ASSUME ReviewAssumption, KindsInv, OwnerInv, NEW owner \in Polls \cup {Nobody}, Asks(owner),
         Selecting' = Selecting
  PROVE  reconciles' \in Seq(Reconciliation) /\ OwnerInv'
<1> DEFINE r == Reconciling(owner, connectionGeneration)
<1>1. r \in Reconciliation /\ r.owner # "select"
  BY DEF Reconciling, Reconciliation, KindsInv, ReviewAssumption
<1>2. reconciles \in Seq(Reconciliation) /\ reconciles' = Append(reconciles, r)
  BY DEF Asks, KindsInv
<1> HIDE DEF r
<1>3. /\ reconciles' \in Seq(Reconciliation)
      /\ DOMAIN reconciles = 1..Len(reconciles) /\ Len(reconciles) \in Nat
      /\ DOMAIN reconciles' = 1..(Len(reconciles) + 1)
      /\ \A k \in DOMAIN reconciles : reconciles'[k] = reconciles[k]
      /\ reconciles'[Len(reconciles) + 1] = r
  BY <1>1, <1>2, AppendProperties
<1>4. \A k \in DOMAIN reconciles' : reconciles'[k].owner = "select" =>
        k \in DOMAIN reconciles /\ Mine(k)
  BY <1>1, <1>3 DEF Mine
<1> QED
  BY <1>3, <1>4 DEF OwnerInv, Mine

\* Nothing of the running operation changes, and no reconciliation its owner.
LEMMA OwnersKept ==
  ASSUME OwnerInv, DOMAIN reconciles' = DOMAIN reconciles,
         \A k \in DOMAIN reconciles : reconciles'[k].owner = reconciles[k].owner,
         Selecting' = Selecting
  PROVE  OwnerInv'
  BY DEF OwnerInv, Mine

\* The running operation, and that the variables have their types.
LEMMA RunningFacts ==
  ASSUME SessionInv, tail # <<>>
  PROVE  /\ tail \in Seq(Operation) /\ Now = tail[1] /\ tail[1] \in Operation
         /\ Len(tail) \in Nat /\ Len(tail) >= 1 /\ DOMAIN tail = 1..Len(tail)
         /\ closing = "closed" => tail[1].pc = "queued"
<1>1. /\ tail \in Seq(Operation) /\ Now = tail[1] /\ tail[1] \in Operation
      /\ Len(tail) \in Nat /\ Len(tail) >= 1 /\ DOMAIN tail = 1..Len(tail)
  BY TailFacts DEF SessionInv, KindsInv
<1>2. 1 \in DOMAIN tail
  BY <1>1
<1> QED
  BY <1>1, <1>2 DEF SessionInv, CloseInv

\* The operation is over; the next one, if any, has begun nothing.
LEMMA OverKeeps ==
  ASSUME SessionInv, tail # <<>>, Over, tail[1].pc # "reconcile"
  PROVE  /\ tail' \in Seq(Operation) /\ HeadInv' /\ BehindInv' /\ ~Selecting'
         /\ \A k \in DOMAIN tail' : tail'[k].pc = "queued" /\ tail'[k].next = 0
         /\ \A k \in DOMAIN reconciles : ~Mine(k)
<1>1. tail \in Seq(Operation)
  BY DEF SessionInv, KindsInv
<1>2. /\ tail' \in Seq(Operation) /\ Len(tail') = Len(tail) - 1 /\ DOMAIN tail' = 1..Len(tail')
      /\ \A k \in 1..Len(tail') : tail'[k] = tail[k + 1] /\ k + 1 \in 2..Len(tail)
      /\ tail' # <<>> => 1 \in 1..Len(tail')
  BY <1>1, OverFacts
<1>3. \A k \in DOMAIN tail' : tail'[k].pc = "queued" /\ tail'[k].next = 0
  BY <1>2 DEF SessionInv, BehindInv
<1>4. HeadInv'
  BY <1>2, <1>3 DEF HeadInv, Before, Placed, Connected
<1>5. BehindInv'
  BY <1>2, <1>3 DEF BehindInv
<1> QED
  BY <1>2, <1>3, <1>4, <1>5 DEF SessionInv, OwnerInv, Selecting

\* The operation moves on; those behind it wait as before.
LEMMA WaitsKeeps ==
  ASSUME SessionInv, tail # <<>>, NEW pc \in Pcs, Waits(pc)
  PROVE  /\ tail' \in Seq(Operation) /\ tail' # <<>> /\ BehindInv'
         /\ tail'[1].kind = tail[1].kind /\ tail'[1].device = tail[1].device
         /\ tail'[1].pc = pc /\ tail'[1].next = tail[1].next
  BY WaitsFacts DEF SessionInv, KindsInv, BehindInv

LEMMA CountFacts ==
  ASSUME SessionInv, NEW x \in Counted, Count(x) PROVE used' \in [Counted -> Nat]
<1>1. used \in [Counted -> Nat] /\ used[x] + 1 \in Nat
  BY DEF SessionInv, KindsInv
<1> QED
  BY <1>1 DEF Count

LEMMA EnqueueKeeps ==
  ASSUME ReviewAssumption, SessionInv, NEW kind \in {"open", "select"}, NEW d \in Devices,
         Enqueue(kind, d)
  PROVE  SessionInv'
<1> DEFINE o == [kind |-> kind, device |-> d, pc |-> "queued", next |-> 0]
<1>1. o \in Operation /\ o.pc = "queued" /\ o.next = 0
  BY DEF Operation, Pcs
<1>2. tail \in Seq(Operation) /\ tail' = Append(tail, o)
  BY DEF Enqueue, SessionInv, KindsInv
<1>3. used' \in [Counted -> Nat]
  BY CountFacts DEF Enqueue, Counted
<1> HIDE DEF o
<1>4. /\ tail' \in Seq(Operation) /\ Len(tail) \in Nat /\ Len(tail') = Len(tail) + 1
      /\ DOMAIN tail = 1..Len(tail) /\ DOMAIN tail' = 1..(Len(tail) + 1)
      /\ \A k \in 1..Len(tail) : tail'[k] = tail[k]
      /\ tail'[Len(tail) + 1] = o
  BY <1>1, <1>2, AppendProperties
<1>5. /\ tail # <<>> => Len(tail) >= 1 /\ tail'[1] = tail[1]
      /\ tail = <<>> => tail'[1] = o
  <2>1. tail # <<>> => Len(tail) >= 1
    BY <1>2, TailFacts
  <2>2. tail = <<>> => Len(tail) = 0
    BY EmptySeq
  <2> QED
    BY <1>4, <2>1, <2>2
<1>6. tail' # <<>>
  BY <1>4, EmptySeq
<1>7. KindsInv'
  BY <1>3, <1>4 DEF Enqueue, SessionInv, KindsInv, native, binding, demand
<1>8. HeadInv' /\ ClientInv'
  BY <1>1, <1>5, <1>6
     DEF Enqueue, SessionInv, HeadInv, ClientInv, Before, Placed, Connected, native, binding
<1>9. BehindInv' /\ CloseInv'
  BY <1>1, <1>4 DEF Enqueue, SessionInv, BehindInv, CloseInv, Closed, binding, demand
<1>10. OwnerInv'
  BY <1>1, <1>5, <1>6 DEF Enqueue, SessionInv, OwnerInv, Mine, Selecting
<1> QED
  BY <1>7, <1>8, <1>9, <1>10 DEF SessionInv

\* A session that is connected, or has the device already, does nothing.
LEMMA RefusedKeeps == ASSUME ReviewAssumption, SessionInv, Refused PROVE SessionInv'
<1>1. tail # <<>> /\ Now = tail[1] /\ tail[1].pc = "queued" /\ tail[1].next = 0
  BY RunningFacts DEF Refused, SessionInv, HeadInv, Before
<1>2. /\ tail' \in Seq(Operation) /\ HeadInv' /\ BehindInv' /\ ~Selecting'
      /\ \A k \in DOMAIN tail' : tail'[k].pc = "queued" /\ tail'[k].next = 0
      /\ \A k \in DOMAIN reconciles : ~Mine(k)
  BY <1>1, OverKeeps DEF Refused, native, binding
<1>3. KindsInv'
  BY <1>2 DEF Refused, SessionInv, KindsInv, native, binding, demand
<1>4. ClientInv'
  BY <1>1 DEF Refused, SessionInv, ClientInv, Connected, native, binding
<1>5. CloseInv'
  BY <1>2 DEF Refused, SessionInv, CloseInv, Closed, binding, demand
<1>6. OwnerInv'
  BY <1>2 DEF Refused, OwnerInv, Mine
<1> QED
  BY <1>2, <1>3, <1>4, <1>5, <1>6 DEF SessionInv

LEMMA OpenBeginsKeeps == ASSUME ReviewAssumption, SessionInv, OpenBegins PROVE SessionInv'
<1>1. /\ tail # <<>> /\ Now = tail[1] /\ tail[1].kind = "open" /\ tail[1].pc = "queued"
      /\ tail[1].next = 0 /\ ~Closed
  BY RunningFacts DEF OpenBegins, At, SessionInv, HeadInv, Before
<1>2. \A k \in DOMAIN reconciles : ~Mine(k)
  BY <1>1 DEF SessionInv, OwnerInv, Selecting
<1>3. ASSUME client # 0 PROVE SessionInv'
  <2>1. /\ tail' \in Seq(Operation) /\ tail' # <<>> /\ BehindInv'
        /\ tail'[1].kind = "open" /\ tail'[1].pc = "drop" /\ tail'[1].next = 0
    BY <1>1, <1>3, WaitsKeeps DEF OpenBegins, Pcs
  <2>2. /\ packetRequests' \in Int /\ packetLease' \in BOOLEAN
        /\ demandClient' \in Clients \cup {0} /\ previewEnabled' \in BOOLEAN
        /\ packetLease' = FALSE
        /\ reconciles' \in Seq(Reconciliation) /\ DOMAIN reconciles' = DOMAIN reconciles
        /\ \A k \in DOMAIN reconciles : reconciles'[k].owner = reconciles[k].owner
    BY <1>3, ResetFacts DEF OpenBegins, SessionInv, KindsInv
  <2>3. KindsInv'
    BY <1>3, <2>1, <2>2 DEF OpenBegins, SessionInv, KindsInv, native
  <2>4. HeadInv' /\ ClientInv'
    BY <1>1, <1>3, <2>1
       DEF OpenBegins, SessionInv, HeadInv, ClientInv, Before, Placed, Connected, native
  <2>5. CloseInv' /\ OwnerInv'
    BY <1>1, <1>2, <1>3, <2>2 DEF OpenBegins, CloseInv, Closed, OwnerInv, Mine
  <2> QED
    BY <2>1, <2>3, <2>4, <2>5 DEF SessionInv
<1>4. ASSUME client = 0 PROVE SessionInv'
  <2>1. /\ tail' \in Seq(Operation) /\ tail' # <<>> /\ BehindInv'
        /\ tail'[1].kind = "open" /\ tail'[1].pc = "discover" /\ tail'[1].next = 0
    BY <1>1, <1>4, WaitsKeeps DEF OpenBegins, Pcs
  <2>2. KindsInv'
    BY <1>4, <2>1 DEF OpenBegins, SessionInv, KindsInv, native, demand
  <2>3. HeadInv' /\ ClientInv'
    BY <1>1, <1>4, <2>1
       DEF OpenBegins, SessionInv, HeadInv, ClientInv, Before, Placed, Connected, native
  <2>4. CloseInv' /\ OwnerInv'
    BY <1>1, <1>2, <1>4 DEF OpenBegins, CloseInv, Closed, OwnerInv, Mine
  <2> QED
    BY <2>1, <2>2, <2>3, <2>4 DEF SessionInv
<1> QED
  BY <1>3, <1>4

LEMMA OpenDropsKeeps == ASSUME ReviewAssumption, SessionInv, OpenDrops PROVE SessionInv'
<1>1. /\ tail # <<>> /\ Now = tail[1] /\ tail[1].kind = "open" /\ tail[1].pc = "drop"
      /\ tail[1].next = 0 /\ bound = 0 /\ ~Connected(client) /\ closing # "closed"
  BY RunningFacts DEF OpenDrops, At, SessionInv, HeadInv, Before
<1>2. \A k \in DOMAIN reconciles : ~Mine(k)
  BY <1>1 DEF SessionInv, OwnerInv, Selecting
<1>3. ASSUME client = 0 PROVE SessionInv'
  <2>1. tail' \in Seq(Operation) /\ HeadInv' /\ BehindInv'
    BY <1>1, <1>3, OverKeeps DEF OpenDrops, native, binding
  <2>2. KindsInv'
    BY <1>3, <2>1 DEF OpenDrops, SessionInv, KindsInv, native, binding, demand
  <2>3. ClientInv'
    BY <1>1, <1>3 DEF OpenDrops, SessionInv, ClientInv, Connected, native, binding
  <2>4. CloseInv' /\ OwnerInv'
    BY <1>1, <1>2, <1>3
       DEF OpenDrops, SessionInv, CloseInv, Closed, OwnerInv, Mine, binding, demand
  <2> QED
    BY <2>1, <2>2, <2>3, <2>4 DEF SessionInv
<1>4. ASSUME client # 0 PROVE SessionInv'
  <2>1. /\ tail' \in Seq(Operation) /\ tail' # <<>> /\ BehindInv'
        /\ tail'[1].kind = "open" /\ tail'[1].pc = "discover" /\ tail'[1].next = 0
    BY <1>1, <1>4, WaitsKeeps DEF OpenDrops, Pcs
  <2>2. KindsInv'
    BY <1>4, <2>1 DEF OpenDrops, NextGeneration, SessionInv, KindsInv, native, demand
  <2>3. HeadInv' /\ ClientInv'
    BY <1>1, <1>4, <2>1
       DEF OpenDrops, SessionInv, HeadInv, ClientInv, Before, Placed, Connected, native
  <2>4. CloseInv' /\ OwnerInv'
    BY <1>1, <1>2, <1>4 DEF OpenDrops, SessionInv, CloseInv, Closed, OwnerInv, Mine, demand
  <2> QED
    BY <2>1, <2>2, <2>3, <2>4 DEF SessionInv
<1> QED
  BY <1>3, <1>4

LEMMA OpenDiscoversKeeps == ASSUME ReviewAssumption, SessionInv, OpenDiscovers PROVE SessionInv'
<1>1. /\ tail # <<>> /\ Now = tail[1] /\ tail[1].kind = "open" /\ tail[1].pc = "discover"
      /\ tail[1].next = 0 /\ client = 0 /\ closing # "closed" /\ tail[1] \in Operation
  BY RunningFacts DEF OpenDiscovers, At, SessionInv, HeadInv, Before
<1>2. \A k \in DOMAIN reconciles : ~Mine(k)
  BY <1>1 DEF SessionInv, OwnerInv, Selecting
<1>3. CloseInv' /\ OwnerInv'
  BY <1>1, <1>2 DEF OpenDiscovers, SessionInv, CloseInv, Closed, OwnerInv, Mine, demand
<1>4. ASSUME Over, selected' \in {selected, Nobody} PROVE SessionInv'
  <2>1. tail' \in Seq(Operation) /\ HeadInv' /\ BehindInv'
    BY <1>1, <1>4, OverKeeps
  <2>2. KindsInv'
    BY <1>4, <2>1 DEF OpenDiscovers, SessionInv, KindsInv, native, demand
  <2>3. ClientInv'
    BY <1>1 DEF OpenDiscovers, SessionInv, ClientInv, Connected, native
  <2> QED
    BY <1>3, <2>1, <2>2, <2>3 DEF SessionInv
<1>5. ASSUME selected' = Now.device, Waits("acquire") PROVE SessionInv'
  <2>1. /\ tail' \in Seq(Operation) /\ tail' # <<>> /\ BehindInv'
        /\ tail'[1].kind = "open" /\ tail'[1].pc = "acquire" /\ tail'[1].next = 0
    BY <1>1, <1>5, WaitsKeeps DEF Pcs
  <2>2. selected' \in Devices
    BY <1>1, <1>5 DEF Operation
  <2>3. KindsInv'
    BY <2>1, <2>2 DEF OpenDiscovers, SessionInv, KindsInv, native, demand
  <2>4. HeadInv' /\ ClientInv'
    BY <1>1, <2>1
       DEF OpenDiscovers, SessionInv, HeadInv, ClientInv, Before, Placed, Connected, native
  <2> QED
    BY <1>3, <2>1, <2>3, <2>4 DEF SessionInv
<1> QED
  BY <1>4, <1>5 DEF OpenDiscovers

\* The catch of #open leaves no connection: the client of the session is
\* closed, and the one acquired was that client or is down.
LEMMA OpenCatchesKeeps ==
  ASSUME ReviewAssumption, SessionInv, tail # <<>>, tail[1].kind = "open",
         tail[1].pc \in {"acquire", "start", "status"}, OpenCatches
  PROVE  SessionInv'
<1>1. /\ tail' \in Seq(Operation) /\ HeadInv' /\ BehindInv'
      /\ \A k \in DOMAIN reconciles : ~Mine(k)
  BY OverKeeps DEF OpenCatches
<1>2. closing # "closed"
  BY RunningFacts
<1>3. /\ links' \in [Clients -> {"none", "up", "down"}]
      /\ asked' \in [Clients -> Seq(BOOLEAN)]
      /\ encodes' \in [Clients -> BOOLEAN] /\ troubled' \in [Clients -> BOOLEAN]
      /\ \A i \in Clients : (links'[i] = "none") <=> (links[i] = "none")
      /\ \A i \in Clients : (links'[i] = "up") <=> (links[i] = "up" /\ i \notin {client} \ {0})
  BY CutFacts DEF OpenCatches, SessionInv
<1>4. KindsInv'
  <2>1. /\ client' \in Clients \cup {0} /\ bound' \in Clients \cup {0}
        /\ selected' \in Devices \cup {Nobody} /\ connectionGeneration' \in Nat
    BY DEF OpenCatches, NextGeneration, SessionInv, KindsInv
  <2>2. UNCHANGED <<closing, packetRequests, packetLease, demandClient, previewEnabled,
                    viewers, reconciles, poll, used>>
    BY DEF OpenCatches, demand
  <2> QED
    BY <1>1, <1>3, <2>1, <2>2 DEF SessionInv, KindsInv
<1>5. \A i \in Clients : ~(links'[i] = "up")
  <2>1. \A i \in Clients : links[i] = "up" => i = client
    BY DEF SessionInv, ClientInv, HeadInv, Before, Connected, Clients
  <2>2. 0 \notin Clients
    BY DEF Clients
  <2> QED
    BY <1>3, <2>1, <2>2
<1>6. ClientInv'
  BY <1>5 DEF OpenCatches, ClientInv, Connected
<1>7. CloseInv' /\ OwnerInv'
  BY <1>1, <1>2 DEF OpenCatches, SessionInv, CloseInv, Closed, OwnerInv, Mine, demand
<1> QED
  BY <1>1, <1>4, <1>6, <1>7 DEF SessionInv

LEMMA OpenAcquiresKeeps == ASSUME ReviewAssumption, SessionInv, OpenAcquires PROVE SessionInv'
<1>1. /\ tail # <<>> /\ Now = tail[1] /\ tail[1].kind = "open" /\ tail[1].pc = "acquire"
      /\ tail[1].next = 0 /\ client = 0 /\ closing # "closed" /\ Free # {}
  BY RunningFacts DEF OpenAcquires, At, SessionInv, HeadInv, Before
<1>2. \A k \in DOMAIN reconciles : ~Mine(k)
  BY <1>1 DEF SessionInv, OwnerInv, Selecting
<1>3. OwnerInv'
  BY <1>2 DEF OpenAcquires, OwnerInv, Mine
<1>4. Fresh \in Clients /\ links[Fresh] = "none" /\ 0 \notin Clients
  BY <1>1, FreshIsFree DEF Clients
<1>5. links \in [Clients -> {"none", "up", "down"}]
  BY DEF SessionInv, KindsInv
<1>6. \A i \in Clients : ~(links[i] = "up")
  BY <1>1, <1>4 DEF SessionInv, ClientInv, Connected
<1>7. ASSUME Closed PROVE SessionInv'
  <2>1. tail' \in Seq(Operation) /\ HeadInv' /\ BehindInv'
    BY <1>1, <1>7, OverKeeps DEF OpenAcquires
  <2>2. links' \in [Clients -> {"none", "up", "down"}] /\ \A i \in Clients : ~(links'[i] = "up")
    BY <1>4, <1>5, <1>6, <1>7 DEF OpenAcquires
  <2>3. KindsInv'
    <3>1. /\ client' \in Clients \cup {0} /\ bound' \in Clients \cup {0}
          /\ selected' \in Devices \cup {Nobody} /\ connectionGeneration' \in Nat
      BY <1>7 DEF OpenAcquires, NextGeneration, SessionInv, KindsInv
    <3>2. UNCHANGED <<asked, encodes, troubled, closing, packetRequests, packetLease,
                      demandClient, previewEnabled, viewers, reconciles, poll, used>>
      BY <1>7 DEF OpenAcquires, demand
    <3> QED
      BY <2>1, <2>2, <3>1, <3>2 DEF SessionInv, KindsInv
  <2>4. ClientInv'
    BY <1>7, <2>2 DEF OpenAcquires, ClientInv, Connected
  <2>5. CloseInv'
    BY <1>1, <1>7 DEF OpenAcquires, SessionInv, CloseInv, Closed, demand
  <2> QED
    BY <1>3, <2>1, <2>3, <2>4, <2>5 DEF SessionInv
<1>8. ASSUME ~Closed PROVE SessionInv'
  <2>1. tail' = [tail EXCEPT ![1].pc = "start", ![1].next = Fresh]
    BY <1>8 DEF OpenAcquires
  <2>2. /\ tail' \in Seq(Operation) /\ tail' # <<>> /\ Len(tail') = Len(tail)
        /\ tail'[1].kind = tail[1].kind /\ tail'[1].device = tail[1].device
        /\ tail'[1].pc = "start" /\ tail'[1].next = Fresh
        /\ \A k \in 2..Len(tail) : tail'[k] = tail[k]
    BY <1>1, <1>4, <2>1, AcquiresFacts DEF SessionInv, KindsInv
  <2>3. BehindInv'
    BY <2>2 DEF SessionInv, BehindInv
  <2>4. /\ links' \in [Clients -> {"none", "up", "down"}] /\ links'[Fresh] = "up"
        /\ \A i \in Clients : links'[i] = "up" => i = Fresh
    BY <1>4, <1>5, <1>6, <1>8 DEF OpenAcquires, Attached
  <2>5. KindsInv'
    <3>1. /\ client' \in Clients \cup {0} /\ bound' \in Clients \cup {0}
          /\ selected' = selected /\ connectionGeneration' \in Nat
      BY <1>4, <1>8 DEF OpenAcquires, NextGeneration, SessionInv, KindsInv
    <3>2. UNCHANGED <<asked, encodes, troubled, closing, packetRequests, packetLease,
                      demandClient, previewEnabled, viewers, reconciles, poll, used>>
      BY <1>8 DEF OpenAcquires, Attached, demand
    <3> QED
      BY <2>2, <2>4, <3>1, <3>2 DEF SessionInv, KindsInv
  <2>6. HeadInv'
    BY <1>1, <1>4, <1>8, <2>2, <2>4 DEF OpenAcquires, HeadInv, Before, Placed, Connected
  <2>7. ClientInv'
    BY <1>8, <2>2, <2>4 DEF OpenAcquires, ClientInv, Connected
  <2>8. CloseInv'
    BY <1>8 DEF OpenAcquires, CloseInv, Closed
  <2> QED
    BY <1>3, <2>2, <2>3, <2>5, <2>6, <2>7, <2>8 DEF SessionInv
<1> QED
  BY <1>7, <1>8

LEMMA OpenFailsKeeps == ASSUME ReviewAssumption, SessionInv, OpenFails PROVE SessionInv'
<1>1. tail # <<>> /\ tail[1].kind = "open" /\ tail[1].pc \in {"acquire", "start", "status"}
      /\ OpenCatches
  BY RunningFacts DEF OpenFails, At
<1> QED
  BY <1>1, OpenCatchesKeeps

LEMMA OpenStartsKeeps == ASSUME ReviewAssumption, SessionInv, OpenStarts PROVE SessionInv'
<1>1. /\ tail # <<>> /\ Now = tail[1] /\ tail[1].kind = "open" /\ tail[1].pc = "start"
      /\ closing # "closed"
  BY RunningFacts DEF OpenStarts, At
<1>2. CASE Closed
  BY <1>1, <1>2, OpenCatchesKeeps DEF OpenStarts
<1>3. ASSUME ~Closed PROVE SessionInv'
  <2>1. /\ tail' \in Seq(Operation) /\ tail' # <<>> /\ BehindInv'
        /\ tail'[1].kind = "open" /\ tail'[1].device = tail[1].device
        /\ tail'[1].pc = "status" /\ tail'[1].next = tail[1].next
    BY <1>1, <1>3, WaitsKeeps DEF OpenStarts, Pcs
  <2>2. KindsInv'
    BY <1>3, <2>1 DEF OpenStarts, SessionInv, KindsInv, native, binding, demand
  <2>3. HeadInv' /\ ClientInv'
    BY <1>1, <1>3, <2>1
       DEF OpenStarts, SessionInv, HeadInv, ClientInv, Before, Placed, Connected, native, binding
  <2>4. CloseInv'
    BY <1>3 DEF OpenStarts, CloseInv, Closed
  <2>5. OwnerInv'
    BY <1>1, <1>3, <2>1 DEF OpenStarts, SessionInv, OwnerInv, Mine, Selecting
  <2> QED
    BY <2>1, <2>2, <2>3, <2>4, <2>5 DEF SessionInv
<1> QED
  BY <1>2, <1>3

LEMMA OpenEndsKeeps == ASSUME ReviewAssumption, SessionInv, OpenEnds PROVE SessionInv'
<1>1. /\ tail # <<>> /\ Now = tail[1] /\ tail[1].kind = "open" /\ tail[1].pc = "status"
      /\ closing # "closed"
  BY RunningFacts DEF OpenEnds, At
<1>2. CASE Closed
  BY <1>1, <1>2, OpenCatchesKeeps DEF OpenEnds
<1>3. ASSUME ~Closed PROVE SessionInv'
  <2>1. /\ tail' \in Seq(Operation) /\ HeadInv' /\ BehindInv'
        /\ \A k \in DOMAIN reconciles : ~Mine(k)
    BY <1>1, <1>3, OverKeeps DEF OpenEnds, native, binding
  <2>2. KindsInv'
    BY <1>3, <2>1 DEF OpenEnds, SessionInv, KindsInv, native, binding, demand
  <2>3. ClientInv'
    BY <1>1, <1>3
       DEF OpenEnds, SessionInv, HeadInv, ClientInv, Before, Placed, Connected, native, binding
  <2>4. CloseInv' /\ OwnerInv'
    BY <1>3, <2>1 DEF OpenEnds, CloseInv, Closed, OwnerInv, Mine
  <2> QED
    BY <2>1, <2>2, <2>3, <2>4 DEF SessionInv
<1> QED
  BY <1>2, <1>3

-----------------------------------------------------------------------------
LEMMA SelectBeginsKeeps == ASSUME ReviewAssumption, SessionInv, SelectBegins PROVE SessionInv'
<1>1. /\ tail # <<>> /\ Now = tail[1] /\ tail[1].kind = "select" /\ tail[1].pc = "queued"
      /\ tail[1].next = 0 /\ ~Closed
  BY RunningFacts DEF SelectBegins, At, SessionInv, HeadInv, Before
<1>2. /\ tail' \in Seq(Operation) /\ tail' # <<>> /\ BehindInv'
      /\ tail'[1].kind = "select" /\ tail'[1].pc = "discover" /\ tail'[1].next = 0
  BY <1>1, WaitsKeeps DEF SelectBegins, Pcs
<1>3. KindsInv'
  BY <1>2 DEF SelectBegins, SessionInv, KindsInv, native, binding, demand
<1>4. HeadInv' /\ ClientInv'
  BY <1>1, <1>2
     DEF SelectBegins, SessionInv, HeadInv, ClientInv, Before, Placed, Connected, native, binding
<1>5. CloseInv' /\ OwnerInv'
  BY <1>1, <1>2 DEF SelectBegins, SessionInv, CloseInv, Closed, OwnerInv, Mine, Selecting
<1> QED
  BY <1>2, <1>3, <1>4, <1>5 DEF SessionInv

LEMMA SelectDiscoversKeeps ==
  ASSUME ReviewAssumption, SessionInv, SelectDiscovers PROVE SessionInv'
<1>1. /\ tail # <<>> /\ Now = tail[1] /\ tail[1].kind = "select" /\ tail[1].pc = "discover"
      /\ tail[1].next = 0 /\ closing # "closed"
  BY RunningFacts DEF SelectDiscovers, At, SessionInv, HeadInv, Before
<1>2. \A k \in DOMAIN reconciles : ~Mine(k)
  BY <1>1 DEF SessionInv, OwnerInv, Selecting
<1>3. CloseInv' /\ OwnerInv'
  BY <1>1, <1>2
     DEF SelectDiscovers, SessionInv, CloseInv, Closed, OwnerInv, Mine, binding, demand
<1>4. ASSUME Over PROVE SessionInv'
  <2>1. tail' \in Seq(Operation) /\ HeadInv' /\ BehindInv'
    BY <1>1, <1>4, OverKeeps
  <2>2. KindsInv'
    BY <2>1 DEF SelectDiscovers, SessionInv, KindsInv, native, binding, demand
  <2>3. ClientInv'
    BY <1>1 DEF SelectDiscovers, SessionInv, ClientInv, Connected, native, binding
  <2> QED
    BY <1>3, <2>1, <2>2, <2>3 DEF SessionInv
<1>5. ASSUME Waits("acquire") PROVE SessionInv'
  <2>1. /\ tail' \in Seq(Operation) /\ tail' # <<>> /\ BehindInv'
        /\ tail'[1].kind = "select" /\ tail'[1].pc = "acquire" /\ tail'[1].next = 0
    BY <1>1, <1>5, WaitsKeeps DEF Pcs
  <2>2. KindsInv'
    BY <2>1 DEF SelectDiscovers, SessionInv, KindsInv, native, binding, demand
  <2>3. HeadInv' /\ ClientInv'
    BY <1>1, <2>1 DEF SelectDiscovers, SessionInv, HeadInv, ClientInv, Before, Placed,
                      Connected, native, binding
  <2> QED
    BY <1>3, <2>1, <2>2, <2>3 DEF SessionInv
<1> QED
  BY <1>4, <1>5 DEF SelectDiscovers

LEMMA SelectAcquiresKeeps ==
  ASSUME ReviewAssumption, SessionInv, SelectAcquires PROVE SessionInv'
<1>1. /\ tail # <<>> /\ Now = tail[1] /\ tail[1].kind = "select" /\ tail[1].pc = "acquire"
      /\ tail[1].next = 0 /\ closing # "closed"
  BY RunningFacts DEF SelectAcquires, At, SessionInv, HeadInv, Before
<1>2. \A k \in DOMAIN reconciles : ~Mine(k)
  BY <1>1 DEF SessionInv, OwnerInv, Selecting
<1>3. CloseInv' /\ OwnerInv'
  BY <1>1, <1>2 DEF SelectAcquires, SessionInv, CloseInv, Closed, OwnerInv, Mine, binding, demand
<1>4. links \in [Clients -> {"none", "up", "down"}]
  BY DEF SessionInv, KindsInv
<1>5. \A i \in Clients : links[i] = "up" => i = client
  BY <1>1 DEF SessionInv, ClientInv, Connected, Clients
<1>6. ASSUME Over, UNCHANGED native PROVE SessionInv'
  <2>1. tail' \in Seq(Operation) /\ HeadInv' /\ BehindInv'
    BY <1>1, <1>6, OverKeeps
  <2>2. KindsInv'
    BY <1>6, <2>1 DEF SelectAcquires, SessionInv, KindsInv, native, binding, demand
  <2>3. ClientInv'
    BY <1>1, <1>6 DEF SelectAcquires, SessionInv, ClientInv, Connected, native, binding
  <2> QED
    BY <1>3, <2>1, <2>2, <2>3 DEF SessionInv
<1>7. ASSUME Free # {}, Over, links' = [links EXCEPT ![Fresh] = "down"],
             UNCHANGED <<asked, encodes, troubled>>
      PROVE  SessionInv'
  <2>1. tail' \in Seq(Operation) /\ HeadInv' /\ BehindInv'
    BY <1>1, <1>7, OverKeeps
  <2>2. Fresh \in Clients /\ links[Fresh] = "none"
    BY <1>7, FreshIsFree
  <2>3. /\ links' \in [Clients -> {"none", "up", "down"}]
        /\ \A i \in Clients : links'[i] = "up" => links[i] = "up"
        /\ \A i \in Clients : links'[i] = "none" => links[i] = "none"
    BY <1>4, <1>7, <2>2
  <2>4. KindsInv'
    BY <1>7, <2>1, <2>3 DEF SelectAcquires, SessionInv, KindsInv, binding, demand
  <2>5. ClientInv'
    BY <1>5, <2>3 DEF SelectAcquires, SessionInv, KindsInv, ClientInv, Connected, binding
  <2> QED
    BY <1>3, <2>1, <2>4, <2>5 DEF SessionInv
<1>8. ASSUME Free # {}, Attached, tail' = [tail EXCEPT ![1].pc = "start", ![1].next = Fresh]
      PROVE  SessionInv'
  <2>1. Fresh \in Clients /\ links[Fresh] = "none" /\ 0 \notin Clients
    BY <1>8, FreshIsFree DEF Clients
  <2>2. /\ tail' \in Seq(Operation) /\ tail' # <<>> /\ Len(tail') = Len(tail)
        /\ tail'[1].kind = tail[1].kind /\ tail'[1].device = tail[1].device
        /\ tail'[1].pc = "start" /\ tail'[1].next = Fresh
        /\ \A k \in 2..Len(tail) : tail'[k] = tail[k]
    BY <1>1, <1>8, <2>1, AcquiresFacts DEF SessionInv, KindsInv
  <2>3. BehindInv'
    BY <2>2 DEF SessionInv, BehindInv
  <2>4. /\ links' \in [Clients -> {"none", "up", "down"}] /\ links'[Fresh] = "up"
        /\ \A i \in Clients : links'[i] = "up" => i = Fresh \/ links[i] = "up"
        /\ \A i \in Clients : links'[i] = "none" => links[i] = "none"
    BY <1>4, <1>8, <2>1 DEF Attached
  <2>5. KindsInv'
    BY <1>8, <2>2, <2>4 DEF SelectAcquires, Attached, SessionInv, KindsInv, binding, demand
  <2>6. HeadInv'
    BY <1>1, <2>1, <2>2, <2>4 DEF HeadInv, Before, Placed, Connected
  <2>7. ClientInv'
    BY <1>5, <2>2, <2>4 DEF SelectAcquires, SessionInv, KindsInv, ClientInv, Connected, binding
  <2> QED
    BY <1>3, <2>2, <2>3, <2>5, <2>6, <2>7 DEF SessionInv
<1> QED
  BY <1>6, <1>7, <1>8 DEF SelectAcquires

LEMMA SelectFailsKeeps == ASSUME ReviewAssumption, SessionInv, SelectFails PROVE SessionInv'
<1>1. /\ tail # <<>> /\ Now = tail[1] /\ tail[1].kind = "select" /\ tail[1].pc = "start"
      /\ closing # "closed"
  BY RunningFacts DEF SelectFails, At
<1>2. /\ tail' \in Seq(Operation) /\ HeadInv' /\ BehindInv'
      /\ \A k \in DOMAIN reconciles : ~Mine(k)
  BY <1>1, OverKeeps DEF SelectFails
<1>3. /\ links' \in [Clients -> {"none", "up", "down"}]
      /\ asked' \in [Clients -> Seq(BOOLEAN)]
      /\ encodes' \in [Clients -> BOOLEAN] /\ troubled' \in [Clients -> BOOLEAN]
      /\ \A i \in Clients : (links'[i] = "none") <=> (links[i] = "none")
      /\ \A i \in Clients : (links'[i] = "up") <=> (links[i] = "up" /\ i \notin {tail[1].next})
  BY <1>1, CutFacts DEF SelectFails, SessionInv
<1>4. KindsInv'
  BY <1>2, <1>3 DEF SelectFails, SessionInv, KindsInv, binding, demand
<1>5. ClientInv'
  BY <1>3 DEF SelectFails, SessionInv, KindsInv, ClientInv, Connected, binding
<1>6. CloseInv' /\ OwnerInv'
  BY <1>1, <1>2 DEF SelectFails, SessionInv, CloseInv, Closed, OwnerInv, Mine, binding, demand
<1> QED
  BY <1>2, <1>4, <1>5, <1>6 DEF SessionInv

LEMMA SelectStartsKeeps == ASSUME ReviewAssumption, SessionInv, SelectStarts PROVE SessionInv'
<1>1. /\ tail # <<>> /\ Now = tail[1] /\ tail[1].kind = "select" /\ tail[1].pc = "start"
      /\ closing # "closed"
  BY RunningFacts DEF SelectStarts, At
<1>2. /\ tail' \in Seq(Operation) /\ tail' # <<>> /\ BehindInv'
      /\ tail'[1].kind = "select" /\ tail'[1].device = tail[1].device
      /\ tail'[1].pc = "release" /\ tail'[1].next = tail[1].next
  BY <1>1, WaitsKeeps DEF SelectStarts, Pcs
<1>3. /\ packetRequests' \in Int /\ packetLease' \in BOOLEAN
      /\ demandClient' \in Clients \cup {0} /\ previewEnabled' \in BOOLEAN
      /\ packetLease' = FALSE
      /\ reconciles' \in Seq(Reconciliation) /\ DOMAIN reconciles' = DOMAIN reconciles
      /\ \A k \in DOMAIN reconciles : reconciles'[k].owner = reconciles[k].owner
  BY ResetFacts DEF SelectStarts, SessionInv, KindsInv
<1>4. KindsInv'
  BY <1>2, <1>3 DEF SelectStarts, NextGeneration, SessionInv, KindsInv, native
<1>5. HeadInv' /\ ClientInv'
  BY <1>1, <1>2
     DEF SelectStarts, SessionInv, HeadInv, ClientInv, Before, Placed, Connected, native
<1>6. CloseInv'
  BY <1>1, <1>3 DEF SelectStarts, SessionInv, CloseInv, Closed
<1>7. OwnerInv'
  BY <1>1, <1>2, <1>3, OwnersKept DEF SessionInv, Selecting
<1> QED
  BY <1>2, <1>4, <1>5, <1>6, <1>7 DEF SessionInv

LEMMA SelectReleasesKeeps ==
  ASSUME ReviewAssumption, SessionInv, SelectReleases PROVE SessionInv'
<1>1. /\ tail # <<>> /\ Now = tail[1] /\ tail[1].kind = "select" /\ tail[1].pc = "release"
      /\ closing # "closed"
  BY RunningFacts DEF SelectReleases, At
<1>2. /\ tail' \in Seq(Operation) /\ tail' # <<>> /\ BehindInv'
      /\ tail'[1].kind = "select" /\ tail'[1].device = tail[1].device
      /\ tail'[1].pc = "closeOld" /\ tail'[1].next = tail[1].next
  BY <1>1, WaitsKeeps DEF SelectReleases, Pcs
<1>3. KindsInv'
  BY <1>2 DEF SelectReleases, SessionInv, KindsInv, native, demand
<1>4. HeadInv' /\ ClientInv'
  BY <1>1, <1>2
     DEF SelectReleases, SessionInv, HeadInv, ClientInv, Before, Placed, Connected, native
<1>5. CloseInv'
  BY <1>1 DEF SelectReleases, SessionInv, CloseInv, Closed, demand
<1>6. OwnerInv'
  BY <1>1, <1>2 DEF SelectReleases, SessionInv, OwnerInv, Mine, Selecting
<1> QED
  BY <1>2, <1>3, <1>4, <1>5, <1>6 DEF SessionInv

\* The client given up is closed before the next one takes its place.
LEMMA SelectClosesKeeps == ASSUME ReviewAssumption, SessionInv, SelectCloses PROVE SessionInv'
<1>1. /\ tail # <<>> /\ Now = tail[1] /\ tail[1].kind = "select" /\ tail[1].pc = "closeOld"
      /\ bound = 0 /\ closing # "closed" /\ tail[1] \in Operation
      /\ (tail[1].next # 0 => links[tail[1].next] # "none")
  BY RunningFacts DEF SelectCloses, At, SessionInv, HeadInv
<1>2. \A k \in DOMAIN reconciles : ~Mine(k)
  BY <1>1 DEF SessionInv, OwnerInv, Selecting
<1>3. \A i \in Clients : links[i] = "up" => i = client \/ i = tail[1].next
  BY DEF SessionInv, ClientInv, Connected, Clients
<1>4. tail[1].next \in Clients \cup {0} /\ tail[1].device \in Devices /\ 0 \notin Clients
  BY <1>1 DEF Operation, Clients
<1>5. UNCHANGED <<bound, connectionGeneration, packetRequests, packetLease, demandClient,
                  previewEnabled, closing, viewers, reconciles, poll, used>>
  BY DEF SelectCloses, demand
<1>6. CASE Closed
  <2>1. /\ tail' \in Seq(Operation) /\ HeadInv' /\ BehindInv'
        /\ \A k \in DOMAIN tail' : tail'[k].pc = "queued" /\ tail'[k].next = 0
    BY <1>1, <1>6, OverKeeps DEF SelectCloses
  <2>2. /\ links' \in [Clients -> {"none", "up", "down"}]
        /\ asked' \in [Clients -> Seq(BOOLEAN)]
        /\ encodes' \in [Clients -> BOOLEAN] /\ troubled' \in [Clients -> BOOLEAN]
        /\ \A i \in Clients : (links'[i] = "none") <=> (links[i] = "none")
        /\ \A i \in Clients : (links'[i] = "up") <=>
             (links[i] = "up" /\ i \notin {client, tail[1].next} \ {0})
    BY <1>1, <1>6, CutFacts DEF SelectCloses, SessionInv
  <2>3. client' = client /\ selected' = selected
    BY <1>6 DEF SelectCloses
  <2>4. KindsInv'
    BY <1>5, <2>1, <2>2, <2>3 DEF SessionInv, KindsInv
  <2>5. \A i \in Clients : ~(links'[i] = "up")
    BY <1>3, <1>4, <2>2
  <2>6. ClientInv'
    BY <1>1, <1>5, <2>2, <2>3, <2>5 DEF SessionInv, KindsInv, ClientInv, Connected
  <2>7. CloseInv' /\ OwnerInv'
    BY <1>2, <1>5, <2>1, <2>3 DEF SessionInv, CloseInv, Closed, OwnerInv, Mine
  <2> QED
    BY <2>1, <2>4, <2>6, <2>7 DEF SessionInv
<1>7. CASE ~Closed
  <2>1. /\ links' \in [Clients -> {"none", "up", "down"}]
        /\ asked' \in [Clients -> Seq(BOOLEAN)]
        /\ encodes' \in [Clients -> BOOLEAN] /\ troubled' \in [Clients -> BOOLEAN]
        /\ \A i \in Clients : (links'[i] = "none") <=> (links[i] = "none")
        /\ \A i \in Clients : (links'[i] = "up") <=> (links[i] = "up" /\ i \notin {client} \ {0})
    BY <1>7, CutFacts DEF SelectCloses, SessionInv
  <2>2. client' = tail[1].next /\ selected' \in Devices
    BY <1>1, <1>4, <1>7 DEF SelectCloses
  <2>3. CloseInv' /\ OwnerInv'
    BY <1>2, <1>5, <1>7 DEF CloseInv, Closed, OwnerInv, Mine
  <2>4. \A i \in Clients : links'[i] = "up" => i = client'
    BY <1>3, <1>4, <2>1, <2>2
  <2>5. client' # 0 => links'[client'] # "none"
    BY <1>1, <1>4, <2>1, <2>2
  <2>6. ClientInv'
    BY <1>1, <1>5, <2>4, <2>5 DEF ClientInv, Connected
  <2>7. ASSUME tail' \in Seq(Operation) PROVE KindsInv'
    BY <1>4, <1>5, <2>1, <2>2, <2>7 DEF SessionInv, KindsInv
  <2>8. CASE Connected(tail[1].next)
    <3>1. /\ tail' \in Seq(Operation) /\ tail' # <<>> /\ BehindInv'
          /\ tail'[1].kind = "select" /\ tail'[1].device = tail[1].device
          /\ tail'[1].pc = "status" /\ tail'[1].next = tail[1].next
      BY <1>1, <1>7, <2>8, WaitsKeeps DEF SelectCloses, Pcs
    <3>2. HeadInv'
      BY <1>1, <1>4, <1>5, <2>1, <2>2, <3>1
         DEF SessionInv, HeadInv, Before, Placed, Connected
    <3> QED
      BY <2>3, <2>6, <2>7, <3>1, <3>2 DEF SessionInv
  <2>9. CASE ~Connected(tail[1].next)
    <3>1. tail' \in Seq(Operation) /\ HeadInv' /\ BehindInv'
      BY <1>1, <1>7, <2>9, OverKeeps DEF SelectCloses
    <3> QED
      BY <2>3, <2>6, <2>7, <3>1 DEF SessionInv
  <2> QED
    BY <2>8, <2>9
<1> QED
  BY <1>6, <1>7

LEMMA SelectBindsKeeps == ASSUME ReviewAssumption, SessionInv, SelectBinds PROVE SessionInv'
<1>1. /\ tail # <<>> /\ Now = tail[1] /\ tail[1].kind = "select" /\ tail[1].pc = "status"
      /\ bound = 0 /\ closing # "closed" /\ tail[1] \in Operation
      /\ (Connected(tail[1].next) => client = tail[1].next)
  BY RunningFacts DEF SelectBinds, At, SessionInv, HeadInv, Placed
<1>2. \A k \in DOMAIN reconciles : ~Mine(k)
  BY <1>1 DEF SessionInv, OwnerInv, Selecting
<1>3. UNCHANGED <<client, selected, connectionGeneration, packetRequests, packetLease,
                  demandClient, previewEnabled, closing, viewers, poll, used>>
  BY DEF SelectBinds, demand
<1>4. CASE Closed \/ ~Connected(tail[1].next)
  <2>1. /\ tail' \in Seq(Operation) /\ HeadInv' /\ BehindInv'
        /\ \A k \in DOMAIN tail' : tail'[k].pc = "queued" /\ tail'[k].next = 0
    BY <1>1, <1>4, OverKeeps DEF SelectBinds
  <2>2. /\ links' \in [Clients -> {"none", "up", "down"}]
        /\ asked' \in [Clients -> Seq(BOOLEAN)]
        /\ encodes' \in [Clients -> BOOLEAN] /\ troubled' \in [Clients -> BOOLEAN]
        /\ \A i \in Clients : (links'[i] = "none") <=> (links[i] = "none")
        /\ \A i \in Clients : (links'[i] = "up") <=> (links[i] = "up" /\ i \notin {tail[1].next})
    BY <1>1, <1>4, CutFacts DEF SelectBinds, SessionInv
  <2>3. bound' = bound /\ reconciles' = reconciles
    BY <1>1, <1>4 DEF SelectBinds
  <2>4. KindsInv'
    BY <1>3, <2>1, <2>2, <2>3 DEF SessionInv, KindsInv
  <2>5. ClientInv'
    BY <1>3, <2>2, <2>3 DEF SessionInv, KindsInv, ClientInv, Connected
  <2>6. CloseInv' /\ OwnerInv'
    BY <1>2, <1>3, <2>1, <2>3 DEF SessionInv, CloseInv, Closed, OwnerInv, Mine
  <2> QED
    BY <2>1, <2>4, <2>5, <2>6 DEF SessionInv
<1>5. CASE ~(Closed \/ ~Connected(tail[1].next))
  <2> DEFINE r == Reconciling("select", connectionGeneration)
  <2>1. /\ tail' \in Seq(Operation) /\ tail' # <<>> /\ BehindInv'
        /\ tail'[1].kind = "select" /\ tail'[1].device = tail[1].device
        /\ tail'[1].pc = "reconcile" /\ tail'[1].next = tail[1].next
    BY <1>1, <1>5, WaitsKeeps DEF SelectBinds, Pcs
  <2>2. r \in Reconciliation /\ reconciles \in Seq(Reconciliation)
    BY DEF Reconciling, Reconciliation, SessionInv, KindsInv
  <2>3. bound' = client /\ reconciles' = Append(reconciles, r) /\ UNCHANGED native
    BY <1>1, <1>5 DEF SelectBinds
  <2> HIDE DEF r
  <2>4. /\ reconciles' \in Seq(Reconciliation)
        /\ DOMAIN reconciles = 1..Len(reconciles) /\ Len(reconciles) \in Nat
        /\ DOMAIN reconciles' = 1..(Len(reconciles) + 1)
        /\ \A k \in DOMAIN reconciles : reconciles'[k] = reconciles[k]
    BY <2>2, <2>3, AppendProperties
  <2>5. KindsInv'
    BY <1>3, <2>1, <2>3, <2>4 DEF SessionInv, KindsInv, native
  <2>6. HeadInv' /\ ClientInv'
    BY <1>1, <1>3, <2>1, <2>3
       DEF SessionInv, HeadInv, ClientInv, Before, Placed, Connected, native
  <2>7. CloseInv'
    BY <1>3, <1>5 DEF CloseInv, Closed
  <2>8. Selecting'
    BY <2>1 DEF Selecting
  <2>9. \A k \in DOMAIN reconciles' : reconciles'[k].owner = "select" =>
          k = Len(reconciles) + 1
    BY <1>2, <2>4 DEF Mine
  <2>10. OwnerInv'
    BY <2>8, <2>9 DEF OwnerInv, Mine
  <2> QED
    BY <2>1, <2>5, <2>6, <2>7, <2>10 DEF SessionInv
<1> QED
  BY <1>4, <1>5

LEMMA SelectEndsKeeps == ASSUME ReviewAssumption, SessionInv, SelectEnds PROVE SessionInv'
<1>1. /\ tail # <<>> /\ Now = tail[1] /\ tail[1].kind = "select" /\ tail[1].pc = "reconciled"
      /\ closing # "closed"
  BY RunningFacts DEF SelectEnds, At
<1>2. /\ tail' \in Seq(Operation) /\ HeadInv' /\ BehindInv'
      /\ \A k \in DOMAIN reconciles : ~Mine(k)
  BY <1>1, OverKeeps DEF SelectEnds
<1>3. KindsInv'
  BY <1>2 DEF SelectEnds, SessionInv, KindsInv, native, binding, demand
<1>4. ClientInv'
  BY <1>1 DEF SelectEnds, SessionInv, HeadInv, ClientInv, Placed, Connected, native, binding
<1>5. CloseInv' /\ OwnerInv'
  BY <1>1, <1>2 DEF SelectEnds, SessionInv, CloseInv, Closed, OwnerInv, Mine, binding, demand
<1> QED
  BY <1>2, <1>3, <1>4, <1>5 DEF SessionInv

LEMMA SelectCatchesKeeps ==
  ASSUME ReviewAssumption, SessionInv, SelectCatches PROVE SessionInv'
<1>1. /\ tail # <<>> /\ Now = tail[1] /\ tail[1].kind = "select"
      /\ tail[1].pc = "unreconciled" /\ closing # "closed"
  BY RunningFacts DEF SelectCatches, At
<1>2. /\ tail' \in Seq(Operation) /\ HeadInv' /\ BehindInv'
      /\ \A k \in DOMAIN reconciles : ~Mine(k)
  BY <1>1, OverKeeps DEF SelectCatches
<1>3. /\ links' \in [Clients -> {"none", "up", "down"}]
      /\ asked' \in [Clients -> Seq(BOOLEAN)]
      /\ encodes' \in [Clients -> BOOLEAN] /\ troubled' \in [Clients -> BOOLEAN]
      /\ \A i \in Clients : (links'[i] = "none") <=> (links[i] = "none")
      /\ \A i \in Clients : (links'[i] = "up") <=> (links[i] = "up" /\ i \notin {tail[1].next})
  BY <1>1, CutFacts DEF SelectCatches, SessionInv
<1>4. UNCHANGED <<closing, viewers, poll, used>>
  BY DEF SelectCatches
<1>5. \A i \in Clients : links'[i] = "up" => i = client /\ i # tail[1].next
  BY <1>1, <1>3 DEF SessionInv, ClientInv, Connected, Clients
<1>6. CASE UNCHANGED <<binding, demand, reconciles>>
  <2>1. KindsInv'
    BY <1>2, <1>3, <1>4, <1>6 DEF SessionInv, KindsInv, binding, demand
  <2>2. ClientInv'
    BY <1>3, <1>5, <1>6 DEF SessionInv, KindsInv, ClientInv, Connected, binding
  <2>3. CloseInv' /\ OwnerInv'
    BY <1>1, <1>2, <1>4, <1>6
       DEF SessionInv, CloseInv, Closed, OwnerInv, Mine, binding, demand
  <2> QED
    BY <1>2, <2>1, <2>2, <2>3 DEF SessionInv
<1>7. CASE client = tail[1].next /\ OnDisconnect
  <2>1. /\ packetRequests' \in Int /\ packetLease' \in BOOLEAN
        /\ demandClient' \in Clients \cup {0} /\ previewEnabled' \in BOOLEAN
        /\ packetLease' = FALSE
        /\ reconciles' \in Seq(Reconciliation) /\ DOMAIN reconciles' = DOMAIN reconciles
        /\ \A k \in DOMAIN reconciles : reconciles'[k].owner = reconciles[k].owner
    BY <1>7, ResetFacts DEF OnDisconnect, SessionInv, KindsInv
  <2>2. /\ client' = 0 /\ bound' = 0 /\ selected' = selected /\ connectionGeneration' \in Nat
    BY <1>7 DEF OnDisconnect, NextGeneration, SessionInv, KindsInv
  <2>3. KindsInv'
    BY <1>2, <1>3, <1>4, <2>1, <2>2 DEF SessionInv, KindsInv
  <2>4. ClientInv'
    BY <1>5, <1>7, <2>2 DEF ClientInv, Connected
  <2>5. CloseInv'
    BY <1>1, <1>4, <2>1, <2>2 DEF SessionInv, CloseInv, Closed
  <2>6. OwnerInv'
    BY <1>2, <2>1 DEF OwnerInv, Mine
  <2> QED
    BY <1>2, <2>3, <2>4, <2>5, <2>6 DEF SessionInv
<1> QED
  BY <1>1, <1>6, <1>7 DEF SelectCatches

-----------------------------------------------------------------------------
\* A connection is lost: the client of the session with its listeners, or one
\* nobody listens to.
LEMMA LoseKeeps ==
  ASSUME ReviewAssumption, SessionInv, NEW c \in Clients, Lose(c) PROVE SessionInv'
<1>1. UNCHANGED <<closing, tail, viewers, poll>>
  BY DEF Lose
<1>2. used' \in [Counted -> Nat]
  BY CountFacts DEF Lose, Counted
<1>3. /\ links' \in [Clients -> {"none", "up", "down"}]
      /\ asked' \in [Clients -> Seq(BOOLEAN)]
      /\ encodes' \in [Clients -> BOOLEAN] /\ troubled' \in [Clients -> BOOLEAN]
      /\ \A i \in Clients : (links'[i] = "none") <=> (links[i] = "none")
      /\ \A i \in Clients : (links'[i] = "up") <=> (links[i] = "up" /\ i \notin {c})
  BY CutFacts DEF Lose, SessionInv
<1>4. tail # <<>> => tail[1] \in Operation /\ tail[1].next \in Clients \cup {0}
  BY RunningFacts DEF Operation
<1>5. BehindInv' /\ (Selecting' = Selecting)
  BY <1>1 DEF SessionInv, BehindInv, Selecting
<1>6. CASE UNCHANGED <<binding, demand, reconciles>>
  <2>1. KindsInv'
    BY <1>1, <1>2, <1>3, <1>6 DEF SessionInv, KindsInv, binding, demand
  <2>2. HeadInv'
    BY <1>1, <1>3, <1>4, <1>6
       DEF SessionInv, KindsInv, HeadInv, Connected, binding
  <2>3. ClientInv'
    BY <1>1, <1>3, <1>6 DEF SessionInv, KindsInv, ClientInv, Connected, binding
  <2>4. CloseInv' /\ OwnerInv'
    BY <1>1, <1>5, <1>6 DEF SessionInv, CloseInv, Closed, OwnerInv, Mine, binding, demand
  <2> QED
    BY <1>5, <2>1, <2>2, <2>3, <2>4 DEF SessionInv
<1>7. CASE client = c /\ OnDisconnect
  <2>1. /\ packetRequests' \in Int /\ packetLease' \in BOOLEAN
        /\ demandClient' \in Clients \cup {0} /\ previewEnabled' \in BOOLEAN
        /\ packetLease' = FALSE
        /\ reconciles' \in Seq(Reconciliation) /\ DOMAIN reconciles' = DOMAIN reconciles
        /\ \A k \in DOMAIN reconciles : reconciles'[k].owner = reconciles[k].owner
    BY <1>7, ResetFacts DEF OnDisconnect, SessionInv, KindsInv
  <2>2. /\ client' = 0 /\ bound' = 0 /\ selected' = selected /\ connectionGeneration' \in Nat
    BY <1>7 DEF OnDisconnect, NextGeneration, SessionInv, KindsInv
  <2>3. KindsInv'
    BY <1>1, <1>2, <1>3, <2>1, <2>2 DEF SessionInv, KindsInv
  <2>4. HeadInv'
    BY <1>1, <1>3, <1>4, <1>7, <2>2 DEF SessionInv, HeadInv, Connected
  <2>5. ClientInv'
    BY <1>1, <1>3, <1>7, <2>2 DEF SessionInv, ClientInv, Connected
  <2>6. CloseInv'
    BY <1>1, <2>1, <2>2 DEF SessionInv, CloseInv, Closed
  <2>7. OwnerInv'
    BY <1>5, <2>1, OwnersKept DEF SessionInv
  <2> QED
    BY <1>5, <2>3, <2>4, <2>5, <2>6, <2>7 DEF SessionInv
<1> QED
  BY <1>6, <1>7 DEF Lose

\* close().
LEMMA CloseBeginsKeeps == ASSUME ReviewAssumption, SessionInv, CloseBegins PROVE SessionInv'
<1>1. /\ packetRequests' \in Int /\ packetLease' \in BOOLEAN
      /\ demandClient' \in Clients \cup {0} /\ previewEnabled' \in BOOLEAN
      /\ packetLease' = FALSE
      /\ reconciles' \in Seq(Reconciliation) /\ DOMAIN reconciles' = DOMAIN reconciles
      /\ \A k \in DOMAIN reconciles : reconciles'[k].owner = reconciles[k].owner
  BY ResetFacts DEF CloseBegins, SessionInv, KindsInv
<1>2. KindsInv'
  BY <1>1 DEF CloseBegins, NextGeneration, SessionInv, KindsInv, native
<1>3. HeadInv' /\ ClientInv' /\ BehindInv'
  BY DEF CloseBegins, SessionInv, HeadInv, ClientInv, BehindInv, Connected, native
<1>4. CloseInv'
  BY <1>1 DEF CloseBegins, CloseInv, Closed
<1>5. OwnerInv'
  BY <1>1, OwnersKept DEF CloseBegins, SessionInv, Selecting
<1> QED
  BY <1>2, <1>3, <1>4, <1>5 DEF SessionInv

LEMMA CloseReleasesKeeps ==
  ASSUME ReviewAssumption, SessionInv, CloseReleases PROVE SessionInv'
<1>1. KindsInv'
  BY DEF CloseReleases, SessionInv, KindsInv, native, demand
<1>2. HeadInv' /\ ClientInv' /\ BehindInv'
  BY DEF CloseReleases, SessionInv, HeadInv, ClientInv, BehindInv, Connected, native
<1>3. CloseInv' /\ OwnerInv'
  BY DEF CloseReleases, SessionInv, CloseInv, Closed, OwnerInv, Mine, Selecting, demand
<1> QED
  BY <1>1, <1>2, <1>3 DEF SessionInv

LEMMA CloseClientKeeps == ASSUME ReviewAssumption, SessionInv, CloseClient PROVE SessionInv'
<1>1. /\ UNCHANGED <<bound, selected, connectionGeneration, packetRequests, packetLease,
                     demandClient, previewEnabled, tail, viewers, reconciles, poll, used>>
      /\ closing = "client" /\ closing' = "tail" /\ client' = 0
  BY DEF CloseClient, demand
<1>2. /\ links' \in [Clients -> {"none", "up", "down"}]
      /\ asked' \in [Clients -> Seq(BOOLEAN)]
      /\ encodes' \in [Clients -> BOOLEAN] /\ troubled' \in [Clients -> BOOLEAN]
      /\ \A i \in Clients : (links'[i] = "none") <=> (links[i] = "none")
      /\ \A i \in Clients : (links'[i] = "up") <=> (links[i] = "up" /\ i \notin {client} \ {0})
  BY CutFacts DEF CloseClient, SessionInv
<1>3. tail # <<>> => tail[1] \in Operation /\ tail[1].next \in Clients \cup {0}
  BY RunningFacts DEF Operation
<1>4. bound = 0 /\ viewers = 0 /\ ~packetLease
  BY <1>1 DEF SessionInv, CloseInv, Closed
<1>5. KindsInv'
  BY <1>1, <1>2 DEF SessionInv, KindsInv
<1>6. 0 \notin Clients
  BY DEF Clients
<1>7. HeadInv'
  BY <1>1, <1>2, <1>3, <1>4, <1>6 DEF SessionInv, HeadInv, Connected
<1>8. ClientInv'
  BY <1>1, <1>2, <1>4, <1>6 DEF SessionInv, ClientInv, Connected
<1>9. BehindInv' /\ CloseInv' /\ OwnerInv'
  BY <1>1, <1>4 DEF SessionInv, BehindInv, CloseInv, Closed, OwnerInv, Mine, Selecting
<1> QED
  BY <1>5, <1>7, <1>8, <1>9 DEF SessionInv

LEMMA CloseEndsKeeps == ASSUME ReviewAssumption, SessionInv, CloseEnds PROVE SessionInv'
<1>1. KindsInv'
  BY DEF CloseEnds, SessionInv, KindsInv, native, demand
<1>2. HeadInv' /\ ClientInv' /\ BehindInv'
  BY DEF CloseEnds, SessionInv, HeadInv, ClientInv, BehindInv, Connected, native
<1>3. CloseInv' /\ OwnerInv'
  BY DEF CloseEnds, SessionInv, CloseInv, Closed, OwnerInv, Mine, Selecting, demand
<1> QED
  BY <1>1, <1>2, <1>3 DEF SessionInv

-----------------------------------------------------------------------------
\* The reconciliation at the head is over.  If a selection awaits it, it is the
\* running operation, at that point, and no other reconciliation is awaited by
\* one.
LEMMA SettledKeeps ==
  ASSUME ReviewAssumption, SessionInv, reconciles # <<>>, Settled(TRUE) \/ Settled(FALSE),
         UNCHANGED <<links, client, bound, closing, packetLease, viewers>>
  PROVE  /\ reconciles' \in Seq(Reconciliation) /\ poll' \in [Polls -> PollCall]
         /\ tail' \in Seq(Operation)
         /\ ClientInv' /\ HeadInv' /\ BehindInv' /\ CloseInv' /\ OwnerInv'
<1>1. /\ Len(reconciles) \in Nat /\ Len(reconciles) >= 1
      /\ DOMAIN reconciles = 1..Len(reconciles) /\ reconciles[1] \in Reconciliation
      /\ Head(reconciles) = reconciles[1]
  BY HeadTailProperties DEF SessionInv, KindsInv
<1>2. reconciles' = Tail(reconciles)
  BY DEF Settled
<1>3. /\ reconciles' \in Seq(Reconciliation) /\ DOMAIN reconciles' = 1..Len(reconciles')
      /\ Len(reconciles') = Len(reconciles) - 1
      /\ \A k \in 1..Len(reconciles') : reconciles'[k] = reconciles[k + 1]
  BY <1>2, HeadTailProperties DEF SessionInv, KindsInv
<1>4. poll' \in [Polls -> PollCall]
  <2>1. poll \in [Polls -> PollCall]
    BY DEF SessionInv, KindsInv
  <2>2. \A q \in PollCall, pc \in {"read", "finish"} : [q EXCEPT !.pc = pc] \in PollCall
    BY DEF PollCall
  <2>3. CASE reconciles[1].owner \in Polls
    <3>1. PICK pc \in {"read", "finish"} :
            poll' = [poll EXCEPT ![reconciles[1].owner] = [@ EXCEPT !.pc = pc]]
      BY <1>1, <2>3 DEF Settled
    <3> QED
      BY <2>1, <2>2, <2>3, <3>1
  <2>4. CASE reconciles[1].owner \notin Polls
    BY <1>1, <2>1, <2>4 DEF Settled
  <2> QED
    BY <2>3, <2>4
<1>5. CASE reconciles[1].owner = "select"
  <2>1. /\ tail # <<>> /\ tail[1].kind = "select" /\ tail[1].pc = "reconcile"
        /\ \A l \in DOMAIN reconciles : Mine(l) => l = 1
    BY <1>1, <1>5 DEF SessionInv, OwnerInv, Mine, Selecting
  <2>2. closing # "closed"
    BY <2>1, RunningFacts
  <2>3. PICK pc \in {"reconciled", "unreconciled"} : Waits(pc)
    BY <1>1, <1>5 DEF Settled
  <2>4. /\ tail' \in Seq(Operation) /\ tail' # <<>> /\ BehindInv'
        /\ tail'[1].kind = "select" /\ tail'[1].device = tail[1].device
        /\ tail'[1].pc = pc /\ tail'[1].next = tail[1].next
    BY <2>1, <2>3, WaitsKeeps DEF Pcs
  <2>5. HeadInv' /\ ClientInv'
    BY <2>1, <2>4 DEF SessionInv, HeadInv, ClientInv, Before, Placed, Connected
  <2>6. CloseInv'
    BY <2>2 DEF SessionInv, CloseInv, Closed
  <2>7. \A k \in DOMAIN reconciles' : reconciles'[k].owner # "select"
    <3> SUFFICES ASSUME NEW k \in DOMAIN reconciles' PROVE reconciles'[k].owner # "select"
      OBVIOUS
    <3>1. k \in 1..Len(reconciles') /\ reconciles'[k] = reconciles[k + 1]
      BY <1>3
    <3>2. k + 1 \in DOMAIN reconciles /\ k + 1 # 1
      BY <1>1, <1>3, <3>1
    <3> QED
      BY <2>1, <3>1, <3>2 DEF Mine
  <2>8. OwnerInv'
    BY <2>7 DEF OwnerInv, Mine
  <2> QED
    BY <1>3, <1>4, <2>4, <2>5, <2>6, <2>8
<1>6. CASE reconciles[1].owner # "select"
  <2>1. tail' = tail
    BY <1>1, <1>6 DEF Settled
  <2>2. tail' \in Seq(Operation) /\ ClientInv' /\ HeadInv' /\ BehindInv' /\ CloseInv'
    BY <2>1 DEF SessionInv, KindsInv, ClientInv, HeadInv, BehindInv, CloseInv, Closed, Connected
  <2>3. \A k \in DOMAIN reconciles' : reconciles'[k].owner = "select" =>
          k + 1 \in DOMAIN reconciles /\ Mine(k + 1)
    <3> SUFFICES ASSUME NEW k \in DOMAIN reconciles', reconciles'[k].owner = "select"
                 PROVE  k + 1 \in DOMAIN reconciles /\ Mine(k + 1)
      OBVIOUS
    <3>1. k \in 1..Len(reconciles') /\ reconciles'[k] = reconciles[k + 1]
      BY <1>3
    <3>2. k + 1 \in DOMAIN reconciles
      BY <1>1, <1>3, <3>1
    <3>3. reconciles[k + 1].owner = "select"
      BY <3>1
    <3> QED
      BY <3>2, <3>3 DEF Mine
  <2>4. OwnerInv'
    <3>1. Selecting' = Selecting
      BY <2>1 DEF Selecting
    <3>2. (\E k \in DOMAIN reconciles' : reconciles'[k].owner = "select") => Selecting'
      BY <2>3, <3>1 DEF SessionInv, OwnerInv
    <3>3. ASSUME NEW k \in DOMAIN reconciles', NEW l \in DOMAIN reconciles',
                 reconciles'[k].owner = "select", reconciles'[l].owner = "select"
          PROVE  k = l
      <4>1. k + 1 = l + 1
        BY <2>3, <3>3 DEF SessionInv, OwnerInv
      <4> QED
        BY <1>3, <4>1
    <3> QED
      BY <3>2, <3>3 DEF OwnerInv, Mine
  <2> QED
    BY <1>3, <1>4, <2>2, <2>4
<1> QED
  BY <1>5, <1>6

\* The facts about the request at the head that the following steps share.
LEMMA FirstFacts ==
  ASSUME SessionInv, reconciles # <<>>
  PROVE  /\ Len(reconciles) \in Nat /\ Len(reconciles) >= 1
         /\ DOMAIN reconciles = 1..Len(reconciles)
         /\ Head(reconciles) = reconciles[1] /\ reconciles[1] \in Reconciliation
         /\ \A k \in 1..Len(reconciles) : reconciles[k] \in Reconciliation
  BY HeadTailProperties DEF SessionInv, KindsInv

LEMMA ReconcileSkipsKeeps ==
  ASSUME ReviewAssumption, SessionInv, ReconcileSkips PROVE SessionInv'
<1>1. reconciles # <<>> /\ Settled(TRUE)
      /\ UNCHANGED <<native, binding, demand, closing, viewers, used>>
  BY DEF ReconcileSkips
<1>2. UNCHANGED <<links, client, bound, closing, packetLease, viewers>>
  BY <1>1 DEF native, binding, demand
<1>3. /\ reconciles' \in Seq(Reconciliation) /\ poll' \in [Polls -> PollCall]
      /\ tail' \in Seq(Operation)
      /\ ClientInv' /\ HeadInv' /\ BehindInv' /\ CloseInv' /\ OwnerInv'
  BY <1>1, <1>2, SettledKeeps
<1>4. KindsInv'
  BY <1>1, <1>3 DEF SessionInv, KindsInv, native, binding, demand
<1> QED
  BY <1>3, <1>4 DEF SessionInv

LEMMA ReconcileAsksKeeps ==
  ASSUME ReviewAssumption, SessionInv, ReconcileAsks PROVE SessionInv'
<1>1. /\ reconciles # <<>>
      /\ UNCHANGED <<links, encodes, troubled, binding, demand, closing, viewers, used>>
  BY DEF ReconcileAsks
<1>2. CASE Settled(FALSE) /\ UNCHANGED asked
  <2>1. UNCHANGED <<links, client, bound, closing, packetLease, viewers>>
    BY <1>1 DEF binding, demand
  <2>2. /\ reconciles' \in Seq(Reconciliation) /\ poll' \in [Polls -> PollCall]
        /\ tail' \in Seq(Operation)
        /\ ClientInv' /\ HeadInv' /\ BehindInv' /\ CloseInv' /\ OwnerInv'
    BY <1>1, <1>2, <2>1, SettledKeeps
  <2>3. KindsInv'
    BY <1>1, <1>2, <2>2 DEF SessionInv, KindsInv, binding, demand
  <2> QED
    BY <2>2, <2>3 DEF SessionInv
<1>3. CASE /\ reconciles' = [reconciles EXCEPT ![1].sent = TRUE, ![1].value = Wanted]
           /\ asked' = [asked EXCEPT ![Head(reconciles).client] = Append(@, Wanted)]
           /\ UNCHANGED <<poll, tail>>
  <2> DEFINE p == [reconciles[1] EXCEPT !.sent = TRUE]
             r == [p EXCEPT !.value = Wanted]
  <2>1. /\ Len(reconciles) \in Nat /\ Len(reconciles) >= 1
        /\ DOMAIN reconciles = 1..Len(reconciles)
        /\ Head(reconciles) = reconciles[1] /\ reconciles[1] \in Reconciliation
        /\ \A k \in 1..Len(reconciles) : reconciles[k] \in Reconciliation
    BY <1>1, FirstFacts
  <2>2. Wanted \in BOOLEAN
    BY Zenon DEF Wanted
  <2>3. reconciles' = [reconciles EXCEPT ![1] = r]
    <3>1. [reconciles EXCEPT ![1].sent = TRUE, ![1].value = Wanted]
            = [[reconciles EXCEPT ![1] = [@ EXCEPT !.sent = TRUE]]
                 EXCEPT ![1] = [@ EXCEPT !.value = Wanted]]
      OBVIOUS
    <3>2. 1 \in DOMAIN reconciles
      BY <2>1
    <3> QED
      BY <1>3, <3>1, <3>2
  <2>4. p \in Reconciliation /\ p.owner = reconciles[1].owner
    BY <2>1 DEF Reconciliation
  <2> HIDE DEF p
  <2>5. r \in Reconciliation /\ r.owner = reconciles[1].owner
    <3>1. \A w \in BOOLEAN : LET q == [p EXCEPT !.value = w] IN
            q \in Reconciliation /\ q.owner = p.owner
      BY <2>4 DEF Reconciliation
    <3> QED
      BY <2>2, <2>4, <3>1
  <2> HIDE DEF r
  <2>6. reconciles' \in [1..Len(reconciles) -> Reconciliation]
    BY <2>1, <2>3, <2>5
  <2>7. /\ reconciles' \in Seq(Reconciliation) /\ DOMAIN reconciles' = DOMAIN reconciles
        /\ \A k \in DOMAIN reconciles : reconciles'[k].owner = reconciles[k].owner
    BY <2>1, <2>3, <2>5, <2>6
  <2>8. asked' \in [Clients -> Seq(BOOLEAN)]
    <3>1. asked \in [Clients -> Seq(BOOLEAN)]
      BY DEF SessionInv, KindsInv
    <3>2. \A i \in Clients : Append(asked[i], Wanted) \in Seq(BOOLEAN)
      BY <2>2, <3>1, AppendProperties
    <3> QED
      BY <1>3, <3>1, <3>2
  <2>9. KindsInv'
    BY <1>1, <1>3, <2>7, <2>8 DEF SessionInv, KindsInv, binding, demand
  <2>10. HeadInv' /\ ClientInv' /\ BehindInv' /\ CloseInv'
    BY <1>1, <1>3 DEF SessionInv, HeadInv, ClientInv, BehindInv, CloseInv, Closed,
                      Connected, binding, demand
  <2>11. OwnerInv'
    BY <1>3, <2>7, OwnersKept DEF SessionInv, Selecting
  <2> QED
    BY <2>9, <2>10, <2>11 DEF SessionInv
<1> QED
  BY <1>2, <1>3 DEF ReconcileAsks

LEMMA PerformsKeeps ==
  ASSUME ReviewAssumption, SessionInv, NEW i \in Clients, Performs(i) PROVE SessionInv'
<1>1. asked \in [Clients -> Seq(BOOLEAN)] /\ encodes \in [Clients -> BOOLEAN]
  BY DEF SessionInv, KindsInv
<1>2. Head(asked[i]) \in BOOLEAN /\ Tail(asked[i]) \in Seq(BOOLEAN)
  BY <1>1, HeadTailProperties DEF Performs
<1>3. asked' \in [Clients -> Seq(BOOLEAN)]
  BY <1>1, <1>2 DEF Performs
<1>4. encodes' \in [Clients -> BOOLEAN]
  BY <1>1, <1>2, Zenon DEF Performs
<1>5. KindsInv'
  BY <1>3, <1>4 DEF Performs, SessionInv, KindsInv, binding, demand
<1>6. HeadInv' /\ ClientInv' /\ BehindInv' /\ CloseInv' /\ OwnerInv'
  BY DEF Performs, SessionInv, HeadInv, ClientInv, BehindInv, CloseInv, Closed, OwnerInv,
         Mine, Selecting, Connected, binding, demand
<1> QED
  BY <1>5, <1>6 DEF SessionInv

LEMMA ReconcileAnsweredKeeps ==
  ASSUME ReviewAssumption, SessionInv, ReconcileAnswered PROVE SessionInv'
<1>1. reconciles # <<>> /\ Settled(TRUE)
      /\ UNCHANGED <<native, binding, packetRequests, packetLease, closing, viewers, used>>
  BY DEF ReconcileAnswered
<1>2. UNCHANGED <<links, client, bound, closing, packetLease, viewers>>
  BY <1>1 DEF native, binding
<1>3. /\ reconciles' \in Seq(Reconciliation) /\ poll' \in [Polls -> PollCall]
      /\ tail' \in Seq(Operation)
      /\ ClientInv' /\ HeadInv' /\ BehindInv' /\ CloseInv' /\ OwnerInv'
  BY <1>1, <1>2, SettledKeeps
<1>4. demandClient' \in Clients \cup {0} /\ previewEnabled' \in BOOLEAN
  <2>1. Head(reconciles).client \in Clients \cup {0} /\ Head(reconciles).value \in BOOLEAN
    BY <1>1, FirstFacts DEF Reconciliation
  <2> QED
    BY <2>1, Zenon DEF ReconcileAnswered, SessionInv, KindsInv
<1>5. KindsInv'
  BY <1>1, <1>3, <1>4 DEF SessionInv, KindsInv, native, binding
<1> QED
  BY <1>3, <1>5 DEF SessionInv

LEMMA FrontFacts ==
  ASSUME NEW s \in Seq(BOOLEAN), s # <<>>
  PROVE  /\ Front(s) \in Seq(BOOLEAN) /\ Len(Front(s)) = Len(s) - 1
         /\ \A k \in 1..(Len(s) - 1) : Front(s)[k] = s[k]
<1>1. Len(s) \in Nat /\ Len(s) >= 1
  BY HeadTailProperties
<1>2. SubSeq(s, 1, Len(s) - 1) = [k \in 1..(Len(s) - 1) |-> s[k]]
  BY <1>1, SubSeqProperties
<1>3. Front(s) = [k \in 1..(Len(s) - 1) |-> s[k]]
  BY <1>2 DEF Front
<1>4. Front(s) \in [1..(Len(s) - 1) -> BOOLEAN]
  BY <1>1, <1>3
<1> QED
  BY <1>1, <1>3, <1>4

LEMMA ReconcileFailsKeeps ==
  ASSUME ReviewAssumption, SessionInv, ReconcileFails PROVE SessionInv'
<1>1. /\ reconciles # <<>> /\ Settled(FALSE)
      /\ UNCHANGED <<binding, demand, closing, viewers>>
  BY DEF ReconcileFails
<1>2. /\ links' = links /\ encodes' = encodes /\ asked' \in [Clients -> Seq(BOOLEAN)]
      /\ troubled' \in [Clients -> BOOLEAN] /\ used' \in [Counted -> Nat]
  <2>1. /\ asked \in [Clients -> Seq(BOOLEAN)] /\ troubled \in [Clients -> BOOLEAN]
        /\ used \in [Counted -> Nat]
    BY DEF SessionInv, KindsInv
  <2>2. CASE UNCHANGED <<native, used>>
    BY <2>1, <2>2 DEF native
  <2>3. CASE /\ Count("failures") /\ UNCHANGED <<links, encodes>>
             /\ troubled' = [troubled EXCEPT ![Head(reconciles).client] = TRUE]
             /\ \/ UNCHANGED asked
                \/ /\ asked[Head(reconciles).client] # <<>>
                   /\ asked' = [asked EXCEPT ![Head(reconciles).client] = Front(@)]
    <3>1. used' \in [Counted -> Nat]
      BY <2>3, CountFacts DEF Counted
    <3>2. troubled' \in [Clients -> BOOLEAN]
      BY <2>1, <2>3
    <3>3. \A i \in Clients : asked[i] # <<>> => Front(asked[i]) \in Seq(BOOLEAN)
      BY <2>1, FrontFacts
    <3>4. Head(reconciles).client \in Clients \cup {0}
      BY <1>1, FirstFacts DEF Reconciliation
    <3>5. asked' \in [Clients -> Seq(BOOLEAN)]
      <4>1. CASE UNCHANGED asked
        BY <2>1, <4>1
      <4>2. CASE /\ asked[Head(reconciles).client] # <<>>
                 /\ asked' = [asked EXCEPT ![Head(reconciles).client] = Front(@)]
        <5>1. PICK c \in Clients \cup {0} : c = Head(reconciles).client
          BY <3>4
        <5>2. asked' = [asked EXCEPT ![c] = Front(asked[c])] /\ asked[c] # <<>>
          BY <4>2, <5>1
        <5> QED
          BY <2>1, <3>3, <5>2
      <4> QED
        BY <2>3, <4>1, <4>2
    <3> QED
      BY <2>3, <3>1, <3>2, <3>5
  <2> QED
    BY <2>2, <2>3 DEF ReconcileFails
<1>3. UNCHANGED <<links, client, bound, closing, packetLease, viewers>>
  BY <1>1, <1>2 DEF binding, demand
<1>4. /\ reconciles' \in Seq(Reconciliation) /\ poll' \in [Polls -> PollCall]
      /\ tail' \in Seq(Operation)
      /\ ClientInv' /\ HeadInv' /\ BehindInv' /\ CloseInv' /\ OwnerInv'
  BY <1>1, <1>3, SettledKeeps
<1>5. KindsInv'
  BY <1>1, <1>2, <1>4 DEF SessionInv, KindsInv, binding, demand
<1> QED
  BY <1>4, <1>5 DEF SessionInv

-----------------------------------------------------------------------------
\* What a poll, a viewer or the end of a lease asks is awaited by no selection.
LEMMA PollBeginsKeeps ==
  ASSUME ReviewAssumption, SessionInv, NEW p \in Polls, PollBegins(p) PROVE SessionInv'
<1>1. UNCHANGED <<native, binding, demandClient, previewEnabled, closing, tail, viewers>>
      /\ Asks(p)
  BY DEF PollBegins
<1>2. Selecting' = Selecting
  BY <1>1 DEF Selecting
<1>3. reconciles' \in Seq(Reconciliation) /\ OwnerInv'
  BY <1>1, <1>2, AsksFacts DEF SessionInv
<1>4. used' \in [Counted -> Nat]
  BY CountFacts DEF PollBegins, Counted
<1>5. poll' \in [Polls -> PollCall] /\ packetRequests' \in Int
  BY DEF PollBegins, SessionInv, KindsInv, PollCall
<1>6. packetLease' \in BOOLEAN
  BY Zenon DEF PollBegins
<1>7. KindsInv'
  BY <1>1, <1>3, <1>4, <1>5, <1>6 DEF SessionInv, KindsInv, native, binding
<1>8. HeadInv' /\ ClientInv' /\ BehindInv'
  BY <1>1 DEF SessionInv, HeadInv, ClientInv, BehindInv, Connected, native, binding
<1>9. CloseInv'
  BY <1>1 DEF PollBegins, SessionInv, CloseInv, Closed, binding
<1> QED
  BY <1>3, <1>7, <1>8, <1>9 DEF SessionInv

LEMMA PollEndsKeeps ==
  ASSUME ReviewAssumption, SessionInv, NEW p \in Polls, PollEnds(p) PROVE SessionInv'
<1>1. UNCHANGED <<native, binding, demandClient, previewEnabled, closing, tail, viewers, used>>
  BY DEF PollEnds
<1>2. Selecting' = Selecting
  BY <1>1 DEF Selecting
<1>3. reconciles' \in Seq(Reconciliation) /\ OwnerInv'
  <2>1. CASE Asks(Nobody)
    BY <1>2, <2>1, AsksFacts DEF SessionInv
  <2>2. CASE UNCHANGED reconciles
    BY <1>2, <2>2, OwnersKept DEF SessionInv, KindsInv
  <2> QED
    BY <2>1, <2>2 DEF PollEnds
<1>4. poll' \in [Polls -> PollCall] /\ packetRequests' \in Int
  BY DEF PollEnds, SessionInv, KindsInv, PollCall
<1>5. packetLease' \in BOOLEAN
  BY Zenon DEF PollEnds, SessionInv, KindsInv
<1>6. KindsInv'
  BY <1>1, <1>3, <1>4, <1>5 DEF SessionInv, KindsInv, native, binding
<1>7. HeadInv' /\ ClientInv' /\ BehindInv'
  BY <1>1 DEF SessionInv, HeadInv, ClientInv, BehindInv, Connected, native, binding
<1>8. CloseInv'
  BY <1>1 DEF PollEnds, SessionInv, CloseInv, Closed, binding
<1> QED
  BY <1>3, <1>6, <1>7, <1>8 DEF SessionInv

LEMMA ViewersKeep ==
  ASSUME ReviewAssumption, SessionInv, LeaseExpires \/ ViewerJoins \/ ViewerLeaves
  PROVE  SessionInv'
<1>1. UNCHANGED <<native, binding, demandClient, previewEnabled, closing, tail, poll,
                  packetRequests>>
      /\ Asks(Nobody)
  BY DEF LeaseExpires, ViewerJoins, ViewerLeaves, demand
<1>2. Selecting' = Selecting
  BY <1>1 DEF Selecting
<1>3. reconciles' \in Seq(Reconciliation) /\ OwnerInv'
  BY <1>1, <1>2, AsksFacts DEF SessionInv
<1>4. used' \in [Counted -> Nat]
  <2>1. CASE ViewerJoins
    BY <2>1, CountFacts DEF ViewerJoins, Counted
  <2>2. CASE UNCHANGED used
    BY <2>2 DEF SessionInv, KindsInv
  <2> QED
    BY <2>1, <2>2 DEF LeaseExpires, ViewerLeaves
<1>5. viewers' \in Nat
  BY DEF LeaseExpires, ViewerJoins, ViewerLeaves, SessionInv, KindsInv
<1>6. packetLease' \in BOOLEAN
  BY Zenon DEF LeaseExpires, ViewerJoins, ViewerLeaves, SessionInv, KindsInv, demand
<1>7. KindsInv'
  BY <1>1, <1>3, <1>4, <1>5, <1>6 DEF SessionInv, KindsInv, native, binding
<1>8. HeadInv' /\ ClientInv' /\ BehindInv'
  BY <1>1 DEF SessionInv, HeadInv, ClientInv, BehindInv, Connected, native, binding
<1>9. CloseInv'
  BY <1>1 DEF LeaseExpires, ViewerJoins, ViewerLeaves, SessionInv, KindsInv, CloseInv, Closed,
              binding, demand
<1> QED
  BY <1>3, <1>7, <1>8, <1>9 DEF SessionInv

-----------------------------------------------------------------------------
LEMMA SessionInvInit == ASSUME ReviewAssumption, ReviewInit PROVE SessionInv
<1>1. KindsInv
  <2>1. <<>> \in Seq(BOOLEAN) /\ <<>> \in Seq(Operation) /\ <<>> \in Seq(Reconciliation)
    BY EmptySeq
  <2>2. asked \in [Clients -> Seq(BOOLEAN)] /\ tail \in Seq(Operation)
        /\ reconciles \in Seq(Reconciliation)
    BY <2>1 DEF ReviewInit
  <2>3. encodes \in [Clients -> BOOLEAN] /\ troubled \in [Clients -> BOOLEAN]
        /\ packetLease \in BOOLEAN /\ previewEnabled \in BOOLEAN
    BY Zenon DEF ReviewInit
  <2>4. poll \in [Polls -> PollCall] /\ used \in [Counted -> Nat]
        /\ links \in [Clients -> {"none", "up", "down"}]
    BY DEF ReviewInit, PollCall
  <2>5. /\ client \in Clients \cup {0} /\ bound \in Clients \cup {0}
        /\ selected \in Devices \cup {Nobody} /\ connectionGeneration \in Nat
        /\ closing \in {"open", "screenshot", "client", "tail", "closed"}
        /\ packetRequests \in Int /\ viewers \in Nat /\ demandClient \in Clients \cup {0}
    BY DEF ReviewInit
  <2> QED
    BY <2>2, <2>3, <2>4, <2>5 DEF KindsInv
<1>2. ClientInv /\ HeadInv /\ BehindInv /\ CloseInv /\ OwnerInv
  BY EmptySeq DEF ReviewInit, ClientInv, HeadInv, BehindInv, CloseInv, OwnerInv, Closed, Connected
<1> QED
  BY <1>1, <1>2 DEF SessionInv

LEMMA SessionInvNext ==
  ASSUME ReviewAssumption, SessionInv, [ReviewNext]_reviewVars PROVE SessionInv'
<1>1. CASE \E kind \in {"open", "select"}, d \in Devices : Enqueue(kind, d)
  BY <1>1, EnqueueKeeps
<1>2. CASE OperationStep
  BY <1>2, RefusedKeeps, OpenBeginsKeeps, OpenDropsKeeps, OpenDiscoversKeeps,
     OpenAcquiresKeeps, OpenFailsKeeps, OpenStartsKeeps, OpenEndsKeeps, SelectBeginsKeeps,
     SelectDiscoversKeeps, SelectAcquiresKeeps, SelectFailsKeeps, SelectStartsKeeps,
     SelectReleasesKeeps, SelectClosesKeeps, SelectBindsKeeps, SelectEndsKeeps,
     SelectCatchesKeeps
     DEF OperationStep
<1>3. CASE CloseBegins \/ CloseStep
  BY <1>3, CloseBeginsKeeps, CloseReleasesKeeps, CloseClientKeeps, CloseEndsKeeps DEF CloseStep
<1>4. CASE ReconcileStep
  BY <1>4, ReconcileSkipsKeeps, ReconcileAsksKeeps, ReconcileAnsweredKeeps,
     ReconcileFailsKeeps, PerformsKeeps
     DEF ReconcileStep
<1>5. CASE \E i \in Clients : Lose(i)
  BY <1>5, LoseKeeps
<1>6. CASE \E p \in Polls : PollBegins(p) \/ PollEnds(p)
  BY <1>6, PollBeginsKeeps, PollEndsKeeps
<1>7. CASE LeaseExpires \/ ViewerJoins \/ ViewerLeaves
  BY <1>7, ViewersKeep
<1>8. CASE UNCHANGED reviewVars
  BY <1>8 DEF reviewVars, native, binding, demand, SessionInv, KindsInv, ClientInv, HeadInv,
              BehindInv, CloseInv, Closed, OwnerInv, Mine, Selecting, Connected
<1> QED
  BY <1>1, <1>2, <1>3, <1>4, <1>5, <1>6, <1>7, <1>8 DEF ReviewNext

\* The connection of a session and the operations on it agree, whatever else
\* happens.
THEOREM SessionInvariance == ReviewAssumption /\ ReviewSpec => []SessionInv
<1> SUFFICES ASSUME ReviewAssumption PROVE ReviewSpec => []SessionInv
  OBVIOUS
<1>1. ReviewInit => SessionInv
  BY SessionInvInit
<1>2. SessionInv /\ [ReviewNext]_reviewVars => SessionInv'
  BY SessionInvNext
<1> QED
  BY <1>1, <1>2, PTL DEF ReviewSpec

\* session.ts:407-417, 518-551, 595-643, 2464-2485.  No connection to a backend
\* is forgotten (NoClientForgotten), and the session's handlers listen to no
\* client but the one it uses (ReviewTypeOK), for any number of devices,
\* operations, polls and connections.
THEOREM ClientsAreHeld ==
  ReviewAssumption /\ ReviewSpec => [](ReviewTypeOK /\ NoClientForgotten)
<1> SUFFICES ASSUME ReviewAssumption
             PROVE  ReviewSpec => [](ReviewTypeOK /\ NoClientForgotten)
  OBVIOUS
<1>1. SessionInv => ReviewTypeOK /\ NoClientForgotten
  BY SessionInvGives
<1>2. ReviewSpec => []SessionInv
  BY SessionInvariance
<1> QED
  BY <1>1, <1>2, PTL

-----------------------------------------------------------------------------
(* The demand for the preview.  A request that is sent is the first of the     *)
(* queue and, while its connection is up, the last thing the core was asked;   *)
(* what has been made known of a connection is what the core encodes once      *)
(* nothing is on its way to it; and where that is not what is wanted, a        *)
(* reconciliation of this connection and generation has still to be sent.      *)
Live == ~Closed /\ Connected(client)
Useful(r) == Connected(r.client) /\ IsCurrent(r)
Sending == reconciles # <<>> /\ reconciles[1].sent
Pending == \E k \in DOMAIN reconciles : ~reconciles[k].sent /\ IsCurrent(reconciles[k])

\* The running selection has acquired client i, and has not yet put it in place.
Holds(i) ==
  /\ tail # <<>> /\ tail[1].kind = "select"
  /\ tail[1].pc \in {"start", "release", "closeOld"} /\ tail[1].next = i

LinksInv ==
  /\ demandClient # 0 => links[demandClient] # "none"
  /\ \A k \in DOMAIN reconciles :
       reconciles[k].client # 0 => links[reconciles[k].client] # "none"

\* Nothing has been asked of a client that is not yet in place.
ApartInv ==
  \A i \in Clients : Holds(i) =>
    /\ client # i /\ demandClient # i
    /\ \A k \in DOMAIN reconciles : reconciles[k].client # i

QueueInv ==
  /\ \A k \in 2..Len(reconciles) : ~reconciles[k].sent
  /\ \A k \in DOMAIN reconciles : reconciles[k].generation <= connectionGeneration
  /\ \A k \in DOMAIN reconciles : reconciles[k].aborted => ~Useful(reconciles[k])

SentInv ==
  Sending =>
    LET r == reconciles[1] IN
    Connected(r.client) =>
      /\ IF asked[r.client] = <<>> THEN encodes[r.client] = r.value
         ELSE Last(asked[r.client]) = r.value
      /\ ~Closed /\ demandClient = r.client /\ client = r.client
           => r.generation = connectionGeneration

DemandInv ==
  Live =>
    /\ Sending /\ IsCurrent(reconciles[1]) => Pending \/ reconciles[1].value = Wanted
    /\ demandClient = client /\ ~troubled[client] /\ ~(Sending /\ reconciles[1].client = client)
         => /\ asked[client] = <<>> /\ encodes[client] = previewEnabled
            /\ Pending \/ previewEnabled = Wanted

WantInv == LinksInv /\ ApartInv /\ QueueInv /\ SentInv /\ DemandInv

LEMMA WantInvGives == ASSUME WantInv PROVE PreviewFollowsDemand
<1>1. reconciles = <<>> => ~Sending /\ ~Pending
  BY DEF Sending, Pending
<1> QED
  BY <1>1 DEF WantInv, DemandInv, Live, PreviewFollowsDemand

\* The steps that leave the queue of reconciliations as it is, or abort those in
\* it together with the connection or the generation they were made for.
Same(k) ==
  /\ reconciles'[k].client = reconciles[k].client
  /\ reconciles'[k].generation = reconciles[k].generation
  /\ reconciles'[k].sent = reconciles[k].sent /\ reconciles'[k].value = reconciles[k].value
  /\ reconciles'[k].aborted => reconciles[k].aborted \/ ~Useful(reconciles[k])'

Rests ==
  /\ connectionGeneration' = connectionGeneration /\ demandClient' = demandClient
  /\ previewEnabled' = previewEnabled /\ Wanted' = Wanted /\ troubled' = troubled

QueueKept ==
  /\ DOMAIN reconciles' = DOMAIN reconciles /\ (reconciles = <<>> <=> reconciles' = <<>>)
  /\ \A k \in DOMAIN reconciles : Same(k)
  /\ demandClient' \in {demandClient, 0}
  /\ client' \in {client, 0} \/ links[client'] = "none" \/ Holds(client')
  /\ \A i \in Clients :
       /\ links'[i] = "none" => links[i] = "none"
       /\ links'[i] = "up" => links[i] \in {"up", "none"}
       /\ links'[i] = "up" /\ links[i] = "up" => asked'[i] = asked[i] /\ encodes'[i] = encodes[i]
  /\ connectionGeneration' >= connectionGeneration /\ (Closed => Closed')
  /\ \A i \in Clients : Holds(i)' => client' \in {client, 0} /\ (Holds(i) \/ links[i] = "none")
  /\ Live' => \/ client' # client \/ Rests
              \/ connectionGeneration' > connectionGeneration /\ demandClient' = 0

LEMMA QueueFacts ==
  ASSUME SessionInv
  PROVE  /\ Len(reconciles) \in Nat /\ DOMAIN reconciles = 1..Len(reconciles)
         /\ reconciles # <<>> => Len(reconciles) >= 1
         /\ \A k \in DOMAIN reconciles : reconciles[k] \in Reconciliation
         /\ \A k \in DOMAIN reconciles :
              /\ reconciles[k].client \in Clients \cup {0} /\ reconciles[k].generation \in Nat
              /\ reconciles[k].sent \in BOOLEAN /\ reconciles[k].value \in BOOLEAN
<1>1. reconciles \in Seq(Reconciliation)
  BY DEF SessionInv, KindsInv
<1>2. Len(reconciles) \in Nat /\ DOMAIN reconciles = 1..Len(reconciles)
      /\ \A k \in DOMAIN reconciles : reconciles[k] \in Reconciliation
  BY <1>1
<1>3. reconciles # <<>> => Len(reconciles) >= 1
  BY <1>1, HeadTailProperties
<1>4. \A r \in Reconciliation :
        /\ r.client \in Clients \cup {0} /\ r.generation \in Nat
        /\ r.sent \in BOOLEAN /\ r.value \in BOOLEAN
  BY DEF Reconciliation
<1> QED
  BY <1>2, <1>3, <1>4

LEMMA QueueKeptKeeps ==
  ASSUME ReviewAssumption, SessionInv, SessionInv', WantInv, QueueKept
  PROVE  WantInv'
<1>1. /\ 0 \notin Clients /\ client \in Clients \cup {0} /\ client' \in Clients \cup {0}
      /\ demandClient \in Clients \cup {0}
      /\ connectionGeneration \in Nat /\ connectionGeneration' \in Nat
      /\ links \in [Clients -> {"none", "up", "down"}]
      /\ (client # 0 => links[client] # "none")
  BY DEF SessionInv, KindsInv, ClientInv, Clients
<1>2. /\ Len(reconciles) \in Nat /\ DOMAIN reconciles = 1..Len(reconciles)
      /\ (reconciles # <<>> => 1 \in DOMAIN reconciles)
      /\ \A k \in DOMAIN reconciles :
           reconciles[k].client \in Clients \cup {0} /\ reconciles[k].generation \in Nat
  BY QueueFacts
<1>3. LinksInv'
  BY <1>1, <1>2 DEF WantInv, LinksInv, QueueKept, Same
<1>4. ApartInv'
  BY <1>1, <1>2 DEF WantInv, LinksInv, ApartInv, QueueKept, Same
\* What the new client has not: it was asked nothing.
<1>5. client' # client /\ client' # 0 =>
        /\ demandClient # client'
        /\ \A k \in DOMAIN reconciles : reconciles[k].client # client'
  BY <1>1, <1>2 DEF WantInv, LinksInv, ApartInv, QueueKept
<1>6. ASSUME NEW k \in DOMAIN reconciles PROVE Useful(reconciles[k])' => Useful(reconciles[k])
  BY <1>1, <1>2, <1>5
     DEF Useful, Connected, IsCurrent, WantInv, LinksInv, QueueInv, QueueKept, Same
<1>7. QueueInv'
  <2>1. Len(reconciles') = Len(reconciles)
    <3>1. reconciles' \in Seq(Reconciliation)
      BY DEF SessionInv, KindsInv
    <3> QED
      BY <1>2, <3>1 DEF QueueKept
  <2>2. \A k \in 2..Len(reconciles') : ~reconciles'[k].sent
    BY <1>2, <2>1 DEF WantInv, QueueInv, QueueKept, Same
  <2>3. \A k \in DOMAIN reconciles' : reconciles'[k].generation <= connectionGeneration'
    BY <1>1, <1>2 DEF WantInv, QueueInv, QueueKept, Same
  <2>4. \A k \in DOMAIN reconciles' : reconciles'[k].aborted => ~Useful(reconciles[k])'
    BY <1>6 DEF WantInv, QueueInv, QueueKept, Same
  <2> QED
    BY <2>2, <2>3, <2>4 DEF QueueInv
<1>8. SentInv'
  BY <1>1, <1>2, <1>5 DEF SentInv, Sending, Live, Connected, WantInv, LinksInv, QueueKept, Same, Rests
<1>9. DemandInv'
  <2> SUFFICES ASSUME Live' PROVE DemandInv'
    BY DEF DemandInv
  <2>1. client' # 0 /\ client' \in Clients /\ links'[client'] = "up" /\ ~Closed
    BY <1>1 DEF Live, Connected, QueueKept
  <2>2. CASE client' # client
    <3>1. ~(demandClient' = client')
      BY <1>5, <2>1, <2>2 DEF QueueKept
    <3>2. reconciles' # <<>> => reconciles'[1].client # client'
      BY <1>2, <1>5, <2>1, <2>2 DEF QueueKept, Same
    <3> QED
      BY <3>1, <3>2 DEF DemandInv, Sending, IsCurrent
  <2>3. CASE client' = client /\ connectionGeneration' > connectionGeneration /\ demandClient' = 0
    <3>1. reconciles' # <<>> => reconciles'[1].generation # connectionGeneration'
      <4>1. reconciles' # <<>> => reconciles[1].generation <= connectionGeneration
                                   /\ reconciles'[1].generation = reconciles[1].generation
        BY <1>2 DEF WantInv, QueueInv, QueueKept, Same
      <4> QED
        BY <1>1, <1>2, <2>3, <4>1 DEF QueueKept
    <3> QED
      BY <2>1, <2>3, <3>1 DEF DemandInv, Sending, IsCurrent
  <2>4. CASE client' = client /\ Rests
    <3>1. /\ Live /\ asked'[client] = asked[client] /\ encodes'[client] = encodes[client]
          /\ ~Closed'
      <4>1. links[client] = "up"
        BY <1>1, <2>1, <2>4 DEF QueueKept
      <4> QED
        BY <1>1, <2>1, <2>4, <4>1 DEF Live, Connected, QueueKept
    <3>2. Sending' = Sending /\ (Sending => Same(1))
      BY <1>2 DEF Sending, QueueKept, Same
    <3>3. \A k \in DOMAIN reconciles :
            reconciles'[k].sent = reconciles[k].sent
            /\ (IsCurrent(reconciles[k])' <=> IsCurrent(reconciles[k]))
      BY <2>1, <2>4, <3>1 DEF QueueKept, Same, IsCurrent, Rests
    <3>4. Pending => Pending'
      BY <3>3 DEF Pending, QueueKept
    <3>5. ASSUME Sending', IsCurrent(reconciles[1])'
          PROVE  Pending' \/ reconciles'[1].value = Wanted'
      BY <1>2, <2>4, <3>1, <3>2, <3>3, <3>4, <3>5 DEF Sending, WantInv, DemandInv, Rests, Same
    <3>6. ASSUME demandClient' = client', ~troubled'[client'],
                 ~(Sending /\ reconciles[1].client = client)'
          PROVE  /\ asked'[client'] = <<>> /\ encodes'[client'] = previewEnabled'
                 /\ Pending' \/ previewEnabled' = Wanted'
      <4>1. demandClient = client /\ ~troubled[client] /\ ~(Sending /\ reconciles[1].client = client)
        BY <2>4, <3>2, <3>6 DEF Rests, Same
      <4>2. /\ asked[client] = <<>> /\ encodes[client] = previewEnabled
            /\ Pending \/ previewEnabled = Wanted
        BY <3>1, <4>1 DEF WantInv, DemandInv
      <4> QED
        BY <2>4, <3>1, <3>4, <4>2 DEF Rests
    <3> QED
      BY <3>5, <3>6 DEF DemandInv
  <2> QED
    BY <2>2, <2>3, <2>4 DEF QueueKept
<1> QED
  BY <1>3, <1>4, <1>7, <1>8, <1>9 DEF WantInv

\* What the steps of the operations do to the queue.
LEMMA OverHolds ==
  ASSUME SessionInv, tail # <<>>, Over, tail[1].pc # "reconcile"
  PROVE  \A i \in Clients : ~Holds(i)'
<1>1. tail' \in Seq(Operation) /\ \A k \in DOMAIN tail' : tail'[k].pc = "queued"
  BY OverKeeps
<1>2. tail' # <<>> => 1 \in DOMAIN tail'
  BY <1>1, HeadTailProperties
<1> QED
  BY <1>1, <1>2 DEF Holds

LEMMA WaitsHolds ==
  ASSUME SessionInv, tail # <<>>, NEW pc \in Pcs, Waits(pc)
  PROVE  \A i \in Clients : Holds(i)' =>
           tail[1].kind = "select" /\ pc \in {"start", "release", "closeOld"} /\ tail[1].next = i
  BY WaitsKeeps DEF Holds

LEMMA CutQueue ==
  ASSUME SessionInv, NEW is, Cut(is)
  PROVE  /\ troubled' = troubled
         /\ \A i \in Clients :
              /\ links'[i] = "none" => links[i] = "none"
              /\ links'[i] = "up" => links[i] = "up" /\ i \notin is
              /\ links'[i] = "up" => asked'[i] = asked[i] /\ encodes'[i] = encodes[i]
<1>1. \A i \in Clients :
        /\ links'[i] = "none" => links[i] = "none"
        /\ links'[i] = "up" => links[i] = "up" /\ i \notin is
  BY CutFacts DEF SessionInv
<1>2. \A i \in Clients : i \notin is => asked'[i] = asked[i]
  BY DEF Cut
<1>3. encodes \in [Clients -> BOOLEAN]
  BY DEF SessionInv, KindsInv
<1>4. \A i \in Clients : i \notin is => encodes'[i] = encodes[i]
  BY <1>3, Zenon DEF Cut
<1> QED
  BY <1>1, <1>2, <1>4 DEF Cut

LEMMA ResetQueue ==
  ASSUME SessionInv, ResetDemand
  PROVE  /\ demandClient' = 0
         /\ DOMAIN reconciles' = DOMAIN reconciles /\ (reconciles = <<>> <=> reconciles' = <<>>)
         /\ \A k \in DOMAIN reconciles :
              /\ reconciles'[k].client = reconciles[k].client
              /\ reconciles'[k].generation = reconciles[k].generation
              /\ reconciles'[k].sent = reconciles[k].sent
              /\ reconciles'[k].value = reconciles[k].value
<1>1. reconciles \in Seq(Reconciliation) /\ Len(reconciles) \in Nat
      /\ DOMAIN reconciles = 1..Len(reconciles)
      /\ \A k \in 1..Len(reconciles) : reconciles[k] \in Reconciliation
  BY QueueFacts DEF SessionInv, KindsInv
<1>2. reconciles' = [k \in 1..Len(reconciles) |-> [reconciles[k] EXCEPT !.aborted = TRUE]]
  BY <1>1 DEF ResetDemand
<1>3. \A r \in Reconciliation : LET q == [r EXCEPT !.aborted = TRUE] IN
        /\ q.client = r.client /\ q.generation = r.generation
        /\ q.sent = r.sent /\ q.value = r.value
  BY DEF Reconciliation
<1>4. DOMAIN reconciles' = DOMAIN reconciles /\ reconciles' \in Seq(Reconciliation)
      /\ demandClient' = 0
  BY <1>1, ResetFacts
<1>5. reconciles = <<>> <=> reconciles' = <<>>
  <2>1. \A s \in Seq(Reconciliation) : s = <<>> <=> DOMAIN s = {}
    OBVIOUS
  <2> QED
    BY <1>1, <1>4, <2>1
<1>6. \A k \in DOMAIN reconciles :
        /\ reconciles'[k].client = reconciles[k].client
        /\ reconciles'[k].generation = reconciles[k].generation
        /\ reconciles'[k].sent = reconciles[k].sent
        /\ reconciles'[k].value = reconciles[k].value
  BY <1>1, <1>2, <1>3
<1> QED
  BY <1>4, <1>5, <1>6

\* A step of the operations alone.
LEMMA TailAlone ==
  ASSUME SessionInv, SessionInv', client' = client, connectionGeneration' = connectionGeneration,
         UNCHANGED <<native, demand, reconciles>>, Closed => Closed',
         viewers' = viewers \/ Closed',
         \A i \in Clients : Holds(i)' => Holds(i)
  PROVE  QueueKept
<1>1. connectionGeneration \in Nat
  BY DEF SessionInv, KindsInv
<1>2. Live' => Rests
  BY DEF Live, Rests, Wanted, demand, native
<1> QED
  BY <1>1, <1>2 DEF QueueKept, Same, native, demand

LEMMA OpenKeepsQueue ==
  ASSUME ReviewAssumption, SessionInv, SessionInv', WantInv,
         \/ OpenBegins \/ OpenDrops \/ OpenDiscovers \/ OpenAcquires
         \/ OpenFails \/ OpenStarts \/ OpenEnds
  PROVE  QueueKept
<1>1. /\ tail # <<>> /\ Now = tail[1] /\ tail[1].kind = "open"
      /\ tail[1].pc \in Before \cup {"start", "status"}
  BY RunningFacts DEF OpenBegins, OpenDrops, OpenDiscovers, OpenAcquires, OpenFails,
                      OpenStarts, OpenEnds, At, SessionInv, HeadInv
<1>2. connectionGeneration \in Nat /\ links \in [Clients -> {"none", "up", "down"}]
  BY DEF SessionInv, KindsInv
<1>3. \A i \in Clients : ~Holds(i)'
  <2>1. ASSUME NEW pc \in Pcs, Waits(pc) PROVE \A i \in Clients : ~Holds(i)'
    BY <1>1, <2>1, WaitsHolds
  <2>2. CASE Over
    BY <1>1, <2>2, OverHolds DEF Before
  <2>3. ASSUME tail' = [tail EXCEPT ![1].pc = "start", ![1].next = Fresh], Free # {}
        PROVE  \A i \in Clients : ~Holds(i)'
    <3>1. Fresh \in Clients
      BY <2>3, FreshIsFree
    <3>2. tail'[1].kind = "open"
      BY <1>1, <2>3, <3>1, AcquiresFacts DEF SessionInv, KindsInv
    <3> QED
      BY <3>2 DEF Holds
  <2> QED
    BY <2>1, <2>2, <2>3 DEF OpenBegins, OpenDrops, OpenDiscovers, OpenAcquires, OpenFails,
                            OpenStarts, OpenEnds, OpenCatches, Pcs
<1>4. ASSUME OpenCatches PROVE QueueKept
  <2>1. /\ client' = 0 /\ connectionGeneration' >= connectionGeneration
        /\ UNCHANGED <<demand, closing, reconciles>>
    BY <1>2, <1>4 DEF OpenCatches, NextGeneration
  <2>2. /\ \A i \in Clients :
             /\ links'[i] = "none" => links[i] = "none"
             /\ links'[i] = "up" => links[i] = "up"
             /\ links'[i] = "up" => asked'[i] = asked[i] /\ encodes'[i] = encodes[i]
    BY <1>4, CutQueue DEF OpenCatches
  <2> QED
    BY <1>3, <2>1, <2>2 DEF QueueKept, Same, Live, Connected, Closed, demand
<1>5. CASE OpenBegins
  <2>1. CASE client # 0
    <3>1. ResetDemand /\ ~Connected(client)
          /\ UNCHANGED <<native, client, connectionGeneration, closing>>
      BY <1>5, <2>1 DEF OpenBegins
    <3>2. /\ demandClient' = 0
          /\ DOMAIN reconciles' = DOMAIN reconciles /\ (reconciles = <<>> <=> reconciles' = <<>>)
          /\ \A k \in DOMAIN reconciles :
               /\ reconciles'[k].client = reconciles[k].client
               /\ reconciles'[k].generation = reconciles[k].generation
               /\ reconciles'[k].sent = reconciles[k].sent
               /\ reconciles'[k].value = reconciles[k].value
      BY <3>1, ResetQueue
    <3>3. ~Connected(client)'
      BY <3>1 DEF Connected, native
    <3>4. \A k \in DOMAIN reconciles : ~Useful(reconciles[k])'
      BY <3>2, <3>3 DEF Useful, IsCurrent, Connected
    <3> QED
      BY <1>2, <1>3, <3>1, <3>2, <3>3, <3>4 DEF QueueKept, Same, Live, Closed, native
  <2>2. CASE client = 0
    BY <1>3, <1>5, <2>2, TailAlone DEF OpenBegins, Closed
  <2> QED
    BY <2>1, <2>2
<1>6. CASE OpenDrops
  <2>1. CASE client = 0
    BY <1>3, <1>6, <2>1, TailAlone DEF OpenDrops, Closed, binding
  <2>2. CASE client # 0
    <3>1. client' = 0 /\ connectionGeneration' >= connectionGeneration
          /\ UNCHANGED <<native, demand, closing, reconciles>>
      BY <1>2, <1>6, <2>2 DEF OpenDrops, NextGeneration
    <3> QED
      BY <1>3, <3>1 DEF QueueKept, Same, Live, Connected, Closed, native, demand
  <2> QED
    BY <2>1, <2>2
<1>7. CASE OpenDiscovers
  BY <1>3, <1>7, TailAlone DEF OpenDiscovers, Closed
<1>8. CASE OpenAcquires
  <2>1. Fresh \in Clients /\ links[Fresh] = "none" /\ client = 0 /\ 0 \notin Clients
    BY <1>1, <1>8, FreshIsFree, RunningFacts
       DEF OpenAcquires, At, SessionInv, HeadInv, Before, Clients
  <2>2. /\ connectionGeneration' >= connectionGeneration
        /\ UNCHANGED <<asked, encodes, troubled, demand, closing, reconciles>>
        /\ \/ client' = Fresh /\ links' = [links EXCEPT ![Fresh] = "up"]
           \/ client' = 0 /\ links' = [links EXCEPT ![Fresh] = "down"]
    BY <1>2, <1>8 DEF OpenAcquires, Attached, NextGeneration
  <2>3. \A i \in Clients :
          /\ links'[i] = "none" => links[i] = "none"
          /\ links'[i] = "up" => links[i] \in {"up", "none"}
    BY <1>2, <2>1, <2>2
  <2>4. Live' => client' # client
    BY <2>1 DEF Live, Connected
  <2> QED
    BY <1>3, <2>1, <2>2, <2>3, <2>4 DEF QueueKept, Same, Closed, demand
<1>9. CASE OpenFails
  BY <1>4, <1>9 DEF OpenFails
<1>10. CASE OpenStarts
  BY <1>3, <1>4, <1>10, TailAlone DEF OpenStarts, Closed, binding
<1>11. CASE OpenEnds
  BY <1>3, <1>4, <1>11, TailAlone DEF OpenEnds, Closed, binding
<1> QED
  BY <1>5, <1>6, <1>7, <1>8, <1>9, <1>10, <1>11

\* A step that asks nothing of the session but what it was asked before: what it
\* cuts, and what it acquires, is of no use to it any more or not yet.
LEMMA LinksAlone ==
  ASSUME SessionInv, client' \in {client, 0}, connectionGeneration' = connectionGeneration,
         UNCHANGED <<troubled, demand, reconciles>>, Closed => Closed',
         viewers' = viewers \/ Closed',
         \A i \in Clients :
           /\ links'[i] = "none" => links[i] = "none"
           /\ links'[i] = "up" => links[i] \in {"up", "none"}
           /\ links'[i] = "up" /\ links[i] = "up" => asked'[i] = asked[i] /\ encodes'[i] = encodes[i],
         \A i \in Clients : Holds(i)' => Holds(i) \/ links[i] = "none"
  PROVE  QueueKept
<1>1. connectionGeneration \in Nat
  BY DEF SessionInv, KindsInv
<1>2. Live' => client' = client /\ Rests
  <2>1. Live' => client' # 0 /\ ~Closed'
    BY DEF Live, Connected
  <2> QED
    BY <2>1 DEF Rests, Wanted, demand
<1> QED
  BY <1>1, <1>2 DEF QueueKept, Same, demand

\* A step that starts a new generation: what was asked for the last one is void.
LEMMA ResetAlone ==
  ASSUME SessionInv, WantInv, ResetDemand, NextGeneration, client' \in {client, 0},
         Closed => Closed',
         \A i \in Clients :
           /\ links'[i] = "none" => links[i] = "none"
           /\ links'[i] = "up" => links[i] = "up"
           /\ links'[i] = "up" => asked'[i] = asked[i] /\ encodes'[i] = encodes[i],
         \A i \in Clients : Holds(i)' => Holds(i)
  PROVE  QueueKept
<1>1. connectionGeneration \in Nat /\ connectionGeneration' = connectionGeneration + 1
  BY DEF SessionInv, KindsInv, NextGeneration
<1>2. /\ demandClient' = 0
      /\ DOMAIN reconciles' = DOMAIN reconciles /\ (reconciles = <<>> <=> reconciles' = <<>>)
      /\ \A k \in DOMAIN reconciles :
           /\ reconciles'[k].client = reconciles[k].client
           /\ reconciles'[k].generation = reconciles[k].generation
           /\ reconciles'[k].sent = reconciles[k].sent
           /\ reconciles'[k].value = reconciles[k].value
  BY ResetQueue
<1>3. ASSUME NEW k \in DOMAIN reconciles PROVE ~Useful(reconciles[k])'
  <2>1. reconciles[k].generation <= connectionGeneration /\ reconciles[k].generation \in Nat
    BY QueueFacts DEF WantInv, QueueInv
  <2>2. reconciles'[k].generation # connectionGeneration'
    BY <1>1, <1>2, <2>1
  <2> QED
    BY <2>2 DEF Useful, IsCurrent
<1>4. connectionGeneration' > connectionGeneration
  BY <1>1
<1>5. \A k \in DOMAIN reconciles : Same(k)
  BY <1>2, <1>3 DEF Same
<1> QED
  BY <1>1, <1>2, <1>4, <1>5 DEF QueueKept

LEMMA EnqueueKeepsQueue ==
  ASSUME SessionInv, SessionInv', NEW kind \in {"open", "select"}, NEW d \in Devices,
         Enqueue(kind, d)
  PROVE  QueueKept
<1> DEFINE o == [kind |-> kind, device |-> d, pc |-> "queued", next |-> 0]
<1>1. o \in Operation /\ o.pc = "queued" /\ tail' = Append(tail, o) /\ tail \in Seq(Operation)
  BY DEF Operation, Pcs, Enqueue, SessionInv, KindsInv
<1> HIDE DEF o
<1>2. tail # <<>> => tail'[1] = tail[1]
  <2>1. tail # <<>> => Len(tail) >= 1 /\ Len(tail) \in Nat
    BY <1>1, TailFacts
  <2>2. \A k \in 1..Len(tail) : tail'[k] = tail[k]
    BY <1>1, AppendProperties
  <2> QED
    BY <2>1, <2>2
<1>3. tail = <<>> => tail'[1].pc = "queued"
  BY <1>1, AppendProperties, EmptySeq
<1>4. \A i \in Clients : Holds(i)' => Holds(i)
  BY <1>2, <1>3 DEF Holds
<1> QED
  BY <1>4, TailAlone DEF Enqueue, binding, Closed

\* The steps of a selection.
LEMMA SelectKeepsQueue ==
  ASSUME ReviewAssumption, SessionInv, SessionInv', WantInv,
         \/ Refused \/ SelectBegins \/ SelectDiscovers \/ SelectAcquires \/ SelectFails
         \/ SelectStarts \/ SelectReleases \/ SelectCloses \/ SelectEnds \/ SelectCatches
  PROVE  QueueKept
<1>1. /\ tail # <<>> /\ Now = tail[1] /\ tail[1] \in Operation
      /\ tail[1].next \in Clients \cup {0} /\ 0 \notin Clients
  <2>1. tail # <<>>
    BY DEF Refused, SelectBegins, SelectDiscovers, SelectAcquires, SelectFails, SelectStarts,
           SelectReleases, SelectCloses, SelectEnds, SelectCatches, At
  <2> QED
    BY <2>1, RunningFacts DEF Operation, Clients
<1>2. ASSUME Over, tail[1].pc # "reconcile" PROVE \A i \in Clients : ~Holds(i)'
  BY <1>1, <1>2, OverHolds
<1>3. ASSUME NEW pc \in Pcs \ {"start", "release", "closeOld"}, Waits(pc)
      PROVE  \A i \in Clients : ~Holds(i)'
  BY <1>1, <1>3, WaitsHolds
<1>4. CASE Refused
  BY <1>1, <1>2, <1>4, TailAlone DEF Refused, binding, Closed
<1>5. CASE SelectBegins
  BY <1>1, <1>3, <1>5, TailAlone DEF SelectBegins, binding, Closed, Pcs
<1>6. CASE SelectDiscovers
  <2>1. \A i \in Clients : ~Holds(i)'
    BY <1>1, <1>2, <1>3, <1>6 DEF SelectDiscovers, At, Pcs
  <2> QED
    BY <1>6, <2>1, TailAlone DEF SelectDiscovers, binding, Closed
<1>7. CASE SelectAcquires
  <2>1. tail[1].kind = "select" /\ tail[1].pc = "acquire" /\ links \in [Clients -> {"none", "up", "down"}]
        /\ UNCHANGED <<client, connectionGeneration, demand, closing, viewers, reconciles>>
    BY <1>1, <1>7 DEF SelectAcquires, At, binding, SessionInv, KindsInv
  <2>2. ASSUME Free # {}, Attached, tail' = [tail EXCEPT ![1].pc = "start", ![1].next = Fresh]
        PROVE  QueueKept
    <3>1. Fresh \in Clients /\ links[Fresh] = "none"
      BY <2>2, FreshIsFree
    <3>2. tail'[1].next = Fresh
      BY <1>1, <2>2, <3>1, AcquiresFacts DEF SessionInv, KindsInv
    <3>3. \A i \in Clients : Holds(i)' => links[i] = "none"
      BY <3>1, <3>2 DEF Holds
    <3>4. \A i \in Clients :
            /\ links'[i] = "none" => links[i] = "none"
            /\ links'[i] = "up" => links[i] \in {"up", "none"}
      BY <2>1, <2>2, <3>1 DEF Attached
    <3> QED
      BY <2>1, <2>2, <3>3, <3>4, LinksAlone DEF Attached, Closed
  <2>3. ASSUME Free # {}, Over, links' = [links EXCEPT ![Fresh] = "down"],
               UNCHANGED <<asked, encodes, troubled>>
        PROVE  QueueKept
    <3>1. Fresh \in Clients /\ links[Fresh] = "none"
      BY <2>3, FreshIsFree
    <3>2. \A i \in Clients :
            /\ links'[i] = "none" => links[i] = "none"
            /\ links'[i] = "up" => links[i] \in {"up", "none"}
      BY <2>1, <2>3, <3>1
    <3> QED
      BY <1>2, <2>1, <2>3, <3>2, LinksAlone DEF Closed
  <2>4. ASSUME Over, UNCHANGED native PROVE QueueKept
    BY <1>2, <2>1, <2>4, TailAlone DEF Closed
  <2> QED
    BY <1>7, <2>2, <2>3, <2>4 DEF SelectAcquires
<1>8. CASE SelectFails
  <2>1. /\ \A i \in Clients : ~Holds(i)'
        /\ Cut({Now.next}) /\ UNCHANGED <<client, connectionGeneration, demand, closing, viewers, reconciles>>
    BY <1>1, <1>2, <1>8 DEF SelectFails, At, binding
  <2> QED
    BY <2>1, CutQueue, LinksAlone DEF Closed
<1>9. CASE SelectStarts
  <2>1. /\ tail[1].kind = "select" /\ tail[1].pc = "start" /\ Waits("release")
        /\ NextGeneration /\ ResetDemand /\ UNCHANGED <<native, client, closing>>
    BY <1>1, <1>9 DEF SelectStarts, At
  <2>2. \A i \in Clients : Holds(i)' => Holds(i)
    BY <1>1, <2>1, WaitsHolds DEF Holds, Pcs
  <2> QED
    BY <2>1, <2>2, ResetAlone DEF native, Closed
<1>10. CASE SelectReleases
  <2>1. tail[1].kind = "select" /\ tail[1].pc = "release" /\ Waits("closeOld")
    BY <1>1, <1>10 DEF SelectReleases, At
  <2>2. \A i \in Clients : Holds(i)' => Holds(i)
    BY <1>1, <2>1, WaitsHolds DEF Holds, Pcs
  <2> QED
    BY <1>10, <2>2, TailAlone DEF SelectReleases, Closed
<1>11. CASE SelectCloses
  <2>1. /\ tail[1].kind = "select" /\ tail[1].pc = "closeOld" /\ tail[1].next \in Clients
        /\ UNCHANGED <<connectionGeneration, demand, closing, viewers, reconciles>>
    BY <1>1, <1>11 DEF SelectCloses, At, SessionInv, HeadInv, Before
  <2>2. \A i \in Clients : ~Holds(i)'
    BY <1>1, <1>2, <1>3, <1>11, <2>1 DEF SelectCloses, Pcs
  <2>3. CASE Closed
    <3>1. Cut({client, tail[1].next} \ {0}) /\ client' = client
      BY <1>1, <1>11, <2>3 DEF SelectCloses
    <3> QED
      BY <2>1, <2>2, <3>1, CutQueue, LinksAlone DEF Closed
  <2>4. CASE ~Closed
    <3>1. Cut({client} \ {0}) /\ client' = tail[1].next
      BY <1>1, <1>11, <2>4 DEF SelectCloses
    <3>2. Holds(client')
      BY <1>1, <2>1, <3>1 DEF Holds
    <3>3. client' # client
      BY <2>1, <3>1, <3>2 DEF WantInv, ApartInv
    <3>4. connectionGeneration \in Nat
      BY DEF SessionInv, KindsInv
    <3>5. /\ troubled' = troubled
          /\ \A i \in Clients :
               /\ links'[i] = "none" => links[i] = "none"
               /\ links'[i] = "up" => links[i] \in {"up", "none"}
               /\ links'[i] = "up" => asked'[i] = asked[i] /\ encodes'[i] = encodes[i]
      BY <3>1, CutQueue
    <3> QED
      BY <2>1, <2>2, <3>2, <3>3, <3>4, <3>5 DEF QueueKept, Same, Closed, demand
  <2> QED
    BY <2>3, <2>4
<1>12. CASE SelectEnds
  BY <1>1, <1>2, <1>12, TailAlone DEF SelectEnds, At, binding, Closed
<1>13. CASE SelectCatches
  <2>1. (\A i \in Clients : ~Holds(i)') /\ Cut({Now.next}) /\ UNCHANGED <<closing, viewers>>
    BY <1>1, <1>2, <1>13 DEF SelectCatches, At
  <2>2. CASE OnDisconnect
    BY <2>1, <2>2, CutQueue, ResetAlone DEF OnDisconnect, Closed
  <2>3. CASE UNCHANGED <<binding, demand, reconciles>>
    BY <2>1, <2>3, CutQueue, LinksAlone DEF binding, Closed
  <2> QED
    BY <1>13, <2>2, <2>3 DEF SelectCatches
<1> QED
  BY <1>4, <1>5, <1>6, <1>7, <1>8, <1>9, <1>10, <1>11, <1>12, <1>13

\* The losses of a connection, and close().
LEMMA LossKeepsQueue ==
  ASSUME SessionInv, SessionInv', WantInv,
         \/ \E i \in Clients : Lose(i)
         \/ CloseBegins \/ CloseReleases \/ CloseClient \/ CloseEnds
  PROVE  QueueKept
<1>1. tail' = tail /\ \A i \in Clients : Holds(i)' => Holds(i)
  BY DEF Lose, CloseBegins, CloseReleases, CloseClient, CloseEnds, Holds
<1>2. ASSUME NEW i \in Clients, Lose(i) PROVE QueueKept
  <2>1. Cut({i}) /\ UNCHANGED <<closing, viewers>>
    BY <1>2 DEF Lose
  <2>2. CASE OnDisconnect
    BY <1>1, <2>1, <2>2, CutQueue, ResetAlone DEF OnDisconnect, Closed
  <2>3. CASE UNCHANGED <<binding, demand, reconciles>>
    BY <1>1, <2>1, <2>3, CutQueue, LinksAlone DEF binding, Closed
  <2> QED
    BY <1>2, <2>2, <2>3 DEF Lose
<1>3. CASE CloseBegins
  BY <1>1, <1>3, ResetAlone DEF CloseBegins, Closed, native
<1>4. CASE CloseReleases
  BY <1>1, <1>4, TailAlone DEF CloseReleases, Closed
<1>5. CASE CloseClient
  <2>1. /\ Cut({client} \ {0}) /\ client' = 0 /\ Closed'
        /\ UNCHANGED <<connectionGeneration, demand, viewers, reconciles>>
    BY <1>5 DEF CloseClient, Closed
  <2> QED
    BY <1>1, <2>1, CutQueue, LinksAlone
<1>6. CASE CloseEnds
  BY <1>1, <1>6, TailAlone DEF CloseEnds, Closed
<1> QED
  BY <1>2, <1>3, <1>4, <1>5, <1>6

\* A reconciliation is asked for: while the session is live it is of the current
\* connection and generation, and has still to be sent.
LEMMA AskedKeeps ==
  ASSUME ReviewAssumption, SessionInv, SessionInv', WantInv,
         NEW owner \in Polls \cup {"select", Nobody}, Asks(owner),
         UNCHANGED <<native, client, connectionGeneration, demandClient, previewEnabled, closing>>,
         \A i \in Clients : Holds(i)' => Holds(i)
  PROVE  WantInv'
<1> DEFINE r == Reconciling(owner, connectionGeneration)
           n == Len(reconciles)
<1>1. /\ r \in Reconciliation /\ reconciles \in Seq(Reconciliation)
      /\ r.client = client /\ r.generation = connectionGeneration /\ ~r.sent /\ ~r.aborted
      /\ reconciles' = Append(reconciles, r) /\ connectionGeneration \in Nat
  BY DEF Reconciling, Reconciliation, SessionInv, KindsInv, Asks
<1> HIDE DEF r
<1>2. /\ n \in Nat /\ DOMAIN reconciles = 1..n /\ DOMAIN reconciles' = 1..(n + 1)
      /\ Len(reconciles') = n + 1 /\ reconciles' # <<>>
      /\ \A k \in 1..n : reconciles'[k] = reconciles[k]
      /\ reconciles'[n + 1] = r
  BY <1>1, AppendProperties
<1>3. UNCHANGED <<links, asked, encodes, troubled>> /\ (Closed' <=> Closed)
      /\ client' = client /\ connectionGeneration' = connectionGeneration
      /\ demandClient' = demandClient /\ previewEnabled' = previewEnabled
  BY DEF native, Closed
<1>4. \A k \in 1..(n + 1) : k \in 1..n \/ k = n + 1
  BY <1>2
<1> HIDE DEF n
<1>5. client # 0 => links[client] # "none"
  BY DEF SessionInv, ClientInv
<1>6. LinksInv'
  BY <1>1, <1>2, <1>3, <1>4, <1>5 DEF WantInv, LinksInv
<1>7. ApartInv'
  BY <1>1, <1>2, <1>3, <1>4 DEF WantInv, ApartInv
<1>8. ASSUME reconciles # <<>>
      PROVE  reconciles'[1] = reconciles[1] /\ (Sending' => Sending)
  <2>1. 1 \in 1..n
    BY <1>2, <1>8, QueueFacts DEF n
  <2> QED
    BY <1>2, <1>8, <2>1 DEF Sending
<1>9. reconciles = <<>> => ~Sending'
  <2>1. reconciles = <<>> => n = 0
    BY <1>1, EmptySeq DEF n
  <2> QED
    BY <1>1, <1>2, <2>1 DEF Sending
<1>10. QueueInv'
  <2>1. \A k \in 2..Len(reconciles') : ~reconciles'[k].sent
    <3>1. \A k \in 2..Len(reconciles') : k \in 2..n \/ k = n + 1
      BY <1>2
    <3>2. \A k \in 2..n : k \in 1..n /\ ~reconciles[k].sent
      BY <1>2 DEF WantInv, QueueInv, n
    <3> QED
      BY <1>1, <1>2, <3>1, <3>2
  <2>2. \A k \in DOMAIN reconciles' : reconciles'[k].generation <= connectionGeneration
    BY <1>1, <1>2, <1>4 DEF WantInv, QueueInv
  <2>3. \A k \in 1..n : reconciles'[k].aborted => ~Useful(reconciles[k])'
    BY <1>2, <1>3 DEF WantInv, QueueInv, Useful, IsCurrent, Connected
  <2> QED
    BY <1>1, <1>2, <1>3, <1>4, <2>1, <2>2, <2>3 DEF QueueInv
<1>11. SentInv'
  <2>1. Sending' => Sending /\ reconciles'[1] = reconciles[1]
    BY <1>8, <1>9
  <2> QED
    BY <1>3, <2>1 DEF WantInv, SentInv, Connected
<1>12. DemandInv'
  <2>1. Live' => Pending'
    <3>1. PICK k \in DOMAIN reconciles' : reconciles'[k] = r
      BY <1>2
    <3>2. Live' => ~reconciles'[k].sent /\ IsCurrent(reconciles[k])'
      BY <1>1, <1>3, <3>1 DEF Live, IsCurrent
    <3> QED
      BY <3>1, <3>2 DEF Pending
  <2>2. Live' => Live
    BY <1>3 DEF Live, Connected
  <2>3. Sending /\ reconciles[1].client = client => (Sending /\ reconciles[1].client = client)'
    BY <1>2, <1>3, <1>8 DEF Sending
  <2> QED
    BY <1>3, <2>1, <2>2, <2>3 DEF WantInv, DemandInv
<1> QED
  BY <1>6, <1>7, <1>10, <1>11, <1>12 DEF WantInv

\* The steps that ask.
LEMMA AsksKeep ==
  ASSUME ReviewAssumption, SessionInv, SessionInv', WantInv,
         \/ SelectBinds \/ (\E p \in Polls : PollBegins(p) \/ PollEnds(p))
         \/ LeaseExpires \/ ViewerJoins \/ ViewerLeaves
  PROVE  WantInv'
<1>1. ASSUME NEW p \in Polls, PollBegins(p) PROVE WantInv'
  BY <1>1, AskedKeeps DEF PollBegins, binding, Holds
<1>2. ASSUME NEW p \in Polls, PollEnds(p) PROVE WantInv'
  <2>1. CASE Asks(Nobody)
    BY <1>2, <2>1, AskedKeeps DEF PollEnds, binding, Holds
  <2>2. CASE UNCHANGED <<packetRequests, packetLease, reconciles>>
    <3>1. QueueKept
      BY <1>2, <2>2, TailAlone DEF PollEnds, binding, demand, Holds, Closed
    <3> QED
      BY <3>1, QueueKeptKeeps
  <2> QED
    BY <1>2, <2>1, <2>2 DEF PollEnds
<1>3. CASE LeaseExpires
  BY <1>3, AskedKeeps DEF LeaseExpires, binding, Holds
<1>4. CASE ViewerJoins \/ ViewerLeaves
  BY <1>4, AskedKeeps DEF ViewerJoins, ViewerLeaves, binding, demand, Holds
<1>5. CASE SelectBinds
  <2>1. /\ tail # <<>> /\ Now = tail[1] /\ tail[1].pc = "status"
        /\ UNCHANGED <<client, connectionGeneration, demand, closing, viewers>>
    BY <1>5, RunningFacts DEF SelectBinds, At
  <2>2. CASE Cut({Now.next}) /\ Over /\ UNCHANGED <<bound, reconciles>>
    <3>1. \A i \in Clients : ~Holds(i)'
      BY <2>1, <2>2, OverHolds
    <3>2. QueueKept
      BY <2>1, <2>2, <3>1, CutQueue, LinksAlone DEF Closed
    <3> QED
      BY <3>2, QueueKeptKeeps
  <2>3. CASE Waits("reconcile") /\ Asks("select") /\ UNCHANGED native
    <3>1. \A i \in Clients : ~Holds(i)'
      BY <2>1, <2>3, WaitsHolds DEF Pcs
    <3> QED
      BY <2>1, <2>3, <3>1, AskedKeeps DEF demand
  <2> QED
    BY <1>5, <2>2, <2>3 DEF SelectBinds, Asks
<1> QED
  BY <1>1, <1>2, <1>3, <1>4, <1>5

\* The reconciliation at the head is over: none of those behind it is sent.
LEMMA DropFirst ==
  ASSUME ReviewAssumption, SessionInv, WantInv, reconciles # <<>>,
         Settled(TRUE) \/ Settled(FALSE),
         UNCHANGED <<links, client, connectionGeneration, closing>>,
         demandClient' \in {demandClient, reconciles[1].client}
  PROVE  /\ LinksInv' /\ ApartInv' /\ QueueInv' /\ ~Sending' /\ SentInv'
         /\ (reconciles[1].sent \/ ~IsCurrent(reconciles[1])) /\ Pending => Pending'
<1> DEFINE n == Len(reconciles)
<1>1. /\ n \in Nat /\ n >= 1 /\ DOMAIN reconciles = 1..n
      /\ reconciles' \in Seq(Reconciliation) /\ Len(reconciles') = n - 1
      /\ DOMAIN reconciles' = 1..(n - 1)
      /\ \A k \in 1..(n - 1) : reconciles'[k] = reconciles[k + 1] /\ k + 1 \in 2..n
      /\ \A k \in DOMAIN reconciles : reconciles[k].generation \in Nat
  <2>1. reconciles \in Seq(Reconciliation) /\ reconciles' = Tail(reconciles)
    BY DEF SessionInv, KindsInv, Settled
  <2>2. n \in Nat /\ n >= 1 /\ DOMAIN reconciles = 1..n
        /\ \A k \in DOMAIN reconciles : reconciles[k].generation \in Nat
    BY QueueFacts
  <2>3. /\ reconciles' \in Seq(Reconciliation) /\ Len(reconciles') = n - 1
        /\ \A k \in 1..(n - 1) : reconciles'[k] = reconciles[k + 1]
    BY <2>1, HeadTailProperties
  <2> QED
    BY <2>2, <2>3
<1>2. reconciles' # <<>> => 1 \in 1..(n - 1)
  <2>1. reconciles' # <<>> => Len(reconciles') >= 1
    BY <1>1, HeadTailProperties
  <2> QED
    BY <1>1, <2>1
<1> HIDE DEF n
<1>3. \A k \in 2..n : k \in DOMAIN reconciles /\ ~reconciles[k].sent
  BY <1>1 DEF WantInv, QueueInv, n
<1>4. ~Sending' /\ SentInv'
  BY <1>1, <1>2, <1>3 DEF Sending, SentInv
<1>5. /\ 1 \in DOMAIN reconciles
      /\ \A k \in DOMAIN reconciles' : k + 1 \in DOMAIN reconciles /\ reconciles'[k] = reconciles[k + 1]
  BY <1>1, <1>3
<1>6. \A i \in Clients : Holds(i)' => Holds(i)
  <2>1. CASE tail' = tail
    BY <2>1 DEF Holds
  <2>2. CASE tail' # tail
    <3>1. Mine(1)
      BY <2>2, FirstFacts DEF Settled, Mine
    <3>2. tail # <<>> /\ tail[1].kind = "select" /\ tail[1].pc = "reconcile"
      BY <1>5, <3>1 DEF SessionInv, OwnerInv, Selecting
    <3>3. Waits("reconciled") \/ Waits("unreconciled")
      BY <2>2 DEF Settled
    <3> QED
      BY <3>2, <3>3, WaitsHolds DEF Pcs
  <2> QED
    BY <2>1, <2>2
<1>7. LinksInv' /\ ApartInv'
  <2>1. LinksInv'
    BY <1>5 DEF WantInv, LinksInv
  <2> QED
    BY <1>5, <1>6, <2>1 DEF WantInv, ApartInv
<1>8. \A k \in 1..(n - 1) :
        /\ IsCurrent(reconciles[k])' <=> IsCurrent(reconciles[k + 1])
        /\ Useful(reconciles[k])' <=> Useful(reconciles[k + 1])
  BY <1>1 DEF IsCurrent, Useful, Connected, Closed
<1>9. QueueInv'
  <2>1. \A k \in 2..Len(reconciles') : ~reconciles'[k].sent
    BY <1>1, <1>3
  <2> QED
    BY <1>1, <1>3, <1>8, <2>1 DEF WantInv, QueueInv
<1>10. ASSUME reconciles[1].sent \/ ~IsCurrent(reconciles[1]), Pending PROVE Pending'
  <2>1. PICK k \in DOMAIN reconciles : ~reconciles[k].sent /\ IsCurrent(reconciles[k])
    BY <1>10 DEF Pending
  <2>2. k # 1
    BY <1>10, <2>1
  <2>3. k - 1 \in 1..(n - 1) /\ (k - 1) + 1 = k
    BY <1>1, <2>1, <2>2
  <2>4. reconciles'[k - 1] = reconciles[k] /\ IsCurrent(reconciles[k - 1])'
    BY <1>1, <1>8, <2>1, <2>3
  <2> QED
    BY <1>1, <2>1, <2>3, <2>4 DEF Pending
<1> QED
  BY <1>4, <1>7, <1>9, <1>10

LEMMA SkipsWants ==
  ASSUME ReviewAssumption, SessionInv, WantInv, ReconcileSkips PROVE WantInv'
<1>1. /\ reconciles # <<>> /\ Head(reconciles) = reconciles[1] /\ Settled(TRUE)
      /\ ~reconciles[1].sent
      /\ \/ ~Connected(reconciles[1].client) \/ ~IsCurrent(reconciles[1])
         \/ previewEnabled = Wanted
      /\ UNCHANGED <<native, binding, demand, closing, viewers>>
  BY FirstFacts DEF ReconcileSkips
<1>2. UNCHANGED <<links, asked, encodes, troubled, client, connectionGeneration, closing,
                  demandClient, previewEnabled>> /\ Wanted' = Wanted
  BY <1>1 DEF native, binding, demand, Wanted
<1>3. /\ LinksInv' /\ ApartInv' /\ QueueInv' /\ ~Sending' /\ SentInv'
      /\ ~IsCurrent(reconciles[1]) /\ Pending => Pending'
  BY <1>1, <1>2, DropFirst
<1>4. DemandInv'
  <2> SUFFICES ASSUME Live', demandClient' = client', ~troubled'[client']
               PROVE  /\ asked'[client'] = <<>> /\ encodes'[client'] = previewEnabled'
                      /\ Pending' \/ previewEnabled' = Wanted'
    BY <1>3 DEF DemandInv
  <2>1. Live /\ demandClient = client /\ ~troubled[client] /\ ~Sending
    BY <1>1, <1>2 DEF Live, Closed, Connected, Sending
  <2>2. asked[client] = <<>> /\ encodes[client] = previewEnabled
        /\ (Pending \/ previewEnabled = Wanted)
    BY <2>1 DEF WantInv, DemandInv
  <2>3. IsCurrent(reconciles[1]) => previewEnabled = Wanted
    BY <1>1, <2>1 DEF IsCurrent, Live
  <2> QED
    BY <1>2, <1>3, <2>2, <2>3
<1> QED
  BY <1>3, <1>4 DEF WantInv

\* The demand as it is when the request is sent is what the core is asked last.
LEMMA AsksWants ==
  ASSUME ReviewAssumption, SessionInv, WantInv, ReconcileAsks PROVE WantInv'
<1> DEFINE r == reconciles[1]
           p == [r EXCEPT !.sent = TRUE]
           q == [p EXCEPT !.value = Wanted]
<1>1. /\ reconciles # <<>> /\ Head(reconciles) = r /\ Connected(r.client) /\ IsCurrent(r)
      /\ UNCHANGED <<links, encodes, troubled, binding, demand, closing, viewers>>
      /\ r \in Reconciliation /\ r.client \in Clients
      /\ Len(reconciles) \in Nat /\ Len(reconciles) >= 1 /\ DOMAIN reconciles = 1..Len(reconciles)
  BY FirstFacts DEF ReconcileAsks, Reconciliation, Connected
<1>2. ~r.aborted
  BY <1>1 DEF WantInv, QueueInv, Useful
<1>3. /\ reconciles' = [reconciles EXCEPT ![1].sent = TRUE, ![1].value = Wanted]
      /\ asked' = [asked EXCEPT ![r.client] = Append(@, Wanted)] /\ tail' = tail
  BY <1>1, <1>2 DEF ReconcileAsks
<1>4. reconciles' = [reconciles EXCEPT ![1] = q]
  <2>1. [reconciles EXCEPT ![1].sent = TRUE, ![1].value = Wanted]
          = [[reconciles EXCEPT ![1] = [@ EXCEPT !.sent = TRUE]]
               EXCEPT ![1] = [@ EXCEPT !.value = Wanted]]
    OBVIOUS
  <2>2. 1 \in DOMAIN reconciles
    BY <1>1
  <2> QED
    BY <1>3, <2>1, <2>2
<1>5. /\ q.client = r.client /\ q.generation = r.generation /\ q.aborted = r.aborted
      /\ q.sent /\ q.value = Wanted
  <2>1. /\ p.client = r.client /\ p.generation = r.generation /\ p.aborted = r.aborted
        /\ p.sent /\ p \in Reconciliation
    BY <1>1 DEF Reconciliation
  <2> HIDE DEF p
  <2> QED
    BY <2>1 DEF Reconciliation
<1> HIDE DEF q, r
<1>6. /\ DOMAIN reconciles' = DOMAIN reconciles /\ reconciles'[1] = q
      /\ \A k \in DOMAIN reconciles : k # 1 => reconciles'[k] = reconciles[k]
      /\ Len(reconciles') = Len(reconciles)
  BY <1>1, <1>4
<1>7. UNCHANGED <<client, connectionGeneration, closing, demandClient, previewEnabled>>
      /\ Wanted' = Wanted
  BY <1>1 DEF binding, demand, Wanted
<1>8. \A k \in DOMAIN reconciles :
        /\ reconciles'[k].client = reconciles[k].client
        /\ reconciles'[k].generation = reconciles[k].generation
        /\ reconciles'[k].aborted = reconciles[k].aborted
  BY <1>5, <1>6 DEF r
<1>9. LinksInv' /\ ApartInv'
  BY <1>1, <1>3, <1>6, <1>7, <1>8 DEF WantInv, LinksInv, ApartInv, Holds
<1>10. QueueInv'
  <2>1. \A k \in 2..Len(reconciles') : ~reconciles'[k].sent
    BY <1>1, <1>6 DEF WantInv, QueueInv
  <2>2. \A k \in DOMAIN reconciles : Useful(reconciles[k])' <=> Useful(reconciles[k])
    BY <1>1, <1>7, <1>8 DEF Useful, IsCurrent, Connected, Closed
  <2> QED
    BY <1>6, <1>7, <1>8, <2>1, <2>2 DEF WantInv, QueueInv
<1>11. SentInv'
  <2>1. asked'[r.client] # <<>> /\ Last(asked'[r.client]) = Wanted
    <3>1. asked \in [Clients -> Seq(BOOLEAN)] /\ Wanted \in BOOLEAN
      <4>1. Wanted \in BOOLEAN
        BY Zenon DEF Wanted
      <4> QED
        BY <4>1 DEF SessionInv, KindsInv
    <3>2. asked'[r.client] = Append(asked[r.client], Wanted)
      BY <1>1, <1>3, <3>1
    <3> QED
      BY <1>1, <3>1, <3>2, AppendProperties DEF Last
  <2> QED
    BY <1>1, <1>5, <1>6, <1>7, <2>1 DEF SentInv, IsCurrent
<1>12. DemandInv'
  <2>1. Sending' /\ reconciles'[1].client = client
    BY <1>1, <1>5, <1>6, EmptySeq DEF Sending, IsCurrent
  <2> QED
    BY <1>5, <1>6, <1>7, <2>1 DEF DemandInv
<1> QED
  BY <1>9, <1>10, <1>11, <1>12 DEF WantInv

\* What was sent and is not of the demand made known: the second conjunct of
\* SentInv.
LEMMA AnsweredWants ==
  ASSUME ReviewAssumption, SessionInv, WantInv, ReconcileAnswered PROVE WantInv'
<1> DEFINE r == reconciles[1]
<1>1. /\ reconciles # <<>> /\ Head(reconciles) = r /\ Settled(TRUE) /\ r.sent
      /\ Connected(r.client) /\ asked[r.client] = <<>>
      /\ IF IsCurrent(r) THEN demandClient' = r.client /\ previewEnabled' = r.value
         ELSE UNCHANGED <<demandClient, previewEnabled>>
      /\ UNCHANGED <<native, binding, packetRequests, packetLease, closing, viewers>>
  BY FirstFacts DEF ReconcileAnswered, Turn
<1>2. UNCHANGED <<links, asked, encodes, troubled, client, connectionGeneration, closing>>
      /\ Wanted' = Wanted
  BY <1>1 DEF native, binding, Wanted
<1>3. /\ LinksInv' /\ ApartInv' /\ QueueInv' /\ ~Sending' /\ SentInv' /\ (Pending => Pending')
  BY <1>1, <1>2, DropFirst
<1>4. Sending /\ encodes[r.client] = r.value
      /\ (~Closed /\ demandClient = r.client /\ client = r.client
            => r.generation = connectionGeneration)
  BY <1>1 DEF WantInv, SentInv, Sending
<1>5. DemandInv'
  <2> SUFFICES ASSUME Live', demandClient' = client', ~troubled'[client']
               PROVE  /\ asked'[client'] = <<>> /\ encodes'[client'] = previewEnabled'
                      /\ Pending' \/ previewEnabled' = Wanted'
    BY <1>3 DEF DemandInv
  <2>1. Live
    BY <1>2 DEF Live, Closed, Connected
  <2>2. CASE IsCurrent(r)
    <3>1. client = r.client /\ previewEnabled' = r.value
      BY <1>1, <2>2 DEF IsCurrent
    <3>2. Pending \/ r.value = Wanted
      BY <1>4, <2>1, <2>2 DEF WantInv, DemandInv
    <3> QED
      BY <1>1, <1>2, <1>3, <1>4, <3>1, <3>2
  <2>3. CASE ~IsCurrent(r)
    <3>1. demandClient = client /\ previewEnabled' = previewEnabled /\ ~troubled[client]
      BY <1>1, <1>2, <2>3
    <3>2. r.client # client
      BY <1>4, <2>1, <2>3, <3>1 DEF IsCurrent, Live
    <3>3. asked[client] = <<>> /\ encodes[client] = previewEnabled
          /\ (Pending \/ previewEnabled = Wanted)
      BY <2>1, <3>1, <3>2 DEF WantInv, DemandInv
    <3> QED
      BY <1>2, <1>3, <3>1, <3>3
  <2> QED
    BY <2>2, <2>3
<1> QED
  BY <1>3, <1>5 DEF WantInv

\* A request that failed was void, or leaves the connection troubled.
LEMMA FailsWants ==
  ASSUME ReviewAssumption, SessionInv, WantInv, ReconcileFails PROVE WantInv'
<1> DEFINE r == reconciles[1]
<1>1. /\ reconciles # <<>> /\ Head(reconciles) = r /\ Settled(FALSE) /\ r.sent
      /\ UNCHANGED <<binding, demand, closing, viewers>> /\ 1 \in DOMAIN reconciles
      /\ r.client \in Clients \cup {0} /\ client \in Clients \cup {0}
      /\ asked \in [Clients -> Seq(BOOLEAN)] /\ troubled \in [Clients -> BOOLEAN]
  <2>1. /\ reconciles # <<>> /\ Settled(FALSE) /\ Head(reconciles).sent
        /\ UNCHANGED <<binding, demand, closing, viewers>>
    BY DEF ReconcileFails
  <2>2. Head(reconciles) = r /\ 1 \in DOMAIN reconciles /\ r.client \in Clients \cup {0}
    BY <2>1, FirstFacts, QueueFacts
  <2> QED
    BY <2>1, <2>2 DEF SessionInv, KindsInv
<1>2. UNCHANGED <<links, encodes, client, connectionGeneration, closing, demandClient,
                  previewEnabled>> /\ Wanted' = Wanted
  BY <1>1 DEF ReconcileFails, native, binding, demand, Wanted
<1>3. /\ LinksInv' /\ ApartInv' /\ QueueInv' /\ ~Sending' /\ SentInv' /\ (Pending => Pending')
  BY <1>1, <1>2, DropFirst
<1>4. DemandInv'
  <2> SUFFICES ASSUME Live', demandClient' = client', ~troubled'[client']
               PROVE  /\ asked'[client'] = <<>> /\ encodes'[client'] = previewEnabled'
                      /\ Pending' \/ previewEnabled' = Wanted'
    BY <1>3 DEF DemandInv
  <2>1. Live /\ demandClient = client /\ client \in Clients
    BY <1>1, <1>2 DEF Live, Closed, Connected
  <2>2. r.client # client /\ ~troubled[client] /\ asked'[client] = asked[client]
    <3>1. CASE (r.aborted \/ ~Connected(r.client)) /\ UNCHANGED native
      <4>1. ~troubled[client] /\ asked' = asked
        BY <1>2, <3>1 DEF native
      <4>2. ~Useful(r)
        BY <1>1, <3>1 DEF WantInv, QueueInv, Useful
      <4>3. Sending
        BY <1>1 DEF Sending
      <4>4. ASSUME r.client = client PROVE FALSE
        <5>1. r.generation = connectionGeneration
          BY <2>1, <4>3, <4>4 DEF WantInv, SentInv, Live
        <5> QED
          BY <2>1, <4>2, <4>4, <5>1 DEF Useful, IsCurrent, Live
      <4> QED
        BY <4>1, <4>4
    <3>2. CASE /\ troubled' = [troubled EXCEPT ![r.client] = TRUE]
               /\ \/ UNCHANGED asked
                  \/ asked' = [asked EXCEPT ![r.client] = Front(@)]
      <4>1. r.client # client
        BY <1>1, <1>2, <2>1, <3>2
      <4> QED
        BY <1>1, <1>2, <2>1, <3>2, <4>1
    <3> QED
      BY <1>1, <3>1, <3>2 DEF ReconcileFails
  <2>3. asked[client] = <<>> /\ encodes[client] = previewEnabled
        /\ (Pending \/ previewEnabled = Wanted)
    BY <2>1, <2>2 DEF WantInv, DemandInv
  <2> QED
    BY <1>2, <1>3, <2>2, <2>3
<1> QED
  BY <1>3, <1>4 DEF WantInv

LEMMA LastOfTail ==
  ASSUME NEW s \in Seq(BOOLEAN), s # <<>>
  PROVE  /\ Tail(s) = <<>> => Last(s) = Head(s)
         /\ Tail(s) # <<>> => Last(Tail(s)) = Last(s)
<1>1. /\ Len(s) \in Nat /\ Len(s) >= 1 /\ Tail(s) \in Seq(BOOLEAN) /\ Len(Tail(s)) = Len(s) - 1
      /\ \A k \in 1..Len(Tail(s)) : Tail(s)[k] = s[k + 1]
      /\ Head(s) = s[1]
  BY HeadTailProperties
<1>2. Tail(s) = <<>> => Len(s) = 1
  BY <1>1, EmptySeq
<1>3. Tail(s) # <<>> => Len(Tail(s)) >= 1
  BY <1>1, HeadTailProperties
<1> QED
  BY <1>1, <1>2, <1>3 DEF Last

LEMMA PerformsWants ==
  ASSUME ReviewAssumption, SessionInv, WantInv, NEW c \in Clients, Performs(c) PROVE WantInv'
<1>1. /\ asked \in [Clients -> Seq(BOOLEAN)] /\ encodes \in [Clients -> BOOLEAN]
      /\ asked[c] # <<>> /\ 0 \notin Clients
      /\ encodes' = [encodes EXCEPT ![c] = Head(asked[c])]
      /\ asked' = [asked EXCEPT ![c] = Tail(@)]
  BY DEF Performs, SessionInv, KindsInv, Clients
<1>2. UNCHANGED <<links, troubled, client, connectionGeneration, demandClient, previewEnabled,
                  closing, tail, reconciles>> /\ Wanted' = Wanted
  BY DEF Performs, binding, demand, Wanted
<1>3. \A i \in Clients : i # c => asked'[i] = asked[i] /\ encodes'[i] = encodes[i]
  BY <1>1
<1>4. LinksInv' /\ ApartInv' /\ QueueInv'
  BY <1>2 DEF WantInv, LinksInv, ApartInv, QueueInv, Holds, Useful, IsCurrent, Connected, Closed
<1>5. SentInv'
  <2> SUFFICES ASSUME Sending, Connected(reconciles[1].client)
               PROVE  /\ IF asked'[reconciles[1].client] = <<>>
                         THEN encodes'[reconciles[1].client] = reconciles[1].value
                         ELSE Last(asked'[reconciles[1].client]) = reconciles[1].value
                      /\ ~Closed /\ demandClient = reconciles[1].client
                           /\ client = reconciles[1].client
                           => reconciles[1].generation = connectionGeneration
    BY <1>2 DEF SentInv, Sending, Connected, Closed
  <2>1. reconciles[1].client \in Clients
    BY QueueFacts DEF Sending, Connected
  <2>2. CASE reconciles[1].client # c
    BY <1>3, <2>1, <2>2 DEF WantInv, SentInv
  <2>3. CASE reconciles[1].client = c
    <3>1. Last(asked[c]) = reconciles[1].value
      BY <1>1, <2>3 DEF WantInv, SentInv
    <3>2. asked'[c] = Tail(asked[c]) /\ encodes'[c] = Head(asked[c])
      BY <1>1
    <3>3. asked[c] \in Seq(BOOLEAN)
      BY <1>1
    <3> QED
      BY <1>1, <2>3, <3>1, <3>2, <3>3, LastOfTail DEF WantInv, SentInv
  <2> QED
    BY <2>2, <2>3
<1>6. DemandInv'
  <2>1. Live' = Live /\ Sending' = Sending /\ Pending' = Pending
        /\ (IsCurrent(reconciles[1])' <=> IsCurrent(reconciles[1]))
    BY <1>2 DEF Live, Sending, Pending, IsCurrent, Connected, Closed
  <2>2. Live /\ asked[client] = <<>> => client \in Clients /\ client # c
    BY <1>1 DEF Live, Connected, SessionInv, KindsInv
  <2> QED
    BY <1>2, <1>3, <2>1, <2>2 DEF WantInv, DemandInv
<1> QED
  BY <1>4, <1>5, <1>6 DEF WantInv

LEMMA WantInit == ASSUME ReviewInit PROVE WantInv
<1>1. ~Live /\ ~Sending /\ \A i \in Clients : ~Holds(i)
  BY DEF ReviewInit, Live, Connected, Sending, Holds
<1>2. DOMAIN reconciles = {} /\ 2..Len(reconciles) = {}
  BY EmptySeq DEF ReviewInit
<1> QED
  BY <1>1, <1>2 DEF ReviewInit, WantInv, LinksInv, ApartInv, QueueInv, SentInv, DemandInv

LEMMA WantNext ==
  ASSUME ReviewAssumption, SessionInv, WantInv, [ReviewNext]_reviewVars PROVE WantInv'
<1>1. SessionInv'
  BY SessionInvNext
<1>2. CASE \E kind \in {"open", "select"}, d \in Devices : Enqueue(kind, d)
  BY <1>1, <1>2, EnqueueKeepsQueue, QueueKeptKeeps
<1>3. CASE OperationStep
  <2>1. CASE SelectBinds
    BY <1>1, <2>1, AsksKeep
  <2>2. CASE OperationStep /\ ~SelectBinds
    <3>1. QueueKept
      BY <1>1, <2>2, OpenKeepsQueue, SelectKeepsQueue DEF OperationStep
    <3> QED
      BY <1>1, <3>1, QueueKeptKeeps
  <2> QED
    BY <1>3, <2>1, <2>2
<1>4. CASE CloseBegins \/ CloseStep \/ (\E i \in Clients : Lose(i))
  <2>1. QueueKept
    BY <1>1, <1>4, LossKeepsQueue DEF CloseStep
  <2> QED
    BY <1>1, <2>1, QueueKeptKeeps
<1>5. CASE ReconcileStep
  BY <1>5, SkipsWants, AsksWants, AnsweredWants, FailsWants, PerformsWants DEF ReconcileStep
<1>6. CASE (\E p \in Polls : PollBegins(p) \/ PollEnds(p)) \/ LeaseExpires \/ ViewerJoins
           \/ ViewerLeaves
  BY <1>1, <1>6, AsksKeep
<1>7. CASE UNCHANGED reviewVars
  <2>1. QueueKept
    BY <1>1, <1>7, TailAlone DEF reviewVars, native, binding, demand, Holds, Closed
  <2> QED
    BY <1>1, <2>1, QueueKeptKeeps
<1> QED
  BY <1>2, <1>3, <1>4, <1>5, <1>6, <1>7 DEF ReviewNext

\* session.ts:852-880.  Once the demand has been made known to the client in use and
\* nothing is left to reconcile, the core encodes exactly if a packet request, the lease
\* or a viewer wants the preview, where no request failed.  A client is told nothing
\* before its first reconciliation: open makes none, so viewers kept over a lost
\* connection are not served before the next poll or viewer.
THEOREM PreviewIsWanted == ReviewAssumption /\ ReviewSpec => []PreviewFollowsDemand
<1> SUFFICES ASSUME ReviewAssumption PROVE ReviewSpec => []PreviewFollowsDemand
  OBVIOUS
<1>1. ReviewInit => WantInv
  BY WantInit
<1>2. SessionInv /\ WantInv /\ [ReviewNext]_reviewVars => WantInv'
  BY WantNext
<1>3. WantInv => PreviewFollowsDemand
  BY WantInvGives
<1>4. ReviewSpec => []SessionInv
  BY SessionInvariance
<1> QED
  BY <1>1, <1>2, <1>3, <1>4, PTL DEF ReviewSpec
=============================================================================
