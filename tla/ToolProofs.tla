----------------------------- MODULE ToolProofs -----------------------------
(***************************************************************************)
(* What holds of the modules of the MCP tools: a call that acts, the       *)
(* observations it is answered with, the pages of the device list, the     *)
(* projection of an app, and the search for an element and its point to    *)
(* tap; for any number of actions, inputs, callers, screens, devices,      *)
(* readers, fibers and nodes.  Each part has the definitions of its        *)
(* invariant, what it needs of the operators of the module, one lemma for  *)
(* each action, and the theorems.                                          *)
(***************************************************************************)
EXTENDS ActionBatch, ObservationHistory, DeviceInventory, FiberTree,
        NativeTarget, SequenceTheorems, FiniteSetTheorems, FunctionTheorems,
        WellFoundedInduction, TLAPS

----------------------------------------------------------------------------
(***************************************************************************)
(* ActionBatch.  The latest reading was made after everything that was     *)
(* sent, unless the screen may have been turned, and an action that sends  *)
(* an input leaves none that has not settled; so is a verified             *)
(* destination; only the last action may have been refused, and nothing is *)
(* sent after it.  A text is sent last of a list, and no reading is        *)
(* decided on but after a list has been sent; so whenever a replacement is *)
(* read its text has landed, with all that was sent before it, or is the   *)
(* last that has yet to land.                                              *)
(***************************************************************************)

\* The call is at one of its actions.
Busy == at \in {"preflight", "baseline", "next", "resolving", "sending", "waiting", "reading"}
        \/ (at = "verifying" /\ batch.tool = "perform_actions")

\* Whoever is still acting has an action at hand and none that was refused;
\* only the last action may have been refused, and nothing was sent after it.
TurnInv ==
    /\ Len(receipts) <= Len(Actions)
    /\ Busy => K \in Places /\ AllAccepted
    /\ at \in {"observing", "retrying"} /\ AllAccepted => Len(receipts) = Len(Actions)
    /\ at \in {"observing", "retrying", "done"} /\ AnyDispatched => receipts # <<>>
    /\ \A i \in DOMAIN receipts : ~receipts[i].accepted => i = Len(receipts)
    /\ \A j \in Places : j > K \/ (j = K /\ ~AllAccepted) => sent[j] = 0

\* A rotation may have been sent, or no more is going to be.
Turned ==
    \/ ~AllAccepted \/ at = "thrown"
    \/ receipts # <<>> /\ LastAction.kind = "rotate"
    \/ K \in Places /\ Doing.kind = "rotate"

\* What was read last was read after everything that was sent, rotations aside,
\* and it is labelled stable only if it settled.
LatestInv ==
    /\ latest = NoReading \/ latest.at = sent \/ Turned
    /\ latest.stable => latest.settled

\* An action that sends an input, and is accepted, leaves no reading or one that
\* settled.
FallbackInv ==
    at = "observing" /\ AllAccepted /\ receipts # <<>> /\ LastAction.kind \notin {"rotate", "wait"}
        => latest = NoReading \/ latest.settled

\* A destination was verified, or found wrong, after everything that was sent.
VerifiedInv ==
    at \in {"observing", "retrying"} /\ verified.status \in {"matched", "mismatch"} => verified.at = sent

\* tap_element sends one tap and reports it as sent only when it was accepted.
TapInv == batch.tool = "tap_element" =>
    /\ at \in {"sending", "baseline"} => stage = "tapped"
    /\ at \notin {"waiting", "reading"}
    /\ \A i \in DOMAIN receipts : receipts[i].dispatched => receipts[i].accepted
    /\ at = "verifying" => AllAccepted

\* The first part of SuccessIsSeen.
DoneInv ==
    Succeeded /\ LastAction.kind # "rotate" =>
        /\ outcome.seen.stable /\ outcome.seen.at = sent
        /\ LastAction.kind # "wait" => outcome.seen.settled

TextStages == {"clear1", "clear2", "clear3", "replace", "retype"}
StageInv ==
    /\ at = "reading" => stage \in TextStages
    /\ at = "waiting" => Doing.kind = "wait"

BatchInv == TurnInv /\ LatestInv /\ FallbackInv /\ VerifiedInv /\ TapInv /\ DoneInv /\ StageInv

----------------------------------------------------------------------------
\* What lands of a text action.  Nothing of a list types a text.
Typeless(list) == \A i \in DOMAIN list : list[i] # "type"
\* Nothing but the last of a list types a text.
TypesOnce(list) == \A i \in DOMAIN list : list[i] = "type" => i = Len(list)
\* The last of a list types a text.
TypesLast(list) == list # <<>> /\ list[Len(list)] = "type"
\* No action before the one at hand replaces a text.
Fresh == \A j \in 1..(K - 1) : Actions[j].kind # "replace"

Clearing == {"clear1", "clear2", "clear3"}
\* The text has been typed by the action at hand.
HasTyped ==
    /\ Doing.kind = "replace"
    /\ stage \in Clearing \cup {"retype"} \/ (stage = "replace" /\ at = "reading")

\* Before an action sends an input; and which actions send no text.
BeforeInv ==
    /\ at = "preflight" => receipts = <<>> /\ todo = <<>>
    /\ at \in {"preflight", "baseline", "next", "resolving"} =>
          sent[K] = 0 /\ stage \in {"receipt", "tapped"}
    /\ at = "sending" /\ stage \in {"receipt", "tapped"} => Doing.kind \notin {"clear", "replace"}
    /\ at \in {"observing", "retrying", "verifying"} => stage \in {"receipt", "tapped"}
    /\ Busy /\ at = "verifying" => Doing.kind \notin {"clear", "replace"}

\* What is about to be sent: a text is typed last, and by a replacement only.
TodoInv == at \in {"baseline", "sending"} =>
    /\ stage \in {"replace", "retype"} => Doing.kind = "replace" /\ TypesLast(todo)
    /\ stage = "replace" => TypesOnce(todo)
    /\ stage \notin {"replace", "retype"} => Typeless(todo)

\* Typed once, four inputs have been sent; typed again, more.
SentInv == Busy /\ Doing.kind = "replace" =>
    /\ stage = "replace" /\ at = "sending" => sent[K] + Len(todo) = 4
    /\ stage = "replace" /\ at = "reading" => sent[K] = 4
    /\ stage \in Clearing \cup {"retype"} => sent[K] >= 4
    /\ stage = "retype" \/ (stage \in Clearing /\ at = "reading") => sent[K] > 4

\* Before the first text is sent none has landed; after it, none has while it is
\* last in line; and whenever a replacement is read, a text is last in line.
LandingInv == Busy =>
    /\ Fresh /\ ~HasTyped => field.copies = 0 /\ Typeless(landing)
    /\ Fresh /\ stage = "replace" /\ at = "reading" =>
          landing = <<>> \/ (field.copies = 0 /\ TypesLast(landing) /\ TypesOnce(landing))
    /\ stage \in {"replace", "retype"} /\ at = "reading" =>
          Doing.kind = "replace" /\ (landing = <<>> \/ TypesLast(landing))

\* What an accepted text action leaves in the field, and on its way to it.
LeftInv == ~Busy /\ at # "thrown" /\ TextAccepted =>
    IF LastAction.kind = "clear" THEN field = Empty /\ Typeless(landing)
    ELSE /\ ~field.old
         /\ landing = <<>> => field.copies > 0
         /\ landing # <<>> => TypesLast(landing)
         /\ sent[Len(receipts)] = 4 => field = Written /\ landing = <<>>

TextInv == BeforeInv /\ TodoInv /\ SentInv /\ LandingInv /\ LeftInv

Answers == [accepted : BOOLEAN, dispatched : BOOLEAN]
Keys == {"raw", "tap", "key", "type"}

BatchOK == batch \in Batches /\ BatchTypeOK

Concluded(r) ==
    /\ receipts' = Append(receipts, r)
    /\ at' = IF r.accepted /\ K < Len(Actions) THEN "next" ELSE "observing"
    /\ todo' = <<>> /\ stage' = "receipt"

LEMMA Inhabited ==
  ASSUME NEW S, NEW s \in Seq(S), s # <<>>
  PROVE  Len(s) >= 1 /\ Len(s) \in Nat /\ Head(s) \in S /\ Tail(s) \in Seq(S)
BY HeadTailProperties

LEMMA CallFacts ==
  ASSUME BatchAssumption, BatchOK
  PROVE  /\ batch.tool \in {"perform_actions", "tap_element", "standalone"}
         /\ Actions \in Seq([kind : Kinds, ref : Nat, verify : BOOLEAN])
         /\ Len(Actions) \in Nat /\ Len(Actions) >= 1 /\ Places = 1..Len(Actions)
         /\ receipts \in Seq(Answers) /\ Len(receipts) \in Nat /\ K = Len(receipts) + 1
         /\ DOMAIN receipts = 1..Len(receipts)
         /\ batch.tool # "perform_actions" => Len(Actions) = 1
         /\ batch.tool = "tap_element" => Actions[1].kind = "tap"
         /\ \A i \in Places : Actions[i].kind \in Kinds
<1>1. batch \in Batches
  BY DEF BatchOK
<1>2. Actions \in Seq([kind : Kinds, ref : Nat, verify : BOOLEAN]) /\ Actions # <<>>
  BY <1>1 DEF BatchAssumption, Actions
<1>3. receipts \in Seq(Answers)
  BY DEF BatchOK, BatchTypeOK, Answers
<1>4. Len(Actions) >= 1
  BY <1>2, Inhabited
<1>5. Len(Actions) \in Nat /\ Places = 1..Len(Actions) /\ \A i \in Places : Actions[i].kind \in Kinds
  <2>1. Len(Actions) \in Nat /\ Places = 1..Len(Actions)
    BY <1>2, LenProperties DEF Places
  <2>2. \A i \in 1..Len(Actions) : Actions[i] \in [kind : Kinds, ref : Nat, verify : BOOLEAN]
    BY <1>2, ElementOfSeq
  <2> QED
    BY <2>1, <2>2
<1>6. Len(receipts) \in Nat /\ K = Len(receipts) + 1 /\ DOMAIN receipts = 1..Len(receipts)
  BY <1>3 DEF K
<1>7. /\ batch.tool \in {"perform_actions", "tap_element", "standalone"}
      /\ batch.tool # "perform_actions" => Len(Actions) = 1
      /\ batch.tool = "tap_element" => Actions[1].kind = "tap"
  BY <1>1 DEF BatchAssumption, Actions
<1> QED
  BY <1>2, <1>3, <1>4, <1>5, <1>6, <1>7

\* One more receipt.
LEMMA Answered ==
  ASSUME BatchAssumption, BatchOK, NEW r \in Answers, receipts' = Append(receipts, r), batch' = batch
  PROVE  /\ receipts' \in Seq(Answers)
         /\ Len(receipts') = K /\ K' = K + 1 /\ DOMAIN receipts' = 1..K
         /\ receipts'[K] = r /\ \A i \in 1..Len(receipts) : receipts'[i] = receipts[i]
         /\ AllAccepted' <=> (AllAccepted /\ r.accepted)
         /\ LastAction' = Doing /\ receipts' # <<>>
<1>0. receipts \in Seq(Answers) /\ Len(receipts) \in Nat /\ K = Len(receipts) + 1
      /\ DOMAIN receipts = 1..Len(receipts)
  BY CallFacts
<1>1. receipts' \in Seq(Answers) /\ Len(receipts') = K /\ DOMAIN receipts' = 1..K
  BY <1>0
<1>2. receipts'[K] = r /\ \A i \in 1..Len(receipts) : receipts'[i] = receipts[i]
  BY <1>0, AppendProperties
<1>3. AllAccepted' <=> (AllAccepted /\ r.accepted)
  <2>1. \A i : i \in 1..K <=> (i \in 1..Len(receipts) \/ i = K)
    BY <1>0
  <2> QED
    BY <1>0, <1>1, <1>2, <2>1, Zenon DEF AllAccepted
<1>4. LastAction' = Doing
  BY <1>1 DEF LastAction, Doing, Actions
<1>5. K' = K + 1
  BY <1>0, <1>1 DEF K
<1> QED
  BY <1>1, <1>2, <1>3, <1>4, <1>5

\* The action at hand ends with a receipt.
LEMMA Ending ==
  ASSUME BatchAssumption, BatchOK, BatchInv, Busy, NEW r \in Answers, Concluded(r),
         batch' = batch, outcome' = outcome,
         sent' \in [Places -> Nat], \A j \in Places : j # K => sent'[j] = sent[j],
         latest' = NoReading \/ latest'.at = sent' \/ ~r.accepted \/ Doing.kind = "rotate",
         latest' = NoReading \/ latest'.settled \/ ~r.accepted \/ Doing.kind \in {"rotate", "wait"},
         latest'.stable => latest'.settled,
         verified' = NotFound \/ verified'.at = sent' \/ verified'.status = "unstable",
         batch.tool = "tap_element" /\ r.dispatched => r.accepted
  PROVE  BatchInv'
<1>1. /\ Len(receipts') = K /\ K' = K + 1 /\ DOMAIN receipts' = 1..K
      /\ receipts'[K] = r /\ \A i \in 1..Len(receipts) : receipts'[i] = receipts[i]
      /\ AllAccepted' <=> (AllAccepted /\ r.accepted)
      /\ LastAction' = Doing /\ receipts' # <<>>
  BY Answered DEF Concluded
<1>2. K \in Places /\ AllAccepted
  BY DEF BatchInv, TurnInv
<1>3. Actions' = Actions /\ Places' = Places
  BY DEF Actions, Places
<1>4. at' \in {"next", "observing"} /\ (at' = "next" => r.accepted /\ K < Len(Actions))
      /\ (at' = "observing" => ~r.accepted \/ K = Len(Actions))
  <2>1. K <= Len(Actions)
    BY <1>2, CallFacts
  <2> QED
    BY <2>1, CallFacts DEF Concluded
<1>5. TurnInv'
  <2>1. Len(receipts') <= Len(Actions')
    BY <1>1, <1>2, <1>3, CallFacts
  <2>2. (Busy => K \in Places /\ AllAccepted)'
    BY <1>1, <1>2, <1>3, <1>4, CallFacts DEF Busy
  <2>3. (at \in {"observing", "retrying"} /\ AllAccepted => Len(receipts) = Len(Actions))'
    <3>1. at' = "next" \/ ~r.accepted \/ K = Len(Actions)
      BY <1>4
    <3> QED
      BY <1>1, <1>3, <3>1, Zenon
  <2>4. (\A i \in DOMAIN receipts : ~receipts[i].accepted => i = Len(receipts))'
    <3>1. \A i \in 1..K : i = K \/ i \in 1..Len(receipts)
      BY CallFacts
    <3>2. \A i \in 1..Len(receipts) : receipts[i].accepted
      BY <1>2, CallFacts DEF AllAccepted
    <3> QED
      BY <1>1, <3>1, <3>2
  <2>5. (\A j \in Places : j > K \/ (j = K /\ ~AllAccepted) => sent[j] = 0)'
    <3>1. \A j \in Places : j > K => sent[j] = 0
      BY DEF BatchInv, TurnInv
    <3>2. \A j \in Places : (j > K + 1 \/ j = K + 1) => (j > K /\ j # K)
      BY CallFacts
    <3>3. \A j \in Places : (j > K + 1 \/ j = K + 1) => sent'[j] = 0
      BY <3>1, <3>2
    <3> QED
      BY <1>1, <1>3, <3>3
  <2> QED
    BY <1>1, <2>1, <2>2, <2>3, <2>4, <2>5 DEF TurnInv
<1>6. LatestInv' /\ FallbackInv'
  BY <1>1 DEF LatestInv, FallbackInv, Turned
<1>7. VerifiedInv'
  BY DEF VerifiedInv, NotFound
<1>8. TapInv'
  <2> SUFFICES ASSUME batch.tool = "tap_element" PROVE TapInv'
    BY DEF TapInv
  <2>1. Len(Actions) = 1 /\ K = 1
    BY <1>2, CallFacts
  <2>2. at' = "observing"
    BY <1>4, <2>1
  <2> QED
    BY <1>1, <2>1, <2>2 DEF TapInv
<1>9. DoneInv' /\ StageInv'
  BY <1>4 DEF DoneInv, Succeeded, StageInv
<1> QED
  BY <1>5, <1>6, <1>7, <1>8, <1>9 DEF BatchInv

\* The action at hand goes on.
LEMMA Going ==
  ASSUME BatchAssumption, BatchOK, BatchInv, Busy, Busy', at' \notin {"done", "thrown", "observing", "retrying"},
         batch' = batch, receipts' = receipts,
         sent' \in [Places -> Nat], \A j \in Places : j # K => sent'[j] = sent[j],
         latest' = NoReading \/ latest'.at = sent' \/ (sent' = sent /\ latest' = latest)
            \/ Doing.kind = "rotate",
         latest'.stable => latest'.settled,
         batch.tool = "tap_element" =>
            (at' \in {"sending", "baseline"} => stage' = "tapped") /\ at' \notin {"waiting", "reading"},
         StageInv'
  PROVE  BatchInv'
<1>1. Actions' = Actions /\ Places' = Places /\ K' = K /\ LastAction' = LastAction /\ Doing' = Doing
      /\ AllAccepted' = AllAccepted
  BY DEF Actions, Places, K, LastAction, Doing, AllAccepted
<1>2. TurnInv'
  <2>1. K \in Places /\ AllAccepted
    BY DEF BatchInv, TurnInv
  <2>2. (\A j \in Places : j > K \/ (j = K /\ ~AllAccepted) => sent[j] = 0)'
    BY <1>1, <2>1, CallFacts DEF BatchInv, TurnInv
  <2> QED
    BY <1>1, <2>1, <2>2 DEF BatchInv, TurnInv
<1>3. LatestInv'
  <2>1. K \in Places
    BY DEF BatchInv, TurnInv
  <2>2. CASE latest' = NoReading \/ latest'.at = sent' \/ Doing.kind = "rotate"
    BY <1>1, <2>1, <2>2 DEF LatestInv, Turned
  <2>3. CASE sent' = sent /\ latest' = latest
    BY <1>1, <2>3 DEF BatchInv, LatestInv, Turned, Busy
  <2> QED
    BY <2>2, <2>3
<1>4. VerifiedInv' /\ FallbackInv' /\ DoneInv'
  BY DEF VerifiedInv, FallbackInv, DoneInv, Succeeded
<1>5. TapInv'
  BY <1>1 DEF BatchInv, TapInv, TurnInv
<1> QED
  BY <1>2, <1>3, <1>4, <1>5 DEF BatchInv

LEMMA SameCall ==
  ASSUME batch' = batch
  PROVE  Actions' = Actions /\ Places' = Places /\ Moments' = Moments /\ Readings' = Readings
BY DEF Actions, Places, Moments, Readings

\* One lemma for each step of a call: it keeps the types and the invariant.
LEMMA PreflightKeeps ==
  ASSUME BatchAssumption, BatchOK, BatchInv, Preflight PROVE BatchOK' /\ BatchInv'
<1>1. BatchOK'
  <2>1. NoReading \in Readings
    BY DEF NoReading, Readings, Moments
  <2>2. outcome' \in [hardStop : BOOLEAN, seen : Readings, count : Nat]
    BY <2>1 DEF Preflight, NoOutcome, Reused
  <2> QED
    BY <2>2, SameCall DEF Preflight, BatchOK, BatchTypeOK, Device
<1>2. (at' = "done" /\ outcome'.hardStop = TRUE) \/ at' \in {"baseline", "next"}
  BY DEF Preflight, NoOutcome
<1>3. CASE at' = "done" /\ outcome'.hardStop = TRUE
  <2>1. Actions' = Actions /\ Places' = Places /\ K' = K /\ LastAction' = LastAction /\ Doing' = Doing
        /\ AllAccepted' = AllAccepted /\ AnyDispatched' = AnyDispatched
    BY DEF Preflight, Actions, Places, K, LastAction, Doing, AllAccepted, AnyDispatched, Device
  <2>2. K \in Places /\ AllAccepted
    BY DEF BatchInv, TurnInv, Preflight, Busy
  <2>3. AnyDispatched => receipts # <<>>
    BY DEF AnyDispatched
  <2>4. TurnInv'
    BY <1>3, <2>1, <2>2, <2>3 DEF Preflight, BatchInv, TurnInv, Device, Busy
  <2>5. LatestInv' /\ VerifiedInv'
    BY <1>3, <2>1, <2>2 DEF Preflight, BatchInv, LatestInv, VerifiedInv, Turned, Device
  <2>6. TapInv' /\ FallbackInv' /\ DoneInv' /\ StageInv'
    BY <1>3, <2>1 DEF Preflight, BatchInv, TapInv, FallbackInv, DoneInv, StageInv, Succeeded, Device
  <2> QED
    BY <1>1, <2>4, <2>5, <2>6 DEF BatchInv
<1>4. CASE at' \in {"baseline", "next"}
  <2>1. at' = "baseline" => batch.tool = "perform_actions"
    BY DEF Preflight
  <2>2. sent' \in [Places -> Nat] /\ sent' = sent /\ latest' = latest
        /\ (latest.stable => latest.settled)
    BY DEF Preflight, Device, BatchOK, BatchTypeOK, BatchInv, LatestInv
  <2> QED
    BY <1>1, <1>4, <2>1, <2>2, Going DEF Preflight, Busy, StageInv, Device
<1> QED
  BY <1>2, <1>3, <1>4

\* What is read of the screen.
LEMMA ReadingTyped ==
  ASSUME BatchOK, NEW b \in BOOLEAN
  PROVE  /\ Observed(b) \in Readings /\ Observed(b).at = sent /\ NoReading \in Readings
         /\ Observed(b).settled = b /\ Observed(b).stable = b /\ ~NoReading.stable
BY DEF Observed, Readings, Moments, NoReading, BatchOK, BatchTypeOK

LEMMA BaselineKeeps ==
  ASSUME BatchAssumption, BatchOK, BatchInv, Baseline PROVE BatchOK' /\ BatchInv'
<1>1. latest' = latest \/ \E b \in BOOLEAN : latest' = Observed(b)
  BY DEF Baseline
<1>2. latest' \in Readings /\ (latest' = latest \/ latest'.at = sent) /\ (latest'.stable => latest'.settled)
  BY <1>1, ReadingTyped DEF BatchOK, BatchTypeOK, BatchInv, LatestInv
<1>3. at' \in {"sending", "next", "thrown"} /\ (at' = "sending" => batch.tool = "tap_element")
      /\ (at' # "thrown" => at' = IF batch.tool = "tap_element" THEN "sending" ELSE "next")
      /\ (at' = "thrown" => latest' = latest)
  BY DEF Baseline
<1>4. batch' = batch /\ stage' = stage /\ todo' = todo /\ receipts' = receipts /\ verified' = verified
      /\ outcome' = outcome /\ up' = up /\ sent' = sent /\ field' = field /\ landing' = landing
      /\ failures' = failures /\ drops' = drops /\ at = "baseline"
  BY DEF Baseline, Device
<1>5. BatchOK'
  BY <1>2, <1>3, <1>4 DEF BatchOK, BatchTypeOK, Readings, Moments, Places, Actions
<1>6. CASE at' = "thrown"
  <2>1. Actions' = Actions /\ Places' = Places /\ K' = K /\ LastAction' = LastAction /\ Doing' = Doing
        /\ AllAccepted' = AllAccepted /\ AnyDispatched' = AnyDispatched
    BY <1>4 DEF Actions, Places, K, LastAction, Doing, AllAccepted, AnyDispatched
  <2>2. TurnInv'
    BY <1>4, <1>6, <2>1 DEF BatchInv, TurnInv, Busy
  <2>3. LatestInv' /\ FallbackInv' /\ VerifiedInv' /\ DoneInv' /\ StageInv'
    BY <1>2, <1>4, <1>6 DEF LatestInv, FallbackInv, VerifiedInv, Turned, DoneInv, StageInv, Succeeded
  <2>4. TapInv'
    BY <1>4, <1>6 DEF BatchInv, TapInv
  <2> QED
    BY <1>5, <2>2, <2>3, <2>4 DEF BatchInv
<1>7. CASE at' # "thrown"
  <2>1. sent' \in [Places -> Nat]
    BY <1>4 DEF BatchOK, BatchTypeOK
  <2>2. StageInv' /\ (at' = "sending" => stage' = "tapped")
    BY <1>3, <1>4 DEF StageInv, BatchInv, TapInv
  <2> QED
    BY <1>2, <1>3, <1>4, <1>5, <1>7, <2>1, <2>2, Going DEF Busy
<1> QED
  BY <1>6, <1>7

\* What a text action sends.
LEMMA ListsTyped ==
  /\ <<"tap", "key", "key">> \in Seq(Keys) /\ <<"tap", "key", "key", "type">> \in Seq(Keys)
  /\ <<"tap">> \in Seq(Keys) /\ <<"key", "key">> \in Seq(Keys)
  /\ <<"tap", "tap", "tap", "key">> \in Seq(Keys) /\ <<"type">> \in Seq(Keys)
<1> DEFINE t == "tap"
<1> DEFINE k == "key"
<1> DEFINE y == "type"
<1>1. t \in Keys /\ k \in Keys /\ y \in Keys
  BY DEF Keys
<1> HIDE DEF t, k, y
<1>2. <<t>> \in Seq(Keys) /\ <<y>> \in Seq(Keys) /\ <<k, k>> \in Seq(Keys)
  BY <1>1
<1>3. <<t, k, k>> \in Seq(Keys)
  BY <1>1
<1>4. <<t, k, k, y>> \in Seq(Keys)
  BY <1>1
<1>5. <<t, t, t, k>> \in Seq(Keys)
  BY <1>1
<1> QED
  BY <1>2, <1>3, <1>4, <1>5 DEF t, k, y

LEMMA BeginActionKeeps ==
  ASSUME BatchAssumption, BatchOK, BatchInv, BeginAction PROVE BatchOK' /\ BatchInv'
<1>1. /\ at' \in {"sending", "waiting", "resolving"}
      /\ stage' \in {"receipt", stage} /\ (at' = "sending" => stage' = "receipt")
      /\ todo' \in {todo, <<"raw">>, <<"key">>}
      /\ at' \in {"sending", "waiting"} => Doing.kind # "tap"
  BY DEF BeginAction, Inputs
<1>2. <<"raw">> \in Seq(Keys) /\ <<"key">> \in Seq(Keys)
  BY DEF Keys
<1>3. batch' = batch /\ receipts' = receipts /\ verified' = verified /\ latest' = latest /\ outcome' = outcome
      /\ up' = up /\ sent' = sent /\ field' = field /\ landing' = landing /\ at = "next"
  BY DEF BeginAction, Device
<1>4. BatchOK'
  BY <1>1, <1>2, <1>3, SameCall DEF BatchOK, BatchTypeOK, Keys
<1>5. batch.tool = "tap_element" => Doing.kind = "tap"
  <2>1. K \in Places
    BY <1>3 DEF BatchInv, TurnInv, Busy
  <2> QED
    BY <2>1, CallFacts DEF Doing
<1>6. StageInv'
  <2>1. at' = "waiting" => Doing.kind = "wait"
    BY DEF BeginAction, Inputs
  <2>2. Doing' = Doing
    BY <1>3 DEF Doing, Actions, K
  <2> QED
    BY <1>1, <2>1, <2>2 DEF StageInv
<1>7. sent' \in [Places -> Nat] /\ (latest'.stable => latest'.settled)
  BY <1>3 DEF BatchOK, BatchTypeOK, BatchInv, LatestInv
<1> QED
  BY <1>1, <1>3, <1>4, <1>5, <1>6, <1>7, Going DEF Busy

\* The call fails while an action is at hand.
LEMMA Throwing ==
  ASSUME BatchAssumption, BatchOK, BatchInv, Busy, at' = "thrown", batch' = batch, receipts' = receipts,
         \A j \in Places : j # K => sent'[j] = sent[j], latest'.stable => latest'.settled
  PROVE  BatchInv'
<1>1. Actions' = Actions /\ Places' = Places /\ K' = K /\ AllAccepted' = AllAccepted
  BY SameCall DEF K, AllAccepted
<1>2. TurnInv'
  <2>1. K \in Places /\ AllAccepted
    BY DEF BatchInv, TurnInv
  <2>2. \A j \in Places : j > K => sent'[j] = 0
    <3>1. \A j \in Places : j > K => j # K /\ sent[j] = 0
      BY CallFacts DEF BatchInv, TurnInv
    <3> QED
      BY <3>1
  <2> QED
    BY <1>1, <2>1, <2>2 DEF BatchInv, TurnInv, Busy
<1>3. LatestInv' /\ FallbackInv' /\ VerifiedInv' /\ DoneInv' /\ StageInv'
  BY DEF LatestInv, FallbackInv, VerifiedInv, Turned, DoneInv, StageInv, Succeeded
<1>4. TapInv'
  BY DEF BatchInv, TapInv
<1> QED
  BY <1>2, <1>3, <1>4 DEF BatchInv

Verifications == [status : {"none", "matched", "mismatch", "unstable"}, at : Moments]

LEMMA EndingTyped ==
  ASSUME BatchAssumption, BatchOK, NEW r \in Answers, Concluded(r), batch' = batch, outcome' = outcome,
         latest' \in Readings, sent' \in [Places -> Nat], verified' \in Verifications,
         up' \in BOOLEAN, field' = field, landing' \in Seq(Keys)
  PROVE  BatchOK'
<1>1. receipts' \in Seq(Answers)
  BY Answered DEF Concluded
<1>2. todo' \in Seq(Keys)
  BY DEF Concluded
<1> QED
  BY <1>1, <1>2, SameCall DEF BatchOK, BatchTypeOK, Concluded, Answers, Verifications, Keys

LEMMA AnswersTyped ==
  /\ Accepted \in Answers /\ Uncertain \in Answers
  /\ \A b \in BOOLEAN : Unsent(b) \in Answers
  /\ NotFound \in Verifications
BY DEF Accepted, Uncertain, Unsent, Answers, NotFound, Verifications, Moments

LEMMA WaitKeeps ==
  ASSUME BatchAssumption, BatchOK, BatchInv, Wait PROVE BatchOK' /\ BatchInv'
<1>1. PICK r \in Answers : Receipt(r) /\ (r.accepted => latest' = Observed(FALSE))
                           /\ (latest' = latest \/ latest' = Observed(FALSE))
                           /\ r \in {Unsent(TRUE), Uncertain}
  BY AnswersTyped DEF Wait, Uncertain
<1>2. batch' = batch /\ outcome' = outcome /\ sent' = sent /\ up' = up /\ field' = field /\ landing' = landing
      /\ at = "waiting"
  BY DEF Wait, Device
<1>3. latest' \in Readings /\ (~r.accepted \/ latest'.at = sent') /\ (latest'.stable => latest'.settled)
  BY <1>1, <1>2, ReadingTyped DEF BatchOK, BatchTypeOK, BatchInv, LatestInv
<1>4. Concluded(r) /\ verified' = NotFound
  BY <1>1 DEF Receipt, Concluded
<1>5. batch.tool # "tap_element"
  BY <1>2 DEF BatchInv, TapInv
<1>6. BatchOK'
  BY <1>2, <1>3, <1>4, EndingTyped, AnswersTyped DEF BatchOK, BatchTypeOK, Keys
<1>7. sent' \in [Places -> Nat] /\ Busy
  BY <1>2 DEF BatchOK, BatchTypeOK, Busy
<1>8. Doing.kind = "wait" \/ ~r.accepted
  BY <1>2 DEF BatchInv, StageInv
<1> QED
  BY <1>2, <1>3, <1>4, <1>5, <1>6, <1>7, <1>8, Ending

LEMMA ResolveKeeps ==
  ASSUME BatchAssumption, BatchOK, BatchInv, Resolve PROVE BatchOK' /\ BatchInv'
<1>1. batch' = batch /\ outcome' = outcome /\ sent' = sent /\ up' = up /\ field' = field /\ landing' = landing
      /\ at = "resolving" /\ sent' \in [Places -> Nat] /\ Busy
  BY DEF Resolve, Device, Busy, BatchOK, BatchTypeOK
<1>2. latest' \in Readings /\ (latest'.stable => latest'.settled)
  <2>1. latest' = latest \/ latest' = Observed(FALSE) \/ latest' = Observed(TRUE)
    BY DEF Resolve
  <2> QED
    BY <2>1, ReadingTyped DEF BatchOK, BatchTypeOK, BatchInv, LatestInv
<1>3. K \in Places
  BY <1>1 DEF BatchInv, TurnInv
<1>4. batch.tool = "tap_element" => Doing.kind = "tap"
  BY <1>3, CallFacts DEF Doing
<1>5. ASSUME NEW r \in Answers, Receipt(r), ~r.accepted, batch.tool = "tap_element" => ~r.dispatched
      PROVE  BatchOK' /\ BatchInv'
  <2>1. Concluded(r) /\ verified' = NotFound
    BY <1>5 DEF Receipt, Concluded
  <2>2. BatchOK'
    BY <1>1, <1>2, <2>1, EndingTyped, AnswersTyped DEF BatchOK, BatchTypeOK, Keys
  <2> QED
    BY <1>1, <1>2, <1>5, <2>1, <2>2, Ending
<1>6. CASE Receipt(Unsent(FALSE))
  BY <1>5, <1>6, AnswersTyped DEF Unsent
<1>7. CASE batch.tool # "tap_element" /\ Receipt(Uncertain)
  BY <1>5, <1>7, AnswersTyped DEF Uncertain
<1>8. CASE batch.tool = "tap_element" /\ at' = "thrown" /\ todo' = todo /\ stage' = stage
           /\ receipts' = receipts /\ verified' = verified
  <2>1. BatchOK'
    BY <1>1, <1>2, <1>8, SameCall DEF BatchOK, BatchTypeOK
  <2> QED
    BY <1>1, <1>2, <1>8, <2>1, Throwing
<1>9. CASE /\ latest' = Observed(TRUE) /\ receipts' = receipts /\ verified' = verified
           /\ \/ at' = "sending" /\ todo' = <<"tap", "key", "key">> /\ stage' = "clear1" /\ Doing.kind # "tap"
              \/ at' = "sending" /\ todo' = <<"tap", "key", "key", "type">> /\ stage' = "replace"
                    /\ Doing.kind # "tap"
              \/ at' \in {"sending", "baseline"} /\ todo' = <<"tap">> /\ stage' = "tapped"
  <2>1. todo' \in Seq(Keys)
    BY <1>9, ListsTyped
  <2>2. BatchOK'
    BY <1>1, <1>2, <1>9, <2>1, SameCall DEF BatchOK, BatchTypeOK, Keys
  <2>3. latest'.at = sent'
    BY <1>1, <1>9, ReadingTyped
  <2>4. StageInv'
    BY <1>9 DEF StageInv
  <2> QED
    BY <1>1, <1>2, <1>4, <1>9, <2>2, <2>3, <2>4, Going DEF Busy
<1> QED
  BY <1>6, <1>7, <1>8, <1>9 DEF Resolve, Inputs

\* An error of the input at hand ends the action, or the call.
LEMMA BrokenKeeps ==
  ASSUME BatchAssumption, BatchOK, BatchInv, at = "sending", NEW r \in Answers, Broken(r), ~r.accepted,
         batch' = batch, outcome' = outcome, up' = up, field' = field, landing' \in Seq(Keys),
         latest' \in Readings, latest'.stable => latest'.settled,
         sent' \in [Places -> Nat], \A j \in Places : j # K => sent'[j] = sent[j]
  PROVE  BatchOK' /\ BatchInv'
<1>1. CASE batch.tool = "tap_element"
  <2>1. at' = "thrown" /\ todo' = todo /\ stage' = stage /\ receipts' = receipts /\ verified' = verified
    BY <1>1 DEF Broken
  <2>2. BatchOK'
    BY <2>1, SameCall DEF BatchOK, BatchTypeOK, Keys
  <2> QED
    BY <2>1, <2>2, Throwing DEF Busy
<1>2. CASE batch.tool # "tap_element"
  <2>1. Concluded(r) /\ verified' = NotFound
    BY <1>2 DEF Broken, Receipt, Concluded
  <2>2. BatchOK'
    BY <2>1, EndingTyped, AnswersTyped DEF BatchOK, BatchTypeOK
  <2> QED
    BY <1>2, <2>1, <2>2, Ending DEF Busy
<1> QED
  BY <1>1, <1>2

LEMMA RefuseKeeps ==
  ASSUME BatchAssumption, BatchOK, BatchInv, Refuse PROVE BatchOK' /\ BatchInv'
<1>1. \E r \in Answers : Broken(r) /\ ~r.accepted
  BY AnswersTyped DEF Refuse, Unsent, Uncertain
<1>2. batch' = batch /\ outcome' = outcome /\ sent' = sent /\ up' = up /\ field' = field /\ landing' = landing
      /\ at = "sending" /\ latest' = latest
  BY DEF Refuse, Device
<1>3. landing' \in Seq(Keys) /\ latest' \in Readings /\ sent' \in [Places -> Nat]
      /\ (latest'.stable => latest'.settled)
  BY <1>2 DEF BatchOK, BatchTypeOK, Keys, BatchInv, LatestInv
<1> QED
  BY <1>1, <1>2, <1>3, BrokenKeeps

\* An input has reached the device, or may have.
LEMMA Reached ==
  ASSUME BatchAssumption, BatchOK, BatchInv, at = "sending", todo # <<>>,
         sent' = [sent EXCEPT ![K] = @ + 1],
         latest' = IF Doing.kind = "rotate" THEN latest ELSE NoReading
  PROVE  /\ K \in Places
         /\ sent' \in [Places -> Nat] /\ \A j \in Places : j # K => sent'[j] = sent[j]
         /\ Head(todo) \in Keys /\ Tail(todo) \in Seq(Keys)
         /\ Append(landing, Head(todo)) \in Seq(Keys)
         /\ latest' \in Readings /\ (latest' = NoReading \/ Doing.kind = "rotate")
         /\ latest'.stable => latest'.settled
<1>1. K \in Places
  BY DEF BatchInv, TurnInv, Busy
<1>2. sent' \in [Places -> Nat] /\ \A j \in Places : j # K => sent'[j] = sent[j]
  BY <1>1 DEF BatchOK, BatchTypeOK
<1>3. todo \in Seq(Keys) /\ landing \in Seq(Keys)
  BY DEF BatchOK, BatchTypeOK, Keys
<1>4. Head(todo) \in Keys /\ Tail(todo) \in Seq(Keys)
  BY <1>3, Inhabited
<1>5. Append(landing, Head(todo)) \in Seq(Keys)
  BY <1>3, <1>4, AppendProperties
<1>6. /\ latest' \in Readings /\ (latest' = NoReading \/ Doing.kind = "rotate")
      /\ latest'.stable => latest'.settled
  BY ReadingTyped DEF BatchOK, BatchTypeOK, BatchInv, LatestInv
<1> QED
  BY <1>1, <1>2, <1>4, <1>5, <1>6

LEMMA SendFailsKeeps ==
  ASSUME BatchAssumption, BatchOK, BatchInv, SendFails PROVE BatchOK' /\ BatchInv'
<1>1. at = "sending" /\ todo # <<>> /\ sent' = [sent EXCEPT ![K] = @ + 1]
      /\ latest' = (IF Doing.kind = "rotate" THEN latest ELSE NoReading)
      /\ batch' = batch /\ outcome' = outcome /\ up' = up /\ field' = field /\ Broken(Uncertain)
      /\ landing' \in {landing, Append(landing, Head(todo))}
  BY DEF SendFails
<1>2. landing' \in Seq(Keys)
  BY <1>1, Reached DEF BatchOK, BatchTypeOK, Keys
<1>3. ~Uncertain.accepted
  BY DEF Uncertain
<1> QED
  BY <1>1, <1>2, <1>3, Reached, BrokenKeeps, AnswersTyped

LEMMA SendKeeps ==
  ASSUME BatchAssumption, BatchOK, BatchInv, Send PROVE BatchOK' /\ BatchInv'
<1>1. at = "sending" /\ todo # <<>> /\ sent' = [sent EXCEPT ![K] = @ + 1]
      /\ latest' = (IF Doing.kind = "rotate" THEN latest ELSE NoReading)
      /\ batch' = batch /\ outcome' = outcome /\ up' = up /\ field' = field
      /\ landing' = Append(landing, Head(todo)) /\ Busy
  BY DEF Send, Busy
<1>2. /\ K \in Places
      /\ sent' \in [Places -> Nat] /\ \A j \in Places : j # K => sent'[j] = sent[j]
      /\ Tail(todo) \in Seq(Keys) /\ landing' \in Seq(Keys)
      /\ latest' \in Readings /\ (latest' = NoReading \/ Doing.kind = "rotate")
      /\ latest'.stable => latest'.settled
  BY <1>1, Reached
<1>3. CASE Receipt(Accepted)
  <2>1. Concluded(Accepted) /\ verified' = NotFound /\ Accepted.accepted
    BY <1>3 DEF Receipt, Concluded, Accepted
  <2>2. BatchOK'
    BY <1>1, <1>2, <2>1, EndingTyped, AnswersTyped DEF BatchOK, BatchTypeOK
  <2> QED
    BY <1>1, <1>2, <2>1, <2>2, Ending, AnswersTyped
<1>4. CASE /\ stage' = stage /\ receipts' = receipts /\ verified' = verified
           /\ \/ at' = "sending" /\ todo' = Tail(todo) /\ Len(todo) > 1
              \/ at' = "verifying" /\ batch.tool = "perform_actions" /\ todo' = <<>>
              \/ at' = "reading" /\ todo' = <<>> /\ stage \in TextStages
  <2>1. todo' \in Seq(Keys)
    <3>1. <<>> \in Seq(Keys)
      OBVIOUS
    <3> QED
      BY <1>2, <1>4, <3>1
  <2>2. BatchOK'
    BY <1>1, <1>2, <1>4, <2>1, SameCall DEF BatchOK, BatchTypeOK, Keys
  <2>4. StageInv'
    BY <1>4 DEF StageInv
  <2>5. batch.tool = "tap_element" => stage = "tapped"
    BY <1>1 DEF BatchInv, TapInv
  <2>6. at' \notin {"done", "thrown", "observing", "retrying"} /\ Busy'
    BY <1>1, <1>4 DEF Busy
  <2>7. batch.tool = "tap_element" =>
            (at' \in {"sending", "baseline"} => stage' = "tapped") /\ at' \notin {"waiting", "reading"}
    BY <1>4, <2>5 DEF TextStages
  <2> QED
    BY <1>1, <1>2, <1>4, <2>2, <2>4, <2>6, <2>7, Going
<1>5. stage \in TextStages \cup {"receipt", "tapped"}
  BY DEF BatchOK, BatchTypeOK, TextStages
<1>6. CASE Len(todo) > 1
  <2>1. stage' = stage /\ receipts' = receipts /\ verified' = verified /\ at' = at /\ todo' = Tail(todo)
    BY <1>6 DEF Send
  <2> QED
    BY <1>1, <1>4, <1>6, <2>1
<1>7. CASE ~(Len(todo) > 1) /\ stage = "receipt"
  BY <1>3, <1>7 DEF Send
<1>8. CASE ~(Len(todo) > 1) /\ stage = "tapped"
  BY <1>3, <1>4, <1>8 DEF Send
<1>9. CASE ~(Len(todo) > 1) /\ stage \in TextStages
  BY <1>4, <1>9 DEF Send, TextStages
<1> QED
  BY <1>5, <1>6, <1>7, <1>8, <1>9

LEMMA TextReceiptKeeps ==
  ASSUME BatchAssumption, BatchOK, BatchInv, at = "reading", NEW r \in Answers, NEW b \in BOOLEAN,
         TextReceipt(r, b), batch' = batch, outcome' = outcome, sent' = sent, up' = up, field' = field,
         landing' = landing, latest' = Observed(b), r.accepted => b
  PROVE  BatchOK' /\ BatchInv'
<1>1. Concluded(r) /\ (verified' = NotFound \/ verified' = [status |-> "matched", at |-> sent])
  BY DEF TextReceipt, Concluded
<1>2. sent \in Moments /\ sent' \in [Places -> Nat] /\ landing' \in Seq(Keys) /\ up' \in BOOLEAN
  BY DEF Moments, BatchOK, BatchTypeOK, Keys
<1>3. verified' \in Verifications /\ (verified' = NotFound \/ verified'.at = sent')
  BY <1>1, <1>2, AnswersTyped DEF Verifications
<1>4. latest' \in Readings /\ latest'.at = sent' /\ (latest'.stable => latest'.settled)
      /\ (latest'.settled \/ ~r.accepted)
  BY ReadingTyped
<1>5. BatchOK'
  BY <1>1, <1>2, <1>3, <1>4, EndingTyped
<1>6. batch.tool # "tap_element" /\ Busy
  BY DEF BatchInv, TapInv, Busy
<1> QED
  BY <1>1, <1>2, <1>3, <1>4, <1>5, <1>6, Ending

LEMMA ReadKeeps ==
  ASSUME BatchAssumption, BatchOK, BatchInv, Read PROVE BatchOK' /\ BatchInv'
<1>1. batch' = batch /\ outcome' = outcome /\ sent' = sent /\ up' = up /\ field' = field /\ landing' = landing
      /\ at = "reading" /\ sent' \in [Places -> Nat] /\ Busy
  BY DEF Read, Device, Busy, BatchOK, BatchTypeOK
<1>2. batch.tool # "tap_element" /\ stage \in TextStages
  BY <1>1 DEF BatchInv, TapInv, StageInv
<1>3. CASE Receipt(Uncertain) /\ latest' = latest
  <2>1. Concluded(Uncertain) /\ verified' = NotFound /\ ~Uncertain.accepted
    BY <1>3 DEF Receipt, Concluded, Uncertain
  <2>2. latest' \in Readings /\ landing' \in Seq(Keys) /\ up' \in BOOLEAN
        /\ (latest'.stable => latest'.settled)
    BY <1>1, <1>3 DEF BatchOK, BatchTypeOK, Keys, BatchInv, LatestInv
  <2>3. BatchOK'
    BY <1>1, <1>3, <2>1, <2>2, EndingTyped, AnswersTyped
  <2> QED
    BY <1>1, <1>2, <2>1, <2>2, <2>3, Ending, AnswersTyped
<1>4. ASSUME NEW b \in BOOLEAN, NEW present \in BOOLEAN, NEW value,
             b => value = field, latest' = Observed(b), Decide(b, present, value)
      PROVE  BatchOK' /\ BatchInv'
  <2>1. \/ /\ at' = "sending" /\ receipts' = receipts /\ verified' = verified
           /\ \/ stage' \in {"clear1", "clear2", "clear3"}
                 /\ todo' \in {<<"key", "key">>, <<"tap", "tap", "tap", "key">>, <<"tap", "key", "key">>}
              \/ stage' = "retype" /\ todo' = <<"type">>
        \/ \E r \in Answers : TextReceipt(r, b) /\ (r.accepted => b)
    <3> DEFINE ended(ok) == TextReceipt([accepted |-> ok, dispatched |-> TRUE], b)
    <3>1. ASSUME NEW ok \in BOOLEAN, ended(ok), ok => b PROVE \E r \in Answers : TextReceipt(r, b) /\ (r.accepted => b)
      <4>1. [accepted |-> ok, dispatched |-> TRUE] \in Answers
        BY DEF Answers
      <4> QED
        BY <3>1, <4>1
    <3>2. ASSUME NEW cleared \in BOOLEAN, ClearEnds(b, cleared)
          PROVE  \/ /\ at' = "sending" /\ receipts' = receipts /\ verified' = verified
                    /\ stage' = "retype" /\ todo' = <<"type">>
                 \/ \E r \in Answers : TextReceipt(r, b) /\ (r.accepted => b)
      <4>1. (Doing.kind = "clear" /\ b /\ cleared) \in BOOLEAN
        OBVIOUS
      <4> QED
        BY <3>1, <3>2, <4>1 DEF ClearEnds, Inputs
    <3> DEFINE cleared == present /\ value = Empty
    <3> DEFINE right == b /\ present /\ value = Written
    <3>3. cleared \in BOOLEAN /\ right \in BOOLEAN
      OBVIOUS
    <3>4. CASE stage = "clear1" /\ ~cleared /\ present
      BY <1>4, <3>4 DEF Decide, Inputs
    <3>5. CASE stage = "clear2" /\ ~cleared /\ present
      BY <1>4, <3>5 DEF Decide, Inputs
    <3>6. CASE stage = "replace" /\ b /\ present /\ ~right
      BY <1>4, <3>6 DEF Decide, Inputs
    <3>7. CASE stage \in {"clear1", "clear2", "clear3"} /\ (stage = "clear3" \/ cleared \/ ~present)
      <4>1. ClearEnds(b, cleared)
        BY <1>4, <3>7 DEF Decide
      <4> QED
        BY <3>2, <3>3, <4>1
    <3>8. CASE stage \in {"replace", "retype"} /\ ~(stage = "replace" /\ b /\ present /\ ~right)
      <4>1. ended(right)
        BY <1>4, <3>8 DEF Decide
      <4> QED
        BY <3>1, <3>3, <4>1
    <3> QED
      BY <1>2, <3>4, <3>5, <3>6, <3>7, <3>8 DEF TextStages
  <2>2. CASE \E r \in Answers : TextReceipt(r, b) /\ (r.accepted => b)
    BY <1>1, <1>4, <2>2, TextReceiptKeeps
  <2>3. CASE /\ at' = "sending" /\ receipts' = receipts /\ verified' = verified
             /\ \/ stage' \in {"clear1", "clear2", "clear3"}
                   /\ todo' \in {<<"key", "key">>, <<"tap", "tap", "tap", "key">>, <<"tap", "key", "key">>}
                \/ stage' = "retype" /\ todo' = <<"type">>
    <3>1. todo' \in Seq(Keys) /\ latest' \in Readings /\ latest'.at = sent' /\ (latest'.stable => latest'.settled)
      BY <1>1, <1>4, <2>3, ListsTyped, ReadingTyped
    <3>2. stage' \in {"clear1", "clear2", "clear3", "retype"}
      BY <2>3
    <3>3. BatchOK'
      BY <1>1, <2>3, <3>1, <3>2, SameCall DEF BatchOK, BatchTypeOK, Keys
    <3>4. StageInv'
      BY <1>1, <1>4, <2>3 DEF StageInv
    <3> QED
      BY <1>1, <1>2, <2>3, <3>1, <3>3, <3>4, Going DEF Busy
  <2> QED
    BY <2>1, <2>2, <2>3
<1> QED
  BY <1>3, <1>4 DEF Read

\* After the last action: an observation, or the answer.
LEMMA Answering ==
  ASSUME BatchAssumption, BatchOK, BatchInv, at \in {"observing", "retrying", "verifying"},
         batch' = batch, receipts' = receipts, sent' = sent, verified' = verified,
         at' \in {"done", "thrown", "retrying", "verifying"}, at' = "retrying" => at = "observing",
         at' = "verifying" => batch.tool = "tap_element" /\ AllAccepted,
         latest' = latest \/ latest' = NoReading \/ latest'.at = sent, latest'.stable => latest'.settled,
         DoneInv'
  PROVE  BatchInv'
<1>1. Actions' = Actions /\ Places' = Places /\ K' = K /\ LastAction' = LastAction /\ Doing' = Doing
      /\ AllAccepted' = AllAccepted /\ AnyDispatched' = AnyDispatched
  BY SameCall DEF K, LastAction, Doing, Actions, AllAccepted, AnyDispatched
<1>2. AnyDispatched => receipts # <<>>
  BY DEF AnyDispatched
<1>3. TurnInv'
  <2>1. ~Busy'
    BY <1>1 DEF Busy
  <2> QED
    BY <1>1, <1>2, <2>1 DEF BatchInv, TurnInv
<1>4. LatestInv'
  <2>1. CASE latest' = NoReading \/ latest'.at = sent
    BY <2>1 DEF LatestInv
  <2>2. CASE latest' = latest
    BY <1>1, <2>2 DEF BatchInv, LatestInv, Turned
  <2> QED
    BY <2>1, <2>2
<1>5. VerifiedInv' /\ FallbackInv' /\ StageInv'
  BY DEF BatchInv, VerifiedInv, FallbackInv, StageInv
<1>6. TapInv'
  BY <1>1 DEF BatchInv, TapInv
<1> QED
  BY <1>3, <1>4, <1>5, <1>6 DEF BatchInv

LEMMA CountTyped ==
  ASSUME BatchAssumption, BatchOK PROVE Counted \in Nat
<1> DEFINE S == {j \in DOMAIN receipts : receipts[j].dispatched}
<1>1. IsFiniteSet(1..Len(receipts))
  <2>1. Len(receipts) \in Int /\ 1 \in Int
    BY CallFacts
  <2> QED
    BY <2>1, FS_Interval, Zenon
<1>2. S \subseteq 1..Len(receipts)
  BY CallFacts
<1>3. IsFiniteSet(S)
  BY <1>1, <1>2, FS_Subset
<1>4. Cardinality(S) \in Nat
  BY <1>3, FS_CardinalityType
<1> QED
  BY <1>4 DEF Counted

\* The one action of tap_element was accepted, if it was dispatched.
LEMMA TapFacts ==
  ASSUME BatchAssumption, BatchOK, BatchInv, batch.tool = "tap_element"
  PROVE  /\ receipts # <<>> => LastAction.kind = "tap"
         /\ K \in Places => Doing.kind = "tap"
         /\ AnyDispatched => AllAccepted
<1>1. Len(Actions) = 1 /\ Actions[1].kind = "tap" /\ Len(receipts) <= 1
  BY CallFacts DEF BatchInv, TurnInv
<1>2. receipts # <<>> => Len(receipts) = 1
  BY <1>1, CallFacts, Inhabited
<1>3. K \in Places => K = 1
  BY <1>1, CallFacts
<1>4. ASSUME AnyDispatched PROVE AllAccepted
  <2>1. PICK j \in DOMAIN receipts : receipts[j].dispatched
    BY <1>4 DEF AnyDispatched
  <2>2. receipts[j].accepted
    BY <2>1 DEF BatchInv, TapInv
  <2>3. \A i \in DOMAIN receipts : i = j
    BY <1>1, <2>1, CallFacts
  <2> QED
    BY <2>2, <2>3 DEF AllAccepted
<1> QED
  BY <1>1, <1>2, <1>3, <1>4 DEF LastAction, Doing

\* What the session knows is of the inputs sent so far, except after a rotation.
LEMMA LatestIsRecent ==
  ASSUME BatchAssumption, BatchOK, BatchInv, latest # NoReading, AllAccepted, receipts # <<>>,
         LastAction.kind # "rotate",
         \/ at \in {"observing", "retrying"}
         \/ at = "verifying" /\ batch.tool = "tap_element"
  PROVE  latest.at = sent
<1>1. CASE at \in {"observing", "retrying"}
  <2>1. K \notin Places
    BY <1>1, CallFacts DEF BatchInv, TurnInv
  <2> QED
    BY <1>1, <2>1 DEF BatchInv, LatestInv, Turned
<1>2. CASE at = "verifying" /\ batch.tool = "tap_element"
  BY <1>2, TapFacts DEF BatchInv, LatestInv, Turned
<1> QED
  BY <1>1, <1>2

LEMMA ConcludeKeeps ==
  ASSUME BatchAssumption, BatchOK, BatchInv, at \in {"observing", "retrying"}, AnyDispatched,
         NEW sight \in Readings, Conclude(sight),
         sight.stable /\ AllAccepted /\ LastAction.kind # "rotate" =>
            sight.at = sent /\ (LastAction.kind # "wait" => sight.settled),
         batch' = batch, receipts' = receipts, sent' = sent, verified' = verified, stage' = stage,
         todo' = todo, latest' \in Readings, latest' = latest \/ latest'.at = sent,
         latest'.stable => latest'.settled, up' = up, field' = field, landing' = landing
  PROVE  BatchOK' /\ BatchInv'
<1> DEFINE vouched == LastAction.kind = "tap" /\ verified.status \in {"matched", "mismatch"}
<1> DEFINE trusted == Vouched(sight, vouched, verified.at)
<1>1. trusted \in Readings
  BY DEF Vouched, Readings, BatchOK, BatchTypeOK
<1>2. trusted.stable /\ AllAccepted /\ LastAction.kind # "rotate" =>
        trusted.at = sent /\ (LastAction.kind # "wait" => trusted.settled)
  BY DEF Vouched, BatchInv, VerifiedInv
<1>3. Counted \in Nat
  BY CountTyped
<1>4. AllAccepted \in BOOLEAN
  BY DEF AllAccepted
<1> HIDE DEF trusted, vouched
<1>5. CASE batch.tool = "tap_element" /\ LastAction.verify
  <2>1. at' = "verifying" /\ outcome' = [hardStop |-> FALSE, seen |-> sight, count |-> Counted]
    BY <1>5 DEF Conclude
  <2>2. BatchOK'
    BY <1>3, <2>1, SameCall DEF BatchOK, BatchTypeOK
  <2>3. DoneInv'
    BY <2>1 DEF DoneInv, Succeeded
  <2>4. AllAccepted
    BY <1>5, TapFacts
  <2> QED
    BY <1>5, <2>1, <2>2, <2>3, <2>4, Answering
<1>6. CASE ~(batch.tool = "tap_element" /\ LastAction.verify)
  <2>1. Return(~AllAccepted \/ ~trusted.stable, trusted)
    BY <1>6 DEF Conclude, trusted, vouched
  <2>2. at' = "done" /\ outcome'.seen = trusted /\ (outcome'.hardStop <=> ~AllAccepted \/ ~trusted.stable)
    BY <2>1 DEF Return
  <2>3. outcome' \in [hardStop : BOOLEAN, seen : Readings, count : Nat]
    BY <1>1, <1>3, <2>1 DEF Return
  <2>4. BatchOK'
    BY <2>2, <2>3, SameCall DEF BatchOK, BatchTypeOK
  <2>5. DoneInv'
    <3>1. LastAction' = LastAction
      BY DEF LastAction, Actions
    <3>2. Succeeded' => AllAccepted /\ trusted.stable
      BY <2>2 DEF Succeeded
    <3> QED
      BY <1>2, <2>2, <3>1, <3>2 DEF DoneInv
  <2> QED
    BY <2>2, <2>4, <2>5, Answering
<1> QED
  BY <1>5, <1>6

LEMMA ObserveKeeps ==
  ASSUME BatchAssumption, BatchOK, BatchInv, Observe PROVE BatchOK' /\ BatchInv'
<1>1. batch' = batch /\ receipts' = receipts /\ sent' = sent /\ verified' = verified /\ stage' = stage
      /\ todo' = todo /\ up' = up /\ field' = field /\ landing' = landing
      /\ at \in {"observing", "retrying"} /\ AnyDispatched
  BY DEF Observe, Device
<1>2. receipts # <<>>
  BY <1>1 DEF AnyDispatched
<1>3. latest \in Readings
  BY DEF BatchOK, BatchTypeOK
<1>4. latest # NoReading /\ AllAccepted /\ LastAction.kind # "rotate" => latest.at = sent
  BY <1>1, <1>2, LatestIsRecent
<1>5. ~NoReading.stable /\ (latest.stable => latest.settled)
  BY DEF NoReading, BatchInv, LatestInv
<1>11. at = "observing" /\ latest # NoReading /\ AllAccepted /\ LastAction.kind \notin {"rotate", "wait"}
          => latest.settled
  BY <1>1, <1>2 DEF BatchInv, FallbackInv
<1>6. CASE Verified /\ Conclude(latest) /\ latest' = latest
  BY <1>1, <1>3, <1>4, <1>5, <1>6, ConcludeKeeps
<1>7. ASSUME NEW b \in BOOLEAN, latest' = Observed(b),
             \/ at = "observing" /\ at' = "retrying" /\ outcome' = outcome
             \/ Conclude(latest')
      PROVE  BatchOK' /\ BatchInv'
  <2>1. latest' \in Readings /\ latest'.at = sent /\ (latest'.stable => latest'.settled)
    BY <1>7, ReadingTyped
  <2>2. CASE Conclude(latest')
    BY <1>1, <2>1, <2>2, ConcludeKeeps
  <2>3. CASE at = "observing" /\ at' = "retrying" /\ outcome' = outcome
    <3>1. BatchOK'
      BY <1>1, <2>1, <2>3, SameCall DEF BatchOK, BatchTypeOK
    <3>2. DoneInv'
      BY <2>3 DEF DoneInv, Succeeded
    <3> QED
      BY <1>1, <2>1, <2>3, <3>1, <3>2, Answering
  <2> QED
    BY <1>7, <2>2, <2>3
<1>8. CASE latest' = latest /\ Conclude(latest)
  BY <1>1, <1>3, <1>4, <1>5, <1>8, ConcludeKeeps
<1>9. CASE at = "observing" /\ latest' = latest /\ Conclude([latest EXCEPT !.stable = latest # NoReading])
  <2> DEFINE sight == [latest EXCEPT !.stable = latest # NoReading]
  <2>1. sight \in Readings /\ sight.at = latest.at /\ (sight.stable => latest # NoReading)
        /\ sight.settled = latest.settled
    BY <1>3 DEF Readings
  <2> HIDE DEF sight
  <2>2. Conclude(sight)
    BY <1>9 DEF sight
  <2> QED
    BY <1>1, <1>3, <1>4, <1>5, <1>9, <1>11, <2>1, <2>2, ConcludeKeeps
<1>10. CASE latest' = latest /\ at' = "thrown" /\ outcome' = outcome
  <2>1. BatchOK'
    BY <1>1, <1>10, SameCall DEF BatchOK, BatchTypeOK
  <2>2. DoneInv'
    BY <1>10 DEF DoneInv, Succeeded
  <2> QED
    BY <1>1, <1>5, <1>10, <2>1, <2>2, Answering
<1> QED
  BY <1>6, <1>7, <1>8, <1>9, <1>10 DEF Observe

LEMMA StandaloneKeeps ==
  ASSUME BatchAssumption, BatchOK, BatchInv, Standalone PROVE BatchOK' /\ BatchInv'
<1>1. batch' = batch /\ receipts' = receipts /\ sent' = sent /\ verified' = verified /\ stage' = stage
      /\ todo' = todo /\ up' = up /\ field' = field /\ landing' = landing /\ latest' = latest
      /\ at = "observing" /\ batch.tool = "standalone" /\ at' = "done"
      /\ outcome' = [hardStop |-> ~AllAccepted, seen |-> NoReading, count |-> Counted]
  BY DEF Standalone, Device, Return
<1>2. NoReading \in Readings /\ Counted \in Nat /\ AllAccepted \in BOOLEAN
  BY CountTyped, ReadingTyped DEF AllAccepted
<1>3. BatchOK'
  BY <1>1, <1>2, SameCall DEF BatchOK, BatchTypeOK
<1>4. DoneInv'
  BY <1>1 DEF DoneInv, Succeeded
<1>5. latest'.stable => latest'.settled
  BY <1>1 DEF BatchInv, LatestInv
<1> QED
  BY <1>1, <1>3, <1>4, <1>5, Answering

LEMMA UnobservedKeeps ==
  ASSUME BatchAssumption, BatchOK, BatchInv, Unobserved PROVE BatchOK' /\ BatchInv'
<1>1. batch' = batch /\ receipts' = receipts /\ sent' = sent /\ verified' = verified /\ stage' = stage
      /\ todo' = todo /\ up' = up /\ field' = field /\ landing' = landing /\ latest' = latest
      /\ at = "observing" /\ (batch.observe = "none" \/ ~AnyDispatched)
  BY DEF Unobserved, Device
<1>2. NoReading \in Readings /\ Counted \in Nat /\ AllAccepted \in BOOLEAN
  BY CountTyped, ReadingTyped DEF AllAccepted
<1>3. \/ at' = "verifying" /\ batch.tool = "tap_element" /\ AllAccepted /\ outcome' = outcome
      \/ at' = "done" /\ outcome' = [hardStop |-> ~AllAccepted, seen |-> NoReading, count |-> Counted]
  BY DEF Unobserved, Return
<1>4. BatchOK'
  <2>1. outcome' \in [hardStop : BOOLEAN, seen : Readings, count : Nat]
    <3>1. CASE outcome' = outcome
      BY <3>1 DEF BatchOK, BatchTypeOK
    <3>2. CASE outcome' = [hardStop |-> ~AllAccepted, seen |-> NoReading, count |-> Counted]
      <4>1. (~AllAccepted) \in BOOLEAN
        OBVIOUS
      <4> QED
        BY <1>2, <3>2, <4>1
    <3> QED
      BY <1>3, <3>1, <3>2
  <2> QED
    BY <1>1, <1>3, <2>1, SameCall DEF BatchOK, BatchTypeOK
<1>5. DoneInv'
  BY <1>1, <1>3 DEF DoneInv, Succeeded, AnyDispatched
<1>6. latest'.stable => latest'.settled
  BY <1>1 DEF BatchInv, LatestInv
<1> QED
  BY <1>1, <1>3, <1>4, <1>5, <1>6, Answering

LEMMA VerifyKeeps ==
  ASSUME BatchAssumption, BatchOK, BatchInv, Verify PROVE BatchOK' /\ BatchInv'
<1>1. batch' = batch /\ sent' = sent /\ up' = up /\ field' = field /\ landing' = landing
      /\ at = "verifying" /\ todo' = <<>> /\ stage' = "receipt"
  BY DEF Verify, Device
<1>2. PICK matched \in BOOLEAN,
           r \in IF batch.tool = "tap_element" /\ batch.observe # "none" /\ latest.stable
                 THEN {latest}
                 ELSE {NoReading} \cup {x \in {Observed(TRUE), Observed(FALSE)} : up} :
        /\ latest' = IF r = NoReading THEN latest ELSE r
        /\ IF batch.tool = "perform_actions"
           THEN /\ receipts' = Append(receipts, [accepted |-> r.stable /\ matched, dispatched |-> TRUE])
                /\ at' = IF r.stable /\ matched /\ K < Len(Actions) THEN "next" ELSE "observing"
                /\ verified' = [status |-> IF ~r.stable THEN "unstable"
                                           ELSE IF matched THEN "matched" ELSE "mismatch", at |-> r.at]
                /\ outcome' = outcome
           ELSE TapEnds(r, r.stable /\ matched)
  BY Zenon DEF Verify
<1>3. latest \in Readings /\ sent' \in [Places -> Nat] /\ landing' \in Seq(Keys) /\ up' \in BOOLEAN
  BY <1>1 DEF BatchOK, BatchTypeOK, Keys
<1>4. \/ r = latest /\ batch.tool = "tap_element" /\ latest.stable
      \/ r \in {NoReading, Observed(TRUE), Observed(FALSE)}
  BY <1>2
<1>5. r \in Readings /\ latest' \in Readings /\ (r.stable => r.settled) /\ (latest'.stable => latest'.settled)
  BY <1>2, <1>3, <1>4, ReadingTyped DEF BatchInv, LatestInv
<1>6. ~NoReading.stable /\ NoReading.at = <<>>
  BY DEF NoReading
<1>7. CASE batch.tool = "perform_actions"
  <2> DEFINE given == [accepted |-> r.stable /\ matched, dispatched |-> TRUE]
  <2>1. r \in {NoReading, Observed(TRUE), Observed(FALSE)}
    BY <1>4, <1>7
  <2>2. given \in Answers /\ (given.accepted => r.at = sent) /\ (r # NoReading => r.at = sent)
    BY <1>5, <1>6, <2>1, ReadingTyped DEF Answers, Readings
  <2>3. Concluded(given)
    BY <1>1, <1>2, <1>7 DEF Concluded
  <2>4. verified' \in Verifications
    BY <1>2, <1>5, <1>7 DEF Verifications, Readings
  <2>5. verified' = NotFound \/ verified'.at = sent' \/ verified'.status = "unstable"
    BY <1>1, <1>2, <1>6, <1>7, <2>2
  <2>6. outcome' = outcome
    BY <1>2, <1>7
  <2>7. BatchOK'
    BY <1>1, <1>3, <1>5, <2>2, <2>3, <2>4, <2>6, EndingTyped
  <2>8. (latest'.at = sent' /\ latest'.settled) \/ ~given.accepted
    BY <1>1, <1>2, <1>5, <1>6, <2>2
  <2> HIDE DEF given
  <2>9. Busy
    BY <1>1, <1>7 DEF Busy
  <2> QED
    BY <1>1, <1>3, <1>5, <1>7, <2>2, <2>3, <2>5, <2>6, <2>7, <2>8, <2>9, Ending
<1>8. CASE batch.tool # "perform_actions"
  <2>1. at' = "done" /\ receipts' = receipts /\ verified' = verified
        /\ outcome' = [outcome EXCEPT !.seen = IF r.stable THEN r ELSE @, !.hardStop = ~(r.stable /\ matched)]
    BY <1>2, <1>8 DEF TapEnds
  <2>2. outcome' \in [hardStop : BOOLEAN, seen : Readings, count : Nat]
    BY <1>5, <2>1 DEF BatchOK, BatchTypeOK, Readings
  <2>3. BatchOK'
    <3>1. <<>> \in Seq(Keys)
      OBVIOUS
    <3> QED
      BY <1>1, <1>5, <2>1, <2>2, <3>1, SameCall DEF BatchOK, BatchTypeOK, Keys
  <2>4. DoneInv'
    <3> SUFFICES ASSUME Succeeded', LastAction'.kind # "rotate" PROVE outcome'.seen.stable /\ outcome'.seen.at = sent /\ outcome'.seen.settled
      BY <1>1 DEF DoneInv
    <3>1. r.stable /\ matched /\ outcome'.seen = r
      BY <2>1 DEF Succeeded, BatchOK, BatchTypeOK
    <3>2. batch.tool = "tap_element" /\ AnyDispatched /\ LastAction' = LastAction
      BY <1>1, <1>8, <2>1, CallFacts DEF Succeeded, AnyDispatched, LastAction, Actions
    <3>3. receipts # <<>> /\ AllAccepted
      BY <3>2, TapFacts DEF AnyDispatched
    <3>4. r.at = sent
      <4>1. CASE r = latest
        <5>1. latest # NoReading
          BY <1>6, <3>1, <4>1
        <5> QED
          BY <1>1, <3>2, <3>3, <4>1, <5>1, LatestIsRecent
      <4>2. CASE r \in {Observed(TRUE), Observed(FALSE)}
        BY <4>2, ReadingTyped
      <4> QED
        BY <1>4, <1>6, <3>1, <4>1, <4>2
    <3> QED
      BY <1>5, <3>1, <3>4
  <2>5. latest' = latest \/ latest'.at = sent
    BY <1>2, <1>4, ReadingTyped
  <2> QED
    BY <1>1, <1>5, <2>1, <2>3, <2>4, <2>5, Answering
<1> QED
  BY <1>7, <1>8

LEMMA LandKeeps ==
  ASSUME BatchAssumption, BatchOK, BatchInv, Land PROVE BatchOK' /\ BatchInv'
<1>1. batch' = batch /\ at' = at /\ stage' = stage /\ todo' = todo /\ receipts' = receipts /\ verified' = verified
      /\ latest' = latest /\ outcome' = outcome /\ up' = up /\ sent' = sent /\ landing # <<>>
      /\ landing' = Tail(landing)
  BY DEF Land
<1>2. landing' \in Seq(Keys)
  BY <1>1, Inhabited DEF BatchOK, BatchTypeOK, Keys
<1>3. field' \in [old : BOOLEAN, copies : Nat]
  <2>1. Empty \in [old : BOOLEAN, copies : Nat] /\ field \in [old : BOOLEAN, copies : Nat]
    BY DEF Empty, BatchOK, BatchTypeOK
  <2>2. [field EXCEPT !.copies = @ + 1] \in [old : BOOLEAN, copies : Nat]
    BY <2>1
  <2>3. field' \in {field, Empty, [field EXCEPT !.copies = @ + 1]}
    BY DEF Land
  <2> QED
    BY <2>1, <2>2, <2>3
<1>4. BatchOK'
  BY <1>1, <1>2, <1>3, SameCall DEF BatchOK, BatchTypeOK, Keys
<1>5. TurnInv' /\ LatestInv' /\ FallbackInv' /\ VerifiedInv' /\ TapInv' /\ DoneInv'
  BY <1>1 DEF BatchInv, TurnInv, LatestInv, FallbackInv, VerifiedInv, TapInv, DoneInv, Busy, Turned, Succeeded,
     K, Places, Actions, Doing, LastAction, AllAccepted, AnyDispatched
<1>6. StageInv'
  BY <1>1 DEF BatchInv, StageInv, Doing, Actions, K
<1> QED
  BY <1>4, <1>5, <1>6 DEF BatchInv

LEMMA DisconnectKeeps ==
  ASSUME BatchAssumption, BatchOK, BatchInv, Disconnect PROVE BatchOK' /\ BatchInv'
<1>1. batch' = batch /\ at' = at /\ stage' = stage /\ todo' = todo /\ receipts' = receipts /\ verified' = verified
      /\ latest' = NoReading /\ outcome' = outcome /\ up' = FALSE /\ sent' = sent /\ landing' = landing
      /\ field' = field
  BY DEF Disconnect
<1>2. BatchOK'
  BY <1>1, SameCall, ReadingTyped DEF BatchOK, BatchTypeOK, Keys
<1>3. TurnInv' /\ FallbackInv' /\ VerifiedInv' /\ TapInv' /\ DoneInv' /\ StageInv'
  BY <1>1 DEF BatchInv, TurnInv, FallbackInv, VerifiedInv, TapInv, DoneInv, StageInv, Busy, Succeeded,
     K, Places, Actions, Doing, LastAction, AllAccepted, AnyDispatched
<1>4. LatestInv'
  BY <1>1, ReadingTyped DEF LatestInv
<1> QED
  BY <1>2, <1>3, <1>4 DEF BatchInv

LEMMA BatchStarts ==
  ASSUME BatchAssumption, BatchInit PROVE BatchOK /\ BatchInv
<1>1. batch \in Batches /\ Actions \in Seq([kind : Kinds, ref : Nat, verify : BOOLEAN]) /\ Actions # <<>>
  BY DEF BatchInit, BatchAssumption, Actions
<1>2. Len(Actions) >= 1 /\ Places = 1..Len(Actions) /\ Len(Actions) \in Nat
  BY <1>1, Inhabited, LenProperties DEF Places
<1>3. sent = [j \in Places |-> 0] /\ receipts = <<>> /\ at = "preflight" /\ stage = "receipt"
      /\ latest = NoReading /\ verified = NotFound /\ outcome = NoOutcome /\ todo = <<>> /\ landing = <<>>
      /\ up = TRUE /\ field \in [old : BOOLEAN, copies : Nat]
  <2>1. Empty \in [old : BOOLEAN, copies : Nat] /\ [old |-> TRUE, copies |-> 0] \in [old : BOOLEAN, copies : Nat]
    BY DEF Empty
  <2> QED
    BY <2>1 DEF BatchInit
<1>4. BatchOK
  <2>1. NoReading \in Readings /\ NotFound \in Verifications
    BY DEF NoReading, Readings, Moments, NotFound, Verifications
  <2>2. outcome \in [hardStop : BOOLEAN, seen : Readings, count : Nat]
    BY <1>3, <2>1 DEF NoOutcome
  <2>3. sent \in [Places -> Nat]
    BY <1>3
  <2>4. <<>> \in Seq(Keys) /\ <<>> \in Seq(Answers)
    OBVIOUS
  <2> QED
    BY <1>1, <1>3, <2>1, <2>2, <2>3, <2>4 DEF BatchOK, BatchTypeOK, Keys, Answers, Verifications
<1>5. Len(receipts) = 0 /\ K = 1 /\ DOMAIN receipts = {}
  BY <1>3 DEF K
<1>6. TurnInv
  <2>1. AllAccepted /\ K \in Places
    BY <1>2, <1>5 DEF AllAccepted
  <2>2. \A j \in Places : sent[j] = 0
    BY <1>3
  <2> QED
    BY <1>2, <1>3, <1>5, <2>1, <2>2 DEF TurnInv
<1>7. LatestInv /\ FallbackInv /\ VerifiedInv /\ TapInv /\ DoneInv /\ StageInv
  BY <1>3, <1>5 DEF LatestInv, NoReading, FallbackInv, VerifiedInv, TapInv, DoneInv, StageInv, Succeeded
<1> QED
  BY <1>4, <1>6, <1>7 DEF BatchInv

LEMMA BatchKeeps ==
  ASSUME BatchAssumption, BatchOK, BatchInv, [BatchNext]_batchVars PROVE BatchOK' /\ BatchInv'
<1>1. CASE BatchNext
  BY <1>1, PreflightKeeps, BaselineKeeps, BeginActionKeeps, ResolveKeeps, WaitKeeps, RefuseKeeps,
     SendKeeps, SendFailsKeeps, VerifyKeeps, ReadKeeps, StandaloneKeeps, UnobservedKeeps, ObserveKeeps,
     LandKeeps, DisconnectKeeps DEF BatchNext
<1>2. CASE UNCHANGED batchVars
  <2>1. BatchOK'
    BY <1>2, SameCall DEF batchVars, BatchOK, BatchTypeOK
  <2>2. TurnInv' /\ LatestInv' /\ FallbackInv' /\ VerifiedInv' /\ TapInv' /\ DoneInv' /\ StageInv'
    BY <1>2 DEF batchVars, BatchInv, TurnInv, LatestInv, FallbackInv, VerifiedInv, TapInv, DoneInv, StageInv, Busy,
       Turned, Succeeded, K, Places, Actions, Doing, LastAction, AllAccepted, AnyDispatched
  <2> QED
    BY <2>1, <2>2 DEF BatchInv
<1> QED
  BY <1>1, <1>2

\* For every batch and device, whichever inputs fail, land late or are lost with the connection: a
\* call that claims success (perform_actions, tap_element) has an observation labelled stable that was
\* made after its last input, a rotation excepted, and that had settled unless the call ended by
\* waiting; and it sends nothing after an action that was refused.
THEOREM SuccessCorrect == BatchAssumption /\ BatchSpec => []SuccessIsSeen
<1> SUFFICES ASSUME BatchAssumption PROVE BatchSpec => []SuccessIsSeen
  OBVIOUS
<1>1. BatchInit => BatchOK /\ BatchInv
  BY BatchStarts
<1>2. (BatchOK /\ BatchInv) /\ [BatchNext]_batchVars => (BatchOK /\ BatchInv)'
  BY BatchKeeps
<1>3. BatchOK /\ BatchInv => SuccessIsSeen
  <2> SUFFICES ASSUME BatchOK, BatchInv PROVE SuccessIsSeen
    OBVIOUS
  <2>1. ASSUME NEW i \in Places, NEW j \in Places, i < j, i \in DOMAIN receipts, ~receipts[i].accepted
        PROVE  sent[j] = 0
    <3>1. i = Len(receipts) /\ ~AllAccepted
      BY <2>1 DEF BatchInv, TurnInv, AllAccepted
    <3>2. j > K \/ j = K
      BY <2>1, <3>1, CallFacts
    <3> QED
      BY <3>1, <3>2 DEF BatchInv, TurnInv
  <2> QED
    BY <2>1, Zenon DEF SuccessIsSeen, BatchInv, DoneInv
<1> QED
  BY <1>1, <1>2, <1>3, PTL DEF BatchSpec

\* The records of a call of the tools keep their types.
THEOREM BatchTyped == BatchAssumption /\ BatchSpec => []BatchTypeOK
<1> SUFFICES ASSUME BatchAssumption PROVE BatchSpec => []BatchTypeOK
  OBVIOUS
<1>1. BatchInit => BatchOK /\ BatchInv
  BY BatchStarts
<1>2. (BatchOK /\ BatchInv) /\ [BatchNext]_batchVars => (BatchOK /\ BatchInv)'
  BY BatchKeeps
<1>3. BatchOK => BatchTypeOK
  BY DEF BatchOK
<1> QED
  BY <1>1, <1>2, <1>3, PTL DEF BatchSpec

\* What stays true of a list when its head is taken.
LEMMA TakesHead ==
  ASSUME NEW s \in Seq(Keys), s # <<>>
  PROVE  /\ Tail(s) \in Seq(Keys) /\ Len(Tail(s)) = Len(s) - 1 /\ Len(s) \in Nat /\ Len(s) >= 1
         /\ (Len(s) = 1 <=> Tail(s) = <<>>)
         /\ Typeless(s) => Typeless(Tail(s)) /\ Head(s) # "type"
         /\ TypesOnce(s) => TypesOnce(Tail(s)) /\ (Len(s) > 1 => Head(s) # "type")
         /\ TypesLast(s) => /\ Len(s) > 1 => TypesLast(Tail(s))
                            /\ Len(s) = 1 => Head(s) = "type"
<1>1. Len(s) \in Nat /\ DOMAIN s = 1..Len(s)
  OBVIOUS
<1>2. Len(s) >= 1
  BY Inhabited
<1>3. /\ Tail(s) \in Seq(Keys) /\ Len(Tail(s)) = Len(s) - 1
      /\ \A i \in 1..Len(Tail(s)) : Tail(s)[i] = s[i + 1]
      /\ Head(s) = s[1]
  BY HeadTailProperties
<1>4. DOMAIN Tail(s) = 1..(Len(s) - 1)
  BY <1>1, <1>2, <1>3
<1>5. Len(s) = 1 <=> Tail(s) = <<>>
  <2>1. Tail(s) = <<>> <=> Len(Tail(s)) = 0
    BY <1>3, EmptySeq
  <2> QED
    BY <1>1, <1>3, <2>1
<1>6. Typeless(s) => Typeless(Tail(s)) /\ Head(s) # "type"
  BY <1>1, <1>2, <1>3, <1>4 DEF Typeless
<1>7. TypesOnce(s) => TypesOnce(Tail(s)) /\ (Len(s) > 1 => Head(s) # "type")
  BY <1>1, <1>2, <1>3, <1>4 DEF TypesOnce
<1>8. TypesLast(s) => (Len(s) > 1 => TypesLast(Tail(s))) /\ (Len(s) = 1 => Head(s) = "type")
  BY <1>1, <1>2, <1>3, <1>5 DEF TypesLast
<1> QED
  BY <1>1, <1>2, <1>3, <1>5, <1>6, <1>7, <1>8

\* What is true of a list when an input joins it.
LEMMA Joins ==
  ASSUME NEW s \in Seq(Keys), NEW x \in Keys
  PROVE  /\ Typeless(s) /\ x # "type" => Typeless(Append(s, x))
         /\ Typeless(s) => TypesOnce(Append(s, x))
         /\ x = "type" => TypesLast(Append(s, x))
<1>1. /\ Append(s, x) \in Seq(Keys) /\ Len(Append(s, x)) = Len(s) + 1
      /\ \A i \in 1..Len(s) : Append(s, x)[i] = s[i]
      /\ Append(s, x)[Len(s) + 1] = x
  BY AppendProperties
<1>2. Len(s) \in Nat /\ DOMAIN s = 1..Len(s) /\ DOMAIN Append(s, x) = 1..(Len(s) + 1)
  BY <1>1
<1>3. \A i \in 1..(Len(s) + 1) : i \in 1..Len(s) \/ i = Len(s) + 1
  BY <1>2
<1>4. Append(s, x) # <<>>
  BY <1>1, <1>2, EmptySeq
<1> QED
  BY <1>1, <1>2, <1>3, <1>4 DEF Typeless, TypesOnce, TypesLast

\* The lists a text action sends.
LEMMA TextLists ==
  /\ \A s \in {<<>>, <<"raw">>, <<"key">>, <<"tap">>, <<"tap", "key", "key">>, <<"key", "key">>,
               <<"tap", "tap", "tap", "key">>} : Typeless(s)
  /\ \A s \in {<<"tap", "key", "key", "type">>, <<"type">>} : TypesLast(s) /\ TypesOnce(s)
  /\ Len(<<"tap", "key", "key", "type">>) = 4
BY DEF Typeless, TypesLast, TypesOnce

\* The action at hand is over.
LEMMA TextEnds ==
  ASSUME BatchAssumption, BatchOK, BatchInv, TextInv, Busy, NEW r \in Answers, Concluded(r),
         batch' = batch, field' = field, sent' \in [Places -> Nat],
         \A j \in Places : j # K => sent'[j] = sent[j],
         r.accepted /\ Fresh /\ Doing.kind # "replace" => Typeless(landing') /\ ~HasTyped,
         r.accepted /\ AllAccepted /\ at' = "observing" /\ Doing.kind \in {"clear", "replace"} => LeftInv'
  PROVE  TextInv'
<1>1. /\ Len(receipts') = K /\ K' = K + 1
      /\ AllAccepted' <=> (AllAccepted /\ r.accepted)
      /\ LastAction' = Doing
  BY Answered DEF Concluded
<1>2. K \in Places /\ AllAccepted /\ Actions' = Actions /\ Places' = Places
  BY SameCall DEF BatchInv, TurnInv
<1>3. \/ at' = "next" /\ r.accepted /\ K < Len(Actions)
      \/ at' = "observing"
  BY DEF Concluded
<1>4. CASE at' = "next" /\ r.accepted /\ K < Len(Actions)
  <2>1. sent'[K + 1] = 0
    <3>1. K + 1 \in Places /\ K + 1 > K /\ K + 1 # K
      BY <1>2, <1>4, CallFacts
    <3> QED
      BY <3>1 DEF BatchInv, TurnInv
  <2>2. BeforeInv'
    <3>1. sent'[K'] = 0 /\ stage' = "receipt"
      BY <1>1, <2>1 DEF Concluded
    <3> QED
      BY <1>4, <3>1 DEF BeforeInv
  <2>3. TodoInv' /\ SentInv' /\ LeftInv'
    BY <1>4 DEF TodoInv, SentInv, LeftInv, Busy, Concluded, Clearing
  <2>4. LandingInv'
    <3>1. Fresh' => Fresh /\ Doing.kind # "replace"
      <4>1. K' - 1 = K /\ K \in 1..K /\ \A j \in 1..(K - 1) : j \in 1..K
        BY <1>1, CallFacts
      <4>2. Fresh' => \A j \in 1..K : Actions[j].kind # "replace"
        BY <1>2, <4>1 DEF Fresh
      <4> QED
        BY <4>1, <4>2 DEF Fresh, Doing
    <3>2. Fresh' => field'.copies = 0 /\ Typeless(landing')
      BY <1>4, <3>1 DEF TextInv, LandingInv
    <3> QED
      BY <1>4, <3>2 DEF LandingInv
  <2> QED
    BY <2>2, <2>3, <2>4 DEF TextInv
<1>5. CASE at' = "observing"
  <2>1. LeftInv'
    <3>1. TextAccepted' => AllAccepted' /\ Doing.kind \in {"clear", "replace"}
      BY <1>1 DEF TextAccepted
    <3>2. CASE ~TextAccepted'
      BY <3>2 DEF LeftInv
    <3>3. CASE TextAccepted'
      BY <1>1, <1>5, <3>1, <3>3
    <3> QED
      BY <3>2, <3>3
  <2>2. ~Busy'
    BY <1>5 DEF Busy
  <2> QED
    BY <1>5, <2>1, <2>2 DEF TextInv, BeforeInv, TodoInv, SentInv, LandingInv, Concluded
<1> QED
  BY <1>3, <1>4, <1>5

\* The action at hand is refused, or fails.
LEMMA TextFails ==
  ASSUME BatchAssumption, BatchOK, BatchInv, TextInv, Busy, NEW r \in Answers, Concluded(r), ~r.accepted,
         batch' = batch, field' = field, sent' \in [Places -> Nat],
         \A j \in Places : j # K => sent'[j] = sent[j]
  PROVE  TextInv'
BY TextEnds

\* The call fails.
LEMMA TextThrown ==
  ASSUME at' = "thrown" PROVE TextInv'
BY DEF TextInv, BeforeInv, TodoInv, SentInv, LandingInv, LeftInv, Busy

\* After the last action.
LEMMA TextAnswers ==
  ASSUME TextInv, ~Busy, ~Busy', at # "thrown", at' \in {"done", "thrown", "retrying", "verifying"},
         at' # "done" => stage' \in {"receipt", "tapped"},
         batch' = batch, receipts' = receipts, sent' = sent, field' = field, landing' = landing
  PROVE  TextInv'
<1>1. TextAccepted' = TextAccepted /\ LastAction' = LastAction
  BY DEF TextAccepted, LastAction, AllAccepted, Actions
<1>2. LeftInv'
  BY <1>1 DEF TextInv, LeftInv
<1> QED
  BY <1>2 DEF TextInv, BeforeInv, TodoInv, SentInv, LandingInv

\* The action at hand is the same.
LEMMA SameAction ==
  ASSUME batch' = batch, receipts' = receipts
  PROVE  K' = K /\ Doing' = Doing /\ Actions' = Actions /\ (Fresh' <=> Fresh)
BY DEF K, Doing, Actions, Fresh

LEMMA TextStarts ==
  ASSUME BatchAssumption, BatchInit, BatchOK PROVE TextInv
<1>1. receipts = <<>> /\ todo = <<>> /\ landing = <<>> /\ at = "preflight" /\ stage = "receipt"
      /\ field.copies = 0 /\ sent = [j \in Places |-> 0]
  BY DEF BatchInit, Empty
<1>2. K = 1 /\ 1 \in Places
  <2>1. K = 1
    BY <1>1, CallFacts DEF K
  <2> QED
    BY <2>1, CallFacts
<1>3. BeforeInv
  BY <1>1, <1>2 DEF BeforeInv
<1>4. TodoInv /\ LeftInv
  BY <1>1 DEF TodoInv, LeftInv, Busy
<1>5. SentInv /\ LandingInv
  BY <1>1, TextLists DEF SentInv, LandingInv, Clearing
<1> QED
  BY <1>3, <1>4, <1>5 DEF TextInv

LEMMA TextPreflight ==
  ASSUME BatchAssumption, BatchOK, BatchInv, TextInv, Preflight PROVE TextInv'
<1>1. batch' = batch /\ stage' = stage /\ todo' = todo /\ receipts' = receipts /\ sent' = sent
      /\ field' = field /\ landing' = landing /\ at = "preflight" /\ Busy
      /\ at' \in {"done", "baseline", "next"}
  BY DEF Preflight, Device, Busy
<1>2. receipts = <<>> /\ todo = <<>> /\ sent[K] = 0 /\ stage \in {"receipt", "tapped"}
  BY <1>1 DEF TextInv, BeforeInv
<1>3. BeforeInv'
  BY <1>1, <1>2, SameAction DEF BeforeInv
<1>4. TodoInv'
  BY <1>1, <1>2, TextLists DEF TodoInv
<1>5. SentInv' /\ LeftInv'
  BY <1>1, <1>2 DEF SentInv, LeftInv, TextAccepted, Clearing, Busy
<1>6. LandingInv'
  BY <1>1, <1>2, SameAction DEF TextInv, LandingInv, HasTyped, Clearing
<1> QED
  BY <1>3, <1>4, <1>5, <1>6 DEF TextInv

LEMMA TextBaseline ==
  ASSUME BatchAssumption, BatchOK, BatchInv, TextInv, Baseline PROVE TextInv'
<1>1. batch' = batch /\ stage' = stage /\ todo' = todo /\ receipts' = receipts /\ sent' = sent
      /\ field' = field /\ landing' = landing /\ at = "baseline" /\ Busy
      /\ at' \in {"sending", "next", "thrown"} /\ (at' = "sending" => batch.tool = "tap_element")
  BY DEF Baseline, Device, Busy
<1>2. sent[K] = 0 /\ stage \in {"receipt", "tapped"}
  BY <1>1 DEF TextInv, BeforeInv
<1>3. at' = "sending" => Doing.kind = "tap"
  BY <1>1, TapFacts DEF BatchInv, TurnInv
<1>4. BeforeInv'
  BY <1>1, <1>2, <1>3, SameAction DEF BeforeInv
<1>5. TodoInv'
  BY <1>1, <1>2 DEF TextInv, TodoInv
<1>6. SentInv' /\ LeftInv'
  BY <1>1, <1>2 DEF SentInv, LeftInv, Clearing, Busy
<1>7. LandingInv'
  BY <1>1, <1>2, SameAction DEF TextInv, LandingInv, HasTyped, Clearing
<1> QED
  BY <1>4, <1>5, <1>6, <1>7 DEF TextInv

LEMMA TextBegins ==
  ASSUME BatchAssumption, BatchOK, BatchInv, TextInv, BeginAction PROVE TextInv'
<1>1. batch' = batch /\ receipts' = receipts /\ sent' = sent
      /\ field' = field /\ landing' = landing /\ at = "next" /\ Busy
  BY DEF BeginAction, Device, Busy
<1>2. sent[K] = 0 /\ stage \in {"receipt", "tapped"}
  BY <1>1 DEF TextInv, BeforeInv
<1>3. \/ /\ at' = "sending" /\ stage' = "receipt" /\ todo' \in {<<"raw">>, <<"key">>}
         /\ Doing.kind \notin {"clear", "replace"}
      \/ at' \in {"waiting", "resolving"} /\ stage' = stage
  BY DEF BeginAction, Inputs
<1>4. BeforeInv'
  BY <1>1, <1>2, <1>3, SameAction DEF BeforeInv
<1>5. TodoInv'
  BY <1>3, TextLists DEF TodoInv
<1>6. SentInv' /\ LeftInv'
  BY <1>1, <1>2, <1>3 DEF SentInv, LeftInv, Clearing, Busy
<1>7. LandingInv'
  BY <1>1, <1>2, <1>3, SameAction DEF TextInv, LandingInv, HasTyped, Clearing
<1> QED
  BY <1>4, <1>5, <1>6, <1>7 DEF TextInv

LEMMA TextResolves ==
  ASSUME BatchAssumption, BatchOK, BatchInv, TextInv, Resolve PROVE TextInv'
<1>1. batch' = batch /\ sent' = sent /\ field' = field /\ landing' = landing /\ at = "resolving" /\ Busy
      /\ sent' \in [Places -> Nat]
  BY DEF Resolve, Device, Busy, BatchOK, BatchTypeOK
<1>2. sent[K] = 0 /\ stage \in {"receipt", "tapped"} /\ K \in Places
  BY <1>1 DEF TextInv, BeforeInv, BatchInv, TurnInv
<1>3. ASSUME NEW r \in Answers, Receipt(r), ~r.accepted PROVE TextInv'
  BY <1>1, <1>3, TextFails DEF Receipt, Concluded
<1>4. CASE Receipt(Unsent(FALSE)) \/ Receipt(Uncertain)
  BY <1>3, <1>4, AnswersTyped DEF Unsent, Uncertain
<1>5. CASE at' = "thrown"
  BY <1>5, TextThrown
<1>6. CASE /\ receipts' = receipts
           /\ \/ at' = "sending" /\ todo' = <<"tap", "key", "key">> /\ stage' = "clear1" /\ Doing.kind = "clear"
              \/ at' = "sending" /\ todo' = <<"tap", "key", "key", "type">> /\ stage' = "replace"
                    /\ Doing.kind = "replace"
              \/ at' = "sending" /\ todo' = <<"tap">> /\ stage' = "tapped"
                    /\ Doing.kind \notin {"clear", "replace"}
              \/ at' = "baseline" /\ todo' = <<"tap">> /\ stage' = "tapped"
  <2>1. BeforeInv'
    BY <1>1, <1>2, <1>6, SameAction DEF BeforeInv
  <2>2. TodoInv'
    BY <1>6, <1>1, SameAction, TextLists DEF TodoInv
  <2>3. SentInv'
    <3>1. stage' = "replace" => sent'[K'] + Len(todo') = 4
      BY <1>1, <1>2, <1>6, SameAction, TextLists
    <3> QED
      BY <1>1, <1>6, <3>1, SameAction DEF SentInv, Clearing
  <2>4. LandingInv' /\ LeftInv'
    BY <1>1, <1>2, <1>6, SameAction DEF TextInv, LandingInv, HasTyped, Clearing, LeftInv, Busy
  <2> QED
    BY <2>1, <2>2, <2>3, <2>4 DEF TextInv
<1> QED
  BY <1>4, <1>5, <1>6 DEF Resolve, Inputs

LEMMA TextWaits ==
  ASSUME BatchAssumption, BatchOK, BatchInv, TextInv, Wait PROVE TextInv'
<1>1. PICK r \in Answers : Receipt(r)
  BY AnswersTyped DEF Wait
<1>2. batch' = batch /\ sent' = sent /\ field' = field /\ landing' = landing /\ at = "waiting" /\ Busy
      /\ sent' \in [Places -> Nat]
  BY DEF Wait, Device, Busy, BatchOK, BatchTypeOK
<1>3. Doing.kind = "wait"
  BY <1>2 DEF BatchInv, StageInv
<1>4. Fresh => Typeless(landing') /\ ~HasTyped
  BY <1>2, <1>3 DEF TextInv, LandingInv, HasTyped
<1>5. Concluded(r)
  BY <1>1 DEF Receipt, Concluded
<1> QED
  BY <1>2, <1>3, <1>4, <1>5, TextEnds

LEMMA TextBroken ==
  ASSUME BatchAssumption, BatchOK, BatchInv, TextInv, at = "sending", NEW r \in Answers, Broken(r), ~r.accepted,
         batch' = batch, field' = field,
         sent' \in [Places -> Nat], \A j \in Places : j # K => sent'[j] = sent[j]
  PROVE  TextInv'
<1>1. CASE at' = "thrown"
  BY <1>1, TextThrown
<1>2. CASE Receipt(r)
  BY <1>2, TextFails DEF Receipt, Concluded, Busy
<1> QED
  BY <1>1, <1>2 DEF Broken

LEMMA TextRefused ==
  ASSUME BatchAssumption, BatchOK, BatchInv, TextInv, Refuse \/ SendFails PROVE TextInv'
<1>1. CASE Refuse
  <2>1. \E r \in Answers : Broken(r) /\ ~r.accepted
    BY <1>1, AnswersTyped DEF Refuse, Unsent, Uncertain
  <2>2. batch' = batch /\ field' = field /\ sent' = sent /\ at = "sending" /\ sent' \in [Places -> Nat]
    BY <1>1 DEF Refuse, Device, BatchOK, BatchTypeOK
  <2> QED
    BY <2>1, <2>2, TextBroken
<1>2. CASE SendFails
  <2>1. at = "sending" /\ todo # <<>> /\ sent' = [sent EXCEPT ![K] = @ + 1]
        /\ latest' = (IF Doing.kind = "rotate" THEN latest ELSE NoReading)
        /\ batch' = batch /\ field' = field /\ Broken(Uncertain)
    BY <1>2 DEF SendFails
  <2>2. ~Uncertain.accepted
    BY DEF Uncertain
  <2>3. sent' \in [Places -> Nat] /\ \A j \in Places : j # K => sent'[j] = sent[j]
    BY <2>1, Reached
  <2> QED
    BY <2>1, <2>2, <2>3, AnswersTyped, TextBroken
<1> QED
  BY <1>1, <1>2

LEMMA TextSent ==
  ASSUME BatchAssumption, BatchOK, BatchInv, TextInv, Send PROVE TextInv'
<1>1. at = "sending" /\ todo # <<>> /\ sent' = [sent EXCEPT ![K] = @ + 1]
      /\ latest' = (IF Doing.kind = "rotate" THEN latest ELSE NoReading)
      /\ batch' = batch /\ field' = field /\ landing' = Append(landing, Head(todo)) /\ Busy
  BY DEF Send, Busy
<1>2. /\ K \in Places /\ sent' \in [Places -> Nat] /\ \A j \in Places : j # K => sent'[j] = sent[j]
      /\ Head(todo) \in Keys
  BY <1>1, Reached
<1>3. sent'[K] = sent[K] + 1 /\ sent[K] \in Nat /\ todo \in Seq(Keys) /\ landing \in Seq(Keys)
  BY <1>1, <1>2 DEF BatchOK, BatchTypeOK, Keys
\* An input that types no text joins the others.
<1>4. Fresh /\ ~HasTyped => field.copies = 0 /\ Typeless(landing)
  BY <1>1 DEF TextInv, LandingInv
<1>5. stage \notin {"replace", "retype"} => Head(todo) # "type" /\ Typeless(Tail(todo))
  BY <1>1, <1>3, TakesHead DEF TextInv, TodoInv
<1>6. stage = "replace" => TypesOnce(Tail(todo)) /\ (Len(todo) > 1 => Head(todo) # "type")
  BY <1>1, <1>3, TakesHead DEF TextInv, TodoInv
<1>7. stage \in {"replace", "retype"} =>
        /\ Doing.kind = "replace"
        /\ Len(todo) > 1 => TypesLast(Tail(todo))
        /\ Len(todo) = 1 => Head(todo) = "type"
  BY <1>1, <1>3, TakesHead DEF TextInv, TodoInv
<1>8. Fresh /\ ~HasTyped /\ Head(todo) # "type" => Typeless(landing')
  BY <1>1, <1>2, <1>3, <1>4, Joins
<1>9. CASE Len(todo) > 1
  <2>1. stage' = stage /\ receipts' = receipts /\ at' = "sending" /\ todo' = Tail(todo)
    BY <1>1, <1>9 DEF Send
  <2>2. BeforeInv' /\ TodoInv' /\ LeftInv'
    BY <1>1, <1>5, <1>6, <1>7, <1>9, <2>1, SameAction DEF TextInv, BeforeInv, TodoInv, LeftInv, Busy
  <2>3. SentInv'
    BY <1>1, <1>3, <1>9, <2>1, SameAction, TakesHead DEF TextInv, SentInv, Clearing
  <2>4. HasTyped' <=> HasTyped
    BY <1>1, <2>1, SameAction DEF HasTyped
  <2>5. LandingInv'
    <3> SUFFICES ASSUME Fresh, ~HasTyped PROVE field'.copies = 0 /\ Typeless(landing')
      BY <1>1, <2>1, <2>4, SameAction DEF LandingInv
    <3>1. stage # "retype"
      BY <1>7 DEF HasTyped
    <3>2. Head(todo) # "type"
      BY <1>5, <1>6, <1>9, <3>1
    <3> QED
      BY <1>1, <1>4, <1>8, <3>2
  <2> QED
    BY <2>2, <2>3, <2>5 DEF TextInv
<1>10. Len(todo) > 1 \/ Len(todo) = 1
  BY <1>1, <1>3, TakesHead
<1>11. CASE Len(todo) = 1 /\ stage \in {"receipt", "tapped"} /\ Receipt(Accepted)
  <2>1. Doing.kind \notin {"clear", "replace"}
    BY <1>1, <1>11 DEF TextInv, BeforeInv
  <2>2. Fresh => Typeless(landing') /\ ~HasTyped
    BY <1>5, <1>8, <1>11, <2>1 DEF HasTyped
  <2>3. Concluded(Accepted)
    BY <1>11 DEF Receipt, Concluded
  <2> QED
    BY <1>1, <1>2, <2>1, <2>2, <2>3, AnswersTyped, TextEnds
<1>12. CASE Len(todo) = 1 /\ stage = "tapped" /\ at' = "verifying" /\ receipts' = receipts /\ stage' = stage
  <2>1. Doing.kind \notin {"clear", "replace"}
    BY <1>1, <1>12 DEF TextInv, BeforeInv
  <2>2. BeforeInv' /\ TodoInv' /\ SentInv'
    BY <1>1, <1>12, <2>1, SameAction DEF BeforeInv, TodoInv, SentInv
  <2>3. LandingInv'
    BY <1>1, <1>4, <1>5, <1>8, <1>12, <2>1, SameAction DEF LandingInv, HasTyped
  <2>4. LeftInv'
    <3>1. ~TextAccepted' \/ Busy'
      <4>1. batch.tool = "perform_actions"
        BY <1>11, <1>12 DEF Send, Receipt
      <4> QED
        BY <1>1, <1>12, <4>1 DEF Busy
    <3> QED
      BY <3>1 DEF LeftInv
  <2> QED
    BY <2>2, <2>3, <2>4 DEF TextInv
<1>13. CASE Len(todo) = 1 /\ stage \in TextStages /\ at' = "reading" /\ receipts' = receipts /\ stage' = stage
  <2>1. BeforeInv' /\ TodoInv' /\ LeftInv'
    BY <1>1, <1>13 DEF BeforeInv, TodoInv, LeftInv, Busy
  <2>2. SentInv'
    BY <1>1, <1>3, <1>13, SameAction DEF TextInv, SentInv, Clearing
  <2>3. Fresh /\ ~HasTyped' => field'.copies = 0 /\ Typeless(landing')
    <3> SUFFICES ASSUME Fresh, ~HasTyped' PROVE field'.copies = 0 /\ Typeless(landing')
      OBVIOUS
    <3>1. ~HasTyped /\ stage \notin {"replace", "retype"}
      BY <1>1, <1>7, <1>13, SameAction DEF HasTyped
    <3> QED
      BY <1>1, <1>4, <1>5, <1>8, <3>1
  <2>4. stage \in {"replace", "retype"} => Doing.kind = "replace" /\ TypesLast(landing')
    BY <1>1, <1>2, <1>3, <1>7, <1>13, Joins
  <2>5. Fresh /\ stage = "replace" => field'.copies = 0 /\ TypesOnce(landing')
    <3>1. stage = "replace" => ~HasTyped
      BY <1>1 DEF HasTyped, Clearing
    <3> QED
      BY <1>1, <1>2, <1>3, <1>4, <3>1, Joins
  <2>6. LandingInv'
    BY <1>1, <1>13, <2>3, <2>4, <2>5, SameAction DEF LandingInv
  <2> QED
    BY <2>1, <2>2, <2>6 DEF TextInv
<1>14. stage \in TextStages \cup {"receipt", "tapped"}
  BY DEF BatchOK, BatchTypeOK, TextStages
<1>15. CASE Len(todo) = 1 /\ stage = "receipt"
  BY <1>11, <1>15 DEF Send
<1>16. CASE Len(todo) = 1 /\ stage = "tapped"
  BY <1>11, <1>12, <1>16 DEF Send
<1>17. CASE Len(todo) = 1 /\ stage \in TextStages
  BY <1>13, <1>17 DEF Send, TextStages
<1> QED
  BY <1>9, <1>10, <1>14, <1>15, <1>16, <1>17

\* What a text action reads decides.
LEMMA TextReads ==
  ASSUME BatchAssumption, BatchOK, BatchInv, TextInv, Read PROVE TextInv'
<1>1. batch' = batch /\ sent' = sent /\ field' = field /\ landing' = landing /\ at = "reading" /\ Busy
      /\ sent' \in [Places -> Nat]
  BY DEF Read, Device, Busy, BatchOK, BatchTypeOK
<1>2. stage \in TextStages /\ K \in Places /\ AllAccepted
  BY <1>1 DEF BatchInv, StageInv, TurnInv
<1>3. CASE Receipt(Uncertain)
  <2>1. Concluded(Uncertain) /\ ~Uncertain.accepted
    BY <1>3 DEF Receipt, Concluded, Uncertain
  <2> QED
    BY <1>1, <2>1, AnswersTyped, TextFails
<1>4. ASSUME NEW b \in BOOLEAN, NEW present \in BOOLEAN, NEW value,
             b => value = field, Decide(b, present, value)
      PROVE  TextInv'
  <2> DEFINE cleared == present /\ value = Empty
  <2> DEFINE right == b /\ present /\ value = Written
  <2>1. cleared \in BOOLEAN /\ right \in BOOLEAN
    OBVIOUS
  \* The action goes on with another list of inputs.
  <2>2. CASE /\ at' = "sending" /\ receipts' = receipts
             /\ \/ /\ stage' \in Clearing
                   /\ todo' \in {<<"key", "key">>, <<"tap", "tap", "tap", "key">>, <<"tap", "key", "key">>}
                \/ /\ stage' = "retype" /\ todo' = <<"type">> /\ Doing.kind = "replace"
                   /\ stage \in Clearing
    <3>1. BeforeInv' /\ TodoInv' /\ LeftInv'
      BY <1>1, <2>2, SameAction, TextLists DEF BeforeInv, TodoInv, LeftInv, Clearing, Busy
    <3>2. SentInv'
      <4>1. Doing.kind = "replace" => sent[K] >= 4 /\ (stage \in Clearing => sent[K] > 4)
        BY <1>1, <1>2 DEF TextInv, SentInv, TextStages, Clearing
      <4> QED
        BY <1>1, <2>2, <4>1, SameAction DEF SentInv, Clearing
    <3>3. LandingInv'
      <4>1. ~HasTyped' => Doing.kind # "replace" /\ ~HasTyped
        BY <1>1, <2>2, SameAction DEF HasTyped
      <4> QED
        BY <1>1, <2>2, <4>1, SameAction DEF TextInv, LandingInv
    <3> QED
      BY <3>1, <3>2, <3>3 DEF TextInv
  \* The action is over.
  <2>3. ASSUME NEW ok \in BOOLEAN, TextReceipt([accepted |-> ok, dispatched |-> TRUE], b),
               ok => \/ Doing.kind = "clear" /\ stage \in Clearing /\ field = Empty
                     \/ stage \in {"replace", "retype"} /\ field = Written
        PROVE  TextInv'
    <3> DEFINE r == [accepted |-> ok, dispatched |-> TRUE]
    <3>1. r \in Answers /\ r.accepted = ok
      BY DEF Answers
    <3>2. Concluded(r)
      BY <2>3 DEF TextReceipt, Concluded
    <3> HIDE DEF r
    <3>3. Len(receipts') = K /\ LastAction' = Doing
      BY <1>1, <3>1, <3>2, Answered DEF Concluded
    <3>4. ok /\ Fresh /\ Doing.kind # "replace" => Typeless(landing') /\ ~HasTyped
      BY <1>1 DEF TextInv, LandingInv, HasTyped
    <3>5. ASSUME ok, at' = "observing", Doing.kind \in {"clear", "replace"} PROVE LeftInv'
      <4> SUFFICES ASSUME TextAccepted'
                   PROVE  IF Doing.kind = "clear" THEN field = Empty /\ Typeless(landing)
                          ELSE /\ ~field.old
                               /\ landing = <<>> => field.copies > 0
                               /\ landing # <<>> => TypesLast(landing)
                               /\ sent[K] = 4 => field = Written /\ landing = <<>>
        BY <1>1, <3>3 DEF LeftInv
      <4>1. Fresh
        BY <1>1, <3>3, SameCall DEF TextAccepted, Fresh
      <4>2. CASE Doing.kind = "clear"
        <5>1. field = Empty
          BY <1>1, <2>3, <3>5, <4>2 DEF TextInv, LandingInv
        <5>2. Typeless(landing)
          BY <1>1, <4>1, <4>2 DEF TextInv, LandingInv, HasTyped
        <5> QED
          BY <4>2, <5>1, <5>2
      <4>3. CASE Doing.kind = "replace"
        <5>1. stage \in {"replace", "retype"} /\ field = Written /\ field.copies = 1 /\ ~field.old
          BY <2>3, <3>5, <4>3 DEF Written
        <5>2. landing = <<>> \/ TypesLast(landing)
          BY <1>1, <5>1 DEF TextInv, LandingInv
        <5>3. sent[K] = 4 => stage = "replace"
          BY <1>1, <4>3, <5>1 DEF TextInv, SentInv
        <5>4. stage = "replace" => landing = <<>>
          BY <1>1, <4>1, <5>1 DEF TextInv, LandingInv
        <5> QED
          BY <4>3, <5>1, <5>2, <5>3, <5>4
      <4> QED
        BY <3>5, <4>2, <4>3
    <3> QED
      BY <1>1, <3>1, <3>2, <3>4, <3>5, TextEnds
  <2>4. ASSUME ClearEnds(b, cleared), stage \in Clearing PROVE TextInv'
    <3>1. CASE Doing.kind = "replace" /\ b /\ cleared
      BY <2>2, <2>4, <3>1 DEF ClearEnds, Inputs
    <3>2. CASE ~(Doing.kind = "replace" /\ b /\ cleared)
      <4>1. (Doing.kind = "clear" /\ b /\ cleared) \in BOOLEAN
        OBVIOUS
      <4>2. TextReceipt([accepted |-> (Doing.kind = "clear" /\ b /\ cleared), dispatched |-> TRUE], b)
        BY <2>4, <3>2 DEF ClearEnds
      <4> QED
        BY <1>4, <2>3, <2>4, <4>1, <4>2
    <3> QED
      BY <3>1, <3>2
  <2>5. CASE stage = "clear1" /\ ~cleared /\ present
    BY <1>4, <2>2, <2>5 DEF Decide, Inputs, Clearing
  <2>6. CASE stage = "clear2" /\ ~cleared /\ present
    BY <1>4, <2>2, <2>6 DEF Decide, Inputs, Clearing
  <2>7. CASE stage = "replace" /\ b /\ present /\ ~right
    BY <1>4, <2>2, <2>7 DEF Decide, Inputs, Clearing
  <2>8. CASE stage \in Clearing /\ (stage = "clear3" \/ cleared \/ ~present)
    <3>1. ClearEnds(b, cleared)
      BY <1>4, <2>8 DEF Decide, Clearing
    <3> QED
      BY <2>4, <2>8, <3>1
  <2>9. CASE stage \in {"replace", "retype"} /\ ~(stage = "replace" /\ b /\ present /\ ~right)
    <3>1. TextReceipt([accepted |-> right, dispatched |-> TRUE], b)
      BY <1>4, <2>9 DEF Decide
    <3> QED
      BY <1>4, <2>1, <2>3, <2>9, <3>1
  <2> QED
    BY <1>2, <2>5, <2>6, <2>7, <2>8, <2>9 DEF TextStages, Clearing
<1> QED
  BY <1>3, <1>4 DEF Read

\* The end of a tap in a batch, or of tap_element.
LEMMA TextVerifies ==
  ASSUME BatchAssumption, BatchOK, BatchInv, TextInv, Verify PROVE TextInv'
<1>1. batch' = batch /\ sent' = sent /\ field' = field /\ landing' = landing /\ at = "verifying"
      /\ stage' = "receipt" /\ todo' = <<>> /\ sent' \in [Places -> Nat]
  BY DEF Verify, Device, BatchOK, BatchTypeOK
<1>2. CASE batch.tool = "perform_actions"
  <2>1. Busy
    BY <1>1, <1>2 DEF Busy
  <2>2. PICK good \in BOOLEAN :
          /\ receipts' = Append(receipts, [accepted |-> good, dispatched |-> TRUE])
          /\ at' = IF good /\ K < Len(Actions) THEN "next" ELSE "observing"
    <3>1. PICK g : /\ g \in BOOLEAN
                   /\ receipts' = Append(receipts, [accepted |-> g, dispatched |-> TRUE])
                   /\ at' = IF g /\ K < Len(Actions) THEN "next" ELSE "observing"
      BY <1>2, Zenon DEF Verify
    <3> QED
      BY <3>1
  <2> DEFINE r == [accepted |-> good, dispatched |-> TRUE]
  <2>3. r \in Answers /\ Concluded(r)
    BY <1>1, <2>2 DEF Answers, Concluded
  <2>4. Doing.kind \notin {"clear", "replace"} /\ (Fresh => Typeless(landing') /\ ~HasTyped)
    BY <1>1, <2>1 DEF TextInv, BeforeInv, LandingInv, HasTyped
  <2> HIDE DEF r
  <2> QED
    BY <1>1, <2>1, <2>3, <2>4, TextEnds
<1>3. CASE batch.tool # "perform_actions"
  <2>1. at' = "done" /\ receipts' = receipts
    BY <1>3 DEF Verify, TapEnds
  <2>2. ~Busy /\ ~Busy'
    BY <1>1, <1>3, <2>1 DEF Busy
  <2> QED
    BY <1>1, <2>1, <2>2, TextAnswers
<1> QED
  BY <1>2, <1>3

LEMMA TextObserves ==
  ASSUME BatchAssumption, BatchOK, BatchInv, TextInv, Standalone \/ Unobserved \/ Observe PROVE TextInv'
<1>1. batch' = batch /\ receipts' = receipts /\ sent' = sent /\ field' = field /\ landing' = landing
      /\ at \in {"observing", "retrying"}
  BY DEF Standalone, Unobserved, Observe, Device
<1>2. at' \in {"done", "thrown", "retrying", "verifying"} /\ (at' = "verifying" => batch.tool = "tap_element")
  BY DEF Standalone, Unobserved, Observe, Conclude, Return
<1>3. ~Busy /\ ~Busy'
  BY <1>1, <1>2 DEF Busy
<1>4. stage' \in {"receipt", "tapped"}
  BY <1>1 DEF Standalone, Unobserved, Observe, TextInv, BeforeInv
<1> QED
  BY <1>1, <1>2, <1>3, <1>4, TextAnswers

LEMMA TextLands ==
  ASSUME BatchAssumption, BatchOK, BatchInv, TextInv, Land PROVE TextInv'
<1>1. batch' = batch /\ at' = at /\ stage' = stage /\ todo' = todo /\ receipts' = receipts /\ sent' = sent
      /\ landing # <<>> /\ landing' = Tail(landing) /\ landing \in Seq(Keys)
  BY DEF Land, BatchOK, BatchTypeOK, Keys
<1>2. IF Head(landing) = "type" THEN field' = [field EXCEPT !.copies = @ + 1] ELSE field' \in {field, Empty}
  <2>1. CASE Head(landing) = "key"
    BY <2>1 DEF Land
  <2>2. CASE Head(landing) = "type"
    BY <2>2 DEF Land
  <2>3. CASE Head(landing) \notin {"key", "type"}
    BY <2>3 DEF Land
  <2> QED
    BY <2>1, <2>2, <2>3
<1>3. field.copies \in Nat /\ (~field.old => ~field'.old)
      /\ (Head(landing) = "type" => field'.copies > 0)
      /\ (Head(landing) # "type" /\ field.copies = 0 => field'.copies = 0)
      /\ (Head(landing) # "type" /\ field = Empty => field' = Empty)
  BY <1>2 DEF BatchOK, BatchTypeOK, Empty
<1>4. BeforeInv' /\ TodoInv' /\ SentInv'
  BY <1>1, SameAction DEF TextInv, BeforeInv, TodoInv, SentInv, Busy, Clearing
<1>5. HasTyped' <=> HasTyped
  BY <1>1, SameAction DEF HasTyped
<1>6. Busy' <=> Busy
  BY <1>1 DEF Busy
<1>7. LandingInv'
  <2> SUFFICES ASSUME Busy PROVE LandingInv'
    BY <1>6 DEF LandingInv
  <2>1. Fresh /\ ~HasTyped => field'.copies = 0 /\ Typeless(landing')
    BY <1>1, <1>3, TakesHead DEF TextInv, LandingInv
  <2>2. Fresh /\ stage = "replace" /\ at = "reading" =>
          landing' = <<>> \/ (field'.copies = 0 /\ TypesLast(landing') /\ TypesOnce(landing'))
    BY <1>1, <1>3, TakesHead DEF TextInv, LandingInv
  <2>3. stage \in {"replace", "retype"} /\ at = "reading" =>
          Doing.kind = "replace" /\ (landing' = <<>> \/ TypesLast(landing'))
    BY <1>1, TakesHead DEF TextInv, LandingInv
  <2> QED
    BY <1>1, <1>5, <2>1, <2>2, <2>3, SameAction DEF LandingInv
<1>8. LeftInv'
  <2>1. TextAccepted' = TextAccepted /\ LastAction' = LastAction
    BY <1>1 DEF TextAccepted, LastAction, AllAccepted, Actions
  <2> SUFFICES ASSUME ~Busy, at # "thrown", TextAccepted PROVE LeftInv'
    BY <1>1, <1>6, <2>1 DEF LeftInv
  <2>2. CASE LastAction.kind = "clear"
    <3>1. field' = Empty /\ Typeless(landing')
      BY <1>1, <1>3, <2>2, TakesHead DEF TextInv, LeftInv
    <3> QED
      BY <2>1, <2>2, <3>1 DEF LeftInv
  <2>3. CASE LastAction.kind # "clear"
    <3>1. ~field.old /\ TypesLast(landing) /\ sent[Len(receipts)] # 4
      BY <1>1, <2>3 DEF TextInv, LeftInv
    <3>2. ~field'.old /\ (landing' = <<>> => field'.copies > 0) /\ (landing' # <<>> => TypesLast(landing'))
      BY <1>1, <1>3, <3>1, TakesHead
    <3> QED
      BY <1>1, <2>1, <2>3, <3>1, <3>2 DEF LeftInv
  <2> QED
    BY <2>2, <2>3
<1> QED
  BY <1>4, <1>7, <1>8 DEF TextInv

LEMMA TextKeeps ==
  ASSUME BatchAssumption, BatchOK, BatchInv, TextInv, [BatchNext]_batchVars PROVE TextInv'
<1>1. CASE BatchNext /\ ~Disconnect
  BY <1>1, TextPreflight, TextBaseline, TextBegins, TextResolves, TextWaits, TextRefused, TextSent,
     TextVerifies, TextReads, TextObserves, TextLands DEF BatchNext
<1>2. CASE Disconnect \/ UNCHANGED batchVars
  <2>1. batch' = batch /\ at' = at /\ stage' = stage /\ todo' = todo /\ receipts' = receipts /\ sent' = sent
        /\ field' = field /\ landing' = landing
    BY <1>2 DEF Disconnect, batchVars
  <2> QED
    BY <2>1, SameAction DEF TextInv, BeforeInv, TodoInv, SentInv, LandingInv, LeftInv, HasTyped, Busy, TextAccepted,
       LastAction, AllAccepted
<1> QED
  BY <1>1, <1>2

\* A field that is reported as cleared is empty when all has landed; one whose
\* text is reported as replaced holds the text, and nothing of what it held
\* before, and it holds the text once if it was typed once.
THEOREM TextCorrect == BatchAssumption /\ BatchSpec => []TextIsFinal
<1> SUFFICES ASSUME BatchAssumption PROVE BatchSpec => []TextIsFinal
  OBVIOUS
<1> DEFINE Inv == BatchOK /\ BatchInv /\ TextInv
<1>1. BatchInit => Inv
  BY BatchStarts, TextStarts
<1>2. Inv /\ [BatchNext]_batchVars => Inv'
  BY BatchKeeps, TextKeeps
<1>3. Inv => TextIsFinal
  BY DEF TextInv, LeftInv, TextIsFinal, Busy
<1> QED
  BY <1>1, <1>2, <1>3, PTL DEF BatchSpec

----------------------------------------------------------------------------
(***************************************************************************)
(* ObservationHistory.  The hash of an observation determines its screen,  *)
(* because the keys of its nodes are distinct and a node is determined by  *)
(* what is hashed of it; and a delta adds up because the nodes and the     *)
(* keys of a screen correspond one to one.                                 *)
(***************************************************************************)

\* The values of the records.
ScreenNode == [path : Seq(Nat), id : Nat, role : Nat, name : Nat, val : Nat]
Captured == Screens \cup {{}}
Indexes == {Indexed(s) : s \in Screens}
HistoryKind == [number : Nat, session : 0..MaxViews, index : Indexes]

HistoryKinds ==
    /\ view \in [session : 0..MaxViews, steps : Nat, shows : Screens, last : Captured]
    /\ named \in Seq(Screens) /\ Len(named) <= MaxObservations
    /\ history \in Seq(HistoryKind) /\ Len(history) <= HistoryLimit
    /\ observer \in [Callers -> [stage : {"idle", "prepare"}, since : Nat, screen : Captured]]
    /\ told.status \in {"unavailable", "full", "unchanged", "delta"}

\* What is told is the difference of two screens.
Tells(answer, old, new) ==
    LET delta == Delta(Indexed(old), Indexed(new))
    IN  /\ answer.screen = new /\ answer.added = delta.added
        /\ answer.removed = delta.removed /\ answer.changed = delta.changed
        /\ answer.status = IF Hash(Indexed(old)) = Hash(Indexed(new)) THEN "unchanged" ELSE "delta"

\* Whatever is in the history is the index of the screen of its number, and what
\* was told of two screens is their difference.
HistoryInv ==
    /\ \A k \in 1..Len(history) :
          history[k].number \in 1..Len(named) /\ history[k].index = Indexed(named[history[k].number])
    /\ \A c \in Callers : observer[c].stage = "prepare" => observer[c].screen \in Screens
    /\ told.status \in {"unchanged", "delta"} =>
          told.since \in 1..Len(named) /\ told.screen \in Screens /\ Tells(told, named[told.since], told.screen)

----------------------------------------------------------------------------
(* Two screens.                                                            *)

KeysOf(s) == {StableKey(n, s) : n \in s}
HashOf(n) == <<n.path, n.role, n.name, n.val, n.id>>

\* No two nodes of a screen have the same identity.
LEMMA KeysDiffer ==
  ASSUME HistoryAssumption, NEW s \in Screens, NEW n \in s, NEW m \in s, StableKey(n, s) = StableKey(m, s)
  PROVE  n = m
<1> DEFINE named1 == n.id # 0 /\ \A k \in s : k.id = n.id /\ k.role = n.role => k = n
           named2 == m.id # 0 /\ \A k \in s : k.id = m.id /\ k.role = m.role => k = m
<1>1. n.path = m.path => n = m
  BY DEF HistoryAssumption
<1>2. /\ named1 => StableKey(n, s) = <<"identifier", n.id, n.role>>
      /\ ~named1 => StableKey(n, s) = <<"position", n.path, n.role, n.name>>
  BY DEF StableKey
<1>3. /\ named2 => StableKey(m, s) = <<"identifier", m.id, m.role>>
      /\ ~named2 => StableKey(m, s) = <<"position", m.path, m.role, m.name>>
  BY DEF StableKey
<1>a. named1 /\ n.id = m.id /\ n.role = m.role => n = m
  OBVIOUS
<1> HIDE DEF named1, named2
<1>4. CASE named1 /\ named2
  BY <1>2, <1>3, <1>4, <1>a
<1>5. CASE ~named1 /\ ~named2
  BY <1>1, <1>2, <1>3, <1>5
<1>6. CASE named1 /\ ~named2
  BY <1>2, <1>3, <1>6
<1>7. CASE ~named1 /\ named2
  BY <1>2, <1>3, <1>7
<1> QED
  BY <1>4, <1>5, <1>6, <1>7

\* The index of a screen holds every node under its identity.
LEMMA IndexFacts ==
  ASSUME HistoryAssumption, NEW s \in Screens
  PROVE  /\ DOMAIN Indexed(s) = KeysOf(s)
         /\ \A n \in s : /\ StableKey(n, s) \in KeysOf(s)
                         /\ Indexed(s)[StableKey(n, s)].ref = n.path
                         /\ Indexed(s)[StableKey(n, s)].hash = HashOf(n)
         /\ \A k \in KeysOf(s) : \E n \in s : k = StableKey(n, s)
<1>1. DOMAIN Indexed(s) = KeysOf(s)
  BY DEF Indexed, KeysOf
<1>2. \A k \in KeysOf(s) : \E n \in s : k = StableKey(n, s)
  BY DEF KeysOf
<1>3. ASSUME NEW n \in s
      PROVE  /\ StableKey(n, s) \in KeysOf(s)
             /\ Indexed(s)[StableKey(n, s)].ref = n.path
             /\ Indexed(s)[StableKey(n, s)].hash = HashOf(n)
  <2> DEFINE k == StableKey(n, s)
             c == CHOOSE m \in s : StableKey(m, s) = k
  <2>1. k \in KeysOf(s)
    BY DEF KeysOf
  <2>2. Indexed(s)[k] = [ref |-> c.path, hash |-> <<c.path, c.role, c.name, c.val, c.id>>]
    BY <2>1 DEF Indexed, KeysOf
  <2>3. c \in s /\ StableKey(c, s) = StableKey(n, s)
    OBVIOUS
  <2> HIDE DEF c
  <2>4. c = n
    BY <2>3, KeysDiffer
  <2> QED
    BY <2>1, <2>2, <2>4 DEF HashOf
<1> QED
  BY <1>1, <1>2, <1>3

\* A node is determined by what is hashed of it.
LEMMA HashesDiffer ==
  ASSUME NEW n \in ScreenNode, NEW m \in ScreenNode, HashOf(n) = HashOf(m) PROVE n = m
<1>1. n.path = m.path /\ n.role = m.role /\ n.name = m.name /\ n.val = m.val /\ n.id = m.id
  BY DEF HashOf
<1> QED
  BY <1>1 DEF ScreenNode

\* A screen has as many nodes as its index has identities.
LEMMA AsManyKeys ==
  ASSUME HistoryAssumption, NEW s \in Screens
  PROVE  IsFiniteSet(KeysOf(s)) /\ Cardinality(KeysOf(s)) = Cardinality(s)
<1> DEFINE f == [n \in s |-> StableKey(n, s)]
<1>1. f \in Bijection(s, KeysOf(s))
  BY KeysDiffer, Fun_IsBij DEF KeysOf
<1>2. IsFiniteSet(s)
  BY DEF HistoryAssumption
<1> QED
  BY <1>1, <1>2, FS_Bijection DEF ExistsBijection

\* Some identities of a screen are as many as the refs they stand for.
LEMMA AsManyRefs ==
  ASSUME HistoryAssumption, NEW s \in Screens, NEW some \in SUBSET KeysOf(s)
  PROVE  LET refs == {Indexed(s)[k].ref : k \in some}
         IN  IsFiniteSet(refs) /\ Cardinality(refs) = Cardinality(some)
<1> DEFINE refs == {Indexed(s)[k].ref : k \in some}
           f == [k \in some |-> Indexed(s)[k].ref]
<1>1. ASSUME NEW k \in some, NEW j \in some, Indexed(s)[k].ref = Indexed(s)[j].ref PROVE k = j
  <2>1. PICK n \in s : k = StableKey(n, s)
    BY IndexFacts
  <2>2. PICK m \in s : j = StableKey(m, s)
    BY IndexFacts
  <2>3. n.path = m.path
    BY <1>1, <2>1, <2>2, IndexFacts
  <2> QED
    BY <2>1, <2>2, <2>3 DEF HistoryAssumption
<1>2. f \in Bijection(some, refs)
  BY <1>1, Fun_IsBij
<1>3. IsFiniteSet(some)
  BY AsManyKeys, FS_Subset
<1> QED
  BY <1>2, <1>3, FS_Bijection DEF ExistsBijection
\* Two indexes hold the same node under an identity if the hashes agree.
LEMMA SameNode ==
  ASSUME HistoryAssumption, NEW old \in Screens, NEW new \in Screens, NEW n \in new,
         StableKey(n, new) \in KeysOf(old),
         Indexed(old)[StableKey(n, new)].hash = Indexed(new)[StableKey(n, new)].hash
  PROVE  n \in old
<1>1. PICK m \in old : StableKey(n, new) = StableKey(m, old)
  BY IndexFacts
<1>2. HashOf(m) = HashOf(n)
  BY <1>1, IndexFacts
<1>3. n \in ScreenNode /\ m \in ScreenNode
  BY DEF HistoryAssumption, ScreenNode
<1>4. n = m
  BY <1>2, <1>3, HashesDiffer
<1> QED
  BY <1>4

LEMMA EqualHash ==
  ASSUME HistoryAssumption, NEW old \in Screens, NEW new \in Screens
  PROVE  Hash(Indexed(old)) = Hash(Indexed(new))
           <=> /\ KeysOf(old) = KeysOf(new)
               /\ \A k \in KeysOf(new) : Indexed(old)[k].hash = Indexed(new)[k].hash
<1>1. DOMAIN Indexed(old) = KeysOf(old) /\ DOMAIN Indexed(new) = KeysOf(new)
  BY IndexFacts
<1>2. /\ Hash(Indexed(old)) = [k \in KeysOf(old) |-> Indexed(old)[k].hash]
      /\ Hash(Indexed(new)) = [k \in KeysOf(new) |-> Indexed(new)[k].hash]
  BY <1>1 DEF Hash
<1> QED
  BY <1>2

LEMMA EqualScreens ==
  ASSUME HistoryAssumption, NEW old \in Screens, NEW new \in Screens,
         Hash(Indexed(old)) = Hash(Indexed(new))
  PROVE  new = old
<1>1. /\ KeysOf(old) = KeysOf(new)
      /\ \A k \in KeysOf(new) : Indexed(old)[k].hash = Indexed(new)[k].hash
  BY EqualHash
<1>2. \A n \in new : n \in old
  BY <1>1, IndexFacts, SameNode
<1>3. \A n \in old : n \in new
  BY <1>1, IndexFacts, SameNode
<1> QED
  BY <1>2, <1>3

\* What a delta says of two screens that differ.
LEMMA DeltaSays ==
  ASSUME HistoryAssumption, NEW old \in Screens, NEW new \in Screens,
         NEW added, NEW removed, NEW changed,
         added = Delta(Indexed(old), Indexed(new)).added,
         removed = Delta(Indexed(old), Indexed(new)).removed,
         changed = Delta(Indexed(old), Indexed(new)).changed
  PROVE  /\ Hash(Indexed(old)) # Hash(Indexed(new)) => (added \cup changed) \cup removed # {}
         /\ \A n \in new : n.path \notin added \cup changed => n \in old
         /\ \A n \in old \ new : n.path \in removed \/ changed # {}
         /\ Cardinality(new) = Cardinality(old) - Cardinality(removed) + Cardinality(added)
<1> DEFINE before == KeysOf(old)
           after == KeysOf(new)
           kept == before \cap after
           differ == {k \in kept : Indexed(new)[k].hash # Indexed(old)[k].hash}
<1>1. DOMAIN Indexed(old) = before /\ DOMAIN Indexed(new) = after
  BY IndexFacts
<1>2. /\ added = {Indexed(new)[k].ref : k \in after \ kept}
      /\ removed = {Indexed(old)[k].ref : k \in before \ kept}
      /\ changed = {Indexed(new)[k].ref : k \in differ}
  BY <1>1 DEF Delta
<1>3. ASSUME Hash(Indexed(old)) # Hash(Indexed(new)) PROVE (added \cup changed) \cup removed # {}
  <2>1. before # after \/ \E k \in after : Indexed(old)[k].hash # Indexed(new)[k].hash
    BY <1>3, EqualHash
  <2>2. (after \ kept) \cup (before \ kept) \cup differ # {}
    BY <2>1
  <2> QED
    BY <1>2, <2>2
<1>4. ASSUME NEW n \in new, n.path \notin added \cup changed PROVE n \in old
  <2> DEFINE k == StableKey(n, new)
  <2>1. k \in after /\ Indexed(new)[k].ref = n.path
    BY IndexFacts
  <2>2. k \in kept /\ k \notin differ
    BY <1>2, <1>4, <2>1
  <2> QED
    BY <2>2, SameNode
<1>5. ASSUME NEW n \in old \ new PROVE n.path \in removed \/ changed # {}
  <2> DEFINE k == StableKey(n, old)
  <2>1. k \in before /\ Indexed(old)[k].ref = n.path
    BY IndexFacts
  <2>2. k \notin after \/ Indexed(new)[k].hash # Indexed(old)[k].hash
    BY <1>5, SameNode
  <2> QED
    BY <1>2, <2>1, <2>2
<1>6. Cardinality(new) = Cardinality(old) - Cardinality(removed) + Cardinality(added)
  <2>1. /\ IsFiniteSet(before) /\ Cardinality(before) = Cardinality(old)
        /\ IsFiniteSet(after) /\ Cardinality(after) = Cardinality(new)
    BY AsManyKeys
  <2>2. /\ Cardinality(added) = Cardinality(after \ kept)
        /\ Cardinality(removed) = Cardinality(before \ kept)
    <3>1. after \ kept \in SUBSET KeysOf(new) /\ before \ kept \in SUBSET KeysOf(old)
      OBVIOUS
    <3> QED
      BY <1>2, <3>1, AsManyRefs
  <2> HIDE DEF before, after
  <2>3. /\ Cardinality(after \ kept) = Cardinality(after) - Cardinality(after \cap kept)
        /\ Cardinality(before \ kept) = Cardinality(before) - Cardinality(before \cap kept)
    BY <2>1, FS_Difference
  <2>4. after \cap kept = kept /\ before \cap kept = kept
    OBVIOUS
  <2>5. Cardinality(kept) \in Nat /\ Cardinality(before) \in Nat /\ Cardinality(after) \in Nat
    BY <2>1, FS_Intersection, FS_CardinalityType
  <2> HIDE DEF kept
  <2>6. /\ Cardinality(after \ kept) = Cardinality(after) - Cardinality(kept)
        /\ Cardinality(before \ kept) = Cardinality(before) - Cardinality(kept)
    BY <2>3, <2>4
  <2>7. \A o, n, k, r, a \in Int : a = n - k /\ r = o - k => n = o - r + a
    OBVIOUS
  <2>8. /\ Cardinality(removed) = Cardinality(before) - Cardinality(kept)
        /\ Cardinality(added) = Cardinality(after) - Cardinality(kept)
    BY <2>2, <2>6
  <2> QED
    BY <2>1, <2>5, <2>7, <2>8
<1> QED
  BY <1>3, <1>4, <1>5, <1>6

----------------------------------------------------------------------------
(* The actions.                                                            *)

\* An observation is added behind those there are.
LEMMA NumbersGrow ==
  ASSUME HistoryKinds, NEW s \in Screens
  PROVE  /\ Append(named, s) \in Seq(Screens) /\ Len(Append(named, s)) = Len(named) + 1
         /\ Len(named) \in Nat /\ Append(named, s)[Len(named) + 1] = s
         /\ \A k \in 1..Len(named) : Append(named, s)[k] = named[k] /\ k \in 1..(Len(named) + 1)
<1>1. named \in Seq(Screens) /\ Len(named) \in Nat
  BY LenProperties DEF HistoryKinds
<1> QED
  BY <1>1, AppendProperties

LEMMA ScreenChangesKeeps ==
  ASSUME HistoryAssumption, HistoryKinds, HistoryInv, ScreenChanges PROVE HistoryKinds' /\ HistoryInv'
<1>1. history' = history /\ observer' = observer /\ named' = named /\ told' = told
  BY DEF ScreenChanges
<1>2. view' \in [session : 0..MaxViews, steps : Nat, shows : Screens, last : Captured]
  <2>1. PICK s \in Screens, session \in 0..MaxViews :
          view' = [session |-> session, steps |-> view.steps + 1, shows |-> s,
                   last |-> IF session # view.session THEN {} ELSE view.last]
    BY DEF ScreenChanges
  <2>2. view.steps + 1 \in Nat /\ view.last \in Captured /\ {} \in Captured
    BY DEF HistoryKinds, Captured
  <2> QED
    BY <2>1, <2>2
<1> QED
  BY <1>1, <1>2 DEF HistoryKinds, HistoryInv, HistoryKind

LEMMA CaptureKeeps ==
  ASSUME HistoryAssumption, HistoryKinds, HistoryInv, NEW c \in Callers, Capture(c)
  PROVE  HistoryKinds' /\ HistoryInv'
<1>1. PICK since \in 0..Len(named), s \in {view.shows, view.last} \ {{}} :
         /\ observer' = [observer EXCEPT ![c] = [stage |-> "prepare", since |-> since, screen |-> s]]
         /\ view' = [view EXCEPT !.last = s]
         /\ history' = history /\ named' = named /\ told' = told
  BY DEF Capture
<1>2. since \in Nat /\ s \in Screens /\ s \in Captured
  BY LenProperties DEF HistoryKinds, Captured
<1>3. view' \in [session : 0..MaxViews, steps : Nat, shows : Screens, last : Captured]
  BY <1>1, <1>2 DEF HistoryKinds
<1>4. /\ observer' \in [Callers -> [stage : {"idle", "prepare"}, since : Nat, screen : Captured]]
      /\ \A d \in Callers : observer'[d] = IF d = c THEN [stage |-> "prepare", since |-> since, screen |-> s]
                                            ELSE observer[d]
  BY <1>1, <1>2 DEF HistoryKinds
<1>5. HistoryKinds'
  BY <1>1, <1>3, <1>4 DEF HistoryKinds, HistoryKind
<1>6. \A d \in Callers : observer'[d].stage = "prepare" => observer'[d].screen \in Screens
  BY <1>2, <1>4 DEF HistoryInv
<1> QED
  BY <1>1, <1>5, <1>6 DEF HistoryInv

\* A caller is done; what is told is something else than a difference.
LEMMA IdleAgain ==
  ASSUME HistoryKinds, HistoryInv, NEW c \in Callers, observer' = [observer EXCEPT ![c] = Idle]
  PROVE  /\ observer' \in [Callers -> [stage : {"idle", "prepare"}, since : Nat, screen : Captured]]
         /\ \A d \in Callers : observer'[d].stage = "prepare" => observer'[d].screen \in Screens
<1>1. Idle \in [stage : {"idle", "prepare"}, since : Nat, screen : Captured] /\ Idle.stage = "idle"
  BY DEF Idle, Captured
<1>2. \A d \in Callers : observer'[d] = IF d = c THEN Idle ELSE observer[d]
  BY DEF HistoryKinds
<1> QED
  BY <1>1, <1>2 DEF HistoryKinds, HistoryInv

LEMMA UncapturedKeeps ==
  ASSUME HistoryAssumption, HistoryKinds, HistoryInv, NEW c \in Callers, Uncaptured(c)
  PROVE  HistoryKinds' /\ HistoryInv'
<1>1. view' = view /\ history' = history /\ named' = named /\ observer' = [observer EXCEPT ![c] = Idle]
      /\ told' = [NoDelta EXCEPT !.since = observer[c].since]
  BY DEF Uncaptured
<1>2. told'.status = "unavailable"
  BY <1>1 DEF NoDelta
<1>3. HistoryKinds'
  BY <1>1, <1>2, IdleAgain DEF HistoryKinds, HistoryKind
<1> QED
  BY <1>1, <1>2, <1>3, IdleAgain DEF HistoryInv
LEMMA CompareKeeps ==
  ASSUME HistoryAssumption, HistoryKinds, HistoryInv, NEW c \in Callers, Compare(c)
  PROVE  HistoryKinds' /\ HistoryInv'
<1> DEFINE s == observer[c].screen
           index == Indexed(s)
           entry == [number |-> Len(named) + 1, session |-> view.session, index |-> index]
           kept == Append(history, entry)
<1>1. /\ observer[c].stage = "prepare" /\ Len(named) < MaxObservations
      /\ view' = view /\ observer' = [observer EXCEPT ![c] = Idle] /\ named' = Append(named, s)
      /\ history' = IF Len(kept) > HistoryLimit THEN Tail(kept) ELSE kept
  BY DEF Compare
<1>2. s \in Screens
  BY <1>1 DEF HistoryInv
<1>3. /\ named' \in Seq(Screens) /\ Len(named') = Len(named) + 1 /\ Len(named) \in Nat
      /\ named'[Len(named) + 1] = s
      /\ \A k \in 1..Len(named) : named'[k] = named[k] /\ k \in 1..Len(named')
  BY <1>1, <1>2, NumbersGrow
<1>4. Len(named') <= MaxObservations /\ MaxObservations \in Nat /\ HistoryLimit \in Nat /\ HistoryLimit >= 1
  BY <1>1, <1>3 DEF HistoryAssumption
<1>5. entry \in HistoryKind
  BY <1>2, <1>3 DEF HistoryKind, HistoryKinds, Indexes
<1>6. entry.number = Len(named) + 1 /\ entry.index = Indexed(s)
  OBVIOUS
<1> HIDE DEF entry
<1>7. /\ kept \in Seq(HistoryKind) /\ kept # <<>> /\ Len(kept) = Len(history) + 1 /\ Len(history) \in Nat
      /\ (\A k \in 1..Len(history) : kept[k] = history[k]) /\ kept[Len(history) + 1] = entry
  BY <1>5, AppendProperties, LenProperties DEF HistoryKinds
<1> HIDE DEF kept
<1>8. ASSUME NEW k \in 1..Len(kept)
      PROVE  kept[k].number \in 1..Len(named') /\ kept[k].index = Indexed(named'[kept[k].number])
  <2>1. CASE k \in 1..Len(history)
    BY <1>3, <1>7, <2>1 DEF HistoryInv
  <2>2. CASE k = Len(history) + 1
    BY <1>3, <1>6, <1>7, <2>2
  <2> QED
    BY <1>7, <2>1, <2>2
<1>9. /\ history' \in Seq(HistoryKind) /\ Len(history') <= HistoryLimit
      /\ \A k \in 1..Len(history') : \E j \in 1..Len(kept) : history'[k] = kept[j]
  <2>1. CASE Len(kept) > HistoryLimit
    <3>1. /\ history' \in Seq(HistoryKind) /\ Len(history') = Len(kept) - 1
          /\ \A k \in 1..Len(history') : history'[k] = kept[k + 1]
      BY <1>1, <1>7, <2>1, HeadTailProperties
    <3>2. \A k \in 1..Len(history') : k + 1 \in 1..Len(kept)
      BY <1>7, <3>1
    <3>3. Len(history) <= HistoryLimit
      BY DEF HistoryKinds
    <3> QED
      BY <1>4, <1>7, <3>1, <3>2, <3>3
  <2>2. CASE ~(Len(kept) > HistoryLimit)
    BY <1>1, <1>4, <1>7, <2>2
  <2> QED
    BY <2>1, <2>2
<1>10. \A k \in 1..Len(history') :
          history'[k].number \in 1..Len(named') /\ history'[k].index = Indexed(named'[history'[k].number])
  BY <1>8, <1>9
<1>11. \/ told' = [NoDelta EXCEPT !.status = "full", !.since = observer[c].since, !.screen = s]
       \/ \E k \in 1..Len(history) :
             LET delta == Delta(history[k].index, index) IN
             /\ history[k].number = observer[c].since
             /\ told' = [status |-> IF Hash(history[k].index) = Hash(index) THEN "unchanged" ELSE "delta",
                         since |-> observer[c].since, screen |-> s,
                         added |-> delta.added, removed |-> delta.removed, changed |-> delta.changed]
  <2>1. DOMAIN history = 1..Len(history)
    BY LenProperties DEF HistoryKinds
  <2> QED
    BY <2>1 DEF Compare
<1>12. /\ told'.status \in {"unavailable", "full", "unchanged", "delta"}
       /\ told'.status \in {"unchanged", "delta"} =>
             told'.since \in 1..Len(named') /\ told'.screen \in Screens
             /\ Tells(told', named'[told'.since], told'.screen)
  <2>1. CASE told' = [NoDelta EXCEPT !.status = "full", !.since = observer[c].since, !.screen = s]
    BY <2>1 DEF NoDelta
  <2>2. ASSUME NEW k \in 1..Len(history), history[k].number = observer[c].since,
               told' = [status |-> IF Hash(history[k].index) = Hash(index) THEN "unchanged" ELSE "delta",
                        since |-> observer[c].since, screen |-> s,
                        added |-> Delta(history[k].index, index).added,
                        removed |-> Delta(history[k].index, index).removed,
                        changed |-> Delta(history[k].index, index).changed]
        PROVE  /\ told'.status \in {"unchanged", "delta"} /\ told'.since \in 1..Len(named')
               /\ told'.screen \in Screens /\ Tells(told', named'[told'.since], told'.screen)
    <3>1. observer[c].since \in 1..Len(named) /\ history[k].index = Indexed(named[observer[c].since])
      BY <2>2 DEF HistoryInv
    <3>2. told'.since = observer[c].since /\ told'.screen = s /\ named'[told'.since] = named[observer[c].since]
      BY <1>3, <2>2, <3>1
    <3>3. /\ told'.added = Delta(history[k].index, index).added
          /\ told'.removed = Delta(history[k].index, index).removed
          /\ told'.changed = Delta(history[k].index, index).changed
          /\ told'.status = IF Hash(history[k].index) = Hash(index) THEN "unchanged" ELSE "delta"
      BY <2>2
    <3> QED
      BY <1>2, <1>3, <3>1, <3>2, <3>3 DEF Tells
  <2> QED
    BY <1>11, <2>1, <2>2
<1>13. HistoryKinds'
  BY <1>1, <1>3, <1>4, <1>9, <1>12, IdleAgain DEF HistoryKinds
<1> QED
  BY <1>1, <1>10, <1>12, <1>13, IdleAgain DEF HistoryInv

LEMMA HistoryStarts ==
  ASSUME HistoryAssumption, HistoryInit PROVE HistoryKinds /\ HistoryInv
<1>1. <<>> \in Seq(Screens) /\ <<>> \in Seq(HistoryKind) /\ Len(<<>>) = 0
  BY EmptySeq
<1>2. view \in [session : 0..MaxViews, steps : Nat, shows : Screens, last : Captured]
  BY DEF HistoryInit, HistoryAssumption, Captured
<1>3. Idle \in [stage : {"idle", "prepare"}, since : Nat, screen : Captured] /\ Idle.stage = "idle"
  BY DEF Idle, Captured
<1>4. observer \in [Callers -> [stage : {"idle", "prepare"}, since : Nat, screen : Captured]]
      /\ \A c \in Callers : observer[c].stage = "idle"
  BY <1>3 DEF HistoryInit
<1>5. told.status = "unavailable" /\ history = <<>> /\ named = <<>>
  BY DEF HistoryInit, NoDelta
<1>6. HistoryKinds
  BY <1>1, <1>2, <1>4, <1>5 DEF HistoryKinds, HistoryAssumption
<1> QED
  BY <1>1, <1>4, <1>5, <1>6 DEF HistoryInv

LEMMA HistoryKeeps ==
  ASSUME HistoryAssumption, HistoryKinds, HistoryInv, [HistoryNext]_historyVars
  PROVE  HistoryKinds' /\ HistoryInv'
<1>1. CASE UNCHANGED historyVars
  BY <1>1 DEF HistoryKinds, HistoryInv, historyVars
<1>2. CASE HistoryNext
  BY <1>2, ScreenChangesKeeps, CaptureKeeps, UncapturedKeeps, CompareKeeps DEF HistoryNext
<1> QED
  BY <1>1, <1>2

LEMMA HistoryMeans ==
  ASSUME HistoryAssumption, HistoryKinds, HistoryInv PROVE DeltaIsComplete /\ HistoryTypeOK
<1> DEFINE old == named[told.since]
<1>1. ASSUME told.status \in {"unchanged", "delta"}
      PROVE  old \in Screens /\ told.screen \in Screens /\ Tells(told, old, told.screen)
  BY <1>1, ElementOfSeq DEF HistoryInv, HistoryKinds
<1>2. ASSUME told.status = "unchanged" PROVE told.screen = old
  <2>1. Hash(Indexed(old)) = Hash(Indexed(told.screen))
    BY <1>1, <1>2 DEF Tells
  <2> QED
    BY <1>1, <1>2, <2>1, EqualScreens
<1>3. ASSUME told.status = "delta"
      PROVE  /\ (told.added \cup told.changed) \cup told.removed # {}
             /\ \A n \in told.screen : n.path \notin told.added \cup told.changed => n \in old
             /\ \A n \in old \ told.screen : n.path \in told.removed \/ told.changed # {}
             /\ Cardinality(told.screen)
                   = Cardinality(old) - Cardinality(told.removed) + Cardinality(told.added)
  <2>1. Hash(Indexed(old)) # Hash(Indexed(told.screen))
    BY <1>1, <1>3 DEF Tells
  <2>2. /\ told.added = Delta(Indexed(old), Indexed(told.screen)).added
        /\ told.removed = Delta(Indexed(old), Indexed(told.screen)).removed
        /\ told.changed = Delta(Indexed(old), Indexed(told.screen)).changed
    BY <1>1, <1>3 DEF Tells
  <2>3. old \in Screens /\ told.screen \in Screens
    BY <1>1, <1>3
  <2> HIDE DEF old
  <2> QED
    BY <2>1, <2>2, <2>3, DeltaSays
<1>4. HistoryTypeOK
  BY DEF HistoryTypeOK, HistoryKinds, Captured
<1> QED
  BY <1>2, <1>3, <1>4 DEF DeltaIsComplete

\* For any screens, callers and changes in between: "unchanged" is said of the screen that was named,
\* and a delta leaves nothing out (semanticObservationHash, semanticSnapshotDelta).
THEOREM DeltaCorrect == HistoryAssumption /\ HistorySpec => []DeltaIsComplete
<1> SUFFICES ASSUME HistoryAssumption PROVE HistorySpec => []DeltaIsComplete
  OBVIOUS
<1>1. HistoryInit => HistoryKinds /\ HistoryInv
  BY HistoryStarts
<1>2. (HistoryKinds /\ HistoryInv) /\ [HistoryNext]_historyVars => (HistoryKinds /\ HistoryInv)'
  BY HistoryKeeps
<1>3. HistoryKinds /\ HistoryInv => DeltaIsComplete
  BY HistoryMeans
<1> QED
  BY <1>1, <1>2, <1>3, PTL DEF HistorySpec

\* The variables of the history keep their types, and no more than HistoryLimit observations are kept.
THEOREM HistoryTyped == HistoryAssumption /\ HistorySpec => []HistoryTypeOK
<1> SUFFICES ASSUME HistoryAssumption PROVE HistorySpec => []HistoryTypeOK
  OBVIOUS
<1>1. HistoryInit => HistoryKinds /\ HistoryInv
  BY HistoryStarts
<1>2. (HistoryKinds /\ HistoryInv) /\ [HistoryNext]_historyVars => (HistoryKinds /\ HistoryInv)'
  BY HistoryKeeps
<1>3. HistoryKinds /\ HistoryInv => HistoryTypeOK
  BY HistoryMeans
<1> QED
  BY <1>1, <1>2, <1>3, PTL DEF HistorySpec

----------------------------------------------------------------------------
(***************************************************************************)
(* Lists.  Facts about filtered lists.  Induction has the form of a least  *)
(* number that is no counterexample: a set of numbers, unlike a predicate, *)
(* can be handed to a lemma.                                               *)
(***************************************************************************)

----------------------------------------------------------------------------
(* Induction, over sets of numbers instead of predicates.                  *)

\* Of the numbers of a set one is the least.
LEMMA LeastNumber ==
  ASSUME NEW T, T \subseteq Nat, T # {} PROVE \E k \in T : \A j \in T : k <= j
<1> DEFINE Less == {ss \in Nat \X Nat : ss[1] < ss[2]}
<1>1. IsWellFoundedOn(Less, Nat)
  BY NatLessThanWellFounded DEF OpToRel
<1>2. \A i, j \in Nat : j < i => <<j, i>> \in Less
  OBVIOUS
<1> HIDE DEF Less
<1>3. PICK i \in T : \A j \in T : ~ (<<j, i>> \in Less)
  BY <1>1, WFMin
<1>4. ASSUME NEW j \in T PROVE i <= j
  <2>1. i \in Nat /\ j \in Nat /\ ~ (j < i)
    BY <1>2, <1>3
  <2> QED
    BY <2>1
<1> QED
  BY <1>4

\* A set that holds 0 and with each number the next holds all of them.
LEMMA Upwards ==
  ASSUME NEW T, NEW n \in Nat, 0 \in T, \A k \in 0..(n - 1) : k \in T => k + 1 \in T
  PROVE  \A k \in 0..n : k \in T
<1> DEFINE Missing == {k \in 0..n : k \notin T}
<1> SUFFICES ASSUME Missing # {} PROVE FALSE
  OBVIOUS
<1>1. Missing \subseteq Nat
  OBVIOUS
<1>2. PICK k \in Missing : \A j \in Missing : k <= j
  <2> HIDE DEF Missing
  <2> QED
    BY <1>1, LeastNumber
<1>3. k - 1 \in 0..(n - 1) /\ k - 1 \notin Missing
  BY <1>2
<1> QED
  BY <1>2, <1>3

\* The numbers of a set that holds each number with whose predecessors it does.
LEMMA FromBelow ==
  ASSUME NEW T, NEW n \in Nat, \A k \in 0..n : (\A j \in 0..(k - 1) : j \in T) => k \in T
  PROVE  \A k \in 0..n : k \in T
<1> DEFINE Missing == {k \in 0..n : k \notin T}
<1> SUFFICES ASSUME Missing # {} PROVE FALSE
  OBVIOUS
<1>1. Missing \subseteq Nat
  OBVIOUS
<1>2. PICK k \in Missing : \A j \in Missing : k <= j
  <2> HIDE DEF Missing
  <2> QED
    BY <1>1, LeastNumber
<1>3. \A j \in 0..(k - 1) : j \in T
  BY <1>2
<1> QED
  BY <1>2, <1>3

----------------------------------------------------------------------------
(* Filter.                                                                 *)

Kept(s, keep, n, f) ==
    f = [i \in 0..n |->
            IF i = 0 THEN <<>>
            ELSE IF s[i] \in keep THEN Append(f[i - 1], s[i]) ELSE f[i - 1]]

\* There is a function that keeps what Filter keeps, one element after another.
LEMMA KeptExists ==
  ASSUME NEW s, NEW keep, NEW n \in Nat PROVE \E f : Kept(s, keep, n, f)
<1> DEFINE T == {k \in 0..n : \E f : Kept(s, keep, k, f)}
<1>1. 0 \in T
  <2> DEFINE F == [i \in 0..0 |-> <<>>]
  <2>1. F = [i \in 0..0 |-> IF i = 0 THEN <<>>
            ELSE IF s[i] \in keep THEN Append(F[i - 1], s[i]) ELSE F[i - 1]]
    OBVIOUS
  <2>2. Kept(s, keep, 0, F)
    BY <2>1, Zenon DEF Kept
  <2> HIDE DEF F
  <2> QED
    BY <2>2
<1>2. ASSUME NEW k \in 0..(n - 1), k \in T PROVE k + 1 \in T
  <2>1. PICK f : Kept(s, keep, k, f)
    BY <1>2
  <2> DEFINE G == [i \in 0..(k + 1) |->
                      IF i = k + 1 THEN IF s[i] \in keep THEN Append(f[k], s[i]) ELSE f[k] ELSE f[i]]
             H == [i \in 0..(k + 1) |-> IF i = 0 THEN <<>>
                      ELSE IF s[i] \in keep THEN Append(G[i - 1], s[i]) ELSE G[i - 1]]
  <2>2. \A i \in 0..k : f[i] = IF i = 0 THEN <<>>
            ELSE IF s[i] \in keep THEN Append(f[i - 1], s[i]) ELSE f[i - 1]
    BY <2>1 DEF Kept
  <2>3. ASSUME NEW i \in 0..(k + 1) PROVE G[i] = H[i]
    <3>1. CASE i = k + 1
      <4>1. i # 0 /\ i - 1 = k /\ G[i - 1] = f[k]
        BY <3>1
      <4> QED
        BY <3>1, <4>1
    <3>2. CASE i \in 1..k
      <4>1. G[i] = f[i] /\ G[i - 1] = f[i - 1]
        BY <3>2
      <4> QED
        BY <2>2, <3>2, <4>1
    <3>3. CASE i = 0
      BY <2>2, <3>3
    <3> QED
      BY <3>1, <3>2, <3>3
  <2>4. G = H
    BY <2>3
  <2>5. Kept(s, keep, k + 1, G)
    BY <2>4 DEF Kept
  <2> QED
    BY <2>5
<1>3. \A k \in 0..n : k \in T
  <2> HIDE DEF T
  <2> QED
    BY <1>1, <1>2, Upwards
<1> QED
  BY <1>3

\* The list that is kept so far, of the elements seen so far.
LEMMA FilterRuns ==
  ASSUME NEW S, NEW s \in Seq(S), NEW keep
  PROVE  \E f : /\ Filter(s, keep) = f[Len(s)] /\ f[0] = <<>>
                /\ \A i \in 1..Len(s) : f[i] = IF s[i] \in keep THEN Append(f[i - 1], s[i]) ELSE f[i - 1]
<1> DEFINE n == Len(s)
           g == CHOOSE f : Kept(s, keep, n, f)
<1>1. n \in Nat
  BY LenProperties
<1>2. Kept(s, keep, n, g)
  BY <1>1, KeptExists
<1>3. Filter(s, keep) = g[n]
  BY DEF Filter, Kept
<1> HIDE DEF g
<1>4. g[0] = <<>> /\ \A i \in 1..n : g[i] = IF s[i] \in keep THEN Append(g[i - 1], s[i]) ELSE g[i - 1]
  <2>1. \A i \in 0..n : g[i] = IF i = 0 THEN <<>>
            ELSE IF s[i] \in keep THEN Append(g[i - 1], s[i]) ELSE g[i - 1]
    BY <1>2 DEF Kept
  <2> HIDE DEF n
  <2> QED
    BY <1>1, <2>1
<1> QED
  BY <1>3, <1>4
Distinct(s) == \A a, b \in 1..Len(s) : s[a] = s[b] => a = b

\* What is in a filtered list f of the first k elements of s.
Filters(f, s, k, keep) ==
    /\ \A j \in 1..Len(f) : f[j] \in keep /\ \E i \in 1..k : s[i] = f[j]
    /\ \A i \in 1..k : s[i] \in keep => \E j \in 1..Len(f) : f[j] = s[i]

LEMMA AppendFilters ==
  ASSUME NEW S, NEW s \in Seq(S), NEW keep, NEW k \in Nat, k + 1 \in 1..Len(s),
         NEW f \in Seq(S), Filters(f, s, k, keep), s[k + 1] \in keep
  PROVE  Filters(Append(f, s[k + 1]), s, k + 1, keep)
<1> DEFINE g == Append(f, s[k + 1])
<1>1. /\ g \in Seq(S) /\ Len(g) = Len(f) + 1 /\ Len(f) \in Nat
      /\ (\A j \in 1..Len(f) : g[j] = f[j]) /\ g[Len(f) + 1] = s[k + 1]
  BY AppendProperties, ElementOfSeq, LenProperties
<1> HIDE DEF g
<1>2. ASSUME NEW j \in 1..Len(g) PROVE g[j] \in keep /\ \E i \in 1..(k + 1) : s[i] = g[j]
  <2>1. CASE j = Len(f) + 1
    <3>1. g[j] = s[k + 1] /\ k + 1 \in 1..(k + 1)
      BY <1>1, <2>1
    <3> QED
      BY <3>1
  <2>2. CASE j \in 1..Len(f)
    <3>1. PICK i \in 1..k : s[i] = f[j]
      BY <2>2 DEF Filters
    <3>2. i \in 1..(k + 1) /\ g[j] = f[j] /\ f[j] \in keep
      BY <1>1, <2>2 DEF Filters
    <3> QED
      BY <3>1, <3>2
  <2> QED
    BY <1>1, <2>1, <2>2
<1>3. ASSUME NEW i \in 1..(k + 1), s[i] \in keep PROVE \E j \in 1..Len(g) : g[j] = s[i]
  <2>1. CASE i = k + 1
    <3>1. g[Len(f) + 1] = s[i] /\ Len(f) + 1 \in 1..Len(g)
      BY <1>1, <2>1
    <3> QED
      BY <3>1
  <2>2. CASE i \in 1..k
    <3>1. PICK j \in 1..Len(f) : f[j] = s[i]
      BY <1>3, <2>2 DEF Filters
    <3>2. j \in 1..Len(g) /\ g[j] = f[j]
      BY <1>1
    <3> QED
      BY <3>1, <3>2
  <2> QED
    BY <2>1, <2>2
<1>4. Filters(g, s, k + 1, keep)
  BY <1>2, <1>3 DEF Filters
<1> QED
  BY <1>4 DEF g

\* An element that is not kept changes nothing.
LEMMA SameFilters ==
  ASSUME NEW s, NEW keep, NEW k \in Nat, NEW f, Filters(f, s, k, keep), s[k + 1] \notin keep
  PROVE  Filters(f, s, k + 1, keep)
<1>1. \A i \in 1..(k + 1) : i \in 1..k \/ i = k + 1
  OBVIOUS
<1>2. \A i \in 1..k : i \in 1..(k + 1)
  OBVIOUS
<1> QED
  BY <1>1, <1>2 DEF Filters

LEMMA AppendDistinct ==
  ASSUME NEW S, NEW f \in Seq(S), NEW x \in S, Distinct(f), \A j \in 1..Len(f) : f[j] # x
  PROVE  Distinct(Append(f, x))
<1> DEFINE g == Append(f, x)
<1>1. /\ Len(g) = Len(f) + 1 /\ Len(f) \in Nat
      /\ (\A j \in 1..Len(f) : g[j] = f[j]) /\ g[Len(f) + 1] = x
  BY AppendProperties, LenProperties
<1> HIDE DEF g
<1>2. \A j \in 1..Len(g) : j \in 1..Len(f) \/ j = Len(f) + 1
  BY <1>1
<1>3. Distinct(g)
  BY <1>1, <1>2 DEF Distinct
<1> QED
  BY <1>3 DEF g

\* A filtered list has the elements of the list that pass the test, and no
\* others; it is not longer, and nothing is in it twice that was there once.
LEMMA FilterFacts ==
  ASSUME NEW S, NEW s \in Seq(S), NEW keep
  PROVE  /\ Filter(s, keep) \in Seq(S) /\ Len(Filter(s, keep)) <= Len(s)
         /\ Filters(Filter(s, keep), s, Len(s), keep)
         /\ Distinct(s) => Distinct(Filter(s, keep))
<1>1. PICK f : /\ Filter(s, keep) = f[Len(s)] /\ f[0] = <<>>
               /\ \A i \in 1..Len(s) : f[i] = IF s[i] \in keep THEN Append(f[i - 1], s[i]) ELSE f[i - 1]
  BY FilterRuns
<1> DEFINE n == Len(s)
<1>2. n \in Nat
  BY LenProperties
<1> DEFINE Fine(k) == /\ f[k] \in Seq(S) /\ Len(f[k]) <= k /\ Filters(f[k], s, k, keep)
                      /\ Distinct(s) => Distinct(f[k])
           T == {k \in 0..n : Fine(k)}
<1>3. 0 \in T
  <2>1. f[0] \in Seq(S) /\ Len(f[0]) = 0
    BY <1>1, EmptySeq
  <2>2. Filters(f[0], s, 0, keep) /\ Distinct(f[0])
    BY <2>1 DEF Filters, Distinct
  <2> QED
    BY <1>2, <2>1, <2>2
<1>4. ASSUME NEW k \in 0..(n - 1), k \in T PROVE k + 1 \in T
  <2> HIDE DEF n
  <2>1. k \in Nat /\ k + 1 \in 1..n /\ k + 1 - 1 = k /\ k + 1 \in 0..n
    BY <1>2
  <2>2. f[k] \in Seq(S) /\ Len(f[k]) <= k /\ Filters(f[k], s, k, keep) /\ (Distinct(s) => Distinct(f[k]))
    BY <1>4
  <2>3. f[k + 1] = IF s[k + 1] \in keep THEN Append(f[k], s[k + 1]) ELSE f[k]
    BY <1>1, <2>1 DEF n
  <2>4. s[k + 1] \in S
    BY <2>1, ElementOfSeq DEF n
  <2>5. CASE s[k + 1] \in keep
    <3>1. f[k + 1] \in Seq(S) /\ Len(f[k + 1]) = Len(f[k]) + 1 /\ Len(f[k]) \in Nat
      BY <2>2, <2>3, <2>4, <2>5, AppendProperties, LenProperties
    <3>2. Filters(f[k + 1], s, k + 1, keep)
      BY <2>1, <2>2, <2>3, <2>5, AppendFilters, Zenon DEF n
    <3>3. ASSUME Distinct(s) PROVE Distinct(f[k + 1])
      <4>1. ASSUME NEW j \in 1..Len(f[k]) PROVE f[k][j] # s[k + 1]
        <5>1. PICK i \in 1..k : s[i] = f[k][j]
          BY <2>2 DEF Filters
        <5>2. i \in 1..Len(s) /\ k + 1 \in 1..Len(s) /\ i # k + 1
          BY <2>1 DEF n
        <5> QED
          BY <3>3, <5>1, <5>2 DEF Distinct
      <4> QED
        BY <2>2, <2>3, <2>4, <2>5, <3>3, <4>1, AppendDistinct, Zenon
    <3>4. Len(f[k + 1]) <= k + 1
      BY <2>1, <2>2, <3>1
    <3> QED
      BY <2>1, <3>1, <3>2, <3>3, <3>4
  <2>6. CASE s[k + 1] \notin keep
    <3>1. f[k + 1] = f[k]
      BY <2>3, <2>6
    <3>2. Filters(f[k + 1], s, k + 1, keep)
      BY <2>1, <2>2, <2>6, <3>1, SameFilters, Zenon
    <3>3. Len(f[k + 1]) <= k + 1
      BY <2>1, <2>2, <3>1, LenProperties
    <3> QED
      BY <2>1, <2>2, <3>1, <3>2, <3>3
  <2> QED
    BY <2>5, <2>6
<1>5. \A k \in 0..n : k \in T
  <2> HIDE DEF T
  <2> QED
    BY <1>2, <1>3, <1>4, Upwards
<1>6. Fine(n)
  BY <1>2, <1>5
<1> QED
  BY <1>1, <1>6, Zenon

----------------------------------------------------------------------------
(***************************************************************************)
(* DeviceInventory.  The page behind the cursor a reader holds goes on     *)
(* where the reader is, in the inventory the reader began with, whatever   *)
(* else was listed, forgotten or refused in between.                       *)
(***************************************************************************)

\* The values of the records.
PageKind == [cursor : Nat, devices : Seq(Listed), offset : Nat]
ReaderKind == [at : {"reading", "resting", "listed", "failed"}, cursor : Nat,
               got : Seq(Listed), of : Seq(Listed), truncated : BOOLEAN]

\* s is the beginning of t.
Starts(s, t) == Len(s) <= Len(t) /\ \A i \in 1..Len(s) : s[i] = t[i]

InventoryKinds ==
    /\ inventory \subseteq Listed /\ shown \in Seq(Listed) /\ cursors \in Nat
    /\ pages \in Seq(PageKind) /\ Len(pages) <= SnapshotLimit
    /\ reader \in [Readers -> ReaderKind]

\* A page that is kept has devices before it and behind it.
Inside(e, last) == e.cursor \in 1..last /\ e.offset \in 1..(Len(e.devices) - 1)

\* What a reader has is the beginning of its inventory.
Sound(w, last) ==
    /\ w.cursor <= last /\ Starts(w.got, w.of) /\ Distinct(w.of)
    /\ w.at = "listed" /\ ~w.truncated => w.got = w.of

\* The page behind the cursor of a reader goes on where the reader is.
GoesOn(e, w) ==
    e.cursor = w.cursor =>
        Starts(e.devices, w.of) /\ (~w.truncated => e.devices = w.of) /\ e.offset = Len(w.got)

InventoryInv ==
    /\ \A k \in 1..Len(pages) : Inside(pages[k], cursors)
    /\ \A r \in Readers : Sound(reader[r], cursors)
    /\ \A r \in Readers : reader[r].at = "reading" => \A k \in 1..Len(pages) : GoesOn(pages[k], reader[r])
    /\ Distinct(shown)

\* A page begins at its offset, and holds something if anything is left.
LEMMA PageFacts ==
  ASSUME InventoryAssumption, NEW devices \in Seq(Listed), NEW offset \in 0..Len(devices)
  PROVE  /\ Page(devices, offset) \in Seq(Listed) /\ Len(Page(devices, offset)) \in Nat
         /\ offset + Len(Page(devices, offset)) <= Len(devices)
         /\ offset < Len(devices) => Len(Page(devices, offset)) >= 1
         /\ \A i \in 1..Len(Page(devices, offset)) : Page(devices, offset)[i] = devices[offset + i]
<1> DEFINE last == IF offset + PageLimit < Len(devices) THEN offset + PageLimit ELSE Len(devices)
<1>1. PageLimit \in Nat /\ PageLimit >= 1 /\ Len(devices) \in Nat /\ offset \in Nat
  BY LenProperties DEF InventoryAssumption
<1>2. last \in Nat /\ offset <= last /\ last <= Len(devices) /\ (offset < Len(devices) => offset < last)
  BY <1>1
<1>3. Page(devices, offset) = SubSeq(devices, offset + 1, last)
  BY DEF Page
<1> HIDE DEF last
<1>4. \A i \in (offset + 1)..last : devices[i] \in Listed
  BY <1>1, <1>2, ElementOfSeq
<1>5. /\ SubSeq(devices, offset + 1, last) \in Seq(Listed)
      /\ Len(SubSeq(devices, offset + 1, last)) = IF offset + 1 <= last THEN last - (offset + 1) + 1 ELSE 0
      /\ \A i \in 1..(last - (offset + 1) + 1) :
            SubSeq(devices, offset + 1, last)[i] = devices[offset + 1 + i - 1]
  BY <1>1, <1>2, <1>4, SubSeqProperties
<1>6. Len(Page(devices, offset)) = last - offset
  BY <1>1, <1>2, <1>3, <1>5
<1>7. \A i \in 1..(last - offset) : offset + 1 + i - 1 = offset + i /\ i \in 1..(last - (offset + 1) + 1)
  BY <1>1, <1>2
<1> QED
  BY <1>1, <1>2, <1>3, <1>5, <1>6, <1>7

LEMMA CreatedFacts ==
  ASSUME InventoryAssumption, NEW kept \in Seq(PageKind), NEW e \in PageKind
  PROVE  /\ Created(kept, e) \in Seq(PageKind) /\ Len(Created(kept, e)) <= SnapshotLimit
         /\ \A k \in 1..Len(Created(kept, e)) :
               Created(kept, e)[k] = e \/ \E j \in 1..Len(kept) : Created(kept, e)[k] = kept[j]
<1> DEFINE room == SnapshotLimit - 1
           old == IF Len(kept) > room THEN SubSeq(kept, Len(kept) - room + 1, Len(kept)) ELSE kept
           one == <<e>>
<1>1. room \in Nat /\ Len(kept) \in Nat /\ SnapshotLimit = room + 1
  BY LenProperties DEF InventoryAssumption
<1>2. /\ old \in Seq(PageKind) /\ Len(old) <= room
      /\ \A k \in 1..Len(old) : \E j \in 1..Len(kept) : old[k] = kept[j]
  <2>1. CASE Len(kept) > room
    <3> DEFINE from == Len(kept) - room + 1
    <3>1. from \in Int /\ from >= 1 /\ from <= Len(kept) + 1 /\ Len(kept) - from + 1 = room
      BY <1>1, <2>1
    <3>2. old = SubSeq(kept, from, Len(kept))
      BY <2>1
    <3> HIDE DEF from, old, room
    <3>3. \A i \in from..Len(kept) : i \in 1..Len(kept) /\ kept[i] \in PageKind
      BY <1>1, <3>1, ElementOfSeq
    <3>4. /\ SubSeq(kept, from, Len(kept)) \in Seq(PageKind)
          /\ Len(SubSeq(kept, from, Len(kept))) = IF from <= Len(kept) THEN Len(kept) - from + 1 ELSE 0
          /\ \A i \in 1..(Len(kept) - from + 1) : SubSeq(kept, from, Len(kept))[i] = kept[from + i - 1]
      BY <1>1, <3>1, <3>3, SubSeqProperties
    <3>5. Len(old) = room
      BY <1>1, <3>1, <3>2, <3>4
    <3>6. \A i \in 1..room : from + i - 1 \in 1..Len(kept)
      BY <1>1, <3>1
    <3> QED
      BY <1>1, <3>1, <3>2, <3>4, <3>5, <3>6
  <2>2. CASE ~(Len(kept) > room)
    BY <1>1, <2>2
  <2> QED
    BY <2>1, <2>2
<1>3. Created(kept, e) = old \o one
  BY DEF Created
<1>4. one \in Seq(PageKind) /\ Len(one) = 1 /\ one[1] = e
  OBVIOUS
<1> HIDE DEF old, one, room
<1>5. /\ old \o one \in Seq(PageKind) /\ Len(old \o one) = Len(old) + Len(one)
      /\ \A i \in 1..(Len(old) + Len(one)) :
            (old \o one)[i] = IF i <= Len(old) THEN old[i] ELSE one[i - Len(old)]
  BY <1>2, <1>4, ConcatProperties
<1>6. Len(old) \in Nat
  BY <1>2, LenProperties
<1>7. ASSUME NEW k \in 1..(Len(old) + 1)
      PROVE  (old \o one)[k] = e \/ \E j \in 1..Len(kept) : (old \o one)[k] = kept[j]
  <2>1. CASE k <= Len(old)
    <3>1. k \in 1..Len(old) /\ (old \o one)[k] = old[k]
      BY <1>4, <1>5, <1>6, <2>1
    <3> QED
      BY <1>2, <3>1
  <2>2. CASE k = Len(old) + 1
    <3>1. (old \o one)[k] = one[1]
      BY <1>4, <1>5, <1>6, <2>2
    <3> QED
      BY <1>4, <3>1
  <2>3. k <= Len(old) \/ k = Len(old) + 1
    BY <1>6
  <2> QED
    BY <2>1, <2>2, <2>3
<1> QED
  BY <1>1, <1>2, <1>3, <1>4, <1>5, <1>6, <1>7

LEMMA StartsSame ==
  ASSUME NEW S, NEW s \in Seq(S), NEW t \in Seq(S), Starts(s, t), Len(s) = Len(t) PROVE s = t
  BY SeqEqual DEF Starts

LEMMA StartsDistinct ==
  ASSUME NEW S, NEW s \in Seq(S), NEW t \in Seq(S), Starts(s, t), Distinct(t) PROVE Distinct(s)
<1>1. Len(s) \in Nat /\ Len(t) \in Nat
  BY LenProperties
<1> QED
  BY <1>1 DEF Starts, Distinct
\* A page more, of the same inventory.
LEMMA LongerStarts ==
  ASSUME InventoryAssumption, NEW got \in Seq(Listed), NEW of \in Seq(Listed), NEW devices \in Seq(Listed),
         Starts(got, of), Starts(devices, of), Len(got) <= Len(devices)
  PROVE  LET page == Page(devices, Len(got))
         IN  /\ got \o page \in Seq(Listed) /\ Len(got \o page) = Len(got) + Len(page)
             /\ Starts(got \o page, of)
<1> DEFINE page == Page(devices, Len(got))
           g == got \o page
<1>1. Len(got) \in Nat /\ Len(devices) \in Nat /\ Len(of) \in Nat /\ Len(got) \in 0..Len(devices)
  BY LenProperties
<1>2. /\ page \in Seq(Listed) /\ Len(page) \in Nat /\ Len(got) + Len(page) <= Len(devices)
      /\ \A i \in 1..Len(page) : page[i] = devices[Len(got) + i]
  BY <1>1, PageFacts
<1> HIDE DEF page
<1>3. /\ g \in Seq(Listed) /\ Len(g) = Len(got) + Len(page)
      /\ \A i \in 1..(Len(got) + Len(page)) : g[i] = IF i <= Len(got) THEN got[i] ELSE page[i - Len(got)]
  BY <1>2, ConcatProperties
<1> HIDE DEF g
<1>4. ASSUME NEW i \in 1..Len(g) PROVE g[i] = of[i]
  <2>1. CASE i <= Len(got)
    <3>1. i \in 1..(Len(got) + Len(page)) /\ i \in 1..Len(got)
      BY <1>1, <1>2, <1>3, <2>1
    <3>2. g[i] = got[i]
      BY <1>3, <2>1, <3>1
    <3> QED
      BY <3>1, <3>2 DEF Starts
  <2>2. CASE i > Len(got)
    <3>1. i - Len(got) \in 1..Len(page) /\ Len(got) + (i - Len(got)) = i /\ i \in 1..Len(devices)
      BY <1>1, <1>2, <1>3, <2>2
    <3>2. g[i] = page[i - Len(got)] /\ page[i - Len(got)] = devices[i]
      BY <1>1, <1>2, <1>3, <2>2, <3>1
    <3> QED
      BY <3>1, <3>2 DEF Starts
  <2> QED
    BY <1>1, <2>1, <2>2
<1>5. Starts(g, of)
  BY <1>1, <1>2, <1>3, <1>4 DEF Starts
<1> QED
  BY <1>3, <1>5 DEF g, page

\* One lemma for each step: it keeps the kinds and the invariant.
LEMMA AnswerKeeps ==
  ASSUME InventoryAssumption, InventoryKinds, InventoryInv, NEW r \in Readers,
         NEW kept \in Seq(PageKind), NEW devices \in Seq(Listed), NEW offset, NEW was \in ReaderKind,
         Len(kept) <= SnapshotLimit,
         \A k \in 1..Len(kept) : \E j \in 1..Len(pages) : kept[k] = pages[j],
         Starts(was.got, was.of), Distinct(was.of), Starts(devices, was.of),
         ~was.truncated => devices = was.of,
         offset = Len(was.got), Len(was.got) <= Len(devices),
         Answer(r, kept, devices, offset, was), inventory' = inventory, shown' = shown
  PROVE  InventoryKinds' /\ InventoryInv'
<1> DEFINE page == Page(devices, offset)
           next == offset + Len(page)
           more == next < Len(devices)
           made == cursors + 1
           entry == [cursor |-> made, devices |-> devices, offset |-> next]
           now == [was EXCEPT !.at = IF more THEN "reading" ELSE "listed",
                              !.cursor = IF more THEN made ELSE 0, !.got = @ \o page]
<1>1. was.got \in Seq(Listed) /\ was.of \in Seq(Listed) /\ was.truncated \in BOOLEAN
  BY DEF ReaderKind
<1>2. Len(was.got) \in Nat /\ Len(devices) \in Nat /\ offset \in 0..Len(devices) /\ Len(was.of) \in Nat
  BY <1>1, LenProperties
<1>3. Len(page) \in Nat /\ offset + Len(page) <= Len(devices) /\ (offset < Len(devices) => Len(page) >= 1)
  BY <1>2, PageFacts
<1>4. was.got \o page \in Seq(Listed) /\ Len(was.got \o page) = next /\ Starts(was.got \o page, was.of)
  BY <1>1, LongerStarts
<1>5. /\ cursors' = (IF more THEN cursors + 1 ELSE cursors)
      /\ pages' = (IF more THEN Created(kept, [cursor |-> cursors', devices |-> devices, offset |-> next])
                   ELSE kept)
      /\ reader' = [reader EXCEPT ![r] = [was EXCEPT !.at = IF more THEN "reading" ELSE "listed",
                              !.cursor = IF more THEN cursors' ELSE 0, !.got = @ \o page]]
  BY Zenon DEF Answer
<1> HIDE DEF page
<1>a. next \in Nat /\ more \in BOOLEAN /\ (more => next < Len(devices)) /\ (~more => next = Len(devices))
  BY <1>2, <1>3
<1> HIDE DEF next, more
<1>6. cursors' \in Nat /\ cursors <= cursors' /\ cursors \in Nat /\ made \in Nat /\ (more => cursors' = made)
  BY <1>5 DEF InventoryKinds
<1>b. Len(was.got \o page) = next
  BY <1>4
<1>7. pages' = (IF more THEN Created(kept, entry) ELSE kept) /\ reader' = [reader EXCEPT ![r] = now]
  BY <1>5, <1>6
<1>8. /\ now.at = (IF more THEN "reading" ELSE "listed") /\ now.cursor = (IF more THEN made ELSE 0)
      /\ now.got = was.got \o page /\ now.of = was.of /\ now.truncated = was.truncated
  BY DEF ReaderKind
<1>9. now \in ReaderKind
  BY <1>4, <1>6 DEF ReaderKind
<1>c. more => next \in 1..(Len(devices) - 1)
  BY <1>2, <1>3, <1>a DEF next
<1>10. entry \in PageKind /\ (more => Inside(entry, made))
  BY <1>6, <1>a, <1>c DEF PageKind, Inside
<1>11. entry.cursor = made /\ entry.devices = devices /\ entry.offset = next
  OBVIOUS
<1> HIDE DEF now, entry
<1>12. /\ pages' \in Seq(PageKind) /\ Len(pages') <= SnapshotLimit
       /\ \A k \in 1..Len(pages') : (more /\ pages'[k] = entry) \/ \E j \in 1..Len(pages) : pages'[k] = pages[j]
  <2>1. CASE more
    <3>1. pages' = Created(kept, entry)
      BY <1>7, <2>1
    <3>2. /\ Created(kept, entry) \in Seq(PageKind) /\ Len(Created(kept, entry)) <= SnapshotLimit
          /\ \A k \in 1..Len(Created(kept, entry)) :
                Created(kept, entry)[k] = entry \/ \E j \in 1..Len(kept) : Created(kept, entry)[k] = kept[j]
      BY <1>10, CreatedFacts
    <3>3. ASSUME NEW k \in 1..Len(pages'), NEW j \in 1..Len(kept), pages'[k] = kept[j]
          PROVE  \E i \in 1..Len(pages) : pages'[k] = pages[i]
      BY <3>3
    <3> QED
      BY <2>1, <3>1, <3>2, <3>3
  <2>2. CASE ~more
    BY <1>7, <2>2
  <2> QED
    BY <2>1, <2>2
<1>13. \A q \in Readers : reader'[q] = IF q = r THEN now ELSE reader[q]
  BY <1>7 DEF InventoryKinds
<1>14. InventoryKinds'
  BY <1>6, <1>7, <1>9, <1>12 DEF InventoryKinds
<1>15. \A k \in 1..Len(pages') : Inside(pages'[k], cursors')
  <2> SUFFICES ASSUME NEW k \in 1..Len(pages') PROVE Inside(pages'[k], cursors')
    OBVIOUS
  <2>1. CASE more /\ pages'[k] = entry
    BY <1>5, <1>10, <2>1
  <2>2. CASE \E j \in 1..Len(pages) : pages'[k] = pages[j]
    <3>1. Inside(pages'[k], cursors)
      BY <2>2 DEF InventoryInv
    <3> QED
      BY <1>6, <3>1 DEF Inside
  <2> QED
    BY <1>12, <2>1, <2>2
<1>16. \A q \in Readers : Sound(reader'[q], cursors')
  <2>1. Sound(now, cursors')
    <3>1. now.cursor <= cursors'
      BY <1>6, <1>8, <1>a
    <3>2. ASSUME ~more, ~was.truncated PROVE now.got = now.of
      <4>0. was.of = devices
        BY <3>2
      <4>1. Len(now.got) = Len(now.of)
        BY <1>2, <1>8, <1>a, <1>b, <3>2, <4>0
      <4> QED
        BY <1>1, <1>4, <1>8, <4>1, StartsSame
    <3> QED
      BY <1>4, <1>8, <3>1, <3>2 DEF Sound
  <2>2. \A q \in Readers : Sound(reader[q], cursors) /\ reader[q].cursor \in Nat
    BY DEF InventoryInv, InventoryKinds, ReaderKind
  <2> QED
    BY <1>6, <1>13, <2>1, <2>2 DEF Sound
<1>17. ASSUME NEW q \in Readers, reader'[q].at = "reading", NEW k \in 1..Len(pages')
       PROVE  GoesOn(pages'[k], reader'[q])
  <2>1. CASE more /\ pages'[k] = entry
    <3>1. CASE q = r
      BY <1>4, <1>8, <1>11, <1>13, <2>1, <3>1 DEF GoesOn
    <3>2. CASE q # r
      <4>1. reader'[q].cursor <= cursors /\ reader'[q].cursor \in Nat
        BY <1>13, <3>2 DEF InventoryInv, Sound, InventoryKinds, ReaderKind
      <4>2. entry.cursor # reader'[q].cursor
        BY <1>6, <1>11, <4>1
      <4> QED
        BY <2>1, <4>2 DEF GoesOn
    <3> QED
      BY <3>1, <3>2
  <2>2. CASE \E j \in 1..Len(pages) : pages'[k] = pages[j]
    <3>1. PICK j \in 1..Len(pages) : pages'[k] = pages[j]
      BY <2>2
    <3>2. pages[j].cursor \in 1..cursors
      BY DEF InventoryInv, Inside
    <3>3. CASE q = r
      <4>1. more /\ now.cursor = made
        BY <1>8, <1>13, <1>17, <3>3
      <4>2. pages'[k].cursor # reader'[q].cursor
        BY <1>6, <1>13, <3>1, <3>2, <3>3, <4>1
      <4> QED
        BY <4>2 DEF GoesOn
    <3>4. CASE q # r
      BY <1>13, <1>17, <3>1, <3>4 DEF InventoryInv
    <3> QED
      BY <3>3, <3>4
  <2> QED
    BY <1>12, <2>1, <2>2
<1> QED
  BY <1>14, <1>15, <1>16, <1>17 DEF InventoryInv
\* sortedDeviceInventory lists each device once.
LEMMA SortedFacts ==
  ASSUME InventoryAssumption, NEW devices
  PROVE  Sorted(devices) \in Seq(Listed) /\ Distinct(Sorted(devices))
<1> DEFINE order == [d \in Listed |-> d]
<1>1. order \in Seq(Listed) /\ Len(order) = DeviceCount /\ \A d \in 1..DeviceCount : order[d] = d
  BY DEF InventoryAssumption, Listed
<1>2. Sorted(devices) = Filter(order, devices)
  BY DEF Sorted
<1> HIDE DEF order
<1>3. Distinct(order)
  BY <1>1 DEF Distinct
<1> QED
  BY <1>1, <1>2, <1>3, FilterFacts

LEMMA ListKeeps ==
  ASSUME InventoryAssumption, InventoryKinds, InventoryInv, NEW r \in Readers, List(r)
  PROVE  InventoryKinds' /\ InventoryInv'
<1> DEFINE sorted == Sorted(inventory)
           m == IF Len(sorted) < RetainedLimit THEN Len(sorted) ELSE RetainedLimit
           retained == SubSeq(sorted, 1, m)
           was == Reading(sorted, Len(retained) < Len(sorted))
<1>1. sorted \in Seq(Listed) /\ Distinct(sorted)
  BY SortedFacts
<1>2. Answer(r, pages, retained, 0, was) /\ inventory' = inventory /\ shown' = shown
  BY DEF List
<1> HIDE DEF sorted
<1>3. Len(sorted) \in Nat /\ RetainedLimit \in Nat
  BY <1>1, LenProperties DEF InventoryAssumption
<1>4. m \in Nat /\ m <= Len(sorted)
  BY <1>3
<1> HIDE DEF m
<1>5. /\ retained \in Seq(Listed) /\ Len(retained) = m
      /\ \A i \in 1..m : retained[i] = sorted[i]
  <2>1. \A i \in 1..m : i \in 1..Len(sorted) /\ sorted[i] \in Listed
    BY <1>1, <1>3, <1>4, ElementOfSeq
  <2>2. /\ SubSeq(sorted, 1, m) \in Seq(Listed) /\ Len(SubSeq(sorted, 1, m)) = (IF 1 <= m THEN m - 1 + 1 ELSE 0)
        /\ \A i \in 1..(m - 1 + 1) : SubSeq(sorted, 1, m)[i] = sorted[1 + i - 1]
    BY <1>4, <2>1, SubSeqProperties
  <2>3. \A i \in 1..m : i \in 1..(m - 1 + 1) /\ 1 + i - 1 = i
    BY <1>4
  <2> QED
    BY <1>4, <2>2, <2>3
<1> HIDE DEF retained
<1>6. Starts(retained, sorted)
  BY <1>4, <1>5 DEF Starts
<1>7. /\ was \in ReaderKind /\ was.got = <<>> /\ was.of = sorted
      /\ was.truncated <=> (Len(retained) < Len(sorted))
  <2> DEFINE cut == Len(retained) < Len(sorted)
  <2>1. cut \in BOOLEAN /\ <<>> \in Seq(Listed)
    BY EmptySeq
  <2>2. was = [at |-> "reading", cursor |-> 0, got |-> <<>>, of |-> sorted, truncated |-> cut]
    BY DEF Reading
  <2> HIDE DEF cut, was
  <2>3. was \in ReaderKind /\ was.got = <<>> /\ was.of = sorted /\ was.truncated = cut
    BY <1>1, <2>1, <2>2 DEF ReaderKind
  <2> QED
    BY <2>3 DEF cut
<1> HIDE DEF was
<1>8. Starts(was.got, was.of) /\ Len(was.got) = 0
  BY <1>3, <1>7 DEF Starts
<1>9. ~was.truncated => retained = was.of
  <2> SUFFICES ASSUME ~was.truncated PROVE retained = was.of
    OBVIOUS
  <2>1. Len(retained) = Len(sorted)
    BY <1>3, <1>4, <1>5, <1>7
  <2> QED
    BY <1>1, <1>5, <1>6, <1>7, <2>1, StartsSame
<1>10. /\ pages \in Seq(PageKind) /\ Len(pages) <= SnapshotLimit
       /\ \A k \in 1..Len(pages) : \E j \in 1..Len(pages) : pages[k] = pages[j]
  BY DEF InventoryKinds
<1>11. 0 <= Len(retained)
  BY <1>4, <1>5
<1> QED
  BY <1>1, <1>2, <1>5, <1>6, <1>7, <1>8, <1>9, <1>10, <1>11, AnswerKeeps

LEMMA ContinueKeeps ==
  ASSUME InventoryAssumption, InventoryKinds, InventoryInv, NEW r \in Readers, Continue(r)
  PROVE  InventoryKinds' /\ InventoryInv'
<1> DEFINE others == {e \in ToSet(pages) : e.cursor # reader[r].cursor}
           kept == Filter(pages, others)
<1>1. PICK k \in DOMAIN pages :
         /\ pages[k].cursor = reader[r].cursor
         /\ Answer(r, kept, pages[k].devices, pages[k].offset, reader[r])
  BY DEF Continue
<1>2. inventory' = inventory /\ shown' = shown /\ reader[r].at = "reading"
  BY DEF Continue
<1>3. pages \in Seq(PageKind) /\ k \in 1..Len(pages) /\ Len(pages) <= SnapshotLimit /\ reader[r] \in ReaderKind
  BY <1>1, LenProperties DEF InventoryKinds
<1>4. pages[k] \in PageKind /\ pages[k].devices \in Seq(Listed)
  <2>1. pages[k] \in PageKind
    BY <1>3, ElementOfSeq
  <2> QED
    BY <2>1 DEF PageKind
<1>5. Inside(pages[k], cursors) /\ GoesOn(pages[k], reader[r]) /\ Sound(reader[r], cursors)
  BY <1>2, <1>3 DEF InventoryInv
<1> HIDE DEF others
<1>6. kept \in Seq(PageKind) /\ Len(kept) <= Len(pages) /\ Filters(kept, pages, Len(pages), others)
  BY <1>3, FilterFacts
<1> HIDE DEF kept
<1>7. Len(kept) <= SnapshotLimit
  <2>1. Len(kept) \in Nat /\ Len(pages) \in Nat /\ SnapshotLimit \in Nat
    BY <1>3, <1>6, LenProperties DEF InventoryAssumption
  <2> QED
    BY <1>3, <1>6, <2>1
<1>8. \A i \in 1..Len(kept) : \E j \in 1..Len(pages) : kept[i] = pages[j]
  BY <1>6 DEF Filters
<1>9. Starts(reader[r].got, reader[r].of) /\ Distinct(reader[r].of)
  BY <1>5 DEF Sound
<1>10. /\ Starts(pages[k].devices, reader[r].of) /\ pages[k].offset = Len(reader[r].got)
       /\ ~reader[r].truncated => pages[k].devices = reader[r].of
  BY <1>1, <1>5 DEF GoesOn
<1>11. Len(reader[r].got) <= Len(pages[k].devices)
  <2>1. Len(pages[k].devices) \in Nat
    BY <1>4, LenProperties
  <2> QED
    BY <1>5, <1>10, <2>1 DEF Inside
<1> QED
  BY <1>1, <1>2, <1>3, <1>4, <1>6, <1>7, <1>8, <1>9, <1>10, <1>11, AnswerKeeps
LEMMA RefusedKeeps ==
  ASSUME InventoryAssumption, InventoryKinds, InventoryInv, NEW r \in Readers, Refused(r)
  PROVE  InventoryKinds' /\ InventoryInv'
<1>1. /\ inventory' = inventory /\ pages' = pages /\ shown' = shown /\ cursors' = cursors
      /\ reader' = [reader EXCEPT ![r].at = "failed"]
  BY DEF Refused
<1>2. /\ reader' \in [Readers -> ReaderKind]
      /\ \A q \in Readers : reader'[q] = IF q = r THEN [reader[r] EXCEPT !.at = "failed"] ELSE reader[q]
  BY <1>1 DEF InventoryKinds, ReaderKind
<1>3. reader[r] \in ReaderKind
  BY DEF InventoryKinds
<1>4. InventoryKinds'
  BY <1>1, <1>2 DEF InventoryKinds
<1>5. reader'[r].at = "failed" /\ Sound(reader'[r], cursors)
  BY <1>2, <1>3 DEF InventoryInv, Sound, ReaderKind
<1>6. \A q \in Readers : q # r => reader'[q] = reader[q]
  BY <1>2
<1>7. \A q \in Readers : Sound(reader'[q], cursors')
  BY <1>1, <1>5, <1>6 DEF InventoryInv
<1>8. \A q \in Readers : reader'[q].at = "reading" => \A k \in 1..Len(pages') : GoesOn(pages'[k], reader'[q])
  BY <1>1, <1>5, <1>6 DEF InventoryInv
<1> QED
  BY <1>1, <1>4, <1>7, <1>8 DEF InventoryInv

LEMMA ShowListKeeps ==
  ASSUME InventoryAssumption, InventoryKinds, InventoryInv, NEW r \in Readers, ShowList(r)
  PROVE  InventoryKinds' /\ InventoryInv'
<1> DEFINE listed == reader[r].got
           retained == Filter(shown, ToSet(listed))
           added == Filter(listed, Listed \ ToSet(retained))
           all == retained \o added
<1>1. /\ inventory' = inventory /\ pages' = pages /\ shown' = all /\ cursors' = cursors
      /\ reader' = [reader EXCEPT ![r] = Resting]
  BY DEF ShowList
<1>2. /\ Resting \in ReaderKind /\ Resting.at = "resting" /\ Resting.cursor = 0
      /\ Resting.got = <<>> /\ Resting.of = <<>>
  <2>1. <<>> \in Seq(Listed)
    BY EmptySeq
  <2> QED
    BY <2>1 DEF Resting, Reading, ReaderKind
<1>3. /\ reader' \in [Readers -> ReaderKind]
      /\ \A q \in Readers : reader'[q] = IF q = r THEN Resting ELSE reader[q]
  BY <1>1, <1>2 DEF InventoryKinds
<1>4. reader[r] \in ReaderKind /\ listed \in Seq(Listed) /\ reader[r].of \in Seq(Listed) /\ shown \in Seq(Listed)
  BY DEF InventoryKinds, ReaderKind
<1>5. Distinct(listed) /\ Distinct(shown)
  BY <1>4, StartsDistinct DEF InventoryInv, Sound
<1> HIDE DEF listed
<1>6. retained \in Seq(Listed) /\ Distinct(retained)
  BY <1>4, <1>5, FilterFacts
<1> HIDE DEF retained
<1>7. added \in Seq(Listed) /\ Distinct(added) /\ \A i \in 1..Len(added) : added[i] \notin ToSet(retained)
  BY <1>4, <1>5, FilterFacts DEF Filters
<1> HIDE DEF added
<1>8. \A i \in 1..Len(retained) : retained[i] \in ToSet(retained)
  BY <1>6, LenProperties DEF ToSet
<1>9. /\ all \in Seq(Listed) /\ Len(all) = Len(retained) + Len(added)
      /\ \A i \in 1..(Len(retained) + Len(added)) :
            all[i] = IF i <= Len(retained) THEN retained[i] ELSE added[i - Len(retained)]
  BY <1>6, <1>7, ConcatProperties
<1>10. Len(retained) \in Nat /\ Len(added) \in Nat
  BY <1>6, <1>7, LenProperties
<1> HIDE DEF all
<1>11. ASSUME NEW a \in 1..Len(all), NEW b \in 1..Len(all), all[a] = all[b] PROVE a = b
  <2>1. \A i \in 1..Len(all) : \/ i \in 1..Len(retained) /\ all[i] = retained[i]
                               \/ i - Len(retained) \in 1..Len(added) /\ all[i] = added[i - Len(retained)]
    BY <1>9, <1>10
  <2>2. CASE a \in 1..Len(retained) /\ all[a] = retained[a] /\ b \in 1..Len(retained) /\ all[b] = retained[b]
    BY <1>6, <1>11, <2>2 DEF Distinct
  <2>3. CASE /\ a - Len(retained) \in 1..Len(added) /\ all[a] = added[a - Len(retained)]
             /\ b - Len(retained) \in 1..Len(added) /\ all[b] = added[b - Len(retained)]
    <3>1. a - Len(retained) = b - Len(retained)
      BY <1>7, <1>11, <2>3 DEF Distinct
    <3> QED
      BY <1>9, <1>10, <3>1
  <2> QED
    BY <1>7, <1>8, <1>11, <2>1, <2>2, <2>3
<1>12. Distinct(shown')
  BY <1>1, <1>11 DEF Distinct
<1>13. InventoryKinds'
  BY <1>1, <1>3, <1>9 DEF InventoryKinds
<1>14. Sound(Resting, cursors)
  <2>1. cursors \in Nat
    BY DEF InventoryKinds
  <2>2. Len(<<>>) = 0
    BY EmptySeq
  <2> QED
    BY <1>2, <2>1, <2>2 DEF Sound, Starts, Distinct
<1>15. \A q \in Readers : Sound(reader'[q], cursors')
  BY <1>1, <1>3, <1>14 DEF InventoryInv
<1>16. \A q \in Readers : reader'[q].at = "reading" => \A k \in 1..Len(pages') : GoesOn(pages'[k], reader'[q])
  BY <1>1, <1>2, <1>3 DEF InventoryInv
<1> QED
  BY <1>1, <1>12, <1>13, <1>15, <1>16 DEF InventoryInv

LEMMA ExpireKeeps ==
  ASSUME InventoryAssumption, InventoryKinds, InventoryInv, Expire
  PROVE  InventoryKinds' /\ InventoryInv'
<1>1. /\ inventory' = inventory /\ pages' = Tail(pages) /\ shown' = shown /\ cursors' = cursors
      /\ reader' = reader /\ pages # <<>>
  BY DEF Expire
<1>2. pages \in Seq(PageKind) /\ Len(pages) <= SnapshotLimit /\ SnapshotLimit \in Nat /\ Len(pages) \in Nat
  BY LenProperties DEF InventoryKinds, InventoryAssumption
<1>3. /\ pages' \in Seq(PageKind) /\ Len(pages') = Len(pages) - 1
      /\ \A i \in 1..Len(pages') : pages'[i] = pages[i + 1]
  BY <1>1, <1>2, HeadTailProperties
<1>4. Len(pages') <= SnapshotLimit /\ \A i \in 1..Len(pages') : i + 1 \in 1..Len(pages)
  BY <1>2, <1>3
<1>5. InventoryKinds'
  BY <1>1, <1>3, <1>4 DEF InventoryKinds
<1> QED
  BY <1>1, <1>3, <1>4, <1>5 DEF InventoryInv

LEMMA ChangeKeeps ==
  ASSUME InventoryKinds, InventoryInv, Change PROVE InventoryKinds' /\ InventoryInv'
<1>1. /\ pages' = pages /\ shown' = shown /\ cursors' = cursors /\ reader' = reader /\ inventory' \subseteq Listed
  BY DEF Change, InventoryKinds
<1> QED
  BY <1>1 DEF InventoryKinds, InventoryInv

LEMMA InventoryStarts ==
  ASSUME InventoryAssumption, InventoryInit PROVE InventoryKinds /\ InventoryInv
<1>1. /\ <<>> \in Seq(Listed) /\ <<>> \in Seq(PageKind) /\ Len(<<>>) = 0
  BY EmptySeq
<1>2. /\ Resting \in ReaderKind /\ Resting.at = "resting" /\ Resting.cursor = 0
      /\ Resting.got = <<>> /\ Resting.of = <<>>
  BY <1>1 DEF Resting, Reading, ReaderKind
<1>3. /\ inventory \subseteq Listed /\ pages = <<>> /\ cursors = 0 /\ shown = <<>>
      /\ reader \in [Readers -> ReaderKind] /\ \A r \in Readers : reader[r] = Resting
  BY <1>2 DEF InventoryInit
<1>4. InventoryKinds
  BY <1>1, <1>3 DEF InventoryKinds, InventoryAssumption
<1>5. \A k \in 1..Len(pages) : FALSE
  BY <1>1, <1>3
<1>6. Distinct(<<>>) /\ Starts(<<>>, <<>>)
  BY <1>1 DEF Distinct, Starts
<1>7. Sound(Resting, 0)
  BY <1>2, <1>6 DEF Sound
<1> QED
  BY <1>3, <1>4, <1>5, <1>6, <1>7, Zenon DEF InventoryInv

LEMMA InventoryKeeps ==
  ASSUME InventoryAssumption, InventoryKinds, InventoryInv, [InventoryNext]_inventoryVars
  PROVE  InventoryKinds' /\ InventoryInv'
<1>1. CASE UNCHANGED inventoryVars
  BY <1>1 DEF InventoryKinds, InventoryInv, inventoryVars
<1>2. CASE InventoryNext
  BY <1>2, ListKeeps, ContinueKeeps, RefusedKeeps, ShowListKeeps, ExpireKeeps, ChangeKeeps DEF InventoryNext
<1> QED
  BY <1>1, <1>2

\* A list that begins another has its elements, as far as it goes.
LEMMA StartsIsPrefix ==
  ASSUME NEW S, NEW s \in Seq(S), NEW t \in Seq(S), Starts(s, t) PROVE IsPrefix(s, t)
<1>1. Len(s) \in Nat /\ Len(t) \in Nat /\ Len(s) <= Len(t)
  BY LenProperties DEF Starts
<1> DEFINE n == Len(s)
           m == n - 1 + 1
<1>2. m = n /\ \A i \in 1..n : 1 + i - 1 = i /\ i \in 1..Len(t)
  BY <1>1
<1>3. \A i \in 1..n : s[i] \in S /\ t[i] \in S
  BY <1>2, ElementOfSeq
<1>4. /\ SubSeq(s, 1, n) \in Seq(S) /\ Len(SubSeq(s, 1, n)) = (IF 1 <= n THEN m ELSE 0)
      /\ \A i \in 1..m : SubSeq(s, 1, n)[i] = s[1 + i - 1]
  BY <1>1, <1>3, SubSeqProperties
<1>5. /\ SubSeq(t, 1, n) \in Seq(S) /\ Len(SubSeq(t, 1, n)) = (IF 1 <= n THEN m ELSE 0)
      /\ \A i \in 1..m : SubSeq(t, 1, n)[i] = t[1 + i - 1]
  BY <1>1, <1>3, SubSeqProperties
<1>6. Len(SubSeq(s, 1, n)) = n /\ Len(SubSeq(t, 1, n)) = n
  BY <1>1, <1>4, <1>5
<1>7. \A i \in 1..n : SubSeq(s, 1, n)[i] = SubSeq(t, 1, n)[i]
  BY <1>2, <1>4, <1>5 DEF Starts
<1>8. SubSeq(s, 1, n) = SubSeq(t, 1, n)
  BY <1>4, <1>5, <1>6, <1>7, SeqEqual
<1> QED
  BY <1>1, <1>8 DEF IsPrefix

LEMMA InventoryMeans ==
  ASSUME InventoryKinds, InventoryInv PROVE PagesAreOfOneInventory /\ InventoryTypeOK
<1>1. \A r \in Readers : reader[r] \in ReaderKind
  BY DEF InventoryKinds
<1>2. ASSUME NEW r \in Readers
      PROVE  /\ IsPrefix(reader[r].got, reader[r].of)
             /\ reader[r].at = "listed" /\ ~reader[r].truncated => reader[r].got = reader[r].of
  <2>1. Sound(reader[r], cursors) /\ reader[r].got \in Seq(Listed) /\ reader[r].of \in Seq(Listed)
    BY <1>1 DEF InventoryInv, ReaderKind
  <2> QED
    BY <2>1, StartsIsPrefix DEF Sound
<1>3. IsInjective(shown)
  <2>1. DOMAIN shown = 1..Len(shown)
    BY LenProperties DEF InventoryKinds
  <2> QED
    BY <2>1 DEF IsInjective, InventoryInv, Distinct
<1>4. ASSUME NEW k \in DOMAIN pages
      PROVE  /\ pages[k].cursor \in 1..cursors /\ pages[k].devices \in Seq(Listed)
             /\ pages[k].offset \in 1..(Len(pages[k].devices) - 1)
  <2>1. k \in 1..Len(pages)
    BY LenProperties DEF InventoryKinds
  <2>2. pages[k] \in PageKind
    BY <2>1, ElementOfSeq DEF InventoryKinds
  <2> QED
    BY <2>1, <2>2 DEF InventoryInv, Inside, PageKind
<1>5. InventoryTypeOK
  BY <1>1, <1>4 DEF InventoryTypeOK, InventoryKinds, ReaderKind
<1> QED
  BY <1>2, <1>3, <1>5 DEF PagesAreOfOneInventory

\* However devices come and go and whoever else lists them, for any number of readers, devices and
\* pages: what a reader has is the beginning of one inventory, and all of it at the end of a list
\* that does not say it was truncated (DeviceInventorySnapshotCache).
THEOREM PagesCorrect == InventoryAssumption /\ InventorySpec => []PagesAreOfOneInventory
<1> SUFFICES ASSUME InventoryAssumption PROVE InventorySpec => []PagesAreOfOneInventory
  OBVIOUS
<1>1. InventoryInit => InventoryKinds /\ InventoryInv
  BY InventoryStarts
<1>2. (InventoryKinds /\ InventoryInv) /\ [InventoryNext]_inventoryVars => (InventoryKinds /\ InventoryInv)'
  BY InventoryKeeps
<1>3. InventoryKinds /\ InventoryInv => PagesAreOfOneInventory
  BY InventoryMeans
<1> QED
  BY <1>1, <1>2, <1>3, PTL DEF InventorySpec

\* The variables of the device list keep their types, and no more than SnapshotLimit pages are kept.
THEOREM InventoryTyped == InventoryAssumption /\ InventorySpec => []InventoryTypeOK
<1> SUFFICES ASSUME InventoryAssumption PROVE InventorySpec => []InventoryTypeOK
  OBVIOUS
<1>1. InventoryInit => InventoryKinds /\ InventoryInv
  BY InventoryStarts
<1>2. (InventoryKinds /\ InventoryInv) /\ [InventoryNext]_inventoryVars => (InventoryKinds /\ InventoryInv)'
  BY InventoryKeeps
<1>3. InventoryKinds /\ InventoryInv => InventoryTypeOK
  BY InventoryMeans
<1> QED
  BY <1>1, <1>2, <1>3, PTL DEF InventorySpec

----------------------------------------------------------------------------
(***************************************************************************)
(* FiberTree.  In every round of the scan, and of the choice, each root    *)
(* that has something left has had its turn as often as any other; a fiber *)
(* is visited, left out with a reason, or in line behind one that still    *)
(* waits.                                                                  *)
(***************************************************************************)

\* How often it has been the turn of a root in the round it is in.
Had(r) == IF r < turn THEN 1 ELSE 0

\* Nobody was visited more often than a root that has fibers left, up to the
\* round that is not over.
ScanFair == \A r, s \in Root : queues[r] # <<>> => visits[s] - Had(s) <= visits[r] - Had(r)
\* What that comes to between any two visits.
VisitsFair == \A r, s \in Root : queues[r] # <<>> => visits[s] <= visits[r] + 1

\* The same of what is chosen, of the semantic fibers of a root.
Has(r) == {i \in Selected : Semantic(i) /\ RootOf(i) = r}
Got(r) == Cardinality(Has(r))
Left(r) == \E i \in Items(entries) \ Selected : Semantic(i) /\ RootOf(i) = r
AllSemantic == \A i \in Selected : Semantic(i)

TakeFair == \A r, s \in Root : Left(r) => Got(s) - Had(s) <= Got(r) - Had(r)
NodesFair == \A r, s \in Root : Left(r) => Got(s) <= Got(r) + 1 /\ AllSemantic

\* A fiber is in the entries, left out with a reason, or behind one in a queue.
Line(i) == {i} \cup Ancestors[i]
InLine(i) == \E r \in Root : i \in Items(queues[r])
Accounted(i) == i \in Items(entries) \/ ~Useful(i) \/ Inactive(i) \/ \E a \in Ancestors[i] : Inactive(a)

FiberInv ==
    /\ pass = "scan" => ScanFair /\ taken = <<>>
    /\ VisitsFair
    /\ pass = "semantic" => TakeFair /\ AllSemantic
    /\ pass \in {"context", "done"} => NodesFair
    /\ pass = "context" => (\A r \in Root : ~Left(r)) \/ ~ (Len(taken) < fibers.outputLimit)
    /\ \A i \in Fiber : Accounted(i) \/ \E a \in Line(i) : InLine(a)
    /\ Items(taken) \subseteq Items(entries) /\ IsInjective(taken) /\ Len(taken) <= fibers.outputLimit

----------------------------------------------------------------------------
(* The forest.                                                             *)

Above(parent, n, f) == f = [i \in 1..n |-> IF parent[i] = 0 THEN {} ELSE {parent[i]} \cup f[parent[i]]]

\* The recursion of Ancestors has a solution.
LEMMA AboveExists ==
  ASSUME NEW parent, NEW n \in Nat, \A i \in 1..n : parent[i] = 0 \/ parent[i] \in 1..(i - 1)
  PROVE  \E f : Above(parent, n, f)
<1> DEFINE T == {k \in 0..n : \E f : Above(parent, k, f)}
<1>1. 0 \in T
  <2> DEFINE F == [i \in 1..0 |-> {}]
  <2>1. F = [i \in 1..0 |-> IF parent[i] = 0 THEN {} ELSE {parent[i]} \cup F[parent[i]]]
    OBVIOUS
  <2>2. Above(parent, 0, F)
    BY <2>1, Zenon DEF Above
  <2> HIDE DEF F
  <2> QED
    BY <2>2
<1>2. ASSUME NEW k \in 0..(n - 1), k \in T PROVE k + 1 \in T
  <2>1. PICK f : Above(parent, k, f)
    BY <1>2
  <2> DEFINE p == parent[k + 1]
             G == [i \in 1..(k + 1) |->
                      IF i = k + 1 THEN IF p = 0 THEN {} ELSE {p} \cup f[p] ELSE f[i]]
             H == [i \in 1..(k + 1) |-> IF parent[i] = 0 THEN {} ELSE {parent[i]} \cup G[parent[i]]]
  <2>2. \A i \in 1..k : f[i] = IF parent[i] = 0 THEN {} ELSE {parent[i]} \cup f[parent[i]]
    BY <2>1 DEF Above
  <2>3. \A i \in 1..(k + 1) : parent[i] = 0 \/ parent[i] \in 1..(i - 1)
    OBVIOUS
  <2>4. ASSUME NEW i \in 1..(k + 1) PROVE G[i] = H[i]
    <3>1. parent[i] # 0 => parent[i] \in 1..k /\ G[parent[i]] = f[parent[i]]
      BY <2>3
    <3>2. CASE i = k + 1
      BY <3>1, <3>2
    <3>3. CASE i \in 1..k
      BY <2>2, <3>1, <3>3
    <3> QED
      BY <3>2, <3>3
  <2>5. G = H
    BY <2>4
  <2>6. Above(parent, k + 1, G)
    BY <2>5 DEF Above
  <2> QED
    BY <2>6
<1>3. \A k \in 0..n : k \in T
  <2> HIDE DEF T
  <2> QED
    BY <1>1, <1>2, Upwards
<1> QED
  BY <1>3

FiberOK == fibers \in FiberInputs

LEMMA FiberFacts ==
  ASSUME FiberAssumption, FiberOK
  PROVE  /\ Size \in Nat /\ Roots \in 1..Size /\ MaxPriority \in Nat
         /\ \A i \in Fiber : /\ fibers.parent[i] = 0 <=> i \in Root
                             /\ fibers.parent[i] = 0 \/ fibers.parent[i] \in 1..(i - 1)
                             /\ fibers.weight[i] \in -1..MaxPriority
         /\ fibers.visitLimit \in Nat \ {0} /\ fibers.outputLimit \in Nat
<1>1. fibers \in FiberInputs /\ Size \in Nat /\ Roots \in 1..Size
  BY DEF FiberAssumption, FiberOK
<1>2. \A i \in Fiber : IF i \in Root THEN fibers.parent[i] = 0 ELSE fibers.parent[i] \in 1..(i - 1)
  BY <1>1 DEF FiberAssumption
<1>3. fibers.weight \in [Fiber -> -1..MaxPriority]
  BY <1>1 DEF FiberAssumption
<1>4. fibers.visitLimit \in Nat \ {0} /\ fibers.outputLimit \in Nat /\ MaxPriority \in Nat
  BY <1>1 DEF FiberAssumption
<1>5. \A i \in Fiber : fibers.weight[i] \in -1..MaxPriority
  BY <1>3
<1>6. \A i \in Fiber : 0 \notin 1..(i - 1)
  OBVIOUS
<1> QED
  BY <1>1, <1>2, <1>4, <1>5, <1>6

\* The recursion of Ancestors means what it says.
LEMMA AncestorsFacts ==
  ASSUME FiberAssumption, FiberOK, NEW i \in Fiber
  PROVE  Ancestors[i] = IF fibers.parent[i] = 0 THEN {}
                        ELSE {fibers.parent[i]} \cup Ancestors[fibers.parent[i]]
<1> DEFINE all == CHOOSE f : Above(fibers.parent, Size, f)
<1>1. \E f : Above(fibers.parent, Size, f)
  BY FiberFacts, AboveExists DEF Fiber
<1>2. Above(fibers.parent, Size, all)
  BY <1>1
<1>3. Ancestors = all
  BY DEF Ancestors, Above, Fiber
<1> HIDE DEF all
<1> QED
  BY <1>2, <1>3 DEF Above, Fiber

LEMMA AncestorsSame == ASSUME fibers' = fibers PROVE Ancestors' = Ancestors
  BY DEF Ancestors
\* Ancestors are fibers; the line of a fiber begins at a root, and from an
\* ancestor it goes on to one of its children.
LEMMA LineFacts ==
  ASSUME FiberAssumption, FiberOK, NEW i \in Fiber
  PROVE  /\ Ancestors[i] \subseteq Fiber
         /\ \E r \in Root : r \in Line(i)
         /\ \A a \in Ancestors[i] : \E c \in Fiber : fibers.parent[c] = a /\ c \in Line(i)
<1> DEFINE Good(k) == /\ Ancestors[k] \subseteq Fiber
                      /\ \E r \in Root : r \in Line(k)
                      /\ \A a \in Ancestors[k] : \E c \in Fiber : fibers.parent[c] = a /\ c \in Line(k)
           T == {k \in 0..Size : k \in Fiber => Good(k)}
<1>1. Size \in Nat
  BY FiberFacts
<1>2. ASSUME NEW k \in 0..Size, \A j \in 0..(k - 1) : j \in T PROVE k \in T
  <2> SUFFICES ASSUME k \in Fiber PROVE Good(k)
    OBVIOUS
  <2>1. CASE fibers.parent[k] = 0
    <3>1. k \in Root /\ Ancestors[k] = {}
      BY <2>1, FiberFacts, AncestorsFacts
    <3> QED
      BY <3>1 DEF Line
  <2>2. CASE fibers.parent[k] # 0
    <3> DEFINE p == fibers.parent[k]
    <3>1. p \in 1..(k - 1) /\ Ancestors[k] = {p} \cup Ancestors[p]
      BY <2>2, FiberFacts, AncestorsFacts
    <3> HIDE DEF p
    <3>2. p \in Fiber /\ p \in 0..(k - 1)
      BY <1>1, <3>1 DEF Fiber
    <3>3. Good(p)
      BY <1>2, <3>2
    <3>4. Line(p) \subseteq Line(k)
      BY <3>1 DEF Line
    <3>5. Ancestors[k] \subseteq Fiber
      BY <3>1, <3>2, <3>3
    <3>6. \E r \in Root : r \in Line(k)
      BY <3>3, <3>4
    <3>7. ASSUME NEW a \in Ancestors[k] PROVE \E c \in Fiber : fibers.parent[c] = a /\ c \in Line(k)
      <4>1. CASE a = p
        <5>1. fibers.parent[k] = a /\ k \in Line(k)
          BY <4>1 DEF Line, p
        <5> QED
          BY <5>1
      <4>2. CASE a \in Ancestors[p]
        BY <3>3, <3>4, <4>2
      <4> QED
        BY <3>1, <4>1, <4>2
    <3> QED
      BY <3>5, <3>6, <3>7
  <2> QED
    BY <2>1, <2>2
<1>3. \A k \in 0..Size : k \in T
  <2> HIDE DEF T
  <2> QED
    BY <1>1, <1>2, FromBelow
<1>4. i \in 0..Size
  BY <1>1 DEF Fiber
<1> QED
  BY <1>3, <1>4

\* What is above an ancestor is above the fiber too.
LEMMA AncestorsNested ==
  ASSUME FiberAssumption, FiberOK, NEW i \in Fiber, NEW a \in Ancestors[i]
  PROVE  Ancestors[a] \subseteq Ancestors[i]
<1> DEFINE Nested(k) == \A b \in Ancestors[k] : Ancestors[b] \subseteq Ancestors[k]
           T == {k \in 0..Size : k \in Fiber => Nested(k)}
<1>1. Size \in Nat
  BY FiberFacts
<1>2. ASSUME NEW k \in 0..Size, \A j \in 0..(k - 1) : j \in T PROVE k \in T
  <2> SUFFICES ASSUME k \in Fiber PROVE Nested(k)
    OBVIOUS
  <2>1. CASE fibers.parent[k] = 0
    <3>1. Ancestors[k] = {}
      BY <2>1, AncestorsFacts
    <3> QED
      BY <3>1
  <2>2. CASE fibers.parent[k] # 0
    <3> DEFINE p == fibers.parent[k]
    <3>1. p \in 1..(k - 1) /\ Ancestors[k] = {p} \cup Ancestors[p]
      BY <2>2, FiberFacts, AncestorsFacts
    <3> HIDE DEF p
    <3>2. p \in Fiber /\ p \in 0..(k - 1)
      BY <1>1, <3>1 DEF Fiber
    <3>3. Nested(p)
      BY <1>2, <3>2
    <3> QED
      BY <3>1, <3>3
  <2> QED
    BY <2>1, <2>2
<1>3. \A k \in 0..Size : k \in T
  <2> HIDE DEF T
  <2> QED
    BY <1>1, <1>2, FromBelow
<1>4. i \in 0..Size
  BY <1>1 DEF Fiber
<1> QED
  BY <1>3, <1>4

\* Children are the fibers whose parent it is.
LEMMA ChildrenFacts ==
  ASSUME FiberAssumption, NEW i
  PROVE  Children(i) \in Seq(Fiber) /\ \A c \in Fiber : fibers.parent[c] = i => c \in Items(Children(i))
<1> DEFINE all == [k \in Fiber |-> k]
           keep == {k \in Fiber : fibers.parent[k] = i}
<1>1. Size \in Nat
  BY DEF FiberAssumption
<1>2. all \in Seq(Fiber) /\ Len(all) = Size /\ \A k \in 1..Size : all[k] = k
  BY <1>1 DEF Fiber
<1>3. Children(i) = Filter(all, keep)
  BY DEF Children
<1> HIDE DEF all, keep
<1>4. Children(i) \in Seq(Fiber) /\ Filters(Children(i), all, Size, keep)
  BY <1>2, <1>3, FilterFacts
<1>5. DOMAIN Children(i) = 1..Len(Children(i))
  BY <1>4, LenProperties
<1>6. ASSUME NEW c \in Fiber, fibers.parent[c] = i PROVE c \in Items(Children(i))
  <2>1. c \in keep /\ c \in 1..Size /\ all[c] = c
    BY <1>2, <1>6 DEF keep, Fiber
  <2>2. PICK j \in 1..Len(Children(i)) : Children(i)[j] = c
    BY <1>4, <2>1 DEF Filters
  <2> QED
    BY <1>5, <2>2 DEF Items
<1> QED
  BY <1>4, <1>6

----------------------------------------------------------------------------
(* What is in a list.                                                      *)

LEMMA ItemsFacts ==
  ASSUME NEW S, NEW s \in Seq(S)
  PROVE  /\ Items(s) \subseteq S
         /\ (\A k \in 1..Len(s) : s[k] \in Items(s)) /\ \A x \in Items(s) : \E k \in 1..Len(s) : s[k] = x
         /\ s = <<>> <=> Items(s) = {}
<1>1. DOMAIN s = 1..Len(s) /\ Len(s) \in Nat
  BY LenProperties
<1>2. \A k \in 1..Len(s) : s[k] \in S
  BY ElementOfSeq
<1>3. s # <<>> => Len(s) # 0
  BY EmptySeq
<1>4. s # <<>> => 1 \in 1..Len(s)
  BY <1>1, <1>3
<1>5. s = <<>> => Items(s) = {}
  BY <1>1, EmptySeq DEF Items
<1>6. \A k \in 1..Len(s) : s[k] \in Items(s)
  BY <1>1 DEF Items
<1> QED
  BY <1>1, <1>2, <1>4, <1>5, <1>6 DEF Items

LEMMA AppendItems ==
  ASSUME NEW S, NEW s \in Seq(S), NEW x \in S
  PROVE  Items(Append(s, x)) = Items(s) \cup {x} /\ Append(s, x) \in Seq(S) /\ Len(Append(s, x)) = Len(s) + 1
<1> DEFINE t == Append(s, x)
<1>1. /\ t \in Seq(S) /\ Len(t) = Len(s) + 1 /\ Len(s) \in Nat
      /\ (\A i \in 1..Len(s) : t[i] = s[i]) /\ t[Len(s) + 1] = x
  BY AppendProperties, LenProperties
<1> HIDE DEF t
<1>2. DOMAIN t = 1..(Len(s) + 1) /\ DOMAIN s = 1..Len(s)
  BY <1>1, LenProperties
<1>3. \A i \in 1..(Len(s) + 1) : i \in 1..Len(s) \/ i = Len(s) + 1
  BY <1>1
<1>4. Len(s) + 1 \in 1..(Len(s) + 1) /\ \A i \in 1..Len(s) : i \in 1..(Len(s) + 1)
  BY <1>1
<1>5. Items(t) = Items(s) \cup {x}
  BY <1>1, <1>2, <1>3, <1>4 DEF Items
<1> QED
  BY <1>1, <1>5 DEF t

LEMMA TailItems ==
  ASSUME NEW S, NEW s \in Seq(S), s # <<>>
  PROVE  /\ Head(s) \in S /\ Tail(s) \in Seq(S)
         /\ \A x \in Items(s) : x = Head(s) \/ x \in Items(Tail(s))
<1>1. /\ Head(s) \in S /\ Tail(s) \in Seq(S) /\ Len(Tail(s)) = Len(s) - 1
      /\ \A i \in 1..Len(Tail(s)) : Tail(s)[i] = s[i + 1]
  BY HeadTailProperties
<1>2. Len(s) \in Nat /\ Head(s) = s[1]
  BY LenProperties
<1>3. ASSUME NEW x \in Items(s) PROVE x = Head(s) \/ x \in Items(Tail(s))
  <2>1. PICK k \in 1..Len(s) : s[k] = x
    BY ItemsFacts
  <2>2. CASE k = 1
    BY <1>2, <2>1, <2>2
  <2>3. CASE k # 1
    <3>1. k - 1 \in 1..Len(Tail(s)) /\ k - 1 + 1 = k
      BY <1>1, <1>2, <2>3
    <3>2. Tail(s)[k - 1] = x
      BY <1>1, <2>1, <3>1
    <3> QED
      BY <1>1, <3>1, <3>2, ItemsFacts
  <2> QED
    BY <2>2, <2>3
<1> QED
  BY <1>1, <1>3

LEMMA ConcatItems ==
  ASSUME NEW S, NEW s \in Seq(S), NEW t \in Seq(S)
  PROVE  s \o t \in Seq(S) /\ Items(s \o t) = Items(s) \cup Items(t)
<1> DEFINE u == s \o t
<1>1. /\ u \in Seq(S) /\ Len(u) = Len(s) + Len(t)
      /\ \A i \in 1..(Len(s) + Len(t)) : u[i] = IF i <= Len(s) THEN s[i] ELSE t[i - Len(s)]
  BY ConcatProperties
<1> HIDE DEF u
<1>2. Len(s) \in Nat /\ Len(t) \in Nat
  BY LenProperties
<1>3. ASSUME NEW x \in Items(u) PROVE x \in Items(s) \cup Items(t)
  <2>1. PICK i \in 1..Len(u) : u[i] = x
    BY <1>1, ItemsFacts
  <2>2. CASE i <= Len(s)
    <3>1. i \in 1..Len(s) /\ s[i] = x
      BY <1>1, <1>2, <2>1, <2>2
    <3> QED
      BY <3>1, ItemsFacts
  <2>3. CASE ~(i <= Len(s))
    <3>1. i - Len(s) \in 1..Len(t) /\ t[i - Len(s)] = x
      BY <1>1, <1>2, <2>1, <2>3
    <3> QED
      BY <3>1, ItemsFacts
  <2> QED
    BY <2>2, <2>3
<1>4. ASSUME NEW x \in Items(s) PROVE x \in Items(u)
  <2>1. PICK i \in 1..Len(s) : s[i] = x
    BY ItemsFacts
  <2>2. i \in 1..Len(u) /\ u[i] = x
    BY <1>1, <1>2, <2>1
  <2> QED
    BY <1>1, <2>2, ItemsFacts
<1>5. ASSUME NEW x \in Items(t) PROVE x \in Items(u)
  <2>1. PICK i \in 1..Len(t) : t[i] = x
    BY ItemsFacts
  <2>2. i + Len(s) \in 1..Len(u) /\ u[i + Len(s)] = x
    <3>1. i + Len(s) \in 1..(Len(s) + Len(t)) /\ ~(i + Len(s) <= Len(s)) /\ i + Len(s) - Len(s) = i
      BY <1>2
    <3> QED
      BY <1>1, <2>1, <3>1
  <2> QED
    BY <1>1, <2>2, ItemsFacts
<1>6. Items(u) = Items(s) \cup Items(t)
  BY <1>3, <1>4, <1>5
<1> QED
  BY <1>1, <1>6 DEF u

\* A list has at most as many elements as it is long, and exactly as many when
\* nothing is in it twice.
LEMMA ItemsCount ==
  ASSUME NEW S, NEW s \in Seq(S)
  PROVE  /\ IsFiniteSet(Items(s)) /\ Cardinality(Items(s)) \in Nat /\ Cardinality(Items(s)) <= Len(s)
         /\ IsInjective(s) => Cardinality(Items(s)) = Len(s)
<1>1. DOMAIN s = 1..Len(s) /\ Len(s) \in Nat /\ s \in [1..Len(s) -> S]
  BY LenProperties
<1>2. \A k \in 1..Len(s) : s[k] \in Items(s)
  BY <1>1 DEF Items
<1>3. s \in [1..Len(s) -> Items(s)]
  BY <1>1, <1>2
<1>4. s \in Surjection(1..Len(s), Items(s))
  BY <1>1, <1>3, ItemsFacts, Fun_IsSurj
<1>5. IsFiniteSet(1..Len(s)) /\ Cardinality(1..Len(s)) = Len(s)
  <2>1. /\ IsFiniteSet(1..Len(s))
        /\ Cardinality(1..Len(s)) = IF 1 > Len(s) THEN 0 ELSE Len(s) - 1 + 1
    <3>1. 1 \in Int /\ Len(s) \in Int
      BY <1>1
    <3> QED
      BY <3>1, FS_Interval, Zenon
  <2> QED
    BY <1>1, <2>1
<1>6. /\ IsFiniteSet(Items(s)) /\ Cardinality(Items(s)) <= Len(s)
      /\ Cardinality(Items(s)) = Len(s) <=> s \in Injection(1..Len(s), Items(s))
  BY <1>4, <1>5, FS_Surjection
<1>7. IsInjective(s) => s \in Injection(1..Len(s), Items(s))
  BY <1>1, <1>3, Fun_IsInj DEF IsInjective
<1> QED
  BY <1>6, <1>7, FS_CardinalityType
----------------------------------------------------------------------------
(* Rounds.                                                                 *)

LEMMA TurnFacts ==
  ASSUME FiberAssumption, turn \in Root, NextTurn
  PROVE  turn' \in Root /\ turn' = IF turn < Roots THEN turn + 1 ELSE 1
<1>1. Roots \in Nat /\ Roots >= 1 /\ turn \in 1..Roots
  BY DEF FiberAssumption, Root
<1>2. CASE turn < Roots
  <2>1. turn % Roots = turn
    BY <1>1, <1>2
  <2> QED
    BY <1>1, <1>2, <2>1 DEF NextTurn, Root
<1>3. CASE turn = Roots
  <2>1. turn % Roots = 0
    <3>1. \A k \in Nat \ {0} : k % k = 0
      OBVIOUS
    <3> QED
      BY <1>1, <1>3, <3>1
  <2> QED
    BY <1>1, <1>3, <2>1 DEF NextTurn, Root
<1> QED
  BY <1>1, <1>2, <1>3

\* A turn adds at most one to the count of the root whose turn it is, and just
\* one where something is left afterwards; then the round stays fair.
LEMMA RoundStaysFair ==
  ASSUME FiberAssumption, turn \in Root, NextTurn,
         NEW count \in [Root -> Nat], NEW more \in [Root -> Nat], NEW before, NEW after,
         after \subseteq before,
         \A r \in before, s \in Root : r \in Root => count[s] - Had(s) <= count[r] - Had(r),
         \A s \in Root : s # turn => more[s] = count[s],
         more[turn] \in {count[turn], count[turn] + 1},
         turn \in after => more[turn] = count[turn] + 1
  PROVE  \A r \in after, s \in Root : r \in Root => more[s] - Had(s)' <= more[r] - Had(r)'
<1> DEFINE w == IF turn < Roots THEN 0 ELSE 1
<1>1. turn \in 1..Roots /\ Roots \in Nat /\ Root = 1..Roots /\ turn' = IF turn < Roots THEN turn + 1 ELSE 1
  <2>1. turn' = IF turn < Roots THEN turn + 1 ELSE 1
    BY TurnFacts
  <2>2. Roots \in Nat
    BY DEF FiberAssumption
  <2> QED
    BY <2>1, <2>2 DEF Root
<1>2. \A s \in Root : count[s] \in Nat /\ more[s] \in Nat /\ s \in Nat
  BY <1>1
<1>3. ASSUME NEW s \in Root, s # turn PROVE more[s] - Had(s)' = count[s] - Had(s) + w
  <2>1. more[s] = count[s] /\ count[s] \in Int
    BY <1>2, <1>3
  <2>2. CASE turn < Roots
    BY <1>1, <1>2, <1>3, <2>1, <2>2 DEF Had
  <2>3. CASE turn = Roots
    BY <1>1, <1>2, <1>3, <2>1, <2>3 DEF Had
  <2> QED
    BY <1>1, <2>2, <2>3
<1>4. ASSUME NEW t \in Root, t = turn
      PROVE  /\ more[t] - Had(t)' <= count[t] - Had(t) + w
             /\ t \in after => more[t] - Had(t)' = count[t] - Had(t) + w
  <2>1. Had(t) = 0 /\ Had(t)' = 1 - w
    <3>1. CASE turn < Roots
      BY <1>1, <1>4, <3>1 DEF Had
    <3>2. CASE turn = Roots
      BY <1>1, <1>4, <3>2 DEF Had
    <3> QED
      BY <1>1, <3>1, <3>2
  <2>2. w \in Int /\ count[t] \in Int /\ more[t] \in {count[t], count[t] + 1}
        /\ (t \in after => more[t] = count[t] + 1)
    BY <1>2, <1>4
  <2> HIDE DEF w
  <2> QED
    BY <2>1, <2>2
<1>7. w \in Int /\ \A s \in Root : Had(s) \in Int /\ Had(s)' \in Int
  BY DEF Had
<1>8. ASSUME NEW s \in Root PROVE more[s] - Had(s)' <= count[s] - Had(s) + w
  <2>1. CASE s = turn
    BY <1>4, <2>1
  <2>2. CASE s # turn
    <3>1. more[s] - Had(s)' = count[s] - Had(s) + w
      BY <1>3, <2>2
    <3>2. count[s] - Had(s) + w \in Int
      BY <1>2, <1>7
    <3> HIDE DEF w
    <3> QED
      BY <3>1, <3>2
  <2> QED
    BY <2>1, <2>2
<1>9. ASSUME NEW r \in after, r \in Root PROVE more[r] - Had(r)' = count[r] - Had(r) + w
  <2>1. CASE r = turn
    BY <1>4, <1>9, <2>1
  <2>2. CASE r # turn
    BY <1>3, <1>9, <2>2
  <2> QED
    BY <2>1, <2>2
<1> HIDE DEF w
<1>10. ASSUME NEW r \in after, NEW s \in Root, r \in Root PROVE more[s] - Had(s)' <= more[r] - Had(r)'
  <2>1. count[s] - Had(s) <= count[r] - Had(r)
    BY <1>10
  <2>2. more[s] - Had(s)' <= count[s] - Had(s) + w /\ more[r] - Had(r)' = count[r] - Had(r) + w
    BY <1>8, <1>9, <1>10
  <2>3. \A a, b, c, d \in Int : a <= b /\ c <= a + w /\ d = b + w => c <= d
    BY <1>7
  <2>4. /\ count[s] - Had(s) \in Int /\ count[r] - Had(r) \in Int
        /\ more[s] - Had(s)' \in Int /\ more[r] - Had(r)' \in Int
    BY <1>2, <1>7, <1>10
  <2> QED
    BY <2>1, <2>2, <2>3, <2>4
<1> QED
  BY <1>10
----------------------------------------------------------------------------
(* The scan.                                                               *)

FiberState == FiberAssumption /\ FiberOK /\ FiberTypeOK

LEMMA SameWords ==
  ASSUME fibers' = fibers
  PROVE  /\ Ancestors' = Ancestors
         /\ \A i \in Fiber : /\ Inactive(i)' <=> Inactive(i)
                             /\ Useful(i)' <=> Useful(i)
                             /\ Semantic(i)' <=> Semantic(i)
                             /\ Line(i)' = Line(i)
                             /\ RootOf(i)' = RootOf(i)
<1>1. Ancestors' = Ancestors
  BY AncestorsSame
<1> QED
  BY <1>1 DEF Inactive, OnFocusedPath, FocusKnown, Useful, Semantic, Line, RootOf

\* What a visit does to types, to fairness and to what is accounted for.
LEMMA VisitTypes ==
  ASSUME FiberState, Visit
  PROVE  /\ fibers' = fibers /\ taken' = taken /\ pass' = pass /\ pass = "scan" /\ NextTurn /\ FiberTypeOK'
         /\ \A r \in Root : r # turn => queues'[r] = queues[r] /\ visits'[r] = visits[r]
         /\ queues[turn] = <<>> => queues' = queues /\ visits' = visits /\ entries' = entries
         /\ queues[turn] # <<>> =>
               LET i == Head(queues[turn])
               IN  /\ i \in Fiber /\ visits'[turn] = visits[turn] + 1
                   /\ queues'[turn] = Tail(queues[turn]) \o (IF Inactive(i) THEN <<>> ELSE Children(i))
                   /\ entries' = IF Inactive(i) \/ ~Useful(i) THEN entries ELSE Append(entries, i)
<1>1. fibers' = fibers /\ taken' = taken /\ pass' = pass /\ pass = "scan" /\ NextTurn
  BY DEF Visit
<1>2. /\ queues \in [Root -> Seq(Fiber)] /\ turn \in Root /\ visits \in [Root -> Nat]
      /\ entries \in Seq(Fiber) /\ taken \in Seq(Fiber)
  BY DEF FiberState, FiberTypeOK
<1>3. turn' \in Root
  BY <1>1, <1>2, TurnFacts DEF FiberState
<1>4. CASE queues[turn] = <<>>
  <2>1. queues' = queues /\ visits' = visits /\ entries' = entries
    BY <1>4 DEF Visit
  <2>2. FiberTypeOK'
    BY <1>1, <1>2, <1>3, <2>1 DEF FiberTypeOK, FiberState
  <2> QED
    BY <1>1, <1>4, <2>1, <2>2
<1>5. CASE queues[turn] # <<>>
  <2> DEFINE i == Head(queues[turn])
             new == IF Inactive(i) THEN <<>> ELSE Children(i)
             queue == Tail(queues[turn]) \o new
  <2>1. /\ visits' = [visits EXCEPT ![turn] = visits[turn] + 1]
        /\ queues' = [queues EXCEPT ![turn] = queue]
        /\ entries' = IF Inactive(i) \/ ~Useful(i) THEN entries ELSE Append(entries, i)
    BY <1>5 DEF Visit
  <2>2. i \in Fiber /\ Tail(queues[turn]) \in Seq(Fiber)
    BY <1>2, <1>5, HeadTailProperties
  <2>3. new \in Seq(Fiber)
    BY ChildrenFacts, EmptySeq DEF FiberState
  <2> HIDE DEF new
  <2>4. queue \in Seq(Fiber)
    BY <2>2, <2>3, ConcatProperties
  <2>5. entries' \in Seq(Fiber)
    BY <1>2, <2>1, <2>2, AppendProperties
  <2> HIDE DEF queue, i
  <2>6. queues' \in [Root -> Seq(Fiber)] /\ visits' \in [Root -> Nat]
    BY <1>2, <2>1, <2>4
  <2>7. FiberTypeOK'
    BY <1>1, <1>2, <1>3, <2>5, <2>6 DEF FiberTypeOK, FiberState
  <2>8. /\ \A r \in Root : r # turn => queues'[r] = queues[r] /\ visits'[r] = visits[r]
        /\ visits'[turn] = visits[turn] + 1 /\ queues'[turn] = queue
    BY <1>2, <2>1
  <2> QED
    BY <1>1, <1>5, <2>1, <2>2, <2>7, <2>8 DEF i, queue, new
<1> QED
  BY <1>4, <1>5

LEMMA VisitFair ==
  ASSUME FiberState, ScanFair, Visit PROVE ScanFair' /\ VisitsFair'
<1> DEFINE before == {r \in Root : queues[r] # <<>>}
           after == {r \in Root : queues'[r] # <<>>}
<1>1. turn \in Root /\ visits \in [Root -> Nat] /\ visits' \in [Root -> Nat] /\ NextTurn
  BY VisitTypes DEF FiberState, FiberTypeOK
<1>2. /\ \A s \in Root : s # turn => visits'[s] = visits[s]
      /\ visits'[turn] \in {visits[turn], visits[turn] + 1}
      /\ turn \in after => visits'[turn] = visits[turn] + 1
  BY <1>1, VisitTypes
<1>3. after \subseteq before
  BY VisitTypes
<1>4. \A r \in before, s \in Root : r \in Root => visits[s] - Had(s) <= visits[r] - Had(r)
  BY DEF ScanFair
<1> HIDE DEF before
<1>5. \A r \in after, s \in Root : r \in Root => visits'[s] - Had(s)' <= visits'[r] - Had(r)'
  <2> HIDE DEF after
  <2> QED
    BY <1>1, <1>2, <1>3, <1>4, RoundStaysFair DEF FiberState
<1>6. ASSUME NEW r \in Root, NEW s \in Root, queues'[r] # <<>>
      PROVE  visits'[s] - Had(s)' <= visits'[r] - Had(r)' /\ visits'[s] <= visits'[r] + 1
  <2>1. visits'[s] - Had(s)' <= visits'[r] - Had(r)'
    BY <1>5, <1>6
  <2>2. Had(s)' \in {0, 1} /\ Had(r)' \in {0, 1} /\ visits'[s] \in Nat /\ visits'[r] \in Nat
    BY <1>1 DEF Had
  <2>3. visits'[s] <= visits'[r] + 1
    BY <2>1, <2>2
  <2> QED
    BY <2>1, <2>3
<1> QED
  BY <1>6 DEF ScanFair, VisitsFair

LEMMA VisitAccounts ==
  ASSUME FiberState, Visit, \A i \in Fiber : Accounted(i) \/ \E a \in Line(i) : InLine(a)
  PROVE  \A i \in Fiber : Accounted(i)' \/ \E a \in Line(i)' : InLine(a)'
<1> SUFFICES ASSUME NEW i \in Fiber PROVE Accounted(i)' \/ \E a \in Line(i)' : InLine(a)'
  OBVIOUS
<1>1. /\ queues \in [Root -> Seq(Fiber)] /\ turn \in Root /\ entries \in Seq(Fiber)
      /\ entries' \in Seq(Fiber) /\ queues' \in [Root -> Seq(Fiber)]
  BY VisitTypes DEF FiberState, FiberTypeOK
<1>2. /\ Ancestors' = Ancestors /\ Line(i)' = Line(i)
      /\ \A j \in Fiber : /\ Inactive(j)' <=> Inactive(j)
                          /\ Useful(j)' <=> Useful(j)
  BY VisitTypes, SameWords
<1>3. Ancestors[i] \subseteq Fiber
  BY LineFacts DEF FiberState
<1>4. Items(entries) \subseteq Items(entries')
  <2>1. CASE queues[turn] = <<>>
    BY <2>1, VisitTypes
  <2>2. CASE queues[turn] # <<>>
    <3> DEFINE j == Head(queues[turn])
    <3>1. j \in Fiber /\ entries' = IF Inactive(j) \/ ~Useful(j) THEN entries ELSE Append(entries, j)
      BY <2>2, VisitTypes
    <3> HIDE DEF j
    <3> QED
      BY <1>1, <3>1, AppendItems
  <2> QED
    BY <2>1, <2>2
<1>5. Accounted(i) => Accounted(i)'
  BY <1>2, <1>3, <1>4 DEF Accounted
<1>6. ASSUME NEW a \in Line(i), NEW r \in Root, a \in Items(queues[r]), r # turn \/ queues[turn] = <<>>
      PROVE  InLine(a)'
  <2>1. queues'[r] = queues[r]
    BY <1>6, VisitTypes
  <2> QED
    BY <1>6, <2>1 DEF InLine
<1>7. ASSUME NEW a \in Line(i), a \in Items(queues[turn]), queues[turn] # <<>>
      PROVE  Accounted(i)' \/ \E b \in Line(i)' : InLine(b)'
  <2> DEFINE h == Head(queues[turn])
             new == IF Inactive(h) THEN <<>> ELSE Children(h)
  <2>1. /\ h \in Fiber /\ queues'[turn] = Tail(queues[turn]) \o new
        /\ entries' = IF Inactive(h) \/ ~Useful(h) THEN entries ELSE Append(entries, h)
    BY <1>7, VisitTypes
  <2>2. Tail(queues[turn]) \in Seq(Fiber) /\ (a = h \/ a \in Items(Tail(queues[turn])))
    BY <1>1, <1>7, TailItems
  <2>3. new \in Seq(Fiber) /\ (~Inactive(h) => \A c \in Fiber : fibers.parent[c] = h => c \in Items(new))
    BY ChildrenFacts, EmptySeq DEF FiberState
  <2> HIDE DEF new
  <2>4. Items(queues'[turn]) = Items(Tail(queues[turn])) \cup Items(new)
    <3>1. Items(Tail(queues[turn]) \o new) = Items(Tail(queues[turn])) \cup Items(new)
      <4> DEFINE q == Tail(queues[turn])
      <4>1. q \in Seq(Fiber) /\ new \in Seq(Fiber)
        BY <2>2, <2>3
      <4> HIDE DEF q
      <4>2. q \o new \in Seq(Fiber) /\ Items(q \o new) = Items(q) \cup Items(new)
        BY <4>1, ConcatItems
      <4> QED
        BY <4>2 DEF q
    <3>2. queues'[turn] = Tail(queues[turn]) \o new
      BY <2>1
    <3> QED
      BY <3>1, <3>2
  <2> HIDE DEF h
  <2>5. CASE a \in Items(Tail(queues[turn]))
    <3>1. InLine(a)'
      <4>1. \E r \in Root : a \in Items(queues'[r])
        BY <1>1, <2>4, <2>5
      <4> QED
        BY <4>1 DEF InLine
    <3> QED
      BY <1>2, <3>1
  <2>6. CASE a = h /\ Inactive(h)
    <3>1. h = i \/ h \in Ancestors[i]
      BY <2>6 DEF Line
    <3> QED
      BY <1>2, <1>3, <2>6, <3>1 DEF Accounted
  <2>7. CASE a = h /\ ~Inactive(h) /\ h = i
    <3>1. Useful(h) => h \in Items(entries')
      BY <1>1, <2>1, <2>7, AppendItems
    <3> QED
      BY <1>2, <2>7, <3>1 DEF Accounted
  <2>8. CASE a = h /\ ~Inactive(h) /\ h # i
    <3>1. h \in Ancestors[i]
      BY <2>8 DEF Line
    <3>2. PICK c \in Fiber : fibers.parent[c] = h /\ c \in Line(i)
      BY <3>1, LineFacts DEF FiberState
    <3>3. c \in Items(queues'[turn])
      BY <2>3, <2>4, <2>8, <3>2
    <3>4. InLine(c)'
      <4>1. \E r \in Root : c \in Items(queues'[r])
        BY <1>1, <3>3
      <4> QED
        BY <4>1 DEF InLine
    <3> QED
      BY <1>2, <3>2, <3>4
  <2> QED
    BY <2>2, <2>5, <2>6, <2>7, <2>8
<1> QED
  BY <1>2, <1>5, <1>6, <1>7 DEF InLine
----------------------------------------------------------------------------
(* The choice.                                                             *)

\* Of what a root offers one is the best: the first by weight, then by order.
LEMMA BestFacts ==
  ASSUME FiberState, NEW r, \E p \in Pool : RootOf(p) = r
  PROVE  Best(r) \in Pool /\ RootOf(Best(r)) = r
<1> DEFINE P == {p \in Pool : RootOf(p) = r}
           weigh(i) == fibers.weight[i]
<1>1. Items(entries) \subseteq Fiber /\ DOMAIN entries = 1..Len(entries)
  BY ItemsFacts, LenProperties DEF FiberState, FiberTypeOK
<1>2. P \subseteq Items(entries) /\ P # {}
  BY DEF Pool
<1>3. MaxPriority \in Int /\ \A p \in P : weigh(p) \in Int /\ weigh(p) <= MaxPriority
  BY <1>1, <1>2, FiberFacts DEF FiberState
<1>4. ASSUME NEW p \in P PROVE Order(p) \in Nat
  <2>1. \E k \in DOMAIN entries : entries[k] = p
    BY <1>2 DEF Items
  <2>2. Order(p) \in DOMAIN entries
    BY <2>1 DEF Order
  <2> QED
    BY <1>1, <2>2
<1> HIDE DEF P, weigh
<1> DEFINE D == {MaxPriority - weigh(i) : i \in P}
<1>5. PICK i0 \in P : \A j \in P : weigh(j) <= weigh(i0)
  <2>1. D \subseteq Nat /\ D # {}
    BY <1>2, <1>3
  <2>2. PICK d \in D : \A e \in D : d <= e
    <3> HIDE DEF D
    <3> QED
      BY <2>1, LeastNumber
  <2>3. PICK i \in P : d = MaxPriority - weigh(i)
    BY <2>2
  <2>4. ASSUME NEW j \in P PROVE weigh(j) <= weigh(i)
    <3>1. d <= MaxPriority - weigh(j)
      BY <2>2
    <3>2. weigh(j) \in Int /\ weigh(i) \in Int
      BY <1>3
    <3> QED
      BY <1>3, <2>3, <3>1, <3>2
  <2> QED
    BY <2>4
<1> DEFINE F == {Order(i) : i \in {k \in P : weigh(k) = weigh(i0)}}
<1>6. PICK i \in P : weigh(i) = weigh(i0) /\ \A e \in F : Order(i) <= e
  <2>1. F \subseteq Nat /\ F # {}
    BY <1>4
  <2>2. PICK f \in F : \A e \in F : f <= e
    <3> HIDE DEF F
    <3> QED
      BY <2>1, LeastNumber
  <2> QED
    BY <2>2
<1>7. ASSUME NEW j \in P
      PROVE  weigh(j) < weigh(i) \/ (weigh(j) = weigh(i) /\ Order(i) <= Order(j))
  <2>1. CASE weigh(j) = weigh(i0)
    <3>1. Order(j) \in F
      BY <2>1
    <3> QED
      BY <1>6, <2>1, <3>1
  <2>2. CASE weigh(j) # weigh(i0)
    BY <1>3, <1>5, <1>6, <2>2
  <2> QED
    BY <2>1, <2>2
<1>8. \E k \in P : \A j \in P : \/ fibers.weight[j] < fibers.weight[k]
                                \/ fibers.weight[j] = fibers.weight[k] /\ Order(k) <= Order(j)
  BY <1>7 DEF weigh
<1>9. Best(r) \in P
  BY <1>8 DEF Best, P
<1> QED
  BY <1>9 DEF P

\* What a choice does to types and to fairness.
LEMMA TakeTypes ==
  ASSUME FiberState, IsInjective(taken), Items(taken) \subseteq Items(entries), Take
  PROVE  /\ fibers' = fibers /\ queues' = queues /\ visits' = visits /\ entries' = entries /\ pass' = pass
         /\ NextTurn /\ FiberTypeOK' /\ Len(taken) < fibers.outputLimit /\ pass \in {"semantic", "context"}
         /\ IsInjective(taken') /\ Items(taken') \subseteq Items(entries') /\ Len(taken') <= fibers.outputLimit
         /\ (~ \E p \in Pool : RootOf(p) = turn) => taken' = taken
         /\ (\E p \in Pool : RootOf(p) = turn) =>
               LET b == Best(turn)
               IN  b \in Pool /\ RootOf(b) = turn /\ Items(taken') = Items(taken) \cup {b}
<1>1. /\ fibers' = fibers /\ queues' = queues /\ visits' = visits /\ entries' = entries /\ pass' = pass
      /\ NextTurn /\ Len(taken) < fibers.outputLimit /\ pass \in {"semantic", "context"}
      /\ taken' = IF \E p \in Pool : RootOf(p) = turn THEN Append(taken, Best(turn)) ELSE taken
  BY DEF Take, Choosing
<1>2. /\ turn \in Root /\ entries \in Seq(Fiber) /\ taken \in Seq(Fiber) /\ turn' \in Root
      /\ Len(taken) \in Nat /\ fibers.outputLimit \in Nat
  BY <1>1, TurnFacts, LenProperties, FiberFacts DEF FiberState, FiberTypeOK
<1>3. CASE ~ \E p \in Pool : RootOf(p) = turn
  <2>1. taken' = taken
    BY <1>1, <1>3
  <2>2. FiberTypeOK'
    BY <1>1, <1>2, <2>1 DEF FiberTypeOK, FiberState
  <2>3. Len(taken') <= fibers.outputLimit
    BY <1>1, <1>2, <2>1
  <2> QED
    BY <1>1, <1>3, <2>1, <2>2, <2>3
<1>4. CASE \E p \in Pool : RootOf(p) = turn
  <2> DEFINE b == Best(turn)
  <2>1. b \in Pool /\ RootOf(b) = turn
    BY <1>4, BestFacts
  <2>2. b \in Items(entries) /\ b \notin Items(taken) /\ b \in Fiber
    BY <1>2, <2>1, ItemsFacts DEF Pool
  <2>3. taken' = Append(taken, b)
    BY <1>1, <1>4
  <2> HIDE DEF b
  <2>4. /\ taken' \in Seq(Fiber) /\ Len(taken') = Len(taken) + 1 /\ taken'[Len(taken) + 1] = b
        /\ (\A i \in 1..Len(taken) : taken'[i] = taken[i]) /\ Items(taken') = Items(taken) \cup {b}
    BY <1>2, <2>2, <2>3, AppendProperties, AppendItems
  <2>5. Items(taken') \subseteq Items(entries') /\ Len(taken') <= fibers.outputLimit
    BY <1>1, <1>2, <2>2, <2>4
  <2>6. IsInjective(taken')
    <3>1. DOMAIN taken' = 1..Len(taken') /\ DOMAIN taken = 1..Len(taken)
      BY <1>2, <2>4, LenProperties
    <3>2. \A i \in 1..Len(taken') : i \in 1..Len(taken) \/ i = Len(taken) + 1
      BY <1>2, <2>4
    <3>3. \A i \in 1..Len(taken) : taken[i] \in Items(taken)
      BY <1>2, ItemsFacts
    <3>4. \A i, j \in 1..Len(taken) : taken[i] = taken[j] => i = j
      BY <3>1 DEF IsInjective
    <3>5. ASSUME NEW i \in 1..Len(taken'), NEW j \in 1..Len(taken'), taken'[i] = taken'[j] PROVE i = j
      BY <2>2, <2>4, <3>2, <3>3, <3>4, <3>5
    <3> QED
      BY <3>1, <3>5 DEF IsInjective
  <2>7. FiberTypeOK'
    BY <1>1, <1>2, <2>4 DEF FiberTypeOK, FiberState
  <2> QED
    BY <1>1, <1>4, <2>1, <2>4, <2>5, <2>6, <2>7 DEF b
<1> QED
  BY <1>3, <1>4

LEMMA HasFinite ==
  ASSUME FiberState, NEW r PROVE IsFiniteSet(Has(r)) /\ Got(r) \in Nat
<1>1. IsFiniteSet(Items(taken))
  BY ItemsCount DEF FiberState, FiberTypeOK
<1>2. Has(r) \in SUBSET Items(taken)
  BY DEF Has, Selected
<1> QED
  BY <1>1, <1>2, FS_Subset, FS_CardinalityType DEF Got

LEMMA SemanticTakeFair ==
  ASSUME FiberState, IsInjective(taken), Items(taken) \subseteq Items(entries), Take,
         pass = "semantic", TakeFair, AllSemantic
  PROVE  TakeFair' /\ AllSemantic'
<1> DEFINE count == [r \in Root |-> Got(r)]
           more == [r \in Root |-> Got(r)']
           before == {r \in Root : Left(r)}
           after == {r \in Root : Left(r)'}
<1>1. fibers' = fibers /\ entries' = entries /\ NextTurn /\ FiberState' /\ Items(taken') \subseteq Items(entries)
  BY TakeTypes DEF FiberState, FiberOK
<1>2. turn \in Root /\ Items(entries) \subseteq Fiber
  BY ItemsFacts DEF FiberState, FiberTypeOK
<1>3. \A i \in Fiber : (Semantic(i)' <=> Semantic(i)) /\ RootOf(i)' = RootOf(i)
  BY <1>1, SameWords
<1>4. Selected = Items(taken) /\ Selected' = Items(taken')
  BY DEF Selected
<1>5. \A r \in Root : Got(r) \in Nat /\ Got(r)' \in Nat
  <2>1. taken' \in Seq(Fiber)
    BY TakeTypes DEF FiberTypeOK, Fiber
  <2>2. IsFiniteSet(Items(taken'))
    BY <2>1, ItemsCount
  <2>3. ASSUME NEW r \in Root PROVE Got(r)' \in Nat
    <3>1. Has(r)' \subseteq Items(taken')
      BY DEF Has, Selected
    <3>2. IsFiniteSet(Has(r)')
      BY <2>2, <3>1, FS_Subset
    <3> QED
      BY <3>2, FS_CardinalityType DEF Got
  <2> QED
    BY <2>3, HasFinite
<1>6. ASSUME ~ \E p \in Pool : RootOf(p) = turn
      PROVE  /\ \A r \in Root : Has(r)' = Has(r) /\ (Left(r)' <=> Left(r))
             /\ AllSemantic'
  <2>1. taken' = taken
    BY <1>6, TakeTypes
  <2> QED
    BY <1>1, <1>2, <1>3, <1>4, <2>1 DEF Has, Left, AllSemantic
<1>7. ASSUME \E p \in Pool : RootOf(p) = turn
      PROVE  /\ \A r \in Root : r # turn => Has(r)' = Has(r)
             /\ \A r \in Root : r = turn => Got(r)' = Got(r) + 1
             /\ \A r \in Root : Left(r)' => Left(r)
             /\ AllSemantic'
  <2> DEFINE b == Best(turn)
  <2>1. b \in Pool /\ RootOf(b) = turn /\ Selected' = Selected \cup {b}
    BY <1>4, <1>7, TakeTypes
  <2>2. b \in Fiber /\ b \notin Selected /\ Semantic(b) /\ b \in Items(entries)
    BY <1>2, <1>4, <2>1 DEF Pool
  <2>3. Selected \subseteq Fiber
    BY <1>2, <1>4
  <2> HIDE DEF b
  <2>4. \A r \in Root : r # turn => Has(r)' = Has(r)
    BY <1>3, <2>1, <2>2, <2>3 DEF Has
  <2>5. ASSUME NEW r \in Root, r = turn PROVE Got(r)' = Got(r) + 1
    <3>1. Has(r)' = Has(r) \cup {b} /\ b \notin Has(r)
      BY <1>3, <2>1, <2>2, <2>3, <2>5 DEF Has
    <3>2. Cardinality(Has(r) \cup {b}) = Cardinality(Has(r)) + 1
      BY <3>1, HasFinite, FS_AddElement
    <3> QED
      BY <3>1, <3>2 DEF Got
  <2>6. \A r \in Root : Left(r)' => Left(r)
    BY <1>1, <1>2, <1>3, <2>1 DEF Left
  <2>7. AllSemantic'
    BY <1>3, <2>1, <2>2, <2>3 DEF AllSemantic
  <2> QED
    BY <2>4, <2>5, <2>6, <2>7
<1>8. after \subseteq before
  BY <1>6, <1>7
<1>9. \A r \in Root : Left(r) /\ r = turn => \E p \in Pool : RootOf(p) = turn
  BY <1>4 DEF Left, Pool
<1>10. count \in [Root -> Nat] /\ more \in [Root -> Nat]
  BY <1>5
<1>11. \A s \in Root : s # turn => more[s] = count[s]
  BY <1>6, <1>7 DEF Got
<1>12. more[turn] \in {count[turn], count[turn] + 1} /\ (turn \in after => more[turn] = count[turn] + 1)
  <2>1. ASSUME NEW t \in Root, t = turn
        PROVE  Got(t)' \in {Got(t), Got(t) + 1} /\ (Left(t)' => Got(t)' = Got(t) + 1)
    <3>1. CASE ~ \E p \in Pool : RootOf(p) = turn
      <4>1. Got(t)' = Got(t) /\ ~Left(t)'
        BY <1>6, <1>9, <2>1, <3>1 DEF Got
      <4> QED
        BY <4>1
    <3>2. CASE \E p \in Pool : RootOf(p) = turn
      BY <1>7, <2>1, <3>2
    <3> QED
      BY <3>1, <3>2
  <2> QED
    BY <1>2, <2>1
<1>13. \A r \in before, s \in Root : r \in Root => count[s] - Had(s) <= count[r] - Had(r)
  BY DEF TakeFair
<1>14. \A r \in after, s \in Root : r \in Root => more[s] - Had(s)' <= more[r] - Had(r)'
  <2> HIDE DEF count, more, before, after
  <2> QED
    BY <1>1, <1>2, <1>8, <1>10, <1>11, <1>12, <1>13, RoundStaysFair DEF FiberState
<1>15. TakeFair'
  BY <1>14 DEF TakeFair
<1> QED
  BY <1>6, <1>7, <1>15
----------------------------------------------------------------------------
(* The steps.                                                              *)

FiberGood == FiberState /\ FiberInv

\* The line of a fiber and what waits on it change only in the scan.
LEMMA AccountsKept ==
  ASSUME FiberState, UNCHANGED <<fibers, queues, entries>>,
         \A i \in Fiber : Accounted(i) \/ \E a \in Line(i) : InLine(a)
  PROVE  \A i \in Fiber : Accounted(i)' \/ \E a \in Line(i)' : InLine(a)'
<1> SUFFICES ASSUME NEW i \in Fiber PROVE Accounted(i)' \/ \E a \in Line(i)' : InLine(a)'
  OBVIOUS
<1>1. /\ Ancestors' = Ancestors /\ Line(i)' = Line(i)
      /\ \A j \in Fiber : /\ Inactive(j)' <=> Inactive(j)
                          /\ Useful(j)' <=> Useful(j)
  BY SameWords
<1>2. Ancestors[i] \subseteq Fiber
  BY LineFacts DEF FiberState
<1>3. Accounted(i) => Accounted(i)'
  BY <1>1, <1>2 DEF Accounted
<1>4. \A a \in Line(i) : InLine(a) => InLine(a)'
  BY DEF InLine
<1> QED
  BY <1>1, <1>3, <1>4

\* Nothing is chosen, nothing is left behind but in a Take.
LEMMA SameItems ==
  ASSUME FiberState, UNCHANGED <<fibers, entries, taken>>
  PROVE  /\ Selected' = Selected /\ (AllSemantic' <=> AllSemantic)
         /\ \A r \in Root : (Left(r)' <=> Left(r)) /\ Got(r)' = Got(r)
<1>1. Selected' = Selected /\ Items(entries') = Items(entries)
  BY DEF Selected
<1>2. Items(entries) \subseteq Fiber /\ Selected \subseteq Fiber
  BY ItemsFacts DEF FiberState, FiberTypeOK, Selected
<1>3. \A i \in Fiber : (Semantic(i)' <=> Semantic(i)) /\ RootOf(i)' = RootOf(i)
  BY SameWords
<1>4. \A r \in Root : Has(r)' = Has(r)
  BY <1>1, <1>2, <1>3 DEF Has
<1> QED
  BY <1>1, <1>2, <1>3, <1>4 DEF AllSemantic, Left, Got

LEMMA FiberStart == ASSUME FiberAssumption, FiberInit PROVE FiberGood
<1>1. fibers \in FiberInputs /\ Size \in Nat /\ Roots \in 1..Size
  BY DEF FiberInit, FiberAssumption
<1>2. Root \subseteq Fiber /\ 1 \in Root
  BY <1>1 DEF Root, Fiber
<1>3. /\ queues = [r \in Root |-> <<r>>] /\ turn = 1 /\ visits = [r \in Root |-> 0]
      /\ entries = <<>> /\ taken = <<>> /\ pass = "scan"
  BY DEF FiberInit
<1>4. <<>> \in Seq(Fiber) /\ \A r \in Root : <<r>> \in Seq(Fiber) /\ Items(<<r>>) = {r} /\ Len(<<>>) = 0
  BY <1>2 DEF Items
<1>5. FiberState
  BY <1>1, <1>2, <1>3, <1>4 DEF FiberState, FiberOK, FiberTypeOK
<1>6. ScanFair /\ VisitsFair
  <2>1. \A r \in Root : Had(r) = 0 /\ visits[r] = 0
    BY <1>1, <1>3 DEF Had, Root
  <2> QED
    BY <2>1 DEF ScanFair, VisitsFair
<1>7. ASSUME NEW i \in Fiber PROVE \E a \in Line(i) : InLine(a)
  <2>1. PICK r \in Root : r \in Line(i)
    BY <1>5, LineFacts DEF FiberState
  <2>2. InLine(r)
    BY <1>3, <1>4 DEF InLine
  <2> QED
    BY <2>1, <2>2
<1>8. Items(taken) \subseteq Items(entries) /\ IsInjective(taken) /\ Len(taken) <= fibers.outputLimit
  <2>1. fibers.outputLimit \in Nat
    BY <1>5, FiberFacts DEF FiberState
  <2>2. Items(taken) = {} /\ Len(taken) = 0 /\ DOMAIN taken = {}
    BY <1>3 DEF Items
  <2> QED
    BY <2>1, <2>2 DEF IsInjective
<1> QED
  BY <1>3, <1>5, <1>6, <1>7, <1>8 DEF FiberGood, FiberInv

LEMMA VisitKeeps == ASSUME FiberGood, Visit PROVE FiberGood'
<1>1. FiberState /\ pass = "scan" /\ ScanFair /\ taken = <<>>
  BY DEF FiberGood, FiberInv, Visit
<1>2. fibers' = fibers /\ taken' = taken /\ pass' = pass /\ FiberTypeOK'
  BY <1>1, VisitTypes
<1>3. FiberState'
  BY <1>1, <1>2 DEF FiberState, FiberOK
<1>4. ScanFair' /\ VisitsFair'
  BY <1>1, VisitFair
<1>5. \A i \in Fiber : Accounted(i)' \/ \E a \in Line(i)' : InLine(a)'
  BY <1>1, VisitAccounts DEF FiberGood, FiberInv
<1>6. Items(taken') \subseteq Items(entries') /\ IsInjective(taken') /\ Len(taken') <= fibers'.outputLimit
  <2>1. Items(taken') = {}
    BY <1>1, <1>2, ItemsFacts DEF FiberState, FiberTypeOK
  <2> QED
    BY <1>2, <2>1 DEF FiberGood, FiberInv
<1> QED
  BY <1>1, <1>2, <1>3, <1>4, <1>5, <1>6 DEF FiberGood, FiberInv

LEMMA ScanEndsKeeps == ASSUME FiberGood, ScanEnds PROVE FiberGood'
<1>1. /\ FiberState /\ pass = "scan" /\ taken = <<>> /\ pass' = "semantic" /\ turn' = 1
      /\ UNCHANGED <<fibers, queues, visits, entries, taken>>
  BY DEF FiberGood, FiberInv, ScanEnds
<1>2. 1 \in Root /\ Roots \in Nat
  BY <1>1 DEF FiberState, FiberAssumption, Root
<1>3. FiberState'
  BY <1>1, <1>2 DEF FiberState, FiberOK, FiberTypeOK
<1>4. VisitsFair'
  BY <1>1 DEF FiberGood, FiberInv, VisitsFair
<1>5. Selected' = {}
  BY <1>1, ItemsFacts DEF FiberState, FiberTypeOK, Selected
<1>6. TakeFair' /\ AllSemantic'
  <2>1. ASSUME NEW r \in Root PROVE Got(r)' = 0 /\ Had(r)' = 0
    <3>1. Has(r)' = {}
      BY <1>5 DEF Has
    <3>2. Cardinality({}) = 0
      BY FS_EmptySet
    <3>3. ~(r < 1)
      BY <1>2 DEF Root
    <3> QED
      BY <1>1, <3>1, <3>2, <3>3 DEF Got, Had
  <2>2. TakeFair'
    BY <2>1 DEF TakeFair
  <2> QED
    BY <1>5, <2>2 DEF AllSemantic
<1>7. \A i \in Fiber : Accounted(i)' \/ \E a \in Line(i)' : InLine(a)'
  BY <1>1, AccountsKept DEF FiberGood, FiberInv
<1>8. Items(taken') \subseteq Items(entries') /\ IsInjective(taken') /\ Len(taken') <= fibers'.outputLimit
  BY <1>1 DEF FiberGood, FiberInv
<1> QED
  BY <1>1, <1>3, <1>4, <1>6, <1>7, <1>8 DEF FiberGood, FiberInv

LEMMA TakeKeeps == ASSUME FiberGood, Take PROVE FiberGood'
<1>1. FiberState /\ IsInjective(taken) /\ Items(taken) \subseteq Items(entries)
  BY DEF FiberGood, FiberInv
<1>2. /\ fibers' = fibers /\ queues' = queues /\ visits' = visits /\ entries' = entries /\ pass' = pass
      /\ FiberTypeOK' /\ Len(taken) < fibers.outputLimit /\ pass \in {"semantic", "context"}
      /\ Items(taken') \subseteq Items(entries') /\ IsInjective(taken') /\ Len(taken') <= fibers.outputLimit
  BY <1>1, TakeTypes
<1>3. FiberState'
  BY <1>1, <1>2 DEF FiberState, FiberOK
<1>4. VisitsFair'
  BY <1>2 DEF FiberGood, FiberInv, VisitsFair
<1>5. \A i \in Fiber : Accounted(i)' \/ \E a \in Line(i)' : InLine(a)'
  BY <1>1, <1>2, AccountsKept DEF FiberGood, FiberInv
<1>6. pass = "semantic" => TakeFair' /\ AllSemantic'
  BY <1>1, SemanticTakeFair DEF FiberGood, FiberInv
<1>7. ASSUME pass = "context", NEW r \in Root PROVE ~Left(r)'
  <2>1. ~Left(r)
    BY <1>2, <1>7 DEF FiberGood, FiberInv
  <2>2. Selected \subseteq Selected'
    <3>1. CASE \E p \in Pool : RootOf(p) = turn
      BY <1>1, <3>1, TakeTypes DEF Selected
    <3>2. CASE ~ \E p \in Pool : RootOf(p) = turn
      BY <1>1, <3>2, TakeTypes DEF Selected
    <3> QED
      BY <3>1, <3>2
  <2>3. Items(entries) \subseteq Fiber
    BY <1>1, ItemsFacts DEF FiberState, FiberTypeOK
  <2>4. \A i \in Fiber : (Semantic(i)' <=> Semantic(i)) /\ RootOf(i)' = RootOf(i)
    BY <1>2, SameWords
  <2> QED
    BY <1>2, <2>1, <2>2, <2>3, <2>4 DEF Left
<1>8. pass = "context" => NodesFair'
  BY <1>7 DEF NodesFair
<1> QED
  BY <1>2, <1>3, <1>4, <1>5, <1>6, <1>7, <1>8 DEF FiberGood, FiberInv

LEMMA TakeEndsKeeps == ASSUME FiberGood, TakeEnds PROVE FiberGood'
<1>1. /\ FiberState /\ pass \in {"semantic", "context"} /\ ~Choosing /\ turn' = 1
      /\ pass' = IF pass = "semantic" THEN "context" ELSE "done"
      /\ UNCHANGED <<fibers, queues, visits, entries, taken>>
  BY DEF FiberGood, TakeEnds
<1>2. 1 \in Root
  BY <1>1 DEF FiberState, FiberAssumption, Root
<1>3. FiberState'
  BY <1>1, <1>2 DEF FiberState, FiberOK, FiberTypeOK
<1>4. VisitsFair'
  BY <1>1 DEF FiberGood, FiberInv, VisitsFair
<1>5. \A i \in Fiber : Accounted(i)' \/ \E a \in Line(i)' : InLine(a)'
  BY <1>1, AccountsKept DEF FiberGood, FiberInv
<1>6. Items(taken') \subseteq Items(entries') /\ IsInjective(taken') /\ Len(taken') <= fibers'.outputLimit
  BY <1>1 DEF FiberGood, FiberInv
<1>7. /\ Selected' = Selected /\ (AllSemantic' <=> AllSemantic)
      /\ \A r \in Root : (Left(r)' <=> Left(r)) /\ Got(r)' = Got(r)
  BY <1>1, SameItems
<1>8. NodesFair
  <2>1. CASE pass = "context"
    BY <2>1 DEF FiberGood, FiberInv
  <2>2. CASE pass = "semantic"
    <3> SUFFICES ASSUME NEW r \in Root, NEW s \in Root, Left(r)
                 PROVE  Got(s) <= Got(r) + 1 /\ AllSemantic
      BY DEF NodesFair
    <3>1. Got(s) - Had(s) <= Got(r) - Had(r) /\ AllSemantic
      BY <2>2 DEF FiberGood, FiberInv, TakeFair
    <3>2. Got(s) \in Nat /\ Got(r) \in Nat /\ Had(s) \in {0, 1} /\ Had(r) \in {0, 1}
      BY <1>1, HasFinite DEF Had
    <3> QED
      BY <3>1, <3>2
  <2> QED
    BY <1>1, <2>1, <2>2
<1>9. NodesFair'
  BY <1>7, <1>8 DEF NodesFair
<1>10. pass = "semantic" => (\A r \in Root : ~Left(r)') \/ ~(Len(taken') < fibers'.outputLimit)
  <2>1. pass = "semantic" => \A r \in Root : Left(r) => Pool # {}
    BY DEF Left, Pool, Selected
  <2> QED
    BY <1>1, <1>7, <2>1 DEF Choosing
<1> QED
  BY <1>1, <1>3, <1>4, <1>5, <1>6, <1>9, <1>10 DEF FiberGood, FiberInv

LEMMA FiberSteps == ASSUME FiberGood, [FiberNext]_fiberVars PROVE FiberGood'
<1>1. CASE Visit
  BY <1>1, VisitKeeps
<1>2. CASE ScanEnds
  BY <1>2, ScanEndsKeeps
<1>3. CASE Take
  BY <1>3, TakeKeeps
<1>4. CASE TakeEnds
  BY <1>4, TakeEndsKeeps
<1>5. CASE UNCHANGED fiberVars
  <2>1. UNCHANGED <<fibers, queues, turn, visits, entries, taken, pass>>
    BY <1>5 DEF fiberVars
  <2>2. FiberState'
    BY <2>1 DEF FiberGood, FiberState, FiberOK, FiberTypeOK
  <2>3. \A i \in Fiber : Accounted(i)' \/ \E a \in Line(i)' : InLine(a)'
    BY <2>1, AccountsKept DEF FiberGood, FiberInv
  <2>4. /\ Selected' = Selected /\ (AllSemantic' <=> AllSemantic)
        /\ \A r \in Root : (Left(r)' <=> Left(r)) /\ Got(r)' = Got(r) /\ Had(r)' = Had(r)
    <3>1. \A r \in Root : Had(r)' = Had(r)
      BY <2>1 DEF Had
    <3> QED
      BY <2>1, <3>1, SameItems DEF FiberGood
  <2>5. (ScanFair' <=> ScanFair) /\ (VisitsFair' <=> VisitsFair) /\ (TakeFair' <=> TakeFair) /\ (NodesFair' <=> NodesFair)
    BY <2>1, <2>4 DEF ScanFair, VisitsFair, TakeFair, NodesFair
  <2> QED
    BY <2>1, <2>2, <2>3, <2>4, <2>5 DEF FiberGood, FiberInv
<1> QED
  BY <1>1, <1>2, <1>3, <1>4, <1>5 DEF FiberNext

\* At the end nobody waits, so every fiber is accounted for.
LEMMA TabsMissing == ASSUME FiberGood, pass = "done" PROVE OnlyUnmeasuredTabsMissing
<1>1. /\ FiberState /\ taken \in Seq(Fiber) /\ entries \in Seq(Fiber) /\ queues \in [Root -> Seq(Fiber)]
      /\ Items(taken) \subseteq Items(entries) /\ IsInjective(taken) /\ Len(taken) <= fibers.outputLimit
  BY DEF FiberGood, FiberInv, FiberState, FiberTypeOK
<1>2. /\ IsFiniteSet(Items(taken)) /\ Cardinality(Items(taken)) = Len(taken)
      /\ IsFiniteSet(Items(entries)) /\ Cardinality(Items(entries)) <= Len(entries)
      /\ Cardinality(Items(entries)) \in Nat /\ Cardinality(Items(taken)) \in Nat
  BY <1>1, ItemsCount
<1>3. /\ Len(taken) \in Nat /\ Len(entries) \in Nat /\ fibers.outputLimit \in Nat
  BY <1>1, LenProperties, FiberFacts DEF FiberState
<1>4. NodeCount <= fibers.outputLimit + 1
  <2>1. Shown \in SUBSET Items(taken)
    BY DEF Shown, Selected
  <2>2. IsFiniteSet(Shown) /\ Cardinality(Shown) <= Cardinality(Items(taken))
    BY <1>2, <2>1, FS_Subset
  <2>3. Cardinality(Shown) \in Nat
    BY <2>2, FS_CardinalityType
  <2> QED
    BY <1>1, <1>2, <1>3, <2>2, <2>3 DEF NodeCount
<1>5. ASSUME NEW i \in Selected \ Shown
      PROVE  ~HasFrame(i) /\ \E t \in ({i} \cup Ancestors[i]) \cap Selected : Pruned(t)
  <2>1. PICK t \in ({i} \cup Ancestors[i]) \cap Selected : Pruned(t)
    BY DEF Shown
  <2>2. Selected \subseteq Fiber
    BY <1>1, ItemsFacts DEF Selected
  <2>3. ~HasFrame(t)
    BY <2>1 DEF Pruned
  <2>4. ~HasFrame(i)
    <3>1. CASE t = i
      BY <2>3, <3>1
    <3>2. CASE t \in Ancestors[i]
      <4> SUFFICES ASSUME HasFrame(i) PROVE FALSE
        OBVIOUS
      <4>1. PICK j \in Selected \cap fibers.measured : i = j \/ i \in Ancestors[j]
        BY DEF HasFrame
      <4>2. t \in Ancestors[j]
        BY <1>1, <2>2, <3>2, <4>1, AncestorsNested DEF FiberState
      <4> QED
        BY <2>3, <4>1, <4>2 DEF HasFrame
    <3> QED
      BY <2>1, <3>1, <3>2
  <2> QED
    BY <2>1, <2>4
<1>6. ASSUME ~Truncated, NEW i \in Fiber PROVE i \in Selected \/ (Accounted(i) /\ i \notin Items(entries))
  <2>1. \A r \in Root : queues[r] = <<>>
    BY <1>6 DEF Truncated, VisitTruncated
  <2>2. \A r \in Root : Items(queues[r]) = {}
    BY <1>1, <2>1, ItemsFacts
  <2>3. Accounted(i)
    BY <2>2 DEF FiberGood, FiberInv, InLine
  <2>4. ~(Len(taken) < Len(entries))
    BY <1>6 DEF Truncated, OutputTruncated
  <2>5. Items(taken) = Items(entries)
    <3>1. Cardinality(Items(taken)) = Cardinality(Items(entries))
      <4>1. Cardinality(Items(taken)) <= Cardinality(Items(entries))
        BY <1>1, <1>2, FS_Subset
      <4> QED
        BY <1>2, <1>3, <2>4, <4>1
    <3> QED
      BY <1>1, <1>2, <3>1, FS_Subset
  <2> QED
    BY <2>3, <2>5 DEF Selected
<1>7. ~Truncated => \A i \in Fiber : \/ i \in Selected \/ ~Useful(i)
                                     \/ Inactive(i) \/ \E a \in Ancestors[i] : Inactive(a)
  BY <1>6 DEF Accounted
<1> QED
  BY <1>4, <1>5, <1>7 DEF OnlyUnmeasuredTabsMissing

\* The invariant is as strong as it has to be.
LEMMA FiberImplies == ASSUME FiberGood PROVE ProjectionIsFair
<1>1. RootsShareBudgets
  <2>1. \A r, s \in Root : queues[r] # <<>> => visits[s] <= visits[r] + 1
    BY DEF FiberGood, FiberInv, VisitsFair
  <2>2. pass = "done" => NodesFair
    BY DEF FiberGood, FiberInv
  <2> QED
    BY <2>1, <2>2 DEF RootsShareBudgets, NodesFair, Got, Has, Left, AllSemantic
<1>2. OnlyUnmeasuredTabsMissing
  <2>1. CASE pass = "done"
    BY <2>1, TabsMissing
  <2>2. CASE pass # "done"
    BY <2>2 DEF OnlyUnmeasuredTabsMissing
  <2> QED
    BY <2>1, <2>2
<1> QED
  BY <1>1, <1>2 DEF ProjectionIsFair

LEMMA FiberHolds == FiberAssumption /\ FiberSpec => []FiberGood
<1> SUFFICES ASSUME FiberAssumption PROVE FiberSpec => []FiberGood
  OBVIOUS
<1>1. FiberInit => FiberGood
  BY FiberStart
<1>2. FiberGood /\ [FiberNext]_fiberVars => FiberGood'
  BY FiberSteps
<1> QED
  BY <1>1, <1>2, PTL DEF FiberSpec

\* For every forest of fibers, budget and focused route: the roots share both budgets, and a projection
\* that does not say it was truncated has chosen every useful fiber of an active scene; of the
\* chosen ones it leaves out tabs of which nothing was measured, with what is under them, only.
THEOREM ProjectionCorrect == FiberAssumption /\ FiberSpec => []ProjectionIsFair
<1>1. FiberGood => ProjectionIsFair
  BY FiberImplies
<1> QED
  BY <1>1, FiberHolds, PTL

\* The variables of the scan and of the choice keep their types.
THEOREM FiberTyped == FiberAssumption /\ FiberSpec => []FiberTypeOK
<1>1. FiberGood => FiberTypeOK
  BY DEF FiberGood, FiberState
<1> QED
  BY <1>1, FiberHolds, PTL

----------------------------------------------------------------------------
(***************************************************************************)
(* NativeTarget and ElementSearch.  The evidence for the element that is   *)
(* tapped is of one node of the settled tree, so every node that would do  *)
(* is that node; and a search answers with one element only if its best    *)
(* copy outdoes the best copy of any other.                                *)
(***************************************************************************)

\* The field values of the selector, of what was found and of the result.
SelectorKind == selector \in [query : {s.query : s \in Selectors}, ref : Nat, rn : BOOLEAN, id : Nat,
                              role : Nat, name : Nat, index : Int]
TreeKinds ==
    /\ native \in Trees \cup {<<>>} /\ fiber \in FiberTrees \cup {<<>>} /\ fresh \in Trees \cup {<<>>}
    /\ platform \in {"ios", "android"}
FoundKind ==
    /\ found \in [from : {"none", "native", "fiber", "fresh"}, tree : Trees \cup FiberTrees \cup {<<>>}, node : Nat]
    /\ found.node \in 0..Len(found.tree)
Codes == {"pending", "ready", "stale_ref", "ambiguous_target", "unstable_snapshot", "target_not_found",
          "native_target_unconfirmed", "target_disabled", "target_offscreen", "hit_target_mismatch", "failed"}
ResultKind ==
    /\ DOMAIN result = {"code", "node", "point", "hit", "listed", "excluded"}
    /\ result.code \in Codes /\ result.node \in 0..Len(fresh)

\* An index is asked for and is one of the matches: it stays the element found.
ByIndex(m) == selector.ref = 0 /\ selector.index # -1 /\ selector.index + 1 \in DOMAIN m

IndexInv == phase \in {"settle", "hit"} \/ result.code = "ready" =>
    LET m == Matching(native, selector) IN
    ByIndex(m) => found = [from |-> "native", tree |-> native, node |-> m[selector.index + 1]]

\* The evidence in the settled tree is of the one node that is the result.
SettledInv == phase = "hit" \/ result.code \in {"ready", "hit_target_mismatch"} =>
    /\ fresh \in Trees /\ ~Nameless(found)
    /\ Evidence(fresh, found) = {result.node}
    /\ fresh[result.node].usable /\ result.point \in OnScreen

\* On Android a point is given only where that node is alone the deepest.
HitInv == result.code = "ready" /\ platform = "android" =>
    DeepestActionable(fresh, result.point) = {result.node}

\* What a query was resolved to stands out, as QueryStandsOut has it.
Stands ==
    LET all == Matches(native, fiber, selector.query) IN
    \A c \in all : c.from = "native" /\ ~selector.rn /\ c.node = selector.ref =>
        /\ c \in Eligible(all)
        /\ Cardinality(Unique(Eligible(all))) <= SearchLimit =>
              \A e \in Eligible(all) : e.from = "native" /\ Key(e) # Key(c) =>
                  \E copy \in Eligible(all) :
                      /\ Key(copy) = Key(e) /\ copy.score >= e.score
                      /\ \/ copy.from = "native" /\ Outdoes(c, copy)
                         \/ copy.from = "fiber" /\ copy.score > e.score

\* A search that lists and excludes nothing has found nothing.
NothingLeft ==
    result.code = "ambiguous_target" /\ selector.ref = 0 /\ result.listed + result.excluded = 0
        => Matches(native, fiber, selector.query) = {}

\* A query is resolved once, and both hold from then on.
QueryInv == selector.query # <<>> =>
    /\ phase \in {"search", "rank"} => selector.ref = 0
    /\ phase \in {"discover", "settle", "hit"} => selector.ref # 0
    /\ phase \notin {"search", "rank"} => Stands /\ NothingLeft

TargetInv ==
    /\ SelectorKind /\ TreeKinds /\ FoundKind /\ ResultKind
    /\ phase \in {"search", "rank", "discover", "settle", "hit", "done"}
    /\ phase # "done" => result.code = "pending"
    /\ IndexInv /\ SettledInv /\ HitInv /\ QueryInv

----------------------------------------------------------------------------
(* Finite sets.                                                            *)

\* The library states this of an operator; here it is of a function.
LEMMA ImageFinite ==
  ASSUME NEW S, IsFiniteSet(S), NEW f, DOMAIN f = S PROVE IsFiniteSet({f[x] : x \in S})
<1> DEFINE T == {f[x] : x \in S}
           g == [x \in S |-> f[x]]
<1>1. g \in [S -> T]
  OBVIOUS
<1>2. \A y \in T : \E x \in S : g[x] = y
  OBVIOUS
<1>3. g \in Surjection(S, T)
  <2> HIDE DEF g, T
  <2> QED
    BY <1>1, <1>2, Fun_IsSurj
<1> HIDE DEF g
<1> QED
  BY <1>3, FS_Surjection

\* Of the numbers of a finite set one is the greatest.
LEMMA GreatestNumber ==
  ASSUME NEW S, IsFiniteSet(S), S # {}, S \subseteq Int PROVE \E m \in S : \A x \in S : x <= m
<1> DEFINE n == Cardinality(S)
<1>1. n \in Nat /\ ExistsBijection(1..n, S)
  BY FS_CardinalityType
<1>2. PICK f : f \in Bijection(1..n, S)
  BY <1>1 DEF ExistsBijection
<1> HIDE DEF n
<1>3. f \in [1..n -> S] /\ \A x \in S : \E k \in 1..n : f[k] = x
  BY <1>2 DEF Bijection, Surjection
<1> DEFINE T == {k \in 0..n : k # 0 => \E m \in 1..k : \A j \in 1..k : f[j] <= f[m]}
<1>4. 0 \in T
  BY <1>1
<1>5. ASSUME NEW k \in 0..(n - 1), k \in T PROVE k + 1 \in T
  <2>1. k + 1 \in 0..n /\ k + 1 \in 1..n /\ \A j \in 1..(k + 1) : j \in 1..n /\ (j \in 1..k \/ j = k + 1)
    BY <1>1
  <2>2. \A j \in 1..n : f[j] \in Int
    BY <1>3
  <2>3. CASE k = 0
    <3>1. 1 \in 1..(k + 1) /\ \A j \in 1..(k + 1) : f[j] <= f[1]
      BY <2>1, <2>2, <2>3
    <3> QED
      BY <2>1, <3>1
  <2>4. CASE k # 0
    <3>1. PICK m \in 1..k : \A j \in 1..k : f[j] <= f[m]
      BY <1>5, <2>4
    <3>2. m \in 1..(k + 1) /\ k + 1 \in 1..(k + 1) /\ m \in 1..n
      BY <1>1
    <3>3. CASE f[k + 1] <= f[m]
      <4>1. \A j \in 1..(k + 1) : f[j] <= f[m]
        BY <2>1, <3>1, <3>3
      <4> QED
        BY <2>1, <3>2, <4>1
    <3>4. CASE ~ (f[k + 1] <= f[m])
      <4>1. \A j \in 1..(k + 1) : f[j] <= f[k + 1]
        BY <2>1, <2>2, <3>1, <3>2, <3>4
      <4> QED
        BY <2>1, <3>2, <4>1
    <3> QED
      BY <3>3, <3>4
  <2> QED
    BY <2>3, <2>4
<1>6. \A k \in 0..n : k \in T
  <2> HIDE DEF T
  <2> QED
    BY <1>1, <1>4, <1>5, Upwards
<1>7. n # 0
  <2>1. PICK x \in S : TRUE
    OBVIOUS
  <2>2. PICK k \in 1..n : f[k] = x
    BY <1>3
  <2> QED
    BY <1>1, <2>2
<1>8. PICK m \in 1..n : \A j \in 1..n : f[j] <= f[m]
  <2>1. n \in T
    <3>1. n \in 0..n
      BY <1>1
    <3> HIDE DEF T
    <3> QED
      BY <1>6, <3>1
  <2> QED
    BY <1>7, <2>1
<1> QED
  BY <1>3, <1>8

----------------------------------------------------------------------------
(* Scores.                                                                 *)

LEMMA WordsFinite ==
  ASSUME NEW text, Len(text) \in Nat PROVE IsFiniteSet(WordsOf(text))
<1> DEFINE D == 1..Len(text)
           B == {b \in WordBounds(text) : b[1] <= b[2]}
           f == [p \in B |-> SubSeq(text, p[1], p[2])]
<1>1. IsFiniteSet(D)
  BY FS_Interval
<1>2. IsFiniteSet(D \X D)
  <2> HIDE DEF D
  <2> QED
    BY <1>1, FS_Product
<1>3. B \in SUBSET (D \X D)
  BY DEF WordBounds
<1>4. IsFiniteSet(B)
  <2> HIDE DEF B, D
  <2> QED
    BY <1>2, <1>3, FS_Subset
<1>5. WordsOf(text) = {f[p] : p \in B}
  BY DEF WordsOf
<1>6. DOMAIN f = B
  OBVIOUS
<1> HIDE DEF f, B
<1> QED
  BY <1>4, <1>5, <1>6, ImageFinite

LEMMA TogetherIsNat ==
  ASSUME NEW node, NEW query, Len(query) \in Nat PROVE Together(node, query) \in Nat
<1> DEFINE words == WordsOf(query)
           met == words \cap UNION {WordsOf(Text(node, f)) : f \in Fields}
           k == Cardinality(met)
           n == Cardinality(words)
           all == k >= 2 /\ (n = 2 => k = 2) /\ 2 * k >= n
<1>1. IsFiniteSet(words)
  BY WordsFinite
<1>2. met \in SUBSET words
  OBVIOUS
<1>3. IsFiniteSet(met) /\ k <= n
  <2> HIDE DEF words, met
  <2> QED
    BY <1>1, <1>2, FS_Subset
<1>4. k \in Nat /\ n \in Nat
  <2> HIDE DEF words, met
  <2> QED
    BY <1>1, <1>3, FS_CardinalityType
<1>5. Together(node, query) = IF all THEN Thousandths(350000 + (350000 * k) \div n) ELSE 0
  BY DEF Together
<1>6. all => k >= 2
  OBVIOUS
<1> HIDE DEF all, k, n
<1>7. CASE all
  <2>1. n > 0 /\ 350000 * k \in Nat
    BY <1>3, <1>4, <1>6, <1>7
  <2>2. \A a \in Nat : a \div n \in Nat
    BY <1>4, <2>1
  <2> DEFINE q == (350000 * k) \div n
  <2>3. q \in Nat
    BY <2>1, <2>2
  <2> HIDE DEF q
  <2>4. (350000 + q + 500) \div 1000 \in Nat
    BY <2>3
  <2> QED
    BY <1>5, <1>7, <2>4 DEF Thousandths, q
<1>8. CASE ~all
  BY <1>5, <1>8
<1> QED
  BY <1>7, <1>8

LEMMA FieldIsNat ==
  ASSUME NEW node, NEW query, NEW f \in Fields
  PROVE  Thousandths(FieldScore(Text(node, f), query) * Weight[f]) \in Nat
<1> DEFINE s == FieldScore(Text(node, f), query)
           w == Weight[f]
<1>1. s \in {0, 1000, 920, 840, 750}
  BY DEF FieldScore
<1>2. w \in {950, 1000, 650}
  BY DEF Weight, Fields
<1> HIDE DEF s, w
<1>3. (s * w + 500) \div 1000 \in Nat
  BY <1>1, <1>2
<1> QED
  BY <1>3 DEF Thousandths, s, w

LEMMA ScoreIsNat ==
  ASSUME NEW node, NEW query, Len(query) \in Nat PROVE Score(node, query) \in Nat
<1> DEFINE g(f) == Thousandths(FieldScore(Text(node, f), query) * Weight[f])
           t == Together(node, query)
           S == {g(f) : f \in Fields} \cup {t}
<1>1. t \in Nat /\ \A f \in Fields : g(f) \in Nat
  BY TogetherIsNat, FieldIsNat
<1>2. Score(node, query) = CHOOSE n \in S : \A m \in S : m <= n
  BY DEF Score, Greatest
<1>3. S = {g("id"), g("name"), g("role"), t}
  BY DEF Fields
<1>4. g("id") \in Nat /\ g("name") \in Nat /\ g("role") \in Nat
  BY <1>1 DEF Fields
<1> HIDE DEF g, t
<1>5. \E n \in S : \A m \in S : m <= n
  <2>1. S \subseteq Int /\ S # {}
    BY <1>1, <1>3, <1>4
  <2>2. IsFiniteSet({g("id"), g("name"), g("role"), t})
    <3>1. IsFiniteSet({g("id")})
      BY FS_Singleton
    <3>2. IsFiniteSet({g("id")} \cup {g("name")})
      BY <3>1, FS_AddElement
    <3>3. IsFiniteSet({g("id")} \cup {g("name")} \cup {g("role")})
      BY <3>2, FS_AddElement
    <3>4. IsFiniteSet({g("id")} \cup {g("name")} \cup {g("role")} \cup {t})
      BY <3>3, FS_AddElement
    <3>5. {g("id"), g("name"), g("role"), t} = {g("id")} \cup {g("name")} \cup {g("role")} \cup {t}
      OBVIOUS
    <3> QED
      BY <3>4, <3>5
  <2> HIDE DEF S
  <2> QED
    BY <1>3, <2>1, <2>2, GreatestNumber
<1>6. S \subseteq Nat
  BY <1>1, <1>3, <1>4
<1> HIDE DEF S
<1> QED
  BY <1>2, <1>5, <1>6
----------------------------------------------------------------------------
(* Matches.                                                                *)

IsTree(t) == Len(t) \in Nat /\ DOMAIN t = 1..Len(t)

Candidate(from, t, query, i) ==
    [from |-> from, node |-> i, el |-> t[i], score |-> Score(t[i], query), exact |-> Exact(t[i], query)]

\* The place of a match in the order they come in.
Place(natives, c) == IF c.from = "native" THEN c.node ELSE Len(natives) + c.node

LEMMA CandidatesFinite ==
  ASSUME NEW from, NEW t, IsTree(t), NEW query
  PROVE  IsFiniteSet({Candidate(from, t, query, i) : i \in DOMAIN t})
<1> DEFINE f == [i \in 1..Len(t) |-> Candidate(from, t, query, i)]
<1>1. IsFiniteSet(1..Len(t))
  BY FS_Interval DEF IsTree
<1>2. {Candidate(from, t, query, i) : i \in DOMAIN t} = {f[i] : i \in 1..Len(t)}
  BY DEF IsTree
<1>3. DOMAIN f = 1..Len(t)
  OBVIOUS
<1> HIDE DEF f
<1> QED
  BY <1>1, <1>2, <1>3, ImageFinite

LEMMA MatchesFacts ==
  ASSUME NEW natives, IsTree(natives), NEW projected, IsTree(projected), NEW query, Len(query) \in Nat
  PROVE  /\ IsFiniteSet(Matches(natives, projected, query))
         /\ \A c \in Matches(natives, projected, query) :
               /\ c.from \in {"native", "fiber"} /\ c.node \in Nat \ {0} /\ c.score \in Nat
               /\ c.exact \in BOOLEAN /\ Place(natives, c) \in Nat
         /\ \A c, e \in Matches(natives, projected, query) :
               /\ Earlier(c, e) <=> Place(natives, c) < Place(natives, e)
               /\ Place(natives, c) = Place(natives, e) => c = e
<1> DEFINE ofNative == {Candidate("native", natives, query, i) : i \in DOMAIN natives}
           ofFiber == {Candidate("fiber", projected, query, i) : i \in DOMAIN projected}
           M == Matches(natives, projected, query)
<1>1. M = {c \in ofNative \cup ofFiber : c.score > 0}
  BY DEF Matches, Candidate
<1>2. IsFiniteSet(M)
  <2>1. IsFiniteSet(ofNative) /\ IsFiniteSet(ofFiber)
    BY CandidatesFinite
  <2>2. M \in SUBSET (ofNative \cup ofFiber)
    BY <1>1
  <2> HIDE DEF ofNative, ofFiber, M
  <2>3. IsFiniteSet(ofNative \cup ofFiber)
    BY <2>1, FS_Union
  <2> QED
    BY <2>2, <2>3, FS_Subset
<1>3. ASSUME NEW c \in M
      PROVE  \/ c.from = "native" /\ c.node \in 1..Len(natives) /\ c = Candidate("native", natives, query, c.node)
             \/ c.from = "fiber" /\ c.node \in 1..Len(projected) /\ c = Candidate("fiber", projected, query, c.node)
  <2>1. c \in ofNative \/ c \in ofFiber
    BY <1>1
  <2>2. CASE c \in ofNative
    <3>1. PICK i \in 1..Len(natives) : c = Candidate("native", natives, query, i)
      BY <2>2 DEF IsTree
    <3>2. c.from = "native" /\ c.node = i
      BY <3>1 DEF Candidate
    <3> QED
      BY <3>1, <3>2
  <2>3. CASE c \in ofFiber
    <3>1. PICK i \in 1..Len(projected) : c = Candidate("fiber", projected, query, i)
      BY <2>3 DEF IsTree
    <3>2. c.from = "fiber" /\ c.node = i
      BY <3>1 DEF Candidate
    <3> QED
      BY <3>1, <3>2
  <2> QED
    BY <2>1, <2>2, <2>3
<1>4. \A i, t, from : Candidate(from, t, query, i).score \in Nat
  BY ScoreIsNat DEF Candidate
<1>5. \A i, t, from : Candidate(from, t, query, i).exact \in BOOLEAN
  BY DEF Candidate, Exact
<1> HIDE DEF M
<1>6. Len(natives) \in Nat /\ Len(projected) \in Nat
  BY DEF IsTree
<1>7. ASSUME NEW c \in M
      PROVE  /\ c.from \in {"native", "fiber"} /\ c.node \in Nat \ {0} /\ c.score \in Nat
             /\ c.exact \in BOOLEAN /\ Place(natives, c) \in Nat
  <2>1. c.from \in {"native", "fiber"} /\ c.node \in Nat \ {0}
    BY <1>3, <1>6
  <2>2. c.score \in Nat /\ c.exact \in BOOLEAN
    BY <1>3, <1>4, <1>5
  <2> QED
    BY <1>6, <2>1, <2>2 DEF Place
<1>8. ASSUME NEW c \in M, NEW e \in M
      PROVE  /\ Earlier(c, e) <=> Place(natives, c) < Place(natives, e)
             /\ Place(natives, c) = Place(natives, e) => c = e
  <2>1. /\ \/ c.from = "native" /\ c.node \in 1..Len(natives)
           \/ c.from = "fiber" /\ c.node \in 1..Len(projected)
        /\ \/ e.from = "native" /\ e.node \in 1..Len(natives)
           \/ e.from = "fiber" /\ e.node \in 1..Len(projected)
        /\ c.from = e.from /\ c.node = e.node => c = e
    BY <1>3
  <2> QED
    BY <1>6, <2>1 DEF Place, Earlier
<1> QED
  BY <1>2, <1>7, <1>8 DEF M

\* Among some matches one has the highest score, and of several the earliest.
LEMMA HighestMatch ==
  ASSUME NEW natives, IsTree(natives), NEW projected, IsTree(projected), NEW query, Len(query) \in Nat,
         NEW P, P \subseteq Matches(natives, projected, query), P # {}
  PROVE  \E c \in P : \A e \in P : e.score <= c.score
<1> DEFINE M == Matches(natives, projected, query)
           f == [c \in P |-> c.score]
           S == {f[c] : c \in P}
<1>1. IsFiniteSet(M) /\ P \in SUBSET M /\ \A c \in M : c.score \in Nat
  BY MatchesFacts
<1>2. IsFiniteSet(P)
  <2> HIDE DEF M
  <2> QED
    BY <1>1, FS_Subset
<1>3. IsFiniteSet(S)
  <2>1. DOMAIN f = P
    OBVIOUS
  <2> HIDE DEF f
  <2> QED
    BY <1>2, <2>1, ImageFinite
<1>4. S \subseteq Int /\ S # {}
  BY <1>1
<1>5. PICK m \in S : \A x \in S : x <= m
  <2> HIDE DEF S
  <2> QED
    BY <1>3, <1>4, GreatestNumber
<1>6. PICK c \in P : m = c.score
  OBVIOUS
<1>7. \A e \in P : e.score \in S
  OBVIOUS
<1> HIDE DEF S
<1> QED
  BY <1>5, <1>6, <1>7

LEMMA EarliestMatch ==
  ASSUME NEW natives, IsTree(natives), NEW projected, IsTree(projected), NEW query, Len(query) \in Nat,
         NEW P, P \subseteq Matches(natives, projected, query), P # {}
  PROVE  \E c \in P : \A e \in P \ {c} : Earlier(c, e)
<1> DEFINE M == Matches(natives, projected, query)
           S == {Place(natives, c) : c \in P}
<1>1. P \subseteq M /\ \A c \in M : Place(natives, c) \in Nat
  BY MatchesFacts
<1>2. S \subseteq Nat /\ S # {}
  BY <1>1
<1>3. PICK m \in S : \A x \in S : m <= x
  <2> HIDE DEF S
  <2> QED
    BY <1>2, LeastNumber
<1>4. PICK c \in P : m = Place(natives, c)
  OBVIOUS
<1>5. ASSUME NEW e \in P \ {c} PROVE Earlier(c, e)
  <2>1. Place(natives, c) <= Place(natives, e) /\ c \in M /\ e \in M /\ e # c
    BY <1>1, <1>3, <1>4
  <2>2. /\ Earlier(c, e) <=> Place(natives, c) < Place(natives, e)
        /\ Place(natives, c) # Place(natives, e)
        /\ Place(natives, c) \in Nat /\ Place(natives, e) \in Nat
    <3>1. /\ Earlier(c, e) <=> Place(natives, c) < Place(natives, e)
          /\ Place(natives, c) = Place(natives, e) => c = e
      BY <2>1, MatchesFacts
    <3> QED
      BY <1>1, <2>1, <3>1
  <2> QED
    BY <2>1, <2>2
<1> QED
  BY <1>5

\* First is there, unless nothing is.
LEMMA FirstExists ==
  ASSUME NEW natives, IsTree(natives), NEW projected, IsTree(projected), NEW query, Len(query) \in Nat,
         NEW P, P \subseteq Matches(natives, projected, query), P # {}
  PROVE  First(P) # {}
<1>1. PICK h \in P : \A e \in P : e.score <= h.score
  BY HighestMatch
<1>2. \A c \in P : c.score \in Nat /\ c.exact \in BOOLEAN
  BY MatchesFacts
<1> DEFINE high == {c \in P : c.score = h.score}
           best == IF \E c \in high : c.exact THEN {c \in high : c.exact} ELSE high
<1>3. best # {} /\ best \subseteq Matches(natives, projected, query)
  OBVIOUS
<1>4. PICK c \in best : \A e \in best \ {c} : Earlier(c, e)
  <2> HIDE DEF best
  <2> QED
    BY <1>3, EarliestMatch
<1>5. c \in P /\ c.score = h.score
  OBVIOUS
<1>6. ASSUME NEW e \in P \ {c} PROVE Ahead(c, e)
  <2>1. CASE e.score # h.score
    BY <1>1, <1>2, <1>5, <2>1 DEF Ahead
  <2>2. CASE e.score = h.score /\ e \in best
    <3>1. c.exact = e.exact
      <4>1. CASE \E x \in high : x.exact
        <5>1. c.exact /\ e.exact
          BY <2>2, <4>1
        <5> QED
          BY <1>2, <1>5, <5>1
      <4>2. CASE ~ \E x \in high : x.exact
        <5>1. ~c.exact /\ ~e.exact
          BY <2>2, <4>2
        <5> QED
          BY <1>2, <1>5, <5>1
      <4> QED
        BY <4>1, <4>2
    <3>2. Earlier(c, e) /\ c.score = e.score
      BY <1>4, <1>5, <2>2
    <3> QED
      BY <3>1, <3>2 DEF Ahead
  <2>3. CASE e.score = h.score /\ e \notin best
    BY <1>5, <2>3 DEF Ahead
  <2> QED
    BY <2>1, <2>2, <2>3
<1> QED
  BY <1>5, <1>6 DEF First
\* Every match has a best copy, and that is among the unique ones.
LEMMA UniqueCopy ==
  ASSUME NEW natives, IsTree(natives), NEW projected, IsTree(projected), NEW query, Len(query) \in Nat,
         NEW P, P \subseteq Matches(natives, projected, query), NEW e \in P
  PROVE  \E u \in Unique(P) : Key(u) = Key(e) /\ (u.score > e.score \/ (u.score = e.score /\ (u = e \/ Earlier(u, e))))
<1> DEFINE copies == {c \in P : Key(c) = Key(e)}
<1>1. copies # {} /\ copies \subseteq Matches(natives, projected, query)
  OBVIOUS
<1>2. PICK h \in copies : \A c \in copies : c.score <= h.score
  <2> HIDE DEF copies
  <2> QED
    BY <1>1, HighestMatch
<1>3. \A c \in P : c.score \in Nat
  BY MatchesFacts
<1> DEFINE best == {c \in copies : c.score = h.score}
<1>4. best # {} /\ best \subseteq Matches(natives, projected, query)
  OBVIOUS
<1>5. PICK u \in best : \A c \in best \ {u} : Earlier(u, c)
  <2> HIDE DEF best
  <2> QED
    BY <1>4, EarliestMatch
<1>6. u \in P /\ Key(u) = Key(e) /\ u.score = h.score
  OBVIOUS
<1>7. u \in Unique(P)
  <2>1. ASSUME NEW c \in P \ {u}, Key(c) = Key(u)
        PROVE  c.score < u.score \/ (c.score = u.score /\ Earlier(u, c))
    <3>1. c \in copies /\ c.score <= u.score
      BY <1>2, <1>6, <2>1
    <3>2. CASE c.score = u.score
      BY <1>5, <1>6, <2>1, <3>1, <3>2
    <3>3. CASE c.score # u.score
      BY <1>3, <1>6, <3>1, <3>3
    <3> QED
      BY <3>2, <3>3
  <2> QED
    BY <1>6, <2>1 DEF Unique
<1>8. u.score > e.score \/ (u.score = e.score /\ (u = e \/ Earlier(u, e)))
  <2>1. e \in copies /\ e.score <= u.score /\ e.score \in Nat /\ u.score \in Nat
    BY <1>2, <1>3, <1>6
  <2>2. CASE e.score = u.score
    BY <1>5, <1>6, <2>1, <2>2
  <2>3. CASE e.score # u.score
    BY <2>1, <2>3
  <2> QED
    BY <2>2, <2>3
<1> QED
  BY <1>6, <1>7, <1>8

\* What stands out of some matches outdoes every other.
LEMMA OutstandingOutdoes ==
  ASSUME NEW natives, IsTree(natives), NEW projected, IsTree(projected), NEW query, Len(query) \in Nat,
         NEW P, P \subseteq Matches(natives, projected, query),
         NEW c \in Outstanding(P, Cardinality(P)), NEW e \in P, e # c
  PROVE  Outdoes(c, e)
<1>1. c \in P /\ \A x \in P \ {c} : Ahead(c, x)
  BY DEF Outstanding, First
<1>2. \A x \in P : x.score \in Nat /\ x.exact \in BOOLEAN
  BY MatchesFacts
<1>3. Cardinality(P) # 1
  <2>1. IsFiniteSet(P)
    BY MatchesFacts, FS_Subset
  <2>2. ASSUME Cardinality(P) = 1 PROVE FALSE
    <3>1. PICK x : P = {x}
      BY <2>1, <2>2, FS_Singleton
    <3> QED
      BY <1>1, <3>1
  <2> QED
    BY <2>2
<1>4. PICK s \in First(P \ {c}) : (c.exact /\ ~s.exact) \/ c.score - s.score >= Gap
  BY <1>3 DEF Outstanding
<1>5. s \in P /\ s # c /\ (e = s \/ Ahead(s, e)) /\ Ahead(c, s) /\ Ahead(c, e)
  BY <1>1, <1>4 DEF First
<1>6. /\ c.score \in Nat /\ s.score \in Nat /\ e.score \in Nat
      /\ c.exact \in BOOLEAN /\ s.exact \in BOOLEAN /\ e.exact \in BOOLEAN
  BY <1>1, <1>2, <1>5
<1>7. /\ c.score >= s.score /\ s.score >= e.score
      /\ c.score = s.score => (c.exact \/ ~s.exact)
      /\ s.score = e.score => (s.exact \/ ~e.exact)
  BY <1>5, <1>6 DEF Ahead
<1>8. CASE c.score - s.score >= Gap
  BY <1>6, <1>7, <1>8 DEF Outdoes, Gap
<1>9. CASE c.exact /\ ~s.exact
  BY <1>6, <1>7, <1>9 DEF Outdoes
<1> QED
  BY <1>4, <1>8, <1>9

\* The answer to a search lists something if something is eligible, and
\* everything if that is not too much; and it counts what it leaves out.
LEMMA SearchFacts ==
  ASSUME NEW natives, IsTree(natives), NEW projected, IsTree(projected), NEW query, Len(query) \in Nat,
         SearchLimit \in Nat \ {0}
  PROVE  LET all == Matches(natives, projected, query)
             unique == Unique(Eligible(all))
             answer == SearchElements(natives, projected, query)
         IN  /\ answer.matches \subseteq unique /\ IsFiniteSet(answer.matches)
             /\ answer.total = Cardinality(unique)
             /\ Cardinality(unique) <= SearchLimit => answer.matches = unique
             /\ Eligible(all) # {} => answer.matches # {}
             /\ answer.excluded \in Nat /\ (answer.excluded = 0 => all = Eligible(all))
<1> DEFINE all == Matches(natives, projected, query)
           unique == Unique(Eligible(all))
           answer == SearchElements(natives, projected, query)
           ahead(c) == {e \in unique : Ahead(e, c)}
<1>1. /\ answer.matches = {c \in unique : Cardinality(ahead(c)) < SearchLimit}
      /\ answer.total = Cardinality(unique)
      /\ answer.excluded = Cardinality({Key(c) : c \in all \ Eligible(all)})
  BY DEF SearchElements
<1>2. IsFiniteSet(all)
  BY MatchesFacts
<1>3. Eligible(all) \subseteq all /\ unique \subseteq Eligible(all)
  BY DEF Eligible, Unique
<1>4. IsFiniteSet(unique) /\ Cardinality(unique) \in Nat
  <2>1. unique \in SUBSET all
    BY <1>3
  <2> HIDE DEF all, unique
  <2> QED
    BY <1>2, <2>1, FS_Subset, FS_CardinalityType
<1>5. IsFiniteSet(answer.matches)
  <2>1. answer.matches \in SUBSET unique
    BY <1>1
  <2> HIDE DEF answer, unique
  <2> QED
    BY <1>4, <2>1, FS_Subset
<1>6. \A c \in unique : ~Ahead(c, c)
  <2>1. \A c \in all : c.score \in Nat /\ c.node \in Nat
    BY MatchesFacts
  <2> QED
    BY <1>3, <2>1 DEF Ahead, Earlier
<1>7. ASSUME Cardinality(unique) <= SearchLimit, NEW c \in unique PROVE Cardinality(ahead(c)) < SearchLimit
  <2>1. ahead(c) \in SUBSET (unique \ {c})
    BY <1>6
  <2> HIDE DEF unique, ahead
  <2>2. IsFiniteSet(unique \ {c}) /\ Cardinality(unique \ {c}) = Cardinality(unique) - 1
    BY <1>4, FS_RemoveElement
  <2>3. IsFiniteSet(ahead(c)) /\ Cardinality(ahead(c)) <= Cardinality(unique \ {c})
    BY <2>1, <2>2, FS_Subset
  <2>4. Cardinality(ahead(c)) \in Nat
    BY <2>3, FS_CardinalityType
  <2> QED
    BY <1>4, <1>7, <2>2, <2>3, <2>4
<1>8. ASSUME Eligible(all) # {} PROVE answer.matches # {}
  <2>1. unique # {}
    <3>1. PICK e \in Eligible(all) : TRUE
      BY <1>8
    <3> QED
      BY <1>3, <3>1, UniqueCopy
  <2>2. First(unique) # {}
    <3>1. unique \subseteq Matches(natives, projected, query)
      BY <1>3
    <3> HIDE DEF unique
    <3> QED
      BY <2>1, <3>1, FirstExists
  <2>3. PICK c \in unique : \A e \in unique \ {c} : Ahead(c, e)
    BY <2>2 DEF First
  <2>4. ahead(c) = {}
    <3>1. \A e \in all : e.score \in Nat /\ e.exact \in BOOLEAN /\ Place(natives, e) \in Nat
      BY MatchesFacts
    <3>2. ASSUME NEW e \in unique, Ahead(e, c) PROVE FALSE
      <4>1. e # c /\ Ahead(c, e) /\ e \in all /\ c \in all
        BY <1>3, <1>6, <2>3, <3>2
      <4>2. ~ (Earlier(c, e) /\ Earlier(e, c))
        <5>1. /\ Earlier(c, e) <=> Place(natives, c) < Place(natives, e)
              /\ Earlier(e, c) <=> Place(natives, e) < Place(natives, c)
          BY <4>1, MatchesFacts
        <5> QED
          BY <3>1, <4>1, <5>1
      <4> QED
        BY <3>1, <3>2, <4>1, <4>2 DEF Ahead
    <3> QED
      BY <3>2
  <2>5. Cardinality(ahead(c)) = 0
    <3> HIDE DEF ahead
    <3> QED
      BY <2>4, FS_EmptySet
  <2> QED
    BY <1>1, <2>3, <2>5
<1>9. answer.excluded \in Nat /\ (answer.excluded = 0 => all = Eligible(all))
  <2> DEFINE rest == all \ Eligible(all)
             f == [c \in rest |-> Key(c)]
             keys == {f[c] : c \in rest}
  <2>1. IsFiniteSet(rest)
    <3> HIDE DEF all
    <3> QED
      BY <1>2, FS_Difference
  <2>2. DOMAIN f = rest
    OBVIOUS
  <2>3. IsFiniteSet(keys)
    <3> HIDE DEF f, rest
    <3> QED
      BY <2>1, <2>2, ImageFinite
  <2>4. keys = {Key(c) : c \in all \ Eligible(all)}
    OBVIOUS
  <2>5. Cardinality(keys) \in Nat /\ (Cardinality(keys) = 0 => keys = {})
    <3> HIDE DEF keys
    <3> QED
      BY <2>3, FS_CardinalityType, FS_EmptySet
  <2>6. keys = {} => all = Eligible(all)
    <3>1. keys = {} => rest = {}
      BY <2>4
    <3> QED
      BY <1>3, <3>1
  <2> HIDE DEF keys, all, answer
  <2> QED
    BY <1>1, <2>4, <2>5, <2>6
<1>10. Cardinality(unique) <= SearchLimit => answer.matches = unique
  BY <1>1, <1>7
<1> HIDE DEF all, unique, answer
<1>11. answer.matches \subseteq unique
  BY <1>1
<1> QED
  BY <1>1, <1>5, <1>8, <1>9, <1>10, <1>11 DEF all, unique, answer
\* A native match that is meant stands out.
LEMMA MeantStands ==
  ASSUME NEW natives, IsTree(natives), NEW projected, IsTree(projected), NEW query, Len(query) \in Nat,
         SearchLimit \in Nat \ {0},
         NEW c \in Meant(SearchElements(natives, projected, query))
  PROVE  LET all == Matches(natives, projected, query) IN
         /\ c \in Eligible(all)
         /\ c.from = "native" /\ Cardinality(Unique(Eligible(all))) <= SearchLimit =>
               \A e \in Eligible(all) : e.from = "native" /\ Key(e) # Key(c) =>
                   \E copy \in Eligible(all) :
                       /\ Key(copy) = Key(e) /\ copy.score >= e.score
                       /\ \/ copy.from = "native" /\ Outdoes(c, copy)
                          \/ copy.from = "fiber" /\ copy.score > e.score
<1> DEFINE all == Matches(natives, projected, query)
           unique == Unique(Eligible(all))
           answer == SearchElements(natives, projected, query)
           ofNative == {x \in answer.matches : x.from = "native"}
<1>1. /\ answer.matches \subseteq unique
      /\ Cardinality(unique) <= SearchLimit => answer.matches = unique
  BY SearchFacts
<1>2. unique \subseteq Eligible(all) /\ Eligible(all) \subseteq all
  BY DEF Unique, Eligible
<1>3. /\ ofNative # {} => c \in Outstanding(ofNative, Cardinality(ofNative))
      /\ ofNative = {} => c \in Outstanding(answer.matches, answer.total)
  BY DEF Meant
<1>4. c \in answer.matches /\ (ofNative # {} => c \in ofNative)
  BY <1>3 DEF Outstanding, First
<1> HIDE DEF answer
<1>5. c \in Eligible(all)
  BY <1>1, <1>2, <1>4
<1>6. ASSUME c.from = "native", Cardinality(unique) <= SearchLimit,
             NEW e \in Eligible(all), e.from = "native", Key(e) # Key(c)
      PROVE  \E copy \in Eligible(all) :
                       /\ Key(copy) = Key(e) /\ copy.score >= e.score
                       /\ \/ copy.from = "native" /\ Outdoes(c, copy)
                          \/ copy.from = "fiber" /\ copy.score > e.score
  <2>1. PICK u \in unique :
          Key(u) = Key(e) /\ (u.score > e.score \/ (u.score = e.score /\ (u = e \/ Earlier(u, e))))
    BY <1>2, UniqueCopy
  <2>2. u.from \in {"native", "fiber"} /\ u.score \in Nat /\ e.score \in Nat
    BY <1>2, MatchesFacts
  <2>3. u \in Eligible(all) /\ u \in answer.matches /\ u # c
    BY <1>1, <1>2, <1>6, <2>1
  <2>4. CASE u.from = "native"
    <3>1. u \in ofNative /\ c \in Outstanding(ofNative, Cardinality(ofNative))
      BY <1>3, <2>3, <2>4
    <3>2. ofNative \subseteq Matches(natives, projected, query)
      BY <1>1, <1>2
    <3> HIDE DEF ofNative
    <3>3. Outdoes(c, u)
      BY <2>3, <3>1, <3>2, OutstandingOutdoes
    <3> QED
      BY <2>1, <2>2, <2>3, <2>4, <3>3
  <2>5. CASE u.from = "fiber"
    <3>1. ~Earlier(u, e) /\ u # e
      BY <1>6, <2>5 DEF Earlier
    <3>2. u.score > e.score
      BY <2>1, <3>1
    <3> QED
      BY <2>1, <2>2, <2>3, <2>5, <3>2
  <2> QED
    BY <2>2, <2>4, <2>5
<1> QED
  BY <1>5, <1>6

----------------------------------------------------------------------------
(* Trees, and what is found in them.                                       *)

AnyTree == Trees \cup FiberTrees \cup {<<>>}

\* A tree is a list of nodes whose parents come first.
LEMMA TreeFacts ==
  ASSUME TargetAssumption, NEW t \in AnyTree
  PROVE  IsTree(t) /\ \A i \in DOMAIN t : t[i].parent \in 0..(i - 1)
<1>1. CASE t = <<>>
  BY <1>1 DEF IsTree
<1>2. CASE t \in Trees \cup FiberTrees
  <2>1. t \in Seq(Nodes) /\ \A i \in DOMAIN t : t[i].parent < i
    BY <1>2 DEF TargetAssumption
  <2>2. DOMAIN t = 1..Len(t) /\ Len(t) \in Nat /\ \A i \in 1..Len(t) : t[i] \in Nodes
    BY <2>1, LenProperties, ElementOfSeq
  <2>3. \A i \in 1..Len(t) : t[i].parent \in Nat
    BY <2>2 DEF Nodes
  <2> QED
    BY <2>1, <2>2, <2>3 DEF IsTree
<1> QED
  BY <1>1, <1>2 DEF AnyTree

\* Matching gives places of the tree.
LEMMA MatchingFacts ==
  ASSUME TargetAssumption, NEW t \in AnyTree, NEW s
  PROVE  Matching(t, s) \in Seq(DOMAIN t)
<1> DEFINE all == [i \in DOMAIN t |-> i]
           keep == {i \in DOMAIN t :
                       /\ s.ref # 0 => i = s.ref
                       /\ s.id # 0 => t[i].id = s.id
                       /\ s.role # 0 => t[i].role = s.role
                       /\ s.name # 0 => t[i].name # 0 /\ NameMatches(t[i].name, s.name)}
<1>1. Len(t) \in Nat /\ DOMAIN t = 1..Len(t)
  BY TreeFacts DEF IsTree
<1>2. all \in Seq(DOMAIN t)
  BY <1>1
<1>3. Matching(t, s) = Filter(all, keep)
  BY DEF Matching
<1> HIDE DEF all, keep
<1> QED
  BY <1>2, <1>3, FilterFacts

LEMMA ChosenFacts ==
  ASSUME TargetAssumption, NEW t \in AnyTree, NEW s
  PROVE  /\ Chosen(Matching(t, s), s) \in Seq(DOMAIN t)
         /\ s.index # -1 /\ s.index + 1 \in DOMAIN Matching(t, s) =>
               Chosen(Matching(t, s), s) = <<Matching(t, s)[s.index + 1]>>
<1> DEFINE m == Matching(t, s)
<1>1. m \in Seq(DOMAIN t)
  BY MatchingFacts
<1> HIDE DEF m
<1>2. DOMAIN m = 1..Len(m) /\ \A k \in 1..Len(m) : m[k] \in DOMAIN t
  BY <1>1, LenProperties, ElementOfSeq
<1>3. \A k \in DOMAIN m : <<m[k]>> \in Seq(DOMAIN t)
  BY <1>2
<1>4. Chosen(m, s) \in Seq(DOMAIN t)
  BY <1>1, <1>3, EmptySeq DEF Chosen
<1>5. s.index # -1 /\ s.index + 1 \in DOMAIN m => Chosen(m, s) = <<m[s.index + 1]>>
  BY DEF Chosen
<1> QED
  BY <1>4, <1>5 DEF m

\* Something that was found: a place in a tree.
IsFound(f) ==
    /\ f \in [from : {"none", "native", "fiber", "fresh"}, tree : AnyTree, node : Nat]
    /\ f.node \in 0..Len(f.tree)

LEMMA PlaceIsFound ==
  ASSUME TargetAssumption, NEW t \in AnyTree, NEW from \in {"none", "native", "fiber", "fresh"}, NEW i \in DOMAIN t
  PROVE  IsFound([from |-> from, tree |-> t, node |-> i])
<1>1. Len(t) \in Nat /\ DOMAIN t = 1..Len(t)
  BY TreeFacts DEF IsTree
<1> QED
  BY <1>1 DEF IsFound

LEMMA PlacesAreFound ==
  ASSUME TargetAssumption, NEW t \in AnyTree, NEW from \in {"none", "native", "fiber", "fresh"},
         NEW c \in Seq(DOMAIN t),
         NEW f, f = [k \in DOMAIN c |-> [from |-> from, tree |-> t, node |-> c[k]]]
  PROVE  Len(f) \in Nat /\ (Len(f) = 0 => f = <<>>) /\ (Len(f) = 1 => IsFound(f[1]))
<1>1. DOMAIN c = 1..Len(c) /\ Len(c) \in Nat /\ \A k \in 1..Len(c) : c[k] \in DOMAIN t
  BY LenProperties, ElementOfSeq
<1> DEFINE all == {[from |-> from, tree |-> t, node |-> i] : i \in DOMAIN t}
<1>2. f \in [1..Len(c) -> all]
  BY <1>1
<1>3. f \in Seq(all)
  <2> HIDE DEF all
  <2> QED
    BY <1>1, <1>2
<1>4. DOMAIN f = 1..Len(f) /\ Len(f) \in Nat /\ (Len(f) = 0 => f = <<>>)
  <2> HIDE DEF all
  <2> QED
    BY <1>3, LenProperties, EmptySeq
<1>5. ASSUME Len(f) = 1 PROVE IsFound(f[1])
  <2>1. 1 \in DOMAIN f /\ DOMAIN f = DOMAIN c
    BY <1>4, <1>5
  <2>2. f[1] = [from |-> from, tree |-> t, node |-> c[1]] /\ c[1] \in DOMAIN t
    BY <1>1, <2>1
  <2> QED
    BY <2>2, PlaceIsFound
<1> QED
  BY <1>4, <1>5

----------------------------------------------------------------------------
(* Depths.                                                                 *)

Deep(t, n, d) == d = [i \in 1..n |-> IF t[i].parent = 0 THEN 0 ELSE d[t[i].parent] + 1]

\* The recursion of Depth has a solution.
LEMMA DeepExists ==
  ASSUME NEW t, NEW n \in Nat, \A i \in 1..n : t[i].parent \in 0..(i - 1)
  PROVE  \E d : Deep(t, n, d)
<1> DEFINE T == {k \in 0..n : \E d : Deep(t, k, d)}
<1>1. 0 \in T
  <2> DEFINE D == [i \in 1..0 |-> 0]
  <2>2. D = [i \in 1..0 |-> IF t[i].parent = 0 THEN 0 ELSE D[t[i].parent] + 1]
    OBVIOUS
  <2>3. Deep(t, 0, D)
    BY <2>2, Zenon DEF Deep
  <2> HIDE DEF D
  <2> QED
    BY <2>3
<1>2. ASSUME NEW k \in 0..(n - 1), k \in T PROVE k + 1 \in T
  <2>1. PICK d : Deep(t, k, d)
    BY <1>2
  <2> DEFINE p == t[k + 1].parent
             D == [i \in 1..(k + 1) |-> IF i = k + 1 THEN IF p = 0 THEN 0 ELSE d[p] + 1 ELSE d[i]]
             H == [i \in 1..(k + 1) |-> IF t[i].parent = 0 THEN 0 ELSE D[t[i].parent] + 1]
  <2>2. \A i \in 1..k : d[i] = IF t[i].parent = 0 THEN 0 ELSE d[t[i].parent] + 1
    BY <2>1 DEF Deep
  <2>3. \A i \in 1..(k + 1) : t[i].parent \in 0..(i - 1)
    OBVIOUS
  <2>4. p # 0 => p \in 1..k
    BY <2>3
  <2>6. ASSUME NEW i \in 1..(k + 1) PROVE D[i] = H[i]
    <3>1. t[i].parent # 0 => t[i].parent \in 1..k /\ D[t[i].parent] = d[t[i].parent]
      BY <2>3
    <3>2. CASE i = k + 1
      BY <3>1, <3>2
    <3>3. CASE i \in 1..k
      BY <2>2, <3>1, <3>3
    <3> QED
      BY <3>2, <3>3
  <2>7. D = H
    BY <2>6
  <2>8. Deep(t, k + 1, D)
    BY <2>7 DEF Deep
  <2> HIDE DEF D
  <2> QED
    BY <2>8
<1>3. \A k \in 0..n : k \in T
  <2> HIDE DEF T
  <2> QED
    BY <1>1, <1>2, Upwards
<1> QED
  BY <1>3

LEMMA DepthFacts ==
  ASSUME TargetAssumption, NEW t \in AnyTree, NEW i \in DOMAIN t PROVE Depth(t)[i] \in Nat
<1>1. Len(t) \in Nat /\ DOMAIN t = 1..Len(t) /\ \A j \in 1..Len(t) : t[j].parent \in 0..(j - 1)
  BY TreeFacts DEF IsTree
<1> DEFINE d == CHOOSE d : Deep(t, Len(t), d)
<1>2. \E e : Deep(t, Len(t), e)
  BY <1>1, DeepExists
<1>3. Depth(t) = d
  BY <1>1 DEF Depth, Deep
<1>4. Deep(t, Len(t), d)
  BY <1>2
<1> HIDE DEF d
<1> DEFINE T == {k \in 0..Len(t) : k # 0 => d[k] \in Nat}
<1>5. ASSUME NEW k \in 0..Len(t), \A j \in 0..(k - 1) : j \in T PROVE k \in T
  <2>1. CASE k = 0
    BY <2>1
  <2>2. CASE k # 0
    <3>1. k \in 1..Len(t) /\ t[k].parent \in 0..(k - 1)
      BY <1>1, <2>2
    <3>2. d[k] = IF t[k].parent = 0 THEN 0 ELSE d[t[k].parent] + 1
      BY <1>4, <3>1 DEF Deep
    <3>3. t[k].parent # 0 => d[t[k].parent] \in Nat
      BY <1>5, <3>1
    <3> QED
      BY <3>2, <3>3
  <2> QED
    BY <2>1, <2>2
<1>6. \A k \in 0..Len(t) : k \in T
  <2> HIDE DEF T
  <2> QED
    BY <1>1, <1>5, FromBelow
<1> QED
  BY <1>1, <1>3, <1>6
----------------------------------------------------------------------------
(* Evidence.                                                               *)

\* If there is evidence of one node only, that node is the evidence.
LEMMA SoleEvidence ==
  ASSUME TargetAssumption, NEW t \in AnyTree, NEW f,
         Evidence(t, f) # {}, ~ (Cardinality(Evidence(t, f)) > 1)
  PROVE  Sole(Evidence(t, f)) \in DOMAIN t /\ Evidence(t, f) = {Sole(Evidence(t, f))}
<1> DEFINE m == Evidence(t, f)
<1>1. Len(t) \in Nat /\ DOMAIN t = 1..Len(t)
  BY TreeFacts DEF IsTree
<1>2. m \in SUBSET (1..Len(t))
  BY <1>1 DEF Evidence, Corroborated
<1> HIDE DEF m
<1>3. IsFiniteSet(1..Len(t))
  BY <1>1, FS_Interval
<1>4. IsFiniteSet(m)
  BY <1>2, <1>3, FS_Subset
<1>5. Cardinality(m) = 1
  <2>1. m # {} /\ ~ (Cardinality(m) > 1)
    BY DEF m
  <2>2. Cardinality(m) \in Nat /\ Cardinality(m) # 0
    BY <1>4, <2>1, FS_CardinalityType, FS_EmptySet
  <2> QED
    BY <2>1, <2>2
<1>6. PICK n : m = {n}
  BY <1>4, <1>5, FS_Singleton
<1>7. Sole(m) = n
  BY <1>6 DEF Sole
<1>8. n \in 1..Len(t)
  BY <1>2, <1>6
<1>9. Sole(m) \in DOMAIN t /\ m = {Sole(m)}
  BY <1>1, <1>6, <1>7, <1>8
<1> QED
  BY <1>9 DEF m

\* Where the evidence is of one node, that node is its only rival.
LEMMA SoleRival ==
  ASSUME NEW n, n = result.node, Evidence(fresh, found) = {n}
  PROVE  {i \in DOMAIN fresh : Rival(i)} = {n}
<1> DEFINE old == found.tree[found.node]
<1>1. CASE found.from # "fiber"
  BY <1>1 DEF Evidence, Rival
<1>2. CASE found.from = "fiber"
  <2> DEFINE byId == {i \in DOMAIN fresh : fresh[i].acts /\ old.id # 0 /\ fresh[i].id = old.id}
             byName == {i \in DOMAIN fresh :
                          /\ old.name # 0 /\ fresh[i].acts /\ fresh[i].name # 0
                          /\ NameMatches(fresh[i].name, old.name)
                          /\ ~Contradicts(fresh[i].role, old.role)}
  <2>1. {n} = IF byId # {} THEN byId ELSE byName
    BY <1>2 DEF Evidence, Corroborated
  <2>2. ASSUME NEW i \in DOMAIN fresh
        PROVE  Rival(i) <=>
                 /\ fresh[i].acts
                 /\ \/ old.id # 0 /\ fresh[i].id = old.id
                    \/ /\ old.id = 0 \/ fresh[n].id # old.id
                       /\ fresh[i].name # 0 /\ NameMatches(fresh[i].name, old.name)
                       /\ ~Contradicts(fresh[i].role, old.role)
    BY <1>2 DEF Rival
  <2>3. CASE byId # {}
    <3>1. byId = {n}
      BY <2>1, <2>3
    <3>2. old.id # 0 /\ fresh[n].id = old.id
      BY <3>1
    <3> QED
      BY <2>2, <3>1, <3>2
  <2>4. CASE byId = {}
    <3>1. byName = {n}
      BY <2>1, <2>4
    <3>2. n \in DOMAIN fresh /\ old.name # 0 /\ fresh[n].acts
      BY <3>1
    <3>3. old.id = 0 \/ fresh[n].id # old.id
      BY <2>4, <3>2
    <3>4. \A i \in DOMAIN fresh : ~ (fresh[i].acts /\ old.id # 0 /\ fresh[i].id = old.id)
      BY <2>4
    <3> QED
      BY <2>2, <3>1, <3>2, <3>3, <3>4
  <2> QED
    BY <2>3, <2>4
<1> QED
  BY <1>1, <1>2

\* The invariant is as strong as it has to be.
LEMMA TargetImplies == ASSUME TargetAssumption, TargetInv PROVE TapReachesItsTarget
<1>1. PointIsOfOneTarget
  <2> SUFFICES ASSUME result.code = "ready" \/ Recovery = "tap_known_coordinate"
               PROVE  /\ {i \in DOMAIN fresh : Rival(i)} = {result.node}
                      /\ fresh[result.node].usable /\ result.point \in OnScreen
                      /\ result.code = "ready" /\ platform = "android" =>
                           \A i \in Covering(fresh, result.point) :
                              fresh[i].acts /\ i # result.node => Depth(fresh)[i] < Depth(fresh)[result.node]
    BY DEF PointIsOfOneTarget
  <2>1. result.code \in {"ready", "hit_target_mismatch"}
    BY DEF Recovery, Fallback
  <2>2. /\ Evidence(fresh, found) = {result.node}
        /\ fresh[result.node].usable /\ result.point \in OnScreen /\ fresh \in AnyTree
    BY <2>1 DEF TargetInv, SettledInv, AnyTree
  <2>3. {i \in DOMAIN fresh : Rival(i)} = {result.node}
    BY <2>2, SoleRival
  <2>4. ASSUME result.code = "ready", platform = "android",
               NEW i \in Covering(fresh, result.point), fresh[i].acts, i # result.node
        PROVE  Depth(fresh)[i] < Depth(fresh)[result.node]
    <3> DEFINE c == {j \in Covering(fresh, result.point) : fresh[j].acts}
    <3>1. {j \in c : \A k \in c : Depth(fresh)[k] <= Depth(fresh)[j]} = {result.node}
      BY <2>4 DEF TargetInv, HitInv, DeepestActionable
    <3>2. i \in c /\ c \subseteq DOMAIN fresh
      BY <2>4 DEF Covering
    <3>3. \A j \in c : Depth(fresh)[j] \in Nat
      BY <2>2, <3>2, DepthFacts
    <3> HIDE DEF c
    <3>4. PICK k \in c : ~ (Depth(fresh)[k] <= Depth(fresh)[i])
      BY <2>4, <3>1, <3>2
    <3>5. result.node \in c /\ Depth(fresh)[k] <= Depth(fresh)[result.node]
      BY <3>1
    <3> QED
      BY <3>2, <3>3, <3>4, <3>5
  <2> QED
    BY <2>2, <2>3, <2>4
<1>2. RowIsNotSwapped
  <2> SUFFICES ASSUME result.code = "ready"
               PROVE  LET old == found.tree[found.node]
                          new == fresh[result.node]
                      IN  /\ old.id # 0 /\ new.id # 0 /\ found.from # "fiber" => new.id = old.id
                          /\ old.id # new.id \/ old.id = 0 => NameMatches(new.name, old.name)
                          /\ selector.ref = 0 /\ selector.index # -1 /\ Matching(native, selector) # <<>>
                             /\ selector.index + 1 \in DOMAIN Matching(native, selector)
                             => old = native[Matching(native, selector)[selector.index + 1]]
    BY DEF RowIsNotSwapped
  <2> DEFINE old == found.tree[found.node]
             new == fresh[result.node]
  <2>1. Evidence(fresh, found) = {result.node} /\ (old.id # 0 \/ old.name # 0)
    BY DEF TargetInv, SettledInv, Nameless
  <2>2. found.from # "fiber" => Fits(new, old)
    BY <2>1 DEF Evidence
  <2>3. found.from = "fiber" => \/ old.id # 0 /\ new.id = old.id
                                \/ NameMatches(new.name, old.name)
    BY <2>1 DEF Evidence, Corroborated
  <2>4. old.id # 0 /\ new.id # 0 /\ found.from # "fiber" => new.id = old.id
    BY <2>2 DEF Fits
  <2>5. old.id # new.id \/ old.id = 0 => NameMatches(new.name, old.name)
    BY <2>1, <2>2, <2>3 DEF Fits
  <2>6. selector.ref = 0 /\ selector.index # -1 /\ selector.index + 1 \in DOMAIN Matching(native, selector)
          => old = native[Matching(native, selector)[selector.index + 1]]
    BY DEF TargetInv, IndexInv, ByIndex
  <2> QED
    BY <2>4, <2>5, <2>6
<1>3. QueryStandsOut
  <2> DEFINE all == Matches(native, fiber, selector.query)
  <2> SUFFICES ASSUME selector.query # <<>>, phase = "discover" \/ result.code = "ambiguous_target"
               PROVE  Stands /\ NothingLeft
    BY DEF QueryStandsOut, Stands, NothingLeft
  <2> QED
    BY DEF TargetInv, QueryInv
<1> QED
  BY <1>1, <1>2, <1>3 DEF TapReachesItsTarget

LEMMA TargetKinds == ASSUME TargetInv PROVE TargetTypeOK
  BY DEF TargetInv, TargetTypeOK, FoundKind, ResultKind, Codes
----------------------------------------------------------------------------
(* The steps.                                                              *)

LEMMA TargetWorld ==
  ASSUME TargetAssumption, SelectorKind, TreeKinds
  PROVE  /\ native \in AnyTree /\ fiber \in AnyTree /\ fresh \in AnyTree
         /\ IsTree(native) /\ IsTree(fiber) /\ Len(selector.query) \in Nat /\ SearchLimit \in Nat \ {0}
<1>1. native \in AnyTree /\ fiber \in AnyTree /\ fresh \in AnyTree
  BY DEF TreeKinds, AnyTree
<1>2. selector.query \in {s.query : s \in Selectors}
  BY DEF SelectorKind
<1>3. PICK s \in Selectors : selector.query = s.query
  BY <1>2
<1> QED
  BY <1>1, <1>3, TreeFacts DEF TargetAssumption

\* What was found by a query stands out as long as nothing is captured anew.
LEMMA StandsKept ==
  ASSUME UNCHANGED <<selector, native, fiber>> PROVE Stands <=> Stands'
  BY DEF Stands

LEMMA TargetStart == ASSUME TargetAssumption, TargetInit PROVE TargetInv
<1>1. /\ selector \in Selectors /\ platform \in Platforms
      /\ native \in Trees \cup {<<>>} /\ fiber \in FiberTrees \cup {<<>>}
      /\ fresh = <<>> /\ found = Nowhere /\ result = Pending
      /\ phase = IF selector.query = <<>> THEN "discover" ELSE "search"
  BY DEF TargetInit
<1>2. SelectorKind
  BY <1>1 DEF TargetAssumption, SelectorKind
<1>3. TreeKinds
  BY <1>1 DEF TargetAssumption, TreeKinds
<1>4. FoundKind
  BY <1>1 DEF FoundKind, Nowhere
<1>5. ResultKind /\ result.code = "pending"
  BY <1>1 DEF ResultKind, Pending, Codes
<1>6. IndexInv /\ SettledInv /\ HitInv
  BY <1>1, <1>5 DEF IndexInv, SettledInv, HitInv
<1>7. QueryInv
  <2>1. selector.query # <<>> => phase = "search" /\ selector.ref = 0
    BY <1>1 DEF TargetAssumption
  <2> QED
    BY <2>1 DEF QueryInv
<1> QED
  BY <1>1, <1>2, <1>3, <1>4, <1>5, <1>6, <1>7 DEF TargetInv

\* One lemma for each step: it keeps the invariant.
LEMMA RejectFacts ==
  ASSUME NEW code, Reject(code)
  PROVE  /\ phase' = "done" /\ DOMAIN result' = {"code", "node", "point", "hit", "listed", "excluded"}
         /\ result'.code = code /\ result'.node = 0
  BY DEF Reject, Pending

LEMMA SnapshotsKeeps == ASSUME TargetAssumption, TargetInv, Snapshots PROVE TargetInv'
<1>1. /\ phase = "search" /\ result.code = "pending"
      /\ UNCHANGED <<selector, platform, fresh, found>>
      /\ native' \in Trees \cup {<<>>} /\ fiber' \in FiberTrees \cup {<<>>}
      /\ \/ phase' = "rank" /\ result' = result
         \/ Reject("failed")
  BY DEF Snapshots, TargetInv, TreeKinds
<1>2. SelectorKind' /\ TreeKinds' /\ FoundKind'
  BY <1>1 DEF TargetInv, SelectorKind, TreeKinds, FoundKind
<1>3. /\ phase' \in {"rank", "done"} /\ ResultKind' /\ result'.code \in {"pending", "failed"}
      /\ phase' # "done" => result'.code = "pending"
  <2>1. CASE phase' = "rank" /\ result' = result
    BY <1>1, <2>1 DEF TargetInv, ResultKind
  <2>2. CASE Reject("failed")
    <3>1. Len(fresh) \in Nat
      BY TargetWorld, TreeFacts DEF TargetInv, IsTree
    <3> QED
      BY <1>1, <2>2, <3>1, RejectFacts DEF ResultKind, Codes
  <2> QED
    BY <1>1, <2>1, <2>2
<1>4. IndexInv' /\ SettledInv' /\ HitInv'
  BY <1>3 DEF IndexInv, SettledInv, HitInv
<1>5. QueryInv'
  <2> SUFFICES ASSUME selector'.query # <<>> PROVE selector'.ref = 0 /\ (phase' = "done" => Stands' /\ NothingLeft')
    BY <1>3 DEF QueryInv
  <2>1. selector'.ref = 0
    BY <1>1 DEF TargetInv, QueryInv
  <2>2. NothingLeft'
    BY <1>3 DEF NothingLeft
  <2>3. Stands'
    <3> DEFINE all == Matches(native', fiber', selector'.query)
    <3>1. IsTree(native') /\ IsTree(fiber') /\ Len(selector'.query) \in Nat
      <4>1. Len(selector.query) \in Nat /\ selector' = selector
        BY <1>1, TargetWorld DEF TargetInv
      <4>2. native' \in AnyTree /\ fiber' \in AnyTree
        BY <1>1 DEF AnyTree
      <4> QED
        BY <4>1, <4>2, TreeFacts
    <3>2. \A c \in all : c.node # 0
      <4>1. \A c \in all : c.node \in Nat \ {0}
        BY <3>1, MatchesFacts
      <4> QED
        BY <4>1
    <3> QED
      BY <2>1, <3>2 DEF Stands
  <2> QED
    BY <2>1, <2>2, <2>3
<1> QED
  BY <1>2, <1>3, <1>4, <1>5 DEF TargetInv

LEMMA QueryKeeps == ASSUME TargetAssumption, TargetInv, Query PROVE TargetInv'
<1> DEFINE answer == SearchElements(native, fiber, selector.query)
           all == Matches(native, fiber, selector.query)
           winner == Meant(answer)
<1>1. /\ phase = "rank" /\ result.code = "pending"
      /\ UNCHANGED <<platform, native, fiber, fresh, found>>
      /\ \/ /\ winner = {} /\ phase' = "done" /\ selector' = selector
            /\ result' = [Pending EXCEPT !.code = "ambiguous_target",
                               !.listed = Cardinality(answer.matches), !.excluded = answer.excluded]
         \/ \E c \in winner : /\ selector' = [selector EXCEPT !.ref = c.node, !.rn = c.from = "fiber"]
                              /\ phase' = "discover" /\ result' = result
  BY DEF Query, TargetInv
<1>2. /\ native \in AnyTree /\ fiber \in AnyTree /\ fresh \in AnyTree
      /\ IsTree(native) /\ IsTree(fiber) /\ Len(selector.query) \in Nat /\ SearchLimit \in Nat \ {0}
      /\ Len(fresh) \in Nat
  BY TargetWorld, TreeFacts DEF TargetInv, IsTree
<1>3. /\ answer.matches \subseteq Eligible(all) /\ IsFiniteSet(answer.matches)
      /\ Eligible(all) # {} => answer.matches # {}
      /\ answer.excluded \in Nat /\ (answer.excluded = 0 => all = Eligible(all))
      /\ Eligible(all) \subseteq all
  BY <1>2, SearchFacts DEF Eligible, Unique
<1>4. TreeKinds' /\ FoundKind'
  BY <1>1 DEF TargetInv, TreeKinds, FoundKind
<1>5. \A c \in all : c.from \in {"native", "fiber"} /\ c.node \in Nat \ {0}
  BY <1>2, MatchesFacts
<1> HIDE DEF winner, answer, all
<1>6. CASE winner = {} /\ phase' = "done" /\ selector' = selector
           /\ result' = [Pending EXCEPT !.code = "ambiguous_target",
                               !.listed = Cardinality(answer.matches), !.excluded = answer.excluded]
  <2>1. /\ DOMAIN result' = {"code", "node", "point", "hit", "listed", "excluded"}
        /\ result'.code = "ambiguous_target" /\ result'.node = 0
        /\ result'.listed = Cardinality(answer.matches) /\ result'.excluded = answer.excluded
    BY <1>6 DEF Pending
  <2>2. ResultKind' /\ SelectorKind'
    BY <1>1, <1>2, <1>6, <2>1 DEF ResultKind, Codes, TargetInv, SelectorKind
  <2>3. IndexInv' /\ SettledInv' /\ HitInv'
    BY <1>6, <2>1 DEF IndexInv, SettledInv, HitInv
  <2>4. NothingLeft'
    <3> SUFFICES ASSUME result'.listed + result'.excluded = 0 PROVE Matches(native', fiber', selector'.query) = {}
      BY DEF NothingLeft
    <3>1. Cardinality(answer.matches) \in Nat
      BY <1>3, FS_CardinalityType
    <3>2. Cardinality(answer.matches) = 0 /\ answer.excluded = 0
      BY <1>3, <2>1, <3>1
    <3>3. answer.matches = {}
      BY <1>3, <3>2, FS_EmptySet
    <3>4. all = {}
      BY <1>3, <3>2, <3>3
    <3> QED
      BY <1>1, <1>6, <3>4 DEF all
  <2>5. ASSUME selector'.query # <<>> PROVE Stands'
    <3>1. selector'.ref = 0
      BY <1>1, <1>6, <2>5 DEF TargetInv, QueryInv
    <3>2. \A c \in Matches(native', fiber', selector'.query) : c.node # 0
      BY <1>1, <1>5, <1>6 DEF all
    <3> QED
      BY <3>1, <3>2 DEF Stands
  <2>6. QueryInv'
    BY <1>6, <2>4, <2>5 DEF QueryInv
  <2> QED
    BY <1>4, <1>6, <2>2, <2>3, <2>6 DEF TargetInv
<1>7. ASSUME NEW c \in winner, selector' = [selector EXCEPT !.ref = c.node, !.rn = c.from = "fiber"],
             phase' = "discover", result' = result
      PROVE  TargetInv'
  <2>1. /\ c \in Eligible(all)
        /\ c.from = "native" /\ Cardinality(Unique(Eligible(all))) <= SearchLimit =>
               \A e \in Eligible(all) : e.from = "native" /\ Key(e) # Key(c) =>
                   \E copy \in Eligible(all) :
                       /\ Key(copy) = Key(e) /\ copy.score >= e.score
                       /\ \/ copy.from = "native" /\ Outdoes(c, copy)
                          \/ copy.from = "fiber" /\ copy.score > e.score
    BY <1>2, MeantStands DEF winner, answer, all
  <2>2. c \in all /\ c.from \in {"native", "fiber"} /\ c.node \in Nat \ {0}
    BY <1>3, <1>5, <2>1
  <2>3. /\ SelectorKind' /\ selector'.query = selector.query /\ selector'.ref = c.node
        /\ selector'.rn <=> c.from = "fiber"
    BY <1>7, <2>2 DEF TargetInv, SelectorKind
  <2>4. ResultKind'
    BY <1>1, <1>7 DEF TargetInv, ResultKind
  <2>5. IndexInv' /\ SettledInv' /\ HitInv'
    BY <1>1, <1>7 DEF IndexInv, SettledInv, HitInv
  <2>6. NothingLeft'
    BY <1>1, <1>7 DEF NothingLeft
  <2>7. Matches(native', fiber', selector'.query) = all
    BY <1>1, <2>3 DEF all
  <2>8. Stands'
    <3> SUFFICES ASSUME NEW x \in all, x.from = "native", ~selector'.rn, x.node = selector'.ref
                 PROVE  /\ x \in Eligible(all)
                        /\ Cardinality(Unique(Eligible(all))) <= SearchLimit =>
                            \A e \in Eligible(all) : e.from = "native" /\ Key(e) # Key(x) =>
                               \E copy \in Eligible(all) :
                                  /\ Key(copy) = Key(e) /\ copy.score >= e.score
                                  /\ \/ copy.from = "native" /\ Outdoes(x, copy)
                                     \/ copy.from = "fiber" /\ copy.score > e.score
      BY <2>7 DEF Stands
    <3>1. c.from = "native" /\ x.node = c.node
      BY <2>2, <2>3
    <3>2. Place(native, x) = Place(native, c)
      BY <3>1 DEF Place
    <3>3. x = c
      BY <1>2, <2>2, <3>2, MatchesFacts DEF all
    <3> QED
      BY <2>1, <3>1, <3>3
  <2>9. QueryInv'
    BY <1>7, <2>2, <2>3, <2>6, <2>8 DEF QueryInv
  <2> QED
    BY <1>1, <1>4, <1>7, <2>3, <2>4, <2>5, <2>9 DEF TargetInv
<1> QED
  BY <1>1, <1>6, <1>7
LEMMA DiscoverKeeps == ASSUME TargetAssumption, TargetInv, Discover PROVE TargetInv'
<1> DEFINE source == IF selector.rn THEN "fiber" ELSE "native"
           t == IF selector.rn THEN fiber ELSE native
           m == Matching(t, selector)
           c == Chosen(m, selector)
           m0 == Matching(native, selector)
           byIndex == Chosen(m0, selector)
<1>1. phase = "discover" /\ result.code = "pending" /\ UNCHANGED <<selector, platform, native, fiber, fresh>>
  BY DEF Discover, TargetInv
<1>2. /\ native \in AnyTree /\ fiber \in AnyTree /\ t \in AnyTree
      /\ Len(fresh) \in Nat
  BY TargetWorld, TreeFacts DEF TargetInv, IsTree
<1>3. c \in Seq(DOMAIN t) /\ byIndex \in Seq(DOMAIN native)
      /\ (ByIndex(m0) => byIndex = <<m0[selector.index + 1]>>)
  BY <1>2, ChosenFacts DEF ByIndex
<1>4. \/ selector.ref # 0 /\ found' = found /\ \E code \in {"stale_ref", "ambiguous_target"} : Reject(code)
      \/ /\ selector.ref # 0 /\ Len(c) = 1 /\ found' = [from |-> source, tree |-> t, node |-> c[1]]
         /\ phase' = "settle" /\ result' = result
      \/ /\ selector.ref = 0
         /\ found' = IF selector.index # -1 /\ byIndex # <<>>
                     THEN [from |-> "native", tree |-> native, node |-> byIndex[1]] ELSE Nowhere
         /\ phase' = "settle" /\ result' = result
  BY DEF Discover
<1> HIDE DEF m, m0, c, byIndex, t, source
<1>5. SelectorKind' /\ TreeKinds'
  BY <1>1 DEF TargetInv, SelectorKind, TreeKinds
<1>6. /\ phase' \in {"settle", "done"} /\ ResultKind'
      /\ phase' = "settle" => result'.code = "pending"
      /\ result'.code \in {"pending", "stale_ref", "ambiguous_target"}
      /\ result'.code = "ambiguous_target" => selector.ref # 0
  <2>1. ASSUME selector.ref # 0, NEW code \in {"stale_ref", "ambiguous_target"}, Reject(code)
        PROVE  /\ phase' = "done" /\ ResultKind' /\ result'.code = code
    BY <1>1, <1>2, <2>1, RejectFacts DEF ResultKind, Codes
  <2>2. ASSUME result' = result PROVE ResultKind'
    BY <1>1, <2>2 DEF ResultKind, TargetInv
  <2> QED
    BY <1>1, <1>4, <2>1, <2>2
<1>7. IsFound(found')
  <2>1. CASE found' = found
    BY <2>1 DEF TargetInv, FoundKind, IsFound, AnyTree
  <2>2. CASE Len(c) = 1 /\ found' = [from |-> source, tree |-> t, node |-> c[1]]
    <3>1. c[1] \in DOMAIN t
      <4>1. 1 \in 1..Len(c)
        BY <2>2
      <4> QED
        BY <1>3, <4>1, ElementOfSeq
    <3>2. source \in {"native", "fiber"}
      BY DEF source
    <3> QED
      BY <1>2, <2>2, <3>1, <3>2, PlaceIsFound
  <2>3. CASE byIndex # <<>> /\ found' = [from |-> "native", tree |-> native, node |-> byIndex[1]]
    <3>1. Len(byIndex) \in Nat /\ Len(byIndex) # 0
      BY <1>3, <2>3, LenProperties, EmptySeq
    <3>2. byIndex[1] \in DOMAIN native
      BY <1>3, <3>1, ElementOfSeq
    <3> QED
      BY <1>2, <2>3, <3>2, PlaceIsFound
  <2>4. CASE found' = Nowhere
    BY <2>4 DEF Nowhere, IsFound, AnyTree
  <2> QED
    BY <1>4, <2>1, <2>2, <2>3, <2>4
<1>8. FoundKind'
  BY <1>7 DEF FoundKind, IsFound, AnyTree
<1>9. IndexInv'
  <2> SUFFICES ASSUME phase' = "settle", ByIndex(m0)
               PROVE  found' = [from |-> "native", tree |-> native, node |-> m0[selector.index + 1]]
    BY <1>1, <1>6 DEF IndexInv, ByIndex, m0
  <2>1. byIndex = <<m0[selector.index + 1]>> /\ selector.ref = 0 /\ selector.index # -1
    BY <1>3 DEF ByIndex
  <2> QED
    BY <1>4, <2>1, RejectFacts
<1>10. SettledInv' /\ HitInv'
  BY <1>6 DEF SettledInv, HitInv
<1>11. QueryInv'
  <2> SUFFICES ASSUME selector.query # <<>> PROVE selector.ref # 0 /\ Stands' /\ NothingLeft'
    BY <1>1, <1>6 DEF QueryInv
  <2>1. selector.ref # 0 /\ Stands
    BY <1>1 DEF TargetInv, QueryInv
  <2>2. Stands'
    BY <1>1, <2>1, StandsKept
  <2>3. NothingLeft'
    BY <1>1, <2>1 DEF NothingLeft
  <2> QED
    BY <2>1, <2>2, <2>3
<1> QED
  BY <1>5, <1>6, <1>8, <1>9, <1>10, <1>11 DEF TargetInv

\* What the selector finds is in one of the trees; what was discovered before stays.
LEMMA SoughtFacts ==
  ASSUME TargetAssumption, TargetInv, NEW t \in Trees
  PROVE  /\ Len(Sought(t)) \in Nat /\ (Len(Sought(t)) = 0 => Sought(t) = <<>>)
         /\ Len(Sought(t)) = 1 => IsFound(Sought(t)[1]) /\ (found # Nowhere => Sought(t)[1] = found)
<1> DEFINE here == Chosen(Matching(t, selector), selector)
           there == Chosen(Matching(fiber, selector), selector)
           ofHere == [k \in DOMAIN here |-> [from |-> "fresh", tree |-> t, node |-> here[k]]]
           ofThere == [k \in DOMAIN there |-> [from |-> "fiber", tree |-> fiber, node |-> there[k]]]
<1>1. Sought(t) = IF found # Nowhere THEN <<found>> ELSE IF here # <<>> THEN ofHere ELSE ofThere
  BY DEF Sought
<1>2. t \in AnyTree /\ fiber \in AnyTree
  BY TargetWorld DEF TargetInv, AnyTree
<1>3. here \in Seq(DOMAIN t) /\ there \in Seq(DOMAIN fiber)
  BY <1>2, ChosenFacts
<1> HIDE DEF here, there
<1>4. Len(ofHere) \in Nat /\ (Len(ofHere) = 0 => ofHere = <<>>) /\ (Len(ofHere) = 1 => IsFound(ofHere[1]))
  BY <1>2, <1>3, PlacesAreFound
<1>5. Len(ofThere) \in Nat /\ (Len(ofThere) = 0 => ofThere = <<>>) /\ (Len(ofThere) = 1 => IsFound(ofThere[1]))
  BY <1>2, <1>3, PlacesAreFound
<1>6. IsFound(found)
  BY DEF TargetInv, FoundKind, IsFound, AnyTree
<1> HIDE DEF ofHere, ofThere
<1> QED
  BY <1>1, <1>4, <1>5, <1>6

\* A settled tree gives a node only on the evidence of one, usable and on the screen.
LEMMA SettleKeeps == ASSUME TargetAssumption, TargetInv, SettleTree PROVE TargetInv'
<1>1. phase = "settle" /\ result.code = "pending" /\ UNCHANGED <<selector, platform, native, fiber>>
  BY DEF SettleTree, TargetInv
<1>2. SelectorKind'
  BY <1>1 DEF TargetInv, SelectorKind
<1>3. selector.query # <<>> => selector.ref # 0 /\ Stands
  BY <1>1 DEF TargetInv, QueryInv
<1>4. ASSUME phase' \in {"hit", "done"} PROVE QueryInv'
  <2> SUFFICES ASSUME selector.query # <<>> PROVE selector.ref # 0 /\ Stands' /\ NothingLeft'
    BY <1>1, <1>4 DEF QueryInv
  <2> QED
    BY <1>1, <1>3, StandsKept DEF NothingLeft
<1>5. Len(fresh) \in Nat
  BY TargetWorld, TreeFacts DEF TargetInv, IsTree
<1>6. CASE Reject("unstable_snapshot") /\ UNCHANGED <<found, fresh>>
  <2>1. ResultKind' /\ phase' = "done" /\ result'.code = "unstable_snapshot"
    BY <1>5, <1>6, RejectFacts DEF ResultKind, Codes
  <2>2. TreeKinds' /\ FoundKind'
    BY <1>1, <1>6 DEF TargetInv, TreeKinds, FoundKind
  <2>3. IndexInv' /\ SettledInv' /\ HitInv'
    BY <2>1 DEF IndexInv, SettledInv, HitInv
  <2> QED
    BY <1>2, <1>4, <2>1, <2>2, <2>3 DEF TargetInv
<1>7. ASSUME NEW t \in Trees,
             LET f == Sought(t)
                 m == Evidence(t, f[1])
                 n == Sole(m)
                 gives(code) == /\ phase' = IF code = "pending" THEN "hit" ELSE "done"
                                /\ result' = [Pending EXCEPT !.code = code, !.node = n, !.point = Middle(t[n])]
             IN  /\ fresh' = t
                 /\ found' = IF Len(f) = 1 THEN f[1] ELSE found
                 /\ CASE f = <<>> -> Reject("target_not_found")
                      [] Len(f) > 1 -> Reject("ambiguous_target")
                      [] Len(f) = 1 /\ Nameless(f[1]) -> Reject("native_target_unconfirmed")
                      [] Len(f) = 1 /\ ~Nameless(f[1]) /\ m = {} -> Reject("native_target_unconfirmed")
                      [] Len(f) = 1 /\ ~Nameless(f[1]) /\ Cardinality(m) > 1 -> Reject("ambiguous_target")
                      [] OTHER ->
                           IF ~t[n].usable THEN gives("target_disabled")
                           ELSE IF t[n].hi < t[n].lo THEN gives("native_target_unconfirmed")
                           ELSE IF Middle(t[n]) \notin OnScreen THEN gives("target_offscreen")
                           ELSE gives("pending")
      PROVE  TargetInv'
  <2> DEFINE f == Sought(t)
             m == Evidence(t, f[1])
             n == Sole(m)
             gives(code) == /\ phase' = IF code = "pending" THEN "hit" ELSE "done"
                            /\ result' = [Pending EXCEPT !.code = code, !.node = n, !.point = Middle(t[n])]
  <2>1. /\ fresh' = t /\ t \in AnyTree /\ Len(t) \in Nat /\ DOMAIN t = 1..Len(t)
        /\ found' = IF Len(f) = 1 THEN f[1] ELSE found
    BY <1>7, TreeFacts DEF AnyTree, IsTree
  <2>2. /\ Len(f) = 1 => IsFound(f[1]) /\ (found # Nowhere => f[1] = found)
        /\ Len(f) \in Nat /\ (Len(f) = 0 => f = <<>>)
    BY SoughtFacts
  <2>3. FoundKind' /\ TreeKinds'
    BY <1>1, <2>1, <2>2 DEF TargetInv, FoundKind, IsFound, AnyTree, TreeKinds
  <2>4. ASSUME NEW code \in Codes \ {"pending", "ready", "hit_target_mismatch"}, Reject(code) PROVE TargetInv'
    <3>1. ResultKind' /\ phase' = "done" /\ result'.code = code
      BY <2>1, <2>4, RejectFacts DEF ResultKind, Codes
    <3>2. IndexInv' /\ SettledInv' /\ HitInv'
      BY <2>4, <3>1 DEF IndexInv, SettledInv, HitInv
    <3> QED
      BY <1>2, <1>4, <2>3, <3>1, <3>2 DEF TargetInv, Codes
  <2>5. ASSUME Len(f) = 1, ~Nameless(f[1]), m # {}, ~ (Cardinality(m) > 1),
               NEW code \in {"target_disabled", "native_target_unconfirmed", "target_offscreen", "pending"},
               gives(code), code = "pending" => t[n].usable /\ Middle(t[n]) \in OnScreen
        PROVE  TargetInv'
    <3>1. n \in DOMAIN t /\ m = {n}
      BY <2>1, <2>5, SoleEvidence
    <3>2. /\ DOMAIN result' = {"code", "node", "point", "hit", "listed", "excluded"}
          /\ result'.code = code /\ result'.node = n /\ result'.point = Middle(t[n])
          /\ phase' = IF code = "pending" THEN "hit" ELSE "done"
      <4> HIDE DEF n
      <4> QED
        BY <2>5 DEF Pending
    <3> HIDE DEF n, m, f, gives
    <3>3. ResultKind'
      BY <2>1, <2>5, <3>1, <3>2 DEF ResultKind, Codes
    <3>4. SettledInv'
      <4>1. found' = f[1] /\ Evidence(t, f[1]) = {n}
        BY <2>1, <2>5, <3>1 DEF m
      <4>2. Nameless(f[1]) <=> Nameless(found')
        BY <4>1
      <4> QED
        BY <2>1, <2>5, <3>2, <4>1, <4>2 DEF SettledInv
    <3>5. IndexInv'
      <4> SUFFICES ASSUME ByIndex(Matching(native, selector))
                   PROVE  found' = [from |-> "native", tree |-> native,
                                    node |-> Matching(native, selector)[selector.index + 1]]
        BY <1>1 DEF IndexInv, ByIndex
      <4>1. found = [from |-> "native", tree |-> native,
                     node |-> Matching(native, selector)[selector.index + 1]]
        BY <1>1 DEF TargetInv, IndexInv
      <4>2. found.from = "native" /\ Nowhere.from = "none"
        BY <4>1 DEF Nowhere
      <4>3. found # Nowhere
        BY <4>2
      <4> QED
        BY <2>1, <2>2, <2>5, <4>1, <4>3
    <3>6. HitInv'
      BY <2>5, <3>2 DEF HitInv
    <3>7. phase' \in {"hit", "done"} /\ (phase' # "done" => result'.code = "pending")
      BY <2>5, <3>2
    <3> QED
      BY <1>2, <1>4, <2>3, <3>3, <3>4, <3>5, <3>6, <3>7 DEF TargetInv
  <2>7. f = <<>> => Len(f) = 0
    BY EmptySeq
  <2>8. (CASE f = <<>> -> Reject("target_not_found")
           [] Len(f) > 1 -> Reject("ambiguous_target")
           [] Len(f) = 1 /\ Nameless(f[1]) -> Reject("native_target_unconfirmed")
           [] Len(f) = 1 /\ ~Nameless(f[1]) /\ m = {} -> Reject("native_target_unconfirmed")
           [] Len(f) = 1 /\ ~Nameless(f[1]) /\ Cardinality(m) > 1 -> Reject("ambiguous_target")
           [] OTHER ->
                IF ~t[n].usable THEN gives("target_disabled")
                ELSE IF t[n].hi < t[n].lo THEN gives("native_target_unconfirmed")
                ELSE IF Middle(t[n]) \notin OnScreen THEN gives("target_offscreen")
                ELSE gives("pending"))
    BY <1>7
  <2> HIDE DEF f, m, n, gives
  <2>9. \/ \E code \in Codes \ {"pending", "ready", "hit_target_mismatch"} : Reject(code)
        \/ /\ Len(f) = 1 /\ ~Nameless(f[1]) /\ m # {} /\ ~ (Cardinality(m) > 1)
           /\ \/ gives("target_disabled") \/ gives("native_target_unconfirmed") \/ gives("target_offscreen")
              \/ gives("pending") /\ t[n].usable /\ Middle(t[n]) \in OnScreen
    <3>1. CASE f = <<>>
      <4>1. Reject("target_not_found")
        BY <2>7, <2>8, <3>1
      <4> QED
        BY <4>1 DEF Codes
    <3>2. CASE Len(f) > 1
      <4>1. Len(f) # 1 /\ f # <<>>
        BY <2>2, <2>7, <3>2
      <4>2. Reject("ambiguous_target")
        BY <2>8, <3>2, <4>1
      <4> QED
        BY <4>2 DEF Codes
    <3>3. CASE Len(f) = 1
      <4>1. ~ (Len(f) > 1) /\ f # <<>>
        BY <2>7, <3>3
      <4>2. CASE Nameless(f[1])
        <5>1. Reject("native_target_unconfirmed")
          BY <2>8, <3>3, <4>1, <4>2
        <5> QED
          BY <5>1 DEF Codes
      <4>3. CASE ~Nameless(f[1]) /\ m = {}
        <5>1. ~ (Cardinality(m) > 1)
          BY <4>3, FS_EmptySet
        <5>2. Reject("native_target_unconfirmed")
          BY <2>8, <3>3, <4>1, <4>3, <5>1
        <5> QED
          BY <5>2 DEF Codes
      <4>4. CASE ~Nameless(f[1]) /\ m # {} /\ Cardinality(m) > 1
        <5>1. Reject("ambiguous_target")
          BY <2>8, <3>3, <4>1, <4>4
        <5> QED
          BY <5>1 DEF Codes
      <4>5. CASE ~Nameless(f[1]) /\ m # {} /\ ~ (Cardinality(m) > 1)
        <5>1. IF ~t[n].usable THEN gives("target_disabled")
              ELSE IF t[n].hi < t[n].lo THEN gives("native_target_unconfirmed")
              ELSE IF Middle(t[n]) \notin OnScreen THEN gives("target_offscreen")
              ELSE gives("pending")
          BY <2>8, <3>3, <4>1, <4>5
        <5> QED
          BY <3>3, <4>5, <5>1
      <4> QED
        BY <4>2, <4>3, <4>4, <4>5
    <3>4. Len(f) = 0 \/ Len(f) = 1 \/ Len(f) > 1
      <4>1. \A k \in Nat : k = 0 \/ k = 1 \/ k > 1
        OBVIOUS
      <4>2. Len(f) \in Nat
        BY <2>2
      <4> QED
        BY <4>1, <4>2, Zenon
    <3>5. f = <<>> \/ Len(f) = 1 \/ Len(f) > 1
      BY <2>2, <3>4
    <3> QED
      BY <3>1, <3>2, <3>3, <3>5
  <2> QED
    BY <2>4, <2>5, <2>9
<1> QED
  BY <1>6, <1>7 DEF SettleTree

\* The hit test changes nothing of what was found; Android taps only what is alone in depth.
LEMMA HitTestKeeps == ASSUME TargetAssumption, TargetInv, HitTest PROVE TargetInv'
<1> DEFINE n == fresh[result.node]
           deepest == DeepestActionable(fresh, result.point)
<1>1. /\ phase = "hit" /\ phase' = "done" /\ result.code = "pending"
      /\ UNCHANGED <<selector, platform, native, fiber, fresh, found>>
  BY DEF HitTest, TargetInv
<1>2. PICK code \in {"ready", "failed", "hit_target_mismatch", "native_target_unconfirmed"} :
         /\ \E h : result' = [result EXCEPT !.code = code, !.hit = h]
         /\ platform = "android" /\ code = "ready" => deepest = {result.node}
  <2> DEFINE asks == platform = "ios" /\ (n.acts \/ n.role = Unknown)
             ends(code, h) == result' = [result EXCEPT !.code = code, !.hit = h]
  <2>1. CASE ~n.acts /\ ~asks /\ ends("native_target_unconfirmed", 0)
    BY <2>1
  <2>2. CASE /\ platform = "android" /\ n.acts
             /\ ends(IF deepest = {result.node} THEN "ready" ELSE "hit_target_mismatch",
                     IF Cardinality(deepest) = 1 THEN Sole(deepest) ELSE 0)
    <3> DEFINE w == IF Cardinality(deepest) = 1 THEN Sole(deepest) ELSE 0
    <3>1. CASE deepest = {result.node}
      <4>1. ends("ready", w)
        BY <2>2, <3>1
      <4> HIDE DEF w
      <4> QED
        BY <3>1, <4>1
    <3>2. CASE deepest # {result.node}
      <4>1. ends("hit_target_mismatch", w)
        BY <2>2, <3>2
      <4> HIDE DEF w
      <4> QED
        BY <4>1
    <3> QED
      BY <3>1, <3>2
  <2>3. CASE asks /\ ends(IF n.acts THEN "failed" ELSE "native_target_unconfirmed", 0)
    BY <2>3
  <2>4. CASE /\ asks
             /\ \E now \in Trees : \E h \in ProviderHits(now, result.point) :
                   ends(CASE n.acts /\ Fits(now[h], n) -> "ready"
                          [] n.acts /\ ~Fits(now[h], n) -> "hit_target_mismatch"
                          [] ~n.acts /\ Activates(n, now[h]) -> "ready"
                          [] OTHER -> "native_target_unconfirmed", 0)
    <3>0. PICK now \in Trees :
             \E h \in ProviderHits(now, result.point) :
                ends(CASE n.acts /\ Fits(now[h], n) -> "ready"
                       [] n.acts /\ ~Fits(now[h], n) -> "hit_target_mismatch"
                       [] ~n.acts /\ Activates(n, now[h]) -> "ready"
                       [] OTHER -> "native_target_unconfirmed", 0)
      BY <2>4
    <3>1. PICK h \in ProviderHits(now, result.point) :
             ends(CASE n.acts /\ Fits(now[h], n) -> "ready"
                    [] n.acts /\ ~Fits(now[h], n) -> "hit_target_mismatch"
                    [] ~n.acts /\ Activates(n, now[h]) -> "ready"
                    [] OTHER -> "native_target_unconfirmed", 0)
      BY <3>0
    <3> DEFINE verdict == CASE n.acts /\ Fits(now[h], n) -> "ready"
                            [] n.acts /\ ~Fits(now[h], n) -> "hit_target_mismatch"
                            [] ~n.acts /\ Activates(n, now[h]) -> "ready"
                            [] OTHER -> "native_target_unconfirmed"
    <3>2. verdict \in {"ready", "hit_target_mismatch", "native_target_unconfirmed"}
      <4>1. CASE n.acts /\ Fits(now[h], n)
        BY <4>1
      <4>2. CASE n.acts /\ ~Fits(now[h], n)
        BY <4>2
      <4>3. CASE ~n.acts /\ Activates(n, now[h])
        BY <4>3
      <4>4. CASE ~n.acts /\ ~Activates(n, now[h])
        BY <4>4
      <4> QED
        BY <4>1, <4>2, <4>3, <4>4
    <3>3. ends(verdict, 0)
      BY <3>1
    <3>4. platform # "android"
      BY <2>4
    <3> HIDE DEF verdict
    <3> QED
      BY <3>2, <3>3, <3>4
  <2> QED
    BY <2>1, <2>2, <2>3, <2>4 DEF HitTest
<1>3. /\ DOMAIN result' = {"code", "node", "point", "hit", "listed", "excluded"}
      /\ result'.code = code /\ result'.node = result.node /\ result'.point = result.point
  BY <1>2 DEF TargetInv, ResultKind
<1>4. ResultKind'
  BY <1>1, <1>3 DEF TargetInv, ResultKind, Codes
<1>5. SelectorKind' /\ TreeKinds' /\ FoundKind'
  BY <1>1 DEF TargetInv, SelectorKind, TreeKinds, FoundKind
<1>6. IndexInv'
  BY <1>1 DEF TargetInv, IndexInv, ByIndex
<1>7. SettledInv'
  BY <1>1, <1>3 DEF TargetInv, SettledInv
<1>8. HitInv'
  <2> SUFFICES ASSUME code = "ready", platform = "android" PROVE deepest = {result.node}
    BY <1>1, <1>3 DEF HitInv
  <2> QED
    BY <1>2
<1>9. QueryInv'
  <2> SUFFICES ASSUME selector.query # <<>> PROVE Stands' /\ NothingLeft'
    BY <1>1 DEF QueryInv
  <2>1. Stands
    BY <1>1 DEF TargetInv, QueryInv
  <2>2. NothingLeft'
    BY <1>2, <1>3 DEF NothingLeft
  <2> QED
    BY <1>1, <2>1, <2>2, StandsKept
<1> QED
  BY <1>1, <1>4, <1>5, <1>6, <1>7, <1>8, <1>9 DEF TargetInv

LEMMA TargetSteps == ASSUME TargetAssumption, TargetInv, [TargetNext]_targetVars PROVE TargetInv'
<1>1. CASE UNCHANGED targetVars
  <2>1. UNCHANGED <<selector, platform, native, fiber, fresh, found, phase, result>>
    BY <1>1 DEF targetVars
  <2>2. Stands <=> Stands'
    BY <2>1 DEF Stands
  <2> QED
    BY <2>1, <2>2 DEF TargetInv, SelectorKind, TreeKinds, FoundKind, ResultKind, IndexInv, ByIndex,
                      SettledInv, HitInv, QueryInv, NothingLeft
<1> QED
  BY <1>1, SnapshotsKeeps, QueryKeeps, DiscoverKeeps, SettleKeeps, HitTestKeeps DEF TargetNext

LEMMA TargetHolds == TargetAssumption /\ TargetSpec => []TargetInv
<1> SUFFICES ASSUME TargetAssumption PROVE TargetSpec => []TargetInv
  OBVIOUS
<1>1. TargetInit => TargetInv
  BY TargetStart
<1>2. TargetInv /\ [TargetNext]_targetVars => TargetInv'
  BY TargetSteps
<1> QED
  BY <1>1, <1>2, PTL DEF TargetSpec

\* resolveNativeTap gives a point only of the one node that can be the element that was asked for,
\* whichever trees the device shows from one step to the next; a row that was swapped is not taken for
\* it; and a query is answered with an element only if that stands out.
THEOREM TapCorrect == TargetAssumption /\ TargetSpec => []TapReachesItsTarget
<1> SUFFICES ASSUME TargetAssumption PROVE TargetSpec => []TapReachesItsTarget
  OBVIOUS
<1>1. TargetInv => TapReachesItsTarget
  BY TargetImplies
<1> QED
  BY <1>1, TargetHolds, PTL

\* The request, what was found and the result keep their types.
THEOREM TargetTyped == TargetAssumption /\ TargetSpec => []TargetTypeOK
<1> SUFFICES ASSUME TargetAssumption PROVE TargetSpec => []TargetTypeOK
  OBVIOUS
<1>1. TargetInv => TargetTypeOK
  BY TargetKinds
<1> QED
  BY <1>1, TargetHolds, PTL

=============================================================================
