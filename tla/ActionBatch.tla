----------------------------- MODULE ActionBatch -----------------------------
(***************************************************************************)
(* Device actions as the MCP tools dispatch them (packages/mcp/src/         *)
(* server.ts: perform_actions, dispatchAction, observe, tap_element;        *)
(* semantic-interactions.ts: clear_text and replace_text; session.ts:       *)
(* dispatchInput and its receipts).  A batch sends the inputs of its        *)
(* actions in order, stops at the first that is not accepted, and claims    *)
(* success only after an observation that is labelled stable.               *)
(*                                                                         *)
(* An acknowledged input takes effect later (landing), in the order of the  *)
(* inputs.  A reading settles when two captures in a row are alike; an      *)
(* input may land all the same after that.                                  *)
(***************************************************************************)
EXTENDS Integers, Sequences, FiniteSets

CONSTANTS
    Batches,            \* the calls tried: records [tool, actions, observe, keys]
    MaxFailures,        \* bound: inputs that fail after they were submitted
    MaxDrops            \* bound: losses of the connection

Kinds == {"raw", "key", "rotate", "wait", "tap", "clear", "replace"}

\* An action: its kind, the generation-scoped ref it names (0: none) and
\* whether a destination is to be verified.  keys: the device takes named keys.
\* What is assumed of the constants; the TLC module asserts it.
BatchAssumption ==
    /\ MaxFailures \in Nat /\ MaxDrops \in Nat
    /\ \A b \in Batches :
        /\ b.tool \in {"perform_actions", "tap_element", "standalone"}
        /\ b.actions \in Seq([kind : Kinds, ref : Nat, verify : BOOLEAN]) /\ b.actions # <<>>
        /\ b.tool # "perform_actions" => Len(b.actions) = 1
        /\ b.tool = "tap_element" => b.actions[1].kind = "tap"
        /\ b.observe \in {"none", "semantic", "visual"} /\ b.keys \in BOOLEAN

VARIABLES
    batch,              \* the call
    at,                 \* where its handler is suspended
    stage,              \* of a text action: what the next reading decides
    todo,               \* inputs to be sent before the next await of another kind
    receipts,           \* receipts so far, one for each action tried
    verified,           \* the verification of the action at hand, and when it was made
    latest,             \* the session's latest accessibility observation
    outcome,            \* what the tool returns
    up,                 \* whether the session has a connection
    sent,               \* action -> inputs that reached the device, or may have
    field, landing,     \* the text field, and inputs acknowledged but not landed
    failures, drops

batchVars == <<batch, at, stage, todo, receipts, verified, latest, outcome, up, sent,
               field, landing, failures, drops>>

Actions == batch.actions
K == Len(receipts) + 1                  \* the action at hand
Doing == Actions[K]
Places == DOMAIN Actions

\* An observation: what it is labelled, whether two captures were alike, and the
\* inputs sent before it.
Moments == [Places -> Nat] \cup {<<>>}
Readings == [stable : BOOLEAN, settled : BOOLEAN, at : Moments]
NoReading == [stable |-> FALSE, settled |-> FALSE, at |-> <<>>]
NotFound == [status |-> "none", at |-> <<>>]
NoOutcome == [hardStop |-> FALSE, seen |-> NoReading, count |-> 0]
Empty == [old |-> FALSE, copies |-> 0]
Written == [old |-> FALSE, copies |-> 1]

BatchTypeOK ==
    /\ at \in {"preflight", "baseline", "next", "resolving", "sending", "waiting",
               "verifying", "reading", "observing", "retrying", "done", "thrown"}
    /\ stage \in {"receipt", "tapped", "clear1", "clear2", "clear3", "replace", "retype"}
    /\ todo \in Seq({"raw", "tap", "key", "type"})
    /\ receipts \in Seq([accepted : BOOLEAN, dispatched : BOOLEAN])
    /\ verified \in [status : {"none", "matched", "mismatch", "unstable"}, at : Moments]
    /\ latest \in Readings
    /\ outcome \in [hardStop : BOOLEAN, seen : Readings, count : Nat]
    /\ up \in BOOLEAN /\ sent \in [Places -> Nat]
    /\ field \in [old : BOOLEAN, copies : Nat] /\ landing \in Seq({"raw", "tap", "key", "type"})

\* What the field holds at first is not the text that is going to be typed.
BatchInit ==
    /\ batch \in Batches
    /\ at = "preflight" /\ stage = "receipt" /\ todo = <<>>
    /\ receipts = <<>> /\ verified = NotFound /\ latest = NoReading /\ outcome = NoOutcome
    /\ up = TRUE
    /\ sent = [j \in Places |-> 0]
    /\ field \in {Empty, [old |-> TRUE, copies |-> 0]} /\ landing = <<>>
    /\ failures = 0 /\ drops = 0

Device == <<up, sent, field, landing, failures, drops>>

----------------------------------------------------------------------------
(* Before the first action.                                                *)

\* preflightActions: a generation-scoped ref may be used once.
Reused == \E i, j \in Places : i < j /\ Actions[i].ref # 0 /\ Actions[i].ref = Actions[j].ref

Preflight ==
    /\ at = "preflight"
    /\ at' = IF Reused THEN "done"
             ELSE IF batch.tool = "perform_actions" /\ batch.observe # "none" THEN "baseline"
             ELSE "next"
    /\ outcome' = [NoOutcome EXCEPT !.hardStop = Reused]
    /\ UNCHANGED <<batch, stage, todo, receipts, verified, latest, Device>>

\* accessibilityObserve; a single snapshot is Observed(FALSE).
Observed(settled) == [stable |-> settled, settled |-> settled, at |-> sent]

\* captureObservationBaseline, where nothing is known; its failure is the tool's.
Baseline ==
    /\ at = "baseline"
    /\ \/ /\ \/ latest # NoReading /\ UNCHANGED latest
             \/ /\ latest = NoReading /\ up
                /\ \E settled \in BOOLEAN : latest' = Observed(settled)
          /\ at' = IF batch.tool = "tap_element" THEN "sending" ELSE "next"
       \/ latest = NoReading /\ at' = "thrown" /\ UNCHANGED latest
    /\ UNCHANGED <<batch, stage, todo, receipts, verified, outcome, Device>>

----------------------------------------------------------------------------
(* dispatchAction.                                                         *)

Accepted == [accepted |-> TRUE, dispatched |-> TRUE]
Unsent(ok) == [accepted |-> ok, dispatched |-> FALSE]
\* inputReceiptFromError of any error but a refusal by dispatchInput.
Uncertain == [accepted |-> FALSE, dispatched |-> TRUE]

\* Mutant: a refusal does not end the batch.
MutantReceipt(r) ==
    /\ receipts' = Append(receipts, r)
    /\ at' = IF K < Len(Actions) THEN "next" ELSE "observing"
    /\ todo' = <<>> /\ stage' = "receipt" /\ verified' = NotFound

\* The action at hand is over; the batch goes on only after an accepted one.
Receipt(r) ==
    /\ receipts' = Append(receipts, r)
    /\ at' = IF r.accepted /\ K < Len(Actions) THEN "next" ELSE "observing"
    /\ todo' = <<>> /\ stage' = "receipt" /\ verified' = NotFound

Inputs(list, s) == at' = "sending" /\ todo' = list /\ stage' = s

BeginAction ==
    /\ at = "next"
    /\ CASE Doing.kind \in {"raw", "rotate"} -> Inputs(<<"raw">>, "receipt")
         [] Doing.kind = "key" -> Inputs(<<"key">>, "receipt")
         [] Doing.kind = "wait" -> at' = "waiting" /\ UNCHANGED <<todo, stage>>
         [] OTHER -> at' = "resolving" /\ UNCHANGED <<todo, stage>>
    /\ UNCHANGED <<batch, receipts, verified, latest, outcome, Device>>

\* The search and resolveNativeTap: refused, resolved, or an error.
Resolve ==
    /\ at = "resolving"
    /\ \/ /\ Receipt(Unsent(FALSE))
          /\ latest' \in {latest} \cup IF up THEN {Observed(FALSE)} ELSE {}
       \/ /\ up
          /\ CASE Doing.kind = "clear" -> Inputs(<<"tap", "key", "key">>, "clear1")
               [] Doing.kind = "replace" -> Inputs(<<"tap", "key", "key", "type">>, "replace")
               [] OTHER -> /\ todo' = <<"tap">> /\ stage' = "tapped"
                           /\ at' = IF batch.tool = "tap_element"
                                       /\ (batch.observe # "none" \/ Doing.verify)
                                    THEN "baseline" ELSE "sending"
          /\ latest' = Observed(TRUE)
          /\ UNCHANGED <<receipts, verified>>
       \/ /\ IF batch.tool = "tap_element"
               THEN at' = "thrown" /\ UNCHANGED <<todo, stage, receipts, verified>>
               ELSE Receipt(Uncertain)
          /\ UNCHANGED latest
    /\ UNCHANGED <<batch, outcome, Device>>

\* accessibility.wait and the snapshot after it.
Wait ==
    /\ at = "waiting"
    /\ \/ up /\ Receipt(Unsent(TRUE)) /\ latest' = Observed(FALSE)
       \/ Receipt(Uncertain) /\ UNCHANGED latest
    /\ UNCHANGED <<batch, outcome, Device>>

\* What an error of the input at hand becomes: tap_element does not catch it.
Broken(r) ==
    IF batch.tool = "tap_element"
    THEN at' = "thrown" /\ UNCHANGED <<todo, stage, receipts, verified>>
    ELSE Receipt(r)

\* dispatchInput refuses: no connection, or an input the device does not take.
Refuse ==
    /\ at = "sending" /\ todo # <<>>
    /\ ~up \/ (Head(todo) = "key" /\ ~batch.keys)
    /\ Broken(IF Doing.kind = "rotate" THEN Uncertain ELSE Unsent(FALSE))
    /\ UNCHANGED <<batch, latest, outcome, Device>>

\* The input is submitted and acknowledged.
Send ==
    /\ at = "sending" /\ todo # <<>> /\ up
    /\ Head(todo) = "key" => batch.keys
    /\ sent' = [sent EXCEPT ![K] = @ + 1]
    /\ landing' = Append(landing, Head(todo))
    /\ latest' = IF Doing.kind = "rotate" THEN latest ELSE NoReading
    /\ IF Len(todo) > 1 THEN todo' = Tail(todo) /\ UNCHANGED <<at, stage, receipts, verified>>
       ELSE CASE stage = "receipt" -> Receipt(Accepted)
              [] stage = "tapped" ->
                    IF batch.tool = "perform_actions" /\ Doing.verify
                    THEN /\ at' = "verifying" /\ todo' = <<>>
                         /\ UNCHANGED <<stage, receipts, verified>>
                    ELSE Receipt(Accepted)
              [] OTHER -> /\ at' = "reading" /\ todo' = <<>>
                          /\ UNCHANGED <<stage, receipts, verified>>
    /\ UNCHANGED <<batch, outcome, up, field, failures, drops>>

\* The request fails after it was submitted: the input may have been performed.
SendFails ==
    /\ at = "sending" /\ todo # <<>> /\ up
    /\ Head(todo) = "key" => batch.keys
    /\ failures < MaxFailures
    /\ failures' = failures + 1
    /\ sent' = [sent EXCEPT ![K] = @ + 1]
    /\ landing' \in {landing, Append(landing, Head(todo))}
    /\ latest' = IF Doing.kind = "rotate" THEN latest ELSE NoReading
    /\ Broken(Uncertain)
    /\ UNCHANGED <<batch, outcome, up, field, drops>>

\* A destination that was verified on a settled screen vouches for an
\* observation that did not settle (reconcileObservationWithDestination).
Vouched(sight, confirmed, when) ==
    IF confirmed /\ ~sight.stable THEN [stable |-> TRUE, settled |-> TRUE, at |-> when] ELSE sight

\* tapElement ends: it claims success for a verified destination only.
TapEnds(r, good) ==
    /\ at' = "done"
    /\ outcome' = [outcome EXCEPT !.seen = IF r.stable THEN r ELSE @, !.hardStop = ~good]
    /\ UNCHANGED <<receipts, verified>>

\* verifyNativeDestination: the session's observation if tap_element has just
\* made it and it is settled, else of two snapshots at most, or unavailable.
\* In a batch it concludes the receipt of the tap, in tap_element the call.
Verify ==
    /\ at = "verifying"
    /\ \E matched \in BOOLEAN,
          r \in IF batch.tool = "tap_element" /\ batch.observe # "none" /\ latest.stable
               THEN {latest}
               ELSE {NoReading} \cup {x \in {Observed(TRUE), Observed(FALSE)} : up} :
        LET good == r.stable /\ matched
            status == IF ~r.stable THEN "unstable" ELSE IF matched THEN "matched" ELSE "mismatch"
        IN  /\ latest' = IF r = NoReading THEN latest ELSE r
            /\ IF batch.tool = "perform_actions"
               THEN /\ receipts' = Append(receipts, [accepted |-> good, dispatched |-> TRUE])
                    /\ at' = IF good /\ K < Len(Actions) THEN "next" ELSE "observing"
                    /\ verified' = [status |-> status, at |-> r.at]
                    /\ UNCHANGED outcome
               ELSE TapEnds(r, good)
    /\ todo' = <<>> /\ stage' = "receipt"
    /\ UNCHANGED <<batch, Device>>

----------------------------------------------------------------------------
(* dispatchSemanticTextAction: each reading decides what is sent next.     *)

TextReceipt(r, stable) ==
    /\ receipts' = Append(receipts, r)
    /\ at' = IF r.accepted /\ K < Len(Actions) THEN "next" ELSE "observing"
    /\ verified' = IF stable /\ r.accepted THEN [status |-> "matched", at |-> sent] ELSE NotFound
    /\ todo' = <<>> /\ stage' = "receipt"

\* Mutant: a field is cleared when a reading shows it so, stable or not.
MutantClearEnds(stable, cleared) ==
    IF Doing.kind = "replace" /\ stable /\ cleared
    THEN Inputs(<<"type">>, "retype") /\ UNCHANGED <<receipts, verified>>
    ELSE TextReceipt([accepted |-> Doing.kind = "clear" /\ cleared, dispatched |-> TRUE], stable)

\* clearTextWithVerification ends; within a replacement the text is typed again.
ClearEnds(stable, cleared) ==
    IF Doing.kind = "replace" /\ stable /\ cleared
    THEN Inputs(<<"type">>, "retype") /\ UNCHANGED <<receipts, verified>>
    ELSE TextReceipt([accepted |-> Doing.kind = "clear" /\ stable /\ cleared,
                      dispatched |-> TRUE], stable)

\* One reading of the field: present (found once), its value, stable or not.
\* An unstable reading may show the field as it was or as it will be.  Where the
\* field was empty before anything was sent, the second way of clearing it is
\* skipped (which of the two is the case is left open).
Decide(stable, present, value) ==
    LET cleared == present /\ value = Empty
        right == stable /\ present /\ value = Written
    IN  CASE stage = "clear1" /\ ~cleared /\ present ->
                /\ \/ Inputs(<<"key", "key">>, "clear2")
                   \/ Inputs(<<"tap", "tap", "tap", "key">>, "clear3")
                /\ UNCHANGED <<receipts, verified>>
          [] stage = "clear2" /\ ~cleared /\ present ->
                Inputs(<<"tap", "tap", "tap", "key">>, "clear3") /\ UNCHANGED <<receipts, verified>>
          [] stage = "replace" /\ stable /\ present /\ ~right ->
                Inputs(<<"tap", "key", "key">>, "clear1") /\ UNCHANGED <<receipts, verified>>
          [] stage \in {"clear1", "clear2", "clear3"} /\ (stage = "clear3" \/ cleared \/ ~present) ->
                ClearEnds(stable, cleared)
          [] stage \in {"replace", "retype"} /\ ~(stage = "replace" /\ stable /\ present /\ ~right) ->
                TextReceipt([accepted |-> right, dispatched |-> TRUE], stable)

Read ==
    /\ at = "reading"
    /\ \/ \E stable, present \in BOOLEAN, value \in {field, Empty, Written, [old |-> TRUE, copies |-> 0]} :
            /\ up /\ (stable => value = field)
            /\ latest' = Observed(stable)
            /\ Decide(stable, present, value)
       \/ Receipt(Uncertain) /\ UNCHANGED latest
    /\ UNCHANGED <<batch, outcome, Device>>

----------------------------------------------------------------------------
(* After the last action.                                                  *)

AnyDispatched == \E j \in DOMAIN receipts : receipts[j].dispatched
AllAccepted == \A j \in DOMAIN receipts : receipts[j].accepted
Counted == Cardinality({j \in DOMAIN receipts : receipts[j].dispatched})

Return(stop, sight) ==
    /\ at' = "done"
    /\ outcome' = [hardStop |-> stop, seen |-> sight, count |-> Counted]

LastAction == Actions[Len(receipts)]

\* The observation a text action has just made is taken as it is.
Verified ==
    /\ batch.tool = "perform_actions" /\ latest # NoReading
    /\ LastAction.kind \in {"clear", "replace"} /\ AllAccepted /\ verified.status = "matched"

\* runStandaloneSemanticAction: the receipt of the one action is the answer.
Standalone ==
    /\ at = "observing" /\ batch.tool = "standalone"
    /\ Return(~AllAccepted, NoReading)
    /\ UNCHANGED <<batch, stage, todo, receipts, verified, latest, Device>>

Unobserved ==
    /\ at = "observing" /\ batch.tool # "standalone"
    /\ batch.observe = "none" \/ ~AnyDispatched
    /\ IF batch.tool = "tap_element" /\ AllAccepted /\ LastAction.verify
         THEN at' = "verifying" /\ UNCHANGED outcome
         ELSE Return(~AllAccepted, NoReading)
    /\ UNCHANGED <<batch, stage, todo, receipts, verified, latest, Device>>

\* The call ends with an observation; tap_element verifies its destination first.
Conclude(sight) ==
    LET vouched == LastAction.kind = "tap" /\ verified.status \in {"matched", "mismatch"}
        trusted == Vouched(sight, vouched, verified.at)
    IN  IF batch.tool = "tap_element" /\ LastAction.verify
        THEN at' = "verifying" /\ outcome' = [hardStop |-> FALSE, seen |-> sight, count |-> Counted]
        ELSE Return(~AllAccepted \/ ~trusted.stable, trusted)

\* observe(): one bounded observation, and another when it did not settle or
\* shows nothing new.  When there is none, what the session knows is labelled
\* stable, settled or not.  A visual observation that fails is the tool's failure.
Observe ==
    /\ at \in {"observing", "retrying"}
    /\ batch.observe # "none" /\ AnyDispatched /\ batch.tool # "standalone"
    /\ \/ /\ Verified
          /\ Conclude(latest)
          /\ UNCHANGED latest
       \/ /\ ~Verified /\ up
          /\ \E settled \in BOOLEAN :
                /\ latest' = Observed(settled)
                /\ \/ at = "observing" /\ at' = "retrying" /\ UNCHANGED outcome
                   \/ (at = "retrying" \/ settled) /\ Conclude(latest')
       \/ /\ ~Verified
          /\ UNCHANGED latest
          /\ \/ at = "retrying" /\ Conclude(latest)
             \/ at = "observing" /\ Conclude([latest EXCEPT !.stable = latest # NoReading])
             \/ batch.observe = "visual" /\ at' = "thrown" /\ UNCHANGED outcome
    /\ UNCHANGED <<batch, stage, todo, receipts, verified, Device>>

----------------------------------------------------------------------------
(* The device and the connection.                                          *)

Land ==
    /\ landing # <<>>
    /\ landing' = Tail(landing)
    /\ field' \in CASE Head(landing) = "key" -> {field, Empty}
                    [] Head(landing) = "type" -> {[field EXCEPT !.copies = @ + 1]}
                    [] OTHER -> {field}
    /\ UNCHANGED <<batch, at, stage, todo, receipts, verified, latest, outcome, up, sent,
                   failures, drops>>

Disconnect ==
    /\ up /\ drops < MaxDrops
    /\ up' = FALSE /\ drops' = drops + 1
    /\ latest' = NoReading
    /\ UNCHANGED <<batch, at, stage, todo, receipts, verified, outcome, sent, field, landing, failures>>

BatchNext ==
    \/ Preflight \/ Baseline \/ BeginAction \/ Resolve \/ Wait
    \/ Refuse \/ Send \/ SendFails \/ Verify \/ Read
    \/ Standalone \/ Unobserved \/ Observe \/ Land \/ Disconnect

BatchSpec == BatchInit /\ [][BatchNext]_batchVars

----------------------------------------------------------------------------
Succeeded == at = "done" /\ ~outcome.hardStop /\ AnyDispatched
             /\ batch.tool # "standalone" /\ batch.observe # "none"

\* A call that claims success has an observation labelled stable that was made
\* after the last input it sent, unless that was a rotation; the screen had
\* settled in it, unless the call ended by waiting for an element.  And no input
\* follows an action that was not accepted.
SuccessIsSeen ==
    /\ Succeeded /\ LastAction.kind # "rotate" =>
          /\ outcome.seen.stable /\ outcome.seen.at = sent
          /\ LastAction.kind # "wait" => outcome.seen.settled
    /\ \A i, j \in Places : i < j /\ i \in DOMAIN receipts /\ ~receipts[i].accepted => sent[j] = 0

TextAccepted ==
    /\ receipts # <<>> /\ AllAccepted /\ LastAction.kind \in {"clear", "replace"}
    /\ \A j \in 1..(Len(receipts) - 1) : Actions[j].kind # "replace"

\* clear_text and replace_text read the field while what they sent may still be
\* landing.  When all has landed, a field that was reported as cleared is empty;
\* one whose text was reported as replaced holds the text and nothing of what it
\* held before, and the text once if it was typed once (tap, two keys, text).
\* Typed again, it may be there twice.  (No text was typed by an earlier action.)
TextIsFinal ==
    at = "done" /\ landing = <<>> /\ TextAccepted =>
        IF LastAction.kind = "clear" THEN field = Empty
        ELSE /\ ~field.old /\ field.copies > 0
             /\ sent[Len(receipts)] = 4 => field = Written

\* "Action batches report both completedActionCount and dispatchedActionCount"
\* (docs/protocol.md): an action of which an input was sent is counted.
DispatchIsCounted ==
    at = "done" => \A j \in DOMAIN receipts : sent[j] > 0 => receipts[j].dispatched
=============================================================================
