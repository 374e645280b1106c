--------------------------- MODULE MetroInspector ---------------------------
(***************************************************************************)
(* MetroInspector (packages/mcp/src/metro.ts): the inspections a session    *)
(* makes of a React Native app over one debugger connection.  An inspection *)
(* looks for the target of its device and application, joins or opens the   *)
(* connection, and evaluates an expression that leaves its result in a      *)
(* mailbox of the app, to be polled for.                                    *)
(*                                                                         *)
(* All fields of the inspector are one record; each action is the code of   *)
(* one callback up to its next await.  The continuations of a settled       *)
(* connection promise run before any other event (Quiet).                   *)
(***************************************************************************)
EXTENDS Naturals, Sequences, FiniteSets

CONSTANTS
    Inspections,        \* calls of inspect(), each made at most once
    Devices, Apps,
    Targets,            \* records [logical, name, app] of debugger targets
    Opaque, Nothing,    \* a connection hash that names no device; no value
    MaxChanges,         \* bound: changes of the set of targets
    MaxCloses           \* bound: calls of close() from the session

\* What is assumed of the constants; the TLC module asserts it.
MetroAssumption ==
    /\ Targets \subseteq [logical : Devices \cup {Opaque, Nothing},
                          name : Devices \cup {Nothing}, app : Apps]
    /\ Nothing \notin Devices \cup Inspections /\ Opaque \notin Devices
    /\ MaxChanges \in Nat /\ MaxCloses \in Nat

VARIABLES
    metro,              \* the fields of MetroInspector
    dial,               \* inspection -> the connection it opened
    call,               \* inspection -> where it is suspended, and its locals
    wire,               \* inspection -> evaluations sent and not yet performed
    box,                \* inspection -> its mailbox in the app
    work,               \* inspections whose expression is still running there
    targets, changes, closes

metroVars == <<metro, dial, call, wire, box, work, targets, changes, closes>>

Waiting == {"scanning", "statusing", "connecting", "starting", "polling",
            "cleaning", "symbolicating"}
Boxes == {"none", "pending", "tree", "empty", "error"}

MetroTypeOK ==
    /\ metro \in [gen : Nat, cgen : Nat, connecting : Inspections \cup {Nothing},
                  session : Inspections \cup {Nothing}, selected : Targets \cup {Nothing},
                  device : Devices \cup {Nothing}, app : Apps \cup {Nothing},
                  negative : Devices \cup {Nothing},
                  reported : {"none", "unavailable", "failed", "no-root"}]
    /\ dial \in [Inspections -> [state : {"none", "resolving", "dialing", "open", "lost",
                                          "closed", "stale", "failed"},
                                 key : Targets \cup {Nothing}, gen : Nat, cgen : Nat]]
    /\ call \in [Inspections -> [pc : Waiting \cup {"idle", "answered", "undefined"},
                                 device : Devices \cup {Nothing}, app : Apps \cup {Nothing},
                                 gen : Nat, dial : Inspections \cup {Nothing},
                                 result : Boxes]]
    /\ wire \in [Inspections -> Seq({"kick", "read", "clean"})]
    /\ box \in [Inspections -> Boxes]
    /\ work \subseteq Inspections
    /\ targets \subseteq Targets

MetroInit ==
    /\ metro = [gen |-> 0, cgen |-> 0, connecting |-> Nothing, session |-> Nothing,
                selected |-> Nothing, device |-> Nothing, app |-> Nothing,
                negative |-> Nothing, reported |-> "none"]
    /\ dial = [i \in Inspections |-> [state |-> "none", key |-> Nothing, gen |-> 0, cgen |-> 0]]
    /\ call = [i \in Inspections |-> [pc |-> "idle", device |-> Nothing, app |-> Nothing,
                                      gen |-> 0, dial |-> Nothing, result |-> "none"]]
    /\ wire = [i \in Inspections |-> <<>>]
    /\ box = [i \in Inspections |-> "none"]
    /\ work = {}
    /\ targets \in SUBSET Targets
    /\ changes = 0 /\ closes = 0

----------------------------------------------------------------------------
(* Which target an inspection may use.                                     *)

Only(S) == IF Cardinality(S) = 1 THEN CHOOSE t \in S : TRUE ELSE Nothing

\* Mutant: the first named target wins.
MutantSelect(ts, d, a) ==
    LET candidates == {t \in ts : t.app = a} IN
    IF \E t \in candidates : t.name = d THEN CHOOSE t \in candidates : t.name = d
    ELSE Only(candidates)

\* selectMetroTarget: a native identifier decides; otherwise the device name
\* must be unique among the targets that do not name another device; a sole
\* target without any identifier is taken as it is.
Select(ts, d, a) ==
    LET candidates == {t \in ts : t.app = a}
        exact == {t \in candidates : t.logical = d}
        compatible == {t \in candidates : t.logical \notin Devices}
        byName == {t \in compatible : t.name = d}
    IN  CASE exact # {} -> Only(exact)
          [] exact = {} /\ byName # {} -> Only(byName)
          [] OTHER -> IF \E t \in compatible : t.logical = Nothing THEN Only(compatible) ELSE Nothing

----------------------------------------------------------------------------
(* The fields: what #disconnectSession, close and #setUnavailable do.      *)

Connected(m) == m.session # Nothing /\ dial[m.session].state = "open"

Disconnected(m) == [m EXCEPT !.cgen = @ + 1, !.connecting = Nothing, !.session = Nothing,
                             !.selected = Nothing, !.device = Nothing]

Closed(m) == [Disconnected(m) EXCEPT !.gen = @ + 1, !.negative = Nothing, !.reported = "none"]

\* The connections after the one of m has been closed.
Hung(m) == IF Connected(m) THEN [dial EXCEPT ![m.session].state = "closed"] ELSE dial

Current(m, i) == dial[i].gen = m.gen /\ dial[i].cgen = m.cgen

Settled(i) == dial[i].state \in {"open", "lost", "closed", "stale", "failed"}

Quiet == \A i \in Inspections : call[i].pc = "connecting" => ~Settled(call[i].dial)

Rest(i, pc) == call' = [call EXCEPT ![i].pc = pc]

\* inspect() returns undefined; its locals are gone.
Gives(i) == call' = [call EXCEPT ![i] = [@ EXCEPT !.pc = "undefined", !.device = Nothing,
                                          !.app = Nothing, !.gen = 0, !.result = "none"]]

\* evaluateInspection begins; m are the fields left.
Evaluate(i, m) ==
    /\ metro' = [m EXCEPT !.device = call'[i].device]
    /\ wire' = [wire EXCEPT ![i] = <<"kick">>]

\* #connect, called with target t in the turn of the caller.
Connect(i, t, m) ==
    \/ /\ Connected(m) /\ m.selected = t
       /\ call' = [call EXCEPT ![i].pc = "starting", ![i].dial = m.session]
       /\ Evaluate(i, m)
       /\ UNCHANGED dial
    \/ /\ ~(Connected(m) /\ m.selected = t)
       /\ m.connecting # Nothing
       /\ dial[m.connecting].key = t /\ dial[m.connecting].gen = m.gen
       /\ call' = [call EXCEPT ![i].pc = "connecting", ![i].dial = m.connecting]
       /\ metro' = m
       /\ UNCHANGED <<wire, dial>>
    \/ /\ ~(Connected(m) /\ m.selected = t)
       /\ ~(m.connecting # Nothing /\ dial[m.connecting].key = t /\ dial[m.connecting].gen = m.gen)
       /\ LET n == [Disconnected(m) EXCEPT !.negative = Nothing] IN
          /\ metro' = [n EXCEPT !.connecting = i]
          /\ \E s \in {"resolving", "dialing"} :
                dial' = [Hung(m) EXCEPT ![i] = [state |-> s, key |-> t, gen |-> n.gen, cgen |-> n.cgen]]
       /\ call' = [call EXCEPT ![i].pc = "connecting", ![i].dial = i]
       /\ UNCHANGED wire

----------------------------------------------------------------------------
(* inspect(): from the call to the connection.                             *)

Inspect(i, d, a) ==
    /\ Quiet
    /\ call[i].pc = "idle"
    /\ LET other == a # metro.app
           m0 == IF other THEN [Closed(metro) EXCEPT !.app = a] ELSE metro
           m == IF m0.negative # d THEN [m0 EXCEPT !.negative = Nothing] ELSE m0
           usable == Connected(m) /\ m.device = d /\ m.selected.app = a
           begun(pc, x) == call' = [call EXCEPT ![i] = [@ EXCEPT
                 !.pc = pc, !.device = d, !.app = a, !.gen = m.gen, !.dial = x]]
       IN  \/ /\ usable
              /\ begun("starting", m.session)
              /\ Evaluate(i, m)
              /\ UNCHANGED dial
           \/ /\ ~usable /\ m.negative = d
              /\ call' = [call EXCEPT ![i].pc = "undefined"]
              /\ metro' = [m EXCEPT !.reported = "unavailable"]
              /\ UNCHANGED <<dial, wire>>
           \/ /\ ~usable      \* nothing cached for this device, or no longer valid
              /\ begun("scanning", Nothing)
              /\ metro' = m
              /\ dial' = IF other THEN Hung(metro) ELSE dial
              /\ UNCHANGED wire
    /\ UNCHANGED <<box, work, targets, changes, closes>>

Unavailable(i) ==
    /\ metro' = [metro EXCEPT !.negative = call[i].device, !.reported = "unavailable"]
    /\ Gives(i)
    /\ UNCHANGED <<dial, wire>>

\* The ports have been scanned.
Scanned(i) ==
    /\ Quiet
    /\ call[i].pc = "scanning"
    /\ LET t == Select(targets, call[i].device, call[i].app) IN
       \/ /\ call[i].gen # metro.gen
          /\ Gives(i)
          /\ UNCHANGED <<metro, dial, wire>>
       \/ /\ call[i].gen = metro.gen /\ t # Nothing
          /\ Connect(i, t, metro)
       \/ /\ call[i].gen = metro.gen /\ t = Nothing /\ targets # {}
          /\ Unavailable(i)
       \/ /\ call[i].gen = metro.gen /\ targets = {}
          /\ Rest(i, "statusing")
          /\ UNCHANGED <<metro, dial, wire>>
    /\ UNCHANGED <<box, work, targets, changes, closes>>

\* Nothing was found, and the status probes that ran beside the scan are done.
Classified(i) ==
    /\ Quiet
    /\ call[i].pc = "statusing"
    /\ IF call[i].gen = metro.gen THEN Unavailable(i)
       ELSE Gives(i) /\ UNCHANGED <<metro, dial, wire>>
    /\ UNCHANGED <<box, work, targets, changes, closes>>

----------------------------------------------------------------------------
(* #connect after its awaits.  `connecting' is reset in the same turn.     *)

Settle(i, s) ==
    /\ dial' = [dial EXCEPT ![i].state = s]
    /\ metro' = [metro EXCEPT !.connecting = IF @ = i THEN Nothing ELSE @]

Resolved(i) ==
    /\ Quiet
    /\ dial[i].state = "resolving"
    /\ IF Current(metro, i)
         THEN dial' = [dial EXCEPT ![i].state = "dialing"] /\ UNCHANGED metro
         ELSE Settle(i, "stale")
    /\ UNCHANGED <<call, wire, box, work, targets, changes, closes>>

\* Mutant: a connection that comes late is taken although it is not current.
MutantOpened(i) ==
    /\ Quiet
    /\ dial[i].state = "dialing" /\ dial[i].key \in targets
    /\ dial' = [dial EXCEPT ![i].state = "open"]
    /\ metro' = [metro EXCEPT !.connecting = Nothing, !.session = i, !.selected = dial[i].key]
    /\ UNCHANGED <<call, wire, box, work, targets, changes, closes>>

Opened(i) ==
    /\ Quiet
    /\ dial[i].state = "dialing" /\ dial[i].key \in targets
    /\ IF Current(metro, i)
         THEN /\ dial' = [dial EXCEPT ![i].state = "open"]
              /\ metro' = [metro EXCEPT !.connecting = Nothing, !.session = i,
                                        !.selected = dial[i].key]
         ELSE Settle(i, "stale")
    /\ UNCHANGED <<call, wire, box, work, targets, changes, closes>>

DialFails(i) ==
    /\ Quiet
    /\ dial[i].state = "dialing"
    /\ Settle(i, "failed")
    /\ UNCHANGED <<call, wire, box, work, targets, changes, closes>>

\* The catch of inspect(): an error that is not of a superseded inspection
\* drops whatever connection there is now.
Caught(i, superseded) ==
    /\ Gives(i)
    /\ IF superseded THEN UNCHANGED <<metro, dial>>
       ELSE /\ metro' = [Disconnected(metro) EXCEPT !.reported = "failed"]
            /\ dial' = Hung(metro)

\* A caller of #connect goes on once the promise has settled.
Resume(i) ==
    /\ call[i].pc = "connecting"
    /\ LET x == call[i].dial IN
       \/ /\ dial[x].state \in {"stale", "failed"}
          /\ Caught(i, dial[x].state = "stale" \/ call[i].gen # metro.gen)
          /\ UNCHANGED wire
       \/ /\ dial[x].state \in {"open", "lost", "closed"}
          /\ IF call[i].gen # metro.gen
               THEN Gives(i) /\ UNCHANGED <<metro, dial, wire>>
               ELSE /\ Rest(i, "starting")
                    /\ Evaluate(i, metro)
                    /\ UNCHANGED dial
    /\ UNCHANGED <<box, work, targets, changes, closes>>

----------------------------------------------------------------------------
(* evaluateInspection: dispatch once, poll the mailbox, always clean up.   *)

Cleanup(i, left) ==
    /\ call' = [call EXCEPT ![i].pc = "cleaning", ![i].result = left]
    /\ wire' = [wire EXCEPT ![i] = Append(@, "clean")]

\* The app performs the next evaluation it was sent and answers it.
Perform(i) ==
    /\ Quiet
    /\ wire[i] # <<>> /\ dial[call[i].dial].state = "open"
    /\ LET what == Head(wire[i]) IN
       /\ box' = [box EXCEPT ![i] = CASE what = "kick" -> "pending"
                                      [] what = "clean" -> "none"
                                      [] OTHER -> @]
       /\ work' = IF what = "kick" THEN work \cup {i} ELSE work
       /\ \/ /\ call[i].pc = "starting" /\ what = "kick"        \* in time
             /\ Rest(i, "polling")
             /\ wire' = [wire EXCEPT ![i] = Append(Tail(@), "read")]
          \/ /\ call[i].pc = "polling" /\ what = "read" /\ box[i] \in {"none", "pending"}
             /\ wire' = [wire EXCEPT ![i] = Append(Tail(@), "read")]
             /\ UNCHANGED call
          \/ /\ call[i].pc = "polling" /\ what = "read" /\ box[i] \notin {"none", "pending"}
             /\ call' = [call EXCEPT ![i].pc = "cleaning", ![i].result = box[i]]
             /\ wire' = [wire EXCEPT ![i] = Append(Tail(@), "clean")]
          \/ /\ call[i].pc \notin {"starting", "polling"}       \* nobody waits for it
             /\ wire' = [wire EXCEPT ![i] = Tail(@)]
             /\ UNCHANGED call
    /\ UNCHANGED <<metro, dial, targets, changes, closes>>

\* A deadline passes, or the connection is gone and sending is an error.
EvaluationFails(i) ==
    /\ Quiet
    /\ call[i].pc \in {"starting", "polling"}
    /\ Cleanup(i, "error")
    /\ UNCHANGED <<metro, dial, box, work, targets, changes, closes>>

\* The expression settles in the app; only a mailbox that is still there is filled.
ExpressionSettles(i) ==
    /\ Quiet
    /\ i \in work
    /\ work' = work \ {i}
    /\ \E s \in {"tree", "empty", "error"} :
          box' = [box EXCEPT ![i] = IF @ = "pending" THEN s ELSE @]
    /\ UNCHANGED <<metro, dial, call, wire, targets, changes, closes>>

\* The timer of the mailbox in the app: five seconds, after the four that its
\* inspection polls for.
MailboxExpires(i) ==
    /\ Quiet
    /\ box[i] # "none" /\ call[i].pc \notin {"starting", "polling"}
    /\ box' = [box EXCEPT ![i] = "none"]
    /\ UNCHANGED <<metro, dial, call, wire, work, targets, changes, closes>>

\* The cleanup is answered, refused, or has had its 250 ms.
Cleaned(i) ==
    /\ Quiet
    /\ call[i].pc = "cleaning"
    /\ LET superseded == call[i].gen # metro.gen \/ call[i].dial # metro.session IN
       CASE call[i].result = "error" -> Caught(i, superseded)
         [] call[i].result # "error" /\ superseded ->
                Gives(i) /\ UNCHANGED <<metro, dial>>
         [] call[i].result = "empty" /\ ~superseded ->
                /\ Gives(i)
                /\ metro' = [metro EXCEPT !.reported = "no-root"]
                /\ UNCHANGED dial
         [] call[i].result = "tree" /\ ~superseded ->
                Rest(i, "symbolicating") /\ UNCHANGED <<metro, dial>>
    /\ UNCHANGED <<wire, box, work, targets, changes, closes>>

\* The source locations are in, or Metro did not give them.
Symbolicated(i) ==
    /\ Quiet
    /\ call[i].pc = "symbolicating"
    /\ IF call[i].gen # metro.gen \/ call[i].dial # metro.session
         THEN Gives(i) /\ UNCHANGED metro
         ELSE /\ Rest(i, "answered")
              /\ metro' = [metro EXCEPT !.reported = "none", !.negative = Nothing]
    /\ UNCHANGED <<dial, wire, box, work, targets, changes, closes>>

----------------------------------------------------------------------------
(* Around the inspector.                                                   *)

\* The session closes the inspector: another application, another device, a
\* connection lost or the end.
Close ==
    /\ Quiet
    /\ closes < MaxCloses
    /\ closes' = closes + 1
    /\ metro' = Closed(metro)
    /\ dial' = Hung(metro)
    /\ UNCHANGED <<call, wire, box, work, targets, changes>>

\* An app is started, ends or reloads: connections to targets that are gone break.
TargetsChange ==
    /\ Quiet
    /\ changes < MaxChanges
    /\ changes' = changes + 1
    /\ targets' \in SUBSET Targets
    /\ dial' = [i \in Inspections |->
                  IF dial[i].state = "open" /\ dial[i].key \notin targets'
                  THEN [dial[i] EXCEPT !.state = "lost"] ELSE dial[i]]
    /\ UNCHANGED <<metro, call, wire, box, work, closes>>

MetroNext ==
    \/ \E i \in Inspections :
          \/ \E d \in Devices, a \in Apps : Inspect(i, d, a)
          \/ Scanned(i) \/ Classified(i)
          \/ Resolved(i) \/ Opened(i) \/ DialFails(i) \/ Resume(i)
          \/ Perform(i) \/ EvaluationFails(i) \/ ExpressionSettles(i) \/ MailboxExpires(i)
          \/ Cleaned(i) \/ Symbolicated(i)
    \/ Close \/ TargetsChange

MetroSpec == MetroInit /\ [][MetroNext]_metroVars

----------------------------------------------------------------------------
\* A debugger connection that is up is the one the inspector holds: no
\* connection is forgotten when inspections of several devices and
\* applications, close() and late dials overtake one another.
NoDebuggerForgotten ==
    \A i \in Inspections : dial[i].state = "open" => metro.session = i

\* The tree an inspection answers with was evaluated in a target of its own
\* application that does not carry the identifier of another device, over the
\* connection that was still the inspector's at the end.
TreeIsOfOwnTarget ==
    \A i \in Inspections : call[i].pc \in {"symbolicating", "answered"} =>
        LET t == dial[call[i].dial].key IN
        t.app = call[i].app /\ t.logical \in {call[i].device, Opaque, Nothing}

=============================================================================
