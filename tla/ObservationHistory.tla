------------------------ MODULE ObservationHistory ------------------------
(***************************************************************************)
(* What observe says of the screen relative to an observation the caller    *)
(* names (packages/mcp/src/server.ts, observe; semantic-state.ts;           *)
(* packages/contracts/src/accessibility.ts, stableAccessibilityEntries).    *)
(* The few latest observations are kept as indexes from an identity that    *)
(* survives a new capture to a hash of what is compared.  Two callers       *)
(* observe while the screen, the device and the connection change.          *)
(*                                                                         *)
(* A screen is a set of nodes, each with its path in the hierarchy, which   *)
(* is its ref, too, within one capture.  Strings are small numbers, 0 for   *)
(* none; val stands for the state of a node that is compared: its value,    *)
(* flags, actions and frame.  A hash is what it is the hash of.             *)
(***************************************************************************)
EXTENDS Integers, Sequences, FiniteSets

CONSTANTS
    Screens,            \* sets of nodes [path, id, role, name, val]
    Callers,
    HistoryLimit,       \* 8 in the code
    MaxObservations, MaxViews

VARIABLES
    view,       \* the session: its generation, what the device shows, the last capture
    history,    \* the observations kept, oldest first
    observer,   \* a caller's observation on its way
    named,      \* the screens of all observations, by their number (history variable)
    told        \* the last answer

historyVars == <<view, history, observer, named, told>>

HistoryAssumption ==
    /\ \A s \in Screens :
          /\ s # {} /\ IsFiniteSet(s)
          /\ s \subseteq [path : Seq(Nat), id : Nat, role : Nat, name : Nat, val : Nat]
          /\ \A n, m \in s : n.path = m.path => n = m
    /\ HistoryLimit \in Nat \ {0} /\ MaxObservations \in Nat /\ MaxViews \in Nat

Idle == [stage |-> "idle", since |-> 0, screen |-> {}]
NoDelta == [status |-> "unavailable", since |-> 0, screen |-> {}, added |-> {}, removed |-> {},
            changed |-> {}]

HistoryTypeOK ==
    /\ view.session \in 0..MaxViews /\ view.shows \in Screens /\ view.last \in Screens \cup {{}}
    /\ Len(history) <= HistoryLimit
    /\ named \in Seq(Screens) /\ Len(named) <= MaxObservations
    /\ \A c \in Callers : observer[c].stage \in {"idle", "prepare"}
    /\ told.status \in {"unavailable", "full", "unchanged", "delta"}

HistoryInit ==
    /\ view \in [session : {0}, steps : {0}, shows : Screens, last : {{}}]
    /\ history = <<>> /\ named = <<>> /\ told = NoDelta
    /\ observer = [c \in Callers |-> Idle]

----------------------------------------------------------------------------
\* Mutant: an identifier is taken for unique.
MutantKey(n, screen) ==
    IF n.id # 0 THEN <<"identifier", n.id, n.role>> ELSE <<"position", n.path, n.role, n.name>>

\* The identity of a node: its identifier with its role where only one node has
\* them, else its place with its role and name.
StableKey(n, screen) ==
    IF n.id # 0 /\ \A m \in screen : m.id = n.id /\ m.role = n.role => m = n
    THEN <<"identifier", n.id, n.role>> ELSE <<"position", n.path, n.role, n.name>>

\* indexSemanticSnapshot: a map, so that of two nodes of one key one is left.
Indexed(screen) ==
    [k \in {StableKey(n, screen) : n \in screen} |->
        LET n == CHOOSE n \in screen : StableKey(n, screen) = k
        IN  [ref |-> n.path, hash |-> <<n.path, n.role, n.name, n.val, n.id>>]]

\* semanticObservationHash: the keys with the hashes, without the refs.
Hash(index) == [k \in DOMAIN index |-> index[k].hash]

\* semanticSnapshotDelta: the refs of what came, went and changed.
Delta(old, new) ==
    LET kept == DOMAIN old \cap DOMAIN new
    IN  [added |-> {new[k].ref : k \in DOMAIN new \ kept},
         removed |-> {old[k].ref : k \in DOMAIN old \ kept},
         changed |-> {new[k].ref : k \in {k \in kept : new[k].hash # old[k].hash}}]

----------------------------------------------------------------------------
\* The screen changes; another session, that is another device or connection,
\* forgets the last capture.  A device that is selected again is the same one.
ScreenChanges ==
    /\ view.steps < MaxViews
    /\ \E s \in Screens : \E session \in 0..MaxViews :
          view' = [session |-> session, steps |-> view.steps + 1, shows |-> s,
                   last |-> IF session # view.session THEN {} ELSE view.last]
    /\ UNCHANGED <<history, observer, named, told>>

\* The tree is captured; where that fails the last capture serves.
Capture(c) ==
    /\ observer[c].stage = "idle" /\ Len(named) < MaxObservations
    /\ \E since \in 0..Len(named) : \E s \in {view.shows, view.last} \ {{}} :
          /\ observer' = [observer EXCEPT ![c] = [stage |-> "prepare", since |-> since, screen |-> s]]
          /\ view' = [view EXCEPT !.last = s]
    /\ UNCHANGED <<history, named, told>>

\* The projection could not be prepared, or nothing was captured: no semantic
\* state, and the observation is not kept.
Uncaptured(c) ==
    /\ observer[c].stage = "prepare" \/ view.last = {}
    /\ told' = [NoDelta EXCEPT !.since = observer[c].since]
    /\ observer' = [observer EXCEPT ![c] = Idle]
    /\ UNCHANGED <<view, history, named>>

\* Compared with the observation the caller names, if that is still kept and of
\* the session there is now, and kept in its turn.
Compare(c) ==
    LET o == observer[c]
        index == Indexed(o.screen)
        previous == {k \in DOMAIN history :
                        history[k].number = o.since /\ history[k].session = view.session}
        status(k) == IF Hash(history[k].index) = Hash(index) THEN "unchanged" ELSE "delta"
        kept == Append(history, [number |-> Len(named) + 1, session |-> view.session, index |-> index])
    IN  /\ o.stage = "prepare" /\ Len(named) < MaxObservations
        /\ \/ /\ previous = {}
              /\ told' = [NoDelta EXCEPT !.status = "full", !.since = o.since, !.screen = o.screen]
           \/ \E k \in previous :
                LET delta == Delta(history[k].index, index) IN
                told' = [status |-> status(k), since |-> o.since, screen |-> o.screen,
                         added |-> delta.added, removed |-> delta.removed, changed |-> delta.changed]
        /\ history' = IF Len(kept) > HistoryLimit THEN Tail(kept) ELSE kept
        /\ named' = Append(named, o.screen)
        /\ observer' = [observer EXCEPT ![c] = Idle]
        /\ UNCHANGED view

HistoryNext == ScreenChanges \/ \E c \in Callers : Capture(c) \/ Uncaptured(c) \/ Compare(c)

HistorySpec == HistoryInit /\ [][HistoryNext]_historyVars

----------------------------------------------------------------------------
\* "Unchanged" means the screen of the observation that was named, and a delta
\* leaves nothing out: a node it does not name was there as it is, what is gone
\* was removed or changed, and the numbers add up.
DeltaIsComplete ==
    LET old == named[told.since]
        mentioned == told.added \cup told.changed
    IN  /\ told.status = "unchanged" => told.screen = old
        /\ told.status = "delta" =>
              /\ mentioned \cup told.removed # {}
              /\ \A n \in told.screen : n.path \notin mentioned => n \in old
              /\ \A n \in old \ told.screen : n.path \in told.removed \/ told.changed # {}
              /\ Cardinality(told.screen)
                    = Cardinality(old) - Cardinality(told.removed) + Cardinality(told.added)
=============================================================================
