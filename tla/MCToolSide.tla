----------------------------- MODULE MCToolSide -----------------------------
(* TLC instance of what a tool call goes through on its way to the core: the  *)
(* daemon its adapter attached to (McpDaemon), the debugger of the app under  *)
(* review (MetroInspector) and the projection evaluated there (FiberTree),    *)
(* batches of actions (ActionBatch), what a query means and the point an      *)
(* element is tapped at (NativeTarget), the pages of the device list          *)
(* (DeviceInventory) and what an observation says relative to an earlier one  *)
(* (ObservationHistory).  A behaviour is one of these, whichever part is      *)
(* chosen at the start; the variables of the others stay as they are.         *)
(* All of them are extended, so that what their theorems state is what is     *)
(* checked here.                                                              *)
EXTENDS McpDaemon, MetroInspector, FiberTree, ActionBatch, NativeTarget, DeviceInventory,
    ObservationHistory, TLC

CONSTANTS
    d1, d2, app1        \* two devices and an application

VARIABLE part           \* the component a behaviour is one of

----------------------------------------------------------------------------
\* A target whose app names its device, and one whose connection hash is opaque.
MetroTargets ==
    {[logical |-> d1, name |-> Nothing, app |-> app1],
     [logical |-> Opaque, name |-> d2, app |-> app1]}

\* Forests of two roots and two further fibers: the second fiber below the
\* first or below a root, weights -1 (nothing of use) to 1, without a focused
\* route, with an inactive scene and with a focused leaf, under tight budgets;
\* no tab, and a tab that is measured in no way or through what is under it.
Scenes == {[scene |-> {}, focused |-> {}, leaf |-> {}, known |-> FALSE],
           [scene |-> {4}, focused |-> {}, leaf |-> {}, known |-> TRUE],
           [scene |-> {3, 4}, focused |-> {3}, leaf |-> {3}, known |-> TRUE]}

Measurements == {[tabs |-> {}, measured |-> {}],
                 [tabs |-> {3}, measured |-> {1, 2}], [tabs |-> {3}, measured |-> {4}]}

Forests ==
    {[parent |-> p, weight |-> <<0, w2, w3, w4>>, scene |-> s.scene, focused |-> s.focused,
      leaf |-> s.leaf, known |-> s.known, tabs |-> m.tabs, measured |-> m.measured,
      visitLimit |-> l[1], outputLimit |-> l[2]] :
        p \in {<<0, 0, x, y>> : x \in {1, 2}, y \in {1, 3}},
        w2 \in {0, 1}, w3 \in -1..1, w4 \in -1..1,
        s \in Scenes, m \in Measurements, l \in {<<3, 9>>, <<9, 1>>, <<9, 2>>, <<9, 9>>}}

----------------------------------------------------------------------------
\* Calls of perform_actions, tap_element and the standalone text tools.
Action(kind, ref, verify) == [kind |-> kind, ref |-> ref, verify |-> verify]

ActionLists ==
    {<<Action("raw", 0, FALSE), Action("key", 0, FALSE)>>,
     <<Action("tap", 1, TRUE), Action("rotate", 0, FALSE)>>,
     <<Action("wait", 0, FALSE), Action("tap", 1, TRUE)>>,
     <<Action("raw", 0, FALSE), Action("wait", 0, FALSE)>>,
     <<Action("clear", 0, FALSE), Action("replace", 0, FALSE)>>,
     <<Action("clear", 0, FALSE), Action("raw", 0, FALSE)>>,
     <<Action("replace", 0, FALSE)>>,
     <<Action("tap", 1, FALSE), Action("clear", 1, FALSE)>>}

ToolCalls ==
    [tool : {"perform_actions"}, actions : ActionLists, observe : {"none", "semantic", "visual"},
     keys : BOOLEAN]
    \cup [tool : {"tap_element"}, actions : {<<Action("tap", 0, v)>> : v \in BOOLEAN},
          observe : {"none", "semantic"}, keys : {TRUE}]
    \cup [tool : {"standalone"}, actions : {<<Action(k, 0, FALSE)>> : k \in {"clear", "replace"}},
          observe : {"none"}, keys : BOOLEAN]

----------------------------------------------------------------------------
\* Native trees of one or two elements: named, nameless, without an action, of
\* another role or identifier, nested, overlapping, off the screen, unusable.
Node(i, r, n, acts, lo, hi, parent) ==
    [id |-> i, role |-> r, name |-> n, acts |-> acts, usable |-> TRUE, lo |-> lo, hi |-> hi,
     parent |-> parent]

NativeTrees ==
    {<<Node(0, 2, 1, TRUE, 1, 1, 0), Node(0, 2, 1, TRUE, 3, 3, 0)>>,
     <<Node(0, 4, 1, FALSE, 1, 1, 0)>>,
     <<Node(0, 2, 1, TRUE, 1, 1, 0)>>,
     <<Node(0, 2, 1, TRUE, 1, 1, 0), Node(0, 2, 2, TRUE, 2, 2, 0)>>,
     <<Node(0, 2, 2, TRUE, 1, 1, 0), Node(0, 2, 1, TRUE, 2, 2, 0)>>,
     <<Node(1, 2, 2, TRUE, 1, 1, 0), Node(0, 2, 2, TRUE, 2, 2, 0)>>,
     <<Node(1, 2, 1, TRUE, 1, 1, 0), Node(1, 2, 2, TRUE, 2, 2, 0)>>,
     <<Node(0, 2, 1, TRUE, 1, 3, 0), Node(0, 1, 3, TRUE, 2, 2, 1)>>,
     <<Node(0, 1, 1, FALSE, 1, 1, 0), Node(2, 3, 1, TRUE, 2, 2, 0)>>,
     <<Node(0, 1, 1, TRUE, 1, 1, 0), Node(0, 0, 0, TRUE, 1, 1, 0)>>,
     <<[Node(1, 2, 1, TRUE, 1, 1, 0) EXCEPT !.usable = FALSE], Node(0, 2, 2, TRUE, 4, 6, 0)>>,
     <<Node(1, 2, 3, TRUE, 2, 1, 0), Node(0, 2, 0, TRUE, 1, 1, 0)>>}

Projections ==
    {<<Node(1, 2, 1, TRUE, 1, 1, 0)>>,
     <<Node(0, 3, 1, TRUE, 1, 1, 0), Node(0, 2, 2, TRUE, 2, 2, 0)>>,
     <<Node(3, 1, 2, TRUE, 2, 2, 0)>>}

Selector(ref, i, r, n, index) ==
    [query |-> <<>>, ref |-> ref, rn |-> FALSE, id |-> i, role |-> r, name |-> n, index |-> index]

LongerNames == {<<3, 1>>}

\* One word that other texts begin with or contain, words in another order, and
\* words of two fields.
Queries == {<<"sav", "e">>, <<"all">>, <<"all", " ", "sav", "e">>, <<"button", " ", "all">>}

Words == [id |-> <<<<"sav", "e">>, <<"all">>, <<"other">>>>,
          role |-> <<<<"view">>, <<"button">>, <<"cell">>, <<"unknown">>>>,
          name |-> <<<<"sav", "e">>, <<"sav", "e", "d">>, <<"sav", "e", " ", "all">>>>]

Asked ==
    {[Selector(0, 0, 0, 0, -1) EXCEPT !.query = q] : q \in Queries} \cup
    {[Selector(1, 0, 0, 0, -1) EXCEPT !.rn = TRUE], Selector(1, 0, 0, 0, -1),
     Selector(2, 0, 0, 0, -1), Selector(0, 1, 0, 0, -1), Selector(0, 0, 0, 1, -1),
     Selector(0, 0, 2, 0, 0), Selector(0, 0, 2, 0, 1), Selector(0, 0, 2, 0, -1)}

\* Screens of up to three nodes: a row whose value changes, or that moves, with
\* an identifier of its own or a shared one, and a nameless neighbour.
Row(path, id, name, val) == [path |-> path, id |-> id, role |-> 1, name |-> name, val |-> val]

ObservedScreens ==
    {{Row(<<1>>, 1, 1, 1)}, {Row(<<1>>, 1, 1, 2), Row(<<2>>, 0, 2, 1)},
     {Row(<<1>>, 0, 2, 1), Row(<<2>>, 1, 1, 1)}, {Row(<<1>>, 1, 1, 1), Row(<<2>>, 1, 1, 1)},
     {Row(<<1>>, 1, 1, 1), Row(<<2>>, 1, 1, 1), Row(<<3>>, 1, 2, 1)},
     {Row(<<1>>, 0, 2, 1), Row(<<1, 1>>, 0, 0, 1)}}

ASSUME /\ McpAssumption /\ MetroAssumption /\ FiberAssumption /\ BatchAssumption
       /\ TargetAssumption /\ InventoryAssumption /\ HistoryAssumption

----------------------------------------------------------------------------
\* The inputs of a part vary only in behaviours of that part.
OnlyIn(p, inputs) == IF part = p THEN inputs ELSE {CHOOSE x \in inputs : TRUE}

ToolInit ==
    /\ part \in {"daemon", "metro", "fiber", "batch", "target", "inventory", "history"}
    /\ fibers \in OnlyIn("fiber", Forests)
    /\ batch \in OnlyIn("batch", ToolCalls)
    /\ field \in OnlyIn("batch", {Empty, [old |-> TRUE, copies |-> 0]})
    /\ selector \in OnlyIn("target", Asked)
    /\ platform \in OnlyIn("target", {"ios", "android"})
    /\ native \in OnlyIn("target", NativeTrees \cup {<<>>})
    /\ fiber \in OnlyIn("target", Projections \cup {<<>>})
    /\ targets \in OnlyIn("metro", {MetroTargets})
    /\ inventory \in OnlyIn("inventory", SUBSET (1..DeviceCount))
    /\ view \in OnlyIn("history", [session : {0}, steps : {0}, shows : ObservedScreens, last : {{}}])
    /\ DaemonInit /\ MetroInit /\ FiberInit /\ BatchInit
    /\ TargetInit /\ InventoryInit /\ HistoryInit

AdapterStep ==
    /\ part = "daemon" /\ DaemonNext
    /\ UNCHANGED <<part, metroVars, fiberVars, batchVars, targetVars, inventoryVars, historyVars>>
MetroStep ==
    /\ part = "metro" /\ MetroNext
    /\ UNCHANGED <<part, daemonVars, fiberVars, batchVars, targetVars, inventoryVars, historyVars>>
FiberStep ==
    /\ part = "fiber" /\ FiberNext
    /\ UNCHANGED <<part, daemonVars, metroVars, batchVars, targetVars, inventoryVars, historyVars>>
BatchStep ==
    /\ part = "batch" /\ BatchNext
    /\ UNCHANGED <<part, daemonVars, metroVars, fiberVars, targetVars, inventoryVars, historyVars>>
TargetStep ==
    /\ part = "target" /\ TargetNext
    /\ UNCHANGED <<part, daemonVars, metroVars, fiberVars, batchVars, inventoryVars, historyVars>>
InventoryStep ==
    /\ part = "inventory" /\ InventoryNext
    /\ UNCHANGED <<part, daemonVars, metroVars, fiberVars, batchVars, targetVars, historyVars>>

HistoryStep ==
    /\ part = "history" /\ HistoryNext
    /\ UNCHANGED <<part, daemonVars, metroVars, fiberVars, batchVars, targetVars, inventoryVars>>

ToolNext == AdapterStep \/ MetroStep \/ FiberStep \/ BatchStep \/ TargetStep \/ InventoryStep
    \/ HistoryStep

ToolSpec ==
    ToolInit /\ [][ToolNext]_<<part, daemonVars, metroVars, fiberVars, batchVars, targetVars,
                               inventoryVars, historyVars>>

\* No part distinguishes one inspection, or one connection, from the other.
Symmetry == Permutations(Inspections) \cup Permutations(Connections)

----------------------------------------------------------------------------
\* Every variable of the module a behaviour is of holds a value of its kind; the
\* variables of the others stay as they were.
ToolTypeOK ==
    CASE part = "daemon" -> DaemonTypeOK
      [] part = "metro" -> MetroTypeOK
      [] part = "fiber" -> FiberTypeOK
      [] part = "batch" -> BatchTypeOK
      [] part = "target" -> TargetTypeOK
      [] part = "inventory" -> InventoryTypeOK
      [] part = "history" -> HistoryTypeOK

=============================================================================
