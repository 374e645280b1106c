----------------------------- MODULE FiberTree -----------------------------
(***************************************************************************)
(* The projection of React Native's fibers that fiberInspectionExpression  *)
(* (packages/mcp/src/metro.ts) computes inside the app: a breadth-first    *)
(* scan that goes round the renderer roots within a visit budget, a choice *)
(* of nodes within an output budget, and a tree of the chosen nodes.       *)
(*                                                                         *)
(* An input is a forest with what the expression reads of each fiber; the  *)
(* loops of the expression are actions, one iteration each.                *)
(***************************************************************************)
EXTENDS Integers, Sequences, FiniteSetsExt, Lists

CONSTANTS
    Size, Roots,        \* fibers 1..Size; those up to Roots are the roots
    MaxPriority,        \* bound: the weight of handlers, labels, ids and roles
    FiberInputs         \* the inputs to be tried

Fiber == 1..Size
Root == 1..Roots

\* parent: of each fiber (0 for a root).  weight: -1 when the fiber is of no
\* use, 0 when it only gives context, its priority otherwise.  scene: the
\* fibers that are a SceneView of a route.  focused: those of them on the
\* focused path (known: whether there is one).  leaf: those of the innermost
\* focused route.  tabs: fibers
\* with a label like "Home, tab, 1 of 4".  measured: the host fibers of which
\* measure would get a rectangle (others are not measured, or in vain).
\* visitLimit, outputLimit: VISIT_LIMIT and MAX_NODES.
\* What is assumed of the constants; the TLC module asserts it.
FiberAssumption ==
    /\ Size \in Nat /\ Roots \in 1..Size /\ MaxPriority \in Nat
    /\ \A f \in FiberInputs :
        /\ f.parent \in [Fiber -> 0..Size] /\ f.weight \in [Fiber -> -1..MaxPriority]
        /\ f.leaf \subseteq f.focused /\ f.focused \subseteq f.scene /\ f.scene \subseteq Fiber
        /\ f.known \in BOOLEAN /\ (f.focused # {} => f.known)
        /\ f.tabs \subseteq Fiber /\ f.measured \subseteq Fiber /\ f.visitLimit \in Nat \ {0} /\ f.outputLimit \in Nat
        /\ \A i \in Fiber : IF i \in Root THEN f.parent[i] = 0 ELSE f.parent[i] \in 1..(i - 1)

VARIABLES
    fibers,             \* the input
    queues, turn,       \* one queue for each root, and the root whose turn it is
    visits,             \* root -> fibers visited
    entries,            \* useful fibers in the order of the scan
    taken,              \* chosen entries
    pass

fiberVars == <<fibers, queues, turn, visits, entries, taken, pass>>

Ancestors[i \in Fiber] ==
    IF fibers.parent[i] = 0 THEN {} ELSE {fibers.parent[i]} \cup Ancestors[fibers.parent[i]]

RootOf(i) == CHOOSE r \in Root : r = i \/ r \in Ancestors[i]

\* navState found the state of some navigator.
FocusKnown == fibers.known

\* The path of focused routes, from the outermost navigator inwards.
OnFocusedPath(i) == i \in fibers.focused

\* inactiveScene: a scene off the focused path, unless it is inside the scene
\* of the innermost route that is known (whose nested state may be unknown).
Inactive(i) ==
    /\ FocusKnown /\ i \in fibers.scene /\ ~OnFocusedPath(i)
    /\ Ancestors[i] \cap fibers.leaf = {}

\* describe and priorityOf: what a fiber is worth to the reader of the tree.
Useful(i) == fibers.weight[i] >= 0
Semantic(i) == fibers.weight[i] > 0

Children(i) == Filter([k \in Fiber |-> k], {k \in Fiber : fibers.parent[k] = i})

FiberTypeOK ==
    /\ queues \in [Root -> Seq(Fiber)] /\ turn \in Root /\ visits \in [Root -> Nat]
    /\ entries \in Seq(Fiber) /\ taken \in Seq(Fiber)
    /\ pass \in {"scan", "semantic", "context", "done"}

FiberInit ==
    /\ fibers \in FiberInputs
    /\ queues = [r \in Root |-> <<r>>] /\ turn = 1
    /\ visits = [r \in Root |-> 0]
    /\ entries = <<>> /\ taken = <<>>
    /\ pass = "scan"

NextTurn == turn' = (turn % Roots) + 1

Visited == MapThenSumSet(LAMBDA r : visits[r], Root)

----------------------------------------------------------------------------
More == Visited < fibers.visitLimit /\ \E r \in Root : queues[r] # <<>>

\* Mutant: a root is scanned to its end before the next.
MutantVisit ==
    /\ pass = "scan" /\ More
    /\ IF queues[turn] = <<>> THEN NextTurn /\ UNCHANGED <<queues, visits, entries>>
       ELSE LET i == Head(queues[turn]) IN
            /\ visits' = [visits EXCEPT ![turn] = @ + 1]
            /\ queues' = [queues EXCEPT ![turn] =
                             Tail(@) \o (IF Inactive(i) THEN <<>> ELSE Children(i))]
            /\ entries' = IF Inactive(i) \/ ~Useful(i) THEN entries ELSE Append(entries, i)
            /\ UNCHANGED turn
    /\ UNCHANGED <<fibers, taken, pass>>

\* One turn of the scan: the next fiber of this root, its entry, its children.
Visit ==
    /\ pass = "scan" /\ More
    /\ NextTurn
    /\ IF queues[turn] = <<>> THEN UNCHANGED <<queues, visits, entries>>
       ELSE LET i == Head(queues[turn]) IN
            /\ visits' = [visits EXCEPT ![turn] = @ + 1]
            /\ queues' = [queues EXCEPT ![turn] =
                             Tail(@) \o (IF Inactive(i) THEN <<>> ELSE Children(i))]
            /\ entries' = IF Inactive(i) \/ ~Useful(i) THEN entries ELSE Append(entries, i)
    /\ UNCHANGED <<fibers, taken, pass>>

ScanEnds ==
    /\ pass = "scan" /\ ~More
    /\ pass' = "semantic" /\ turn' = 1
    /\ UNCHANGED <<fibers, queues, visits, entries, taken>>

Items(s) == {s[k] : k \in DOMAIN s}
Order(i) == CHOOSE k \in DOMAIN entries : entries[k] = i

\* The entries takeFair may still choose from.
Pool == {i \in Items(entries) \ Items(taken) : pass = "semantic" => Semantic(i)}

\* What a root offers next: the highest priority, the earliest of equals.
Best(r) == CHOOSE i \in {p \in Pool : RootOf(p) = r} :
    \A j \in {p \in Pool : RootOf(p) = r} :
        \/ fibers.weight[j] < fibers.weight[i]
        \/ fibers.weight[j] = fibers.weight[i] /\ Order(i) <= Order(j)

Choosing == Len(taken) < fibers.outputLimit /\ Pool # {}

\* One turn of takeFair.
Take ==
    /\ pass \in {"semantic", "context"} /\ Choosing
    /\ NextTurn
    /\ taken' = IF \E p \in Pool : RootOf(p) = turn THEN Append(taken, Best(turn)) ELSE taken
    /\ UNCHANGED <<fibers, queues, visits, entries, pass>>

TakeEnds ==
    /\ pass \in {"semantic", "context"} /\ ~Choosing
    /\ pass' = IF pass = "semantic" THEN "context" ELSE "done"
    /\ turn' = 1
    /\ UNCHANGED <<fibers, queues, visits, entries, taken>>

FiberNext == Visit \/ ScanEnds \/ Take \/ TakeEnds

FiberSpec == FiberInit /\ [][FiberNext]_fiberVars

----------------------------------------------------------------------------
(* The tree that is returned.                                              *)

Selected == Items(taken)

\* The node a node is put under: its nearest selected ancestor, 0 at the top.
ParentNode(i) ==
    LET above == Ancestors[i] \cap Selected IN
    IF above = {} THEN 0 ELSE CHOOSE a \in above : \A b \in above : b <= a

\* union: a node without a rectangle of its own has that of its descendants.
HasFrame(i) ==
    i \in fibers.measured \/ \E j \in Selected \cap fibers.measured : i \in Ancestors[j]

\* pruneUnmeasuredNavigation drops a tab without a frame, and all under it.
Pruned(i) == i \in fibers.tabs /\ ~HasFrame(i)
Shown == {i \in Selected : ~Pruned(i) /\ \A a \in Ancestors[i] \cap Selected : ~Pruned(a)}

NodeCount == Cardinality(Shown) + 1

VisitTruncated == \E r \in Root : queues[r] # <<>>
OutputTruncated == Len(taken) < Len(entries)

Truncated == VisitTruncated \/ OutputTruncated

----------------------------------------------------------------------------
\* A deep first root starves no other: neither of visits nor of nodes, and
\* nothing that only gives context takes the place of something that can be
\* acted upon.
RootsShareBudgets ==
    LET got(r) == Cardinality({i \in Selected : Semantic(i) /\ RootOf(i) = r})
        left(r) == \E i \in Items(entries) \ Selected : Semantic(i) /\ RootOf(i) = r
    IN  /\ \A r, s \in Root : queues[r] # <<>> => visits[s] <= visits[r] + 1
        /\ pass = "done" => \A r, s \in Root : left(r) =>
              got(s) <= got(r) + 1 /\ \A i \in Selected : Semantic(i)

\* A result that does not say it is truncated has chosen every useful fiber of
\* an active scene.  Of what was chosen, pruning takes away tabs nothing of
\* which was measured and what is under them, which was not measured either (and
\* of which the result says nothing); and no result exceeds its budget.
OnlyUnmeasuredTabsMissing == pass = "done" =>
    /\ NodeCount <= fibers.outputLimit + 1
    /\ \A i \in Selected \ Shown :
          ~HasFrame(i) /\ \E t \in ({i} \cup Ancestors[i]) \cap Selected : Pruned(t)
    /\ ~Truncated => \A i \in Fiber :
          \/ i \in Selected \/ ~Useful(i)
          \/ Inactive(i) \/ \E a \in Ancestors[i] : Inactive(a)

\* Both, whatever the forest, the budgets and the focused route.
ProjectionIsFair == RootsShareBudgets /\ OnlyUnmeasuredTabsMissing
=============================================================================
