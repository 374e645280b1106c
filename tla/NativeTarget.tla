---------------------------- MODULE NativeTarget ----------------------------
(***************************************************************************)
(* How a selector becomes a point to tap (packages/mcp/src/session.ts,      *)
(* resolveNativeTap): a query is resolved to an element (ElementSearch), an *)
(* element is discovered in what the session knows,                         *)
(* its semantic fingerprint is looked for in a fresh native tree, and the   *)
(* point is tested against what is there by then.  The screen may change    *)
(* between any two of these steps.                                          *)
(*                                                                         *)
(* A tree is a sequence of nodes in preorder.  Strings are small numbers,   *)
(* 0 for none.  Geometry is one-dimensional: a node covers the cells        *)
(* lo..hi of a row of which OnScreen are visible, and its centre is the     *)
(* middle cell.                                                             *)
(***************************************************************************)
EXTENDS ElementSearch, Lists

CONSTANTS
    Trees,              \* native trees that may be captured
    FiberTrees,         \* projections that may be cached
    Selectors,          \* records [query, ref, rn, id, role, name, index]: rn a ref
                        \* of the projection ("rn:"), index -1 none; with a query,
                        \* the rest is empty
    Longer,             \* pairs <<n, m>>: name n is m followed by a separator
    Platforms           \* of {"ios", "android"}

Generic == 1            \* the role of an element without a specific one
Unknown == 4            \* the role XCTest gives where it knows none

Nodes == [id : Nat, role : Nat, name : Nat, acts : BOOLEAN, usable : BOOLEAN,
          lo : Int, hi : Int, parent : Nat]

\* What is assumed of the constants; the TLC module asserts it.
TargetAssumption ==
    /\ \A t \in Trees \cup FiberTrees : t \in Seq(Nodes) /\
          \A i \in DOMAIN t : t[i].parent < i
    /\ \A s \in Selectors :
          /\ s \in [query : {s.query}, ref : Nat, rn : BOOLEAN, id : Nat, role : Nat, name : Nat,
                    index : Int]
          /\ s.query # <<>> =>
                s.ref = 0 /\ ~s.rn /\ s.id = 0 /\ s.role = 0 /\ s.name = 0 /\ s.index = -1
          /\ Len(s.query) \in Nat
    /\ \A t \in Trees \cup FiberTrees : \A i \in DOMAIN t : \A f \in Fields :
          t[i][f] \in {0} \cup DOMAIN Texts[f]
    /\ SearchLimit \in Nat \ {0}
    /\ Platforms \subseteq {"ios", "android"}

VARIABLES
    selector, platform, native, fiber,  \* the request and the session's caches
    fresh,                              \* the settled tree
    found,                              \* what was discovered, and where
    phase, result

targetVars == <<selector, platform, native, fiber, fresh, found, phase, result>>

Nowhere == [from |-> "none", tree |-> <<>>, node |-> 0]
Pending == [code |-> "pending", node |-> 0, point |-> 0, hit |-> 0, listed |-> 0, excluded |-> 0]

TargetTypeOK ==
    /\ phase \in {"search", "rank", "discover", "settle", "hit", "done"}
    /\ found.from \in {"none", "native", "fiber", "fresh"}
    /\ found.node \in 0..Len(found.tree)
    /\ result.node \in 0..Len(fresh)
    /\ result.code \in {"pending", "ready", "stale_ref", "ambiguous_target", "unstable_snapshot",
                        "target_not_found", "native_target_unconfirmed", "target_disabled",
                        "target_offscreen", "hit_target_mismatch", "failed"}

TargetInit ==
    /\ selector \in Selectors /\ platform \in Platforms
    /\ native \in Trees \cup {<<>>} /\ fiber \in FiberTrees \cup {<<>>}
    /\ fresh = <<>> /\ found = Nowhere /\ result = Pending
    /\ phase = IF selector.query = <<>> THEN "discover" ELSE "search"

----------------------------------------------------------------------------
(* Matching.                                                               *)

\* matchesAccessibleName: equal, or the expected name and a separator.
NameMatches(actual, expected) == actual = expected \/ <<actual, expected>> \in Longer

\* matchingElements, in tree order; refs are the places of the tree's nodes.
Matching(t, s) ==
    Filter([i \in DOMAIN t |-> i],
        {i \in DOMAIN t :
            /\ s.ref # 0 => i = s.ref
            /\ s.id # 0 => t[i].id = s.id
            /\ s.role # 0 => t[i].role = s.role
            /\ s.name # 0 => t[i].name # 0 /\ NameMatches(t[i].name, s.name)})

\* Those an index leaves of them.
Chosen(m, s) == IF s.index = -1 THEN m
                ELSE IF s.index + 1 \in DOMAIN m THEN <<m[s.index + 1]>> ELSE <<>>

\* matchesFingerprint: node against the fingerprint of f.
Fits(node, f) ==
    /\ f.id # 0 => node.id = f.id
    /\ f.role # 0 => node.role = f.role
    /\ f.name # 0 => node.name # 0 /\ NameMatches(node.name, f.name)

\* Two specific roles that differ.
Contradicts(actual, expected) ==
    actual \notin {0, Generic} /\ expected \notin {0, Generic} /\ actual # expected

\* Mutant: the first of several is good enough.
MutantCorroborated(t, f) ==
    LET all == {i \in DOMAIN t : t[i].acts /\ f.name # 0 /\ t[i].name # 0
                                 /\ NameMatches(t[i].name, f.name)}
    IN  IF all = {} THEN {} ELSE {CHOOSE i \in all : \A j \in all : i <= j}

\* corroborateFiberTarget: by identifier, else by name where no role contradicts.
Corroborated(t, f) ==
    LET byId == {i \in DOMAIN t : t[i].acts /\ f.id # 0 /\ t[i].id = f.id}
    IN  IF byId # {} THEN byId
        ELSE {i \in DOMAIN t :
                /\ f.name # 0 /\ t[i].acts /\ t[i].name # 0 /\ NameMatches(t[i].name, f.name)
                /\ ~Contradicts(t[i].role, f.role)}

Sole(m) == CHOOSE i \in m : TRUE

Middle(n) == (n.lo + n.hi) \div 2

----------------------------------------------------------------------------
(* Hits.                                                                   *)

Depth(t) == LET d[i \in DOMAIN t] == IF t[i].parent = 0 THEN 0 ELSE d[t[i].parent] + 1 IN d

Covering(t, p) == {i \in DOMAIN t : t[i].usable /\ t[i].lo <= p /\ p <= t[i].hi}

\* resolveAndroidSnapshotHit: the deepest actionable node at the point, if one.
DeepestActionable(t, p) ==
    LET c == {i \in Covering(t, p) : t[i].acts}
    IN  {i \in c : \A j \in c : Depth(t)[j] <= Depth(t)[i]}

\* accessibility.elementAtPoint: the provider's deepest node there, acting or
\* not, of the tree the device has now.
ProviderHits(t, p) ==
    {i \in Covering(t, p) : \A j \in Covering(t, p) : Depth(t)[j] <= Depth(t)[i]}

\* corroboratesNativeActivation: the provider's hit has a press action and is
\* the target but for its role.
Activates(n, hit) == /\ hit.acts /\ (n.id # 0 \/ n.name # 0)
                     /\ Fits(hit, [n EXCEPT !.role = 0])
                     /\ hit.lo = n.lo /\ hit.hi = n.hi

----------------------------------------------------------------------------
Reject(code) == phase' = "done" /\ result' = [Pending EXCEPT !.code = code]

\* A search looks at the trees the session has, captured anew if there are none
\* or if more was observed since (semanticTargetSnapshots).
Snapshots ==
    /\ phase = "search"
    /\ \/ Reject("failed") /\ UNCHANGED <<native, fiber>>
       \/ /\ <<native, fiber>> # <<<<>>, <<>>>> /\ UNCHANGED <<native, fiber>>
          /\ phase' = "rank" /\ UNCHANGED result
       \/ /\ native' \in Trees /\ fiber' \in FiberTrees \cup {<<>>}
          /\ phase' = "rank" /\ UNCHANGED result
    /\ UNCHANGED <<selector, platform, fresh, found>>

\* tapElement with a query.  The selector is then the ref of the match, and
\* nothing else is remembered of it.
Query ==
    /\ phase = "rank"
    /\ LET answer == SearchElements(native, fiber, selector.query)
           winner == Meant(answer)
       IN  \/ /\ winner = {}
              /\ phase' = "done"
              /\ result' = [Pending EXCEPT !.code = "ambiguous_target",
                               !.listed = Cardinality(answer.matches), !.excluded = answer.excluded]
              /\ UNCHANGED selector
           \/ \E c \in winner :
                 /\ selector' = [selector EXCEPT !.ref = c.node, !.rn = c.from = "fiber"]
                 /\ phase' = "discover"
                 /\ UNCHANGED result
    /\ UNCHANGED <<platform, native, fiber, fresh, found>>

\* A ref means something only in the snapshot it came from; an index only in
\* the generation that was discovered.  A ref is stale, too, when what the
\* session knows has been captured anew since it was given out.
Discover ==
    /\ phase = "discover"
    /\ LET source == IF selector.rn THEN "fiber" ELSE "native"
           t == IF source = "fiber" THEN fiber ELSE native
           m == Matching(t, selector)
           c == Chosen(m, selector)
       IN  \/ selector.ref # 0 /\ Reject("stale_ref") /\ UNCHANGED found
           \/ /\ selector.ref # 0 /\ Len(c) # 1
              /\ Reject(IF Len(m) > 1 /\ selector.index = -1 THEN "ambiguous_target" ELSE "stale_ref")
              /\ UNCHANGED found
           \/ /\ selector.ref # 0 /\ Len(c) = 1
              /\ found' = [from |-> source, tree |-> t, node |-> c[1]]
              /\ phase' = "settle" /\ UNCHANGED result
           \/ /\ selector.ref = 0
              /\ LET byIndex == Chosen(Matching(native, selector), selector) IN
                 found' = IF selector.index # -1 /\ byIndex # <<>>
                          THEN [from |-> "native", tree |-> native, node |-> byIndex[1]] ELSE Nowhere
              /\ phase' = "settle" /\ UNCHANGED result
    /\ UNCHANGED <<selector, platform, native, fiber, fresh>>

\* From the discovered element to the point, in the fresh tree t.
Evidence(t, f) ==
    IF f.from = "fiber" THEN Corroborated(t, f.tree[f.node])
    ELSE {i \in DOMAIN t : Fits(t[i], f.tree[f.node])}

Nameless(f) == f.tree[f.node].id = 0 /\ f.tree[f.node].name = 0

\* Where the selector itself finds the element: the fresh tree, else the
\* projection.
Sought(t) ==
    LET here == Chosen(Matching(t, selector), selector)
        there == Chosen(Matching(fiber, selector), selector)
    IN  IF found # Nowhere THEN <<found>>
        ELSE IF here # <<>> THEN [k \in DOMAIN here |-> [from |-> "fresh", tree |-> t, node |-> here[k]]]
        ELSE [k \in DOMAIN there |-> [from |-> "fiber", tree |-> fiber, node |-> there[k]]]

SettleTree ==
    /\ phase = "settle"
    /\ \/ Reject("unstable_snapshot") /\ UNCHANGED <<found, fresh>>
       \/ \E t \in Trees :
            LET f == Sought(t)
                m == Evidence(t, f[1])
                n == Sole(m)
                gives(code) == /\ phase' = IF code = "pending" THEN "hit" ELSE "done"
                            /\ result' = [Pending EXCEPT !.code = code, !.node = n, !.point = Middle(t[n])]
            IN  /\ fresh' = t
                /\ found' = IF Len(f) = 1 THEN f[1] ELSE found
                /\ CASE f = <<>> -> Reject("target_not_found")
                     [] Len(f) > 1 -> Reject("ambiguous_target")
                     [] Len(f) = 1 /\ Nameless(f[1]) -> Reject("native_target_unconfirmed")
                     [] Len(f) = 1 /\ ~Nameless(f[1]) /\ m = {} -> Reject("native_target_unconfirmed")
                     [] Len(f) = 1 /\ ~Nameless(f[1]) /\ Cardinality(m) > 1 -> Reject("ambiguous_target")
                     [] OTHER ->
                          IF ~t[n].usable THEN gives("target_disabled")
                          ELSE IF t[n].hi < t[n].lo THEN gives("native_target_unconfirmed")
                          ELSE IF Middle(t[n]) \notin OnScreen THEN gives("target_offscreen")
                          ELSE gives("pending")
    /\ UNCHANGED <<selector, platform, native, fiber>>

\* The hit test.  Android's is of the fresh tree; the provider's is of the
\* screen as it is then, and the question may fail.  A target without action
\* semantics counts only if XCTest gives it no role and the provider's hit at
\* the point is pressable, fits it but for the role, and has its frame.
HitTest ==
    /\ phase = "hit"
    /\ phase' = "done"
    /\ LET n == fresh[result.node]
           p == result.point
           deepest == DeepestActionable(fresh, p)
           asks == platform = "ios" /\ (n.acts \/ n.role = Unknown)
           ends(code, h) == result' = [result EXCEPT !.code = code, !.hit = h]
       IN  \/ ~n.acts /\ ~asks /\ ends("native_target_unconfirmed", 0)
           \/ /\ platform = "android" /\ n.acts
              /\ ends(IF deepest = {result.node} THEN "ready" ELSE "hit_target_mismatch",
                      IF Cardinality(deepest) = 1 THEN Sole(deepest) ELSE 0)
           \/ asks /\ ends(IF n.acts THEN "failed" ELSE "native_target_unconfirmed", 0)
           \/ /\ asks
              /\ \E now \in Trees : \E h \in ProviderHits(now, p) :
                    ends(CASE n.acts /\ Fits(now[h], n) -> "ready"
                           [] n.acts /\ ~Fits(now[h], n) -> "hit_target_mismatch"
                           [] ~n.acts /\ Activates(n, now[h]) -> "ready"
                           [] OTHER -> "native_target_unconfirmed", 0)
    /\ UNCHANGED <<selector, platform, native, fiber, fresh, found>>

TargetNext == Snapshots \/ Query \/ Discover \/ SettleTree \/ HitTest

TargetSpec == TargetInit /\ [][TargetNext]_targetVars

\* nativeTapRecovery: the one case in which a point may be tapped by hand.
Fallback == result.code = "hit_target_mismatch"
            /\ (platform = "android" => Cardinality(DeepestActionable(fresh, result.point)) <= 1)

\* What a refusal advises: rejectedSemanticTap.  A target without action
\* semantics is not found by searching again.
NothingListed == selector.query # <<>> /\ selector.ref = 0 /\ result.listed = 0
InertTarget == result.node # 0 /\ fresh[result.node].lo <= fresh[result.node].hi

Recovery ==
    CASE result.code = "target_offscreen" -> "scroll_then_search"
      [] result.code = "ambiguous_target" /\ NothingListed -> "scroll_then_search"
      [] result.code = "unstable_snapshot" -> "observe_then_search"
      [] Fallback -> "tap_known_coordinate"
      [] result.code \in {"stale_ref", "target_not_found"} -> "search_again"
      [] result.code = "ambiguous_target" /\ ~NothingListed -> "search_again"
      [] result.code = "native_target_unconfirmed" /\ ~InertTarget -> "search_again"
      [] OTHER -> "none"

----------------------------------------------------------------------------
\* Node i of the fresh tree could be the element that was discovered as well as
\* the node that was taken for it.  (An element of the projection is sought among
\* the nodes that act; its name speaks for it where its identifier is not found.)
Rival(i) ==
    LET old == found.tree[found.node]
        new == fresh[i]
    IN  IF found.from # "fiber" THEN Fits(new, old)
        ELSE new.acts /\ \/ old.id # 0 /\ new.id = old.id
                         \/ /\ old.id = 0 \/ fresh[result.node].id # old.id
                            /\ new.name # 0 /\ NameMatches(new.name, old.name)
                            /\ ~Contradicts(new.role, old.role)

\* A point is given, or offered as a fallback, only for a node of the fresh
\* native tree that has no rival, can be used and has its centre on the screen;
\* on Android a tap there reaches that node and no other.
PointIsOfOneTarget ==
    result.code = "ready" \/ Recovery = "tap_known_coordinate" =>
        /\ {i \in DOMAIN fresh : Rival(i)} = {result.node}
        /\ fresh[result.node].usable /\ result.point \in OnScreen
        /\ result.code = "ready" /\ platform = "android" =>
              \A i \in Covering(fresh, result.point) :
                 fresh[i].acts /\ i # result.node => Depth(fresh)[i] < Depth(fresh)[result.node]

\* The screen may have been reordered since the discovery: the node tapped is
\* never one that contradicts the identifier or name of the one discovered.
RowIsNotSwapped ==
    result.code = "ready" =>
        LET old == found.tree[found.node]
            new == fresh[result.node]
        IN  /\ old.id # 0 /\ new.id # 0 /\ found.from # "fiber" => new.id = old.id
            /\ old.id # new.id \/ old.id = 0 => NameMatches(new.name, old.name)
            /\ selector.ref = 0 /\ selector.index # -1 /\ Matching(native, selector) # <<>>
               /\ selector.index + 1 \in DOMAIN Matching(native, selector)
               => old = native[Matching(native, selector)[selector.index + 1]]

\* Match c is better than e, and by far, unless only c is exact.
Outdoes(c, e) == /\ c.score > e.score \/ (c.score = e.score /\ c.exact /\ ~e.exact)
                 /\ c.exact \/ c.score - e.score >= Gap

\* A query is answered with an element only if that stands out: it can be seen
\* and acted on, and outdoes every other such element of the native tree, of
\* whose copies the best counts.  (Of the elements a projected copy stands in
\* for, and of those the list is too short for, nothing is known.)
\* A query answered with nothing, and with nothing left out, matches nothing.
QueryStandsOut ==
    LET all == Matches(native, fiber, selector.query)
        unique == Unique(Eligible(all))
        chosen == {c \in all : c.from = "native" /\ ~selector.rn /\ c.node = selector.ref}
    IN  selector.query # <<>> /\ (phase = "discover" \/ result.code = "ambiguous_target") =>
        /\ \A c \in chosen :
              /\ c \in Eligible(all)
              /\ Cardinality(unique) <= SearchLimit =>
                    \A e \in Eligible(all) : e.from = "native" /\ Key(e) # Key(c) =>
                        \E copy \in Eligible(all) :
                            /\ Key(copy) = Key(e) /\ copy.score >= e.score
                            /\ \/ copy.from = "native" /\ Outdoes(c, copy)
                               \/ copy.from = "fiber" /\ copy.score > e.score
        /\ result.code = "ambiguous_target" /\ selector.ref = 0 /\ result.listed + result.excluded = 0
              => all = {}

\* All of it, whatever was captured first, whatever is on the screen by the time
\* of the tap, and whichever query, selector and platform.
TapReachesItsTarget == PointIsOfOneTarget /\ RowIsNotSwapped /\ QueryStandsOut
=============================================================================
