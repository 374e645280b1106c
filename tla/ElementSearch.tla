--------------------------- MODULE ElementSearch ---------------------------
(***************************************************************************)
(* Which element a query means (packages/mcp/src/session.ts, searchElements *)
(* and rankElementSearchMatch; server.ts, unambiguousInteractionSearchMatch)*)
(* The elements of the native tree and of the app's projection are scored   *)
(* against the query; copies of one element are merged, the best few are    *)
(* listed, and a tap is allowed only where one match stands out.            *)
(*                                                                         *)
(* A text is a sequence of pieces, Space between words; a piece is a part  *)
(* of a word no query of the instance divides.  Of the nine fields that are *)
(* searched an element here has three.  Scores are in thousandths.         *)
(***************************************************************************)
EXTENDS Integers, Sequences, FiniteSets

CONSTANTS
    Texts,              \* the text of each value: [id, role, name |-> Seq(Seq(pieces))]
    Space,              \* the piece between words
    OnScreen,           \* the visible cells
    SearchLimit         \* how many matches are listed

Gap == 100              \* UNAMBIGUOUS_SEARCH_SCORE_GAP

Fields == {"id", "name", "role"}
Weight == [id |-> 950, name |-> 1000, role |-> 650]

Text(node, which) == IF node[which] = 0 THEN <<>> ELSE Texts[which][node[which]]

WordBounds(text) ==
    {p \in (1..Len(text)) \X (1..Len(text)) :
        /\ \A k \in p[1]..p[2] : text[k] # Space
        /\ p[1] = 1 \/ text[p[1] - 1] = Space
        /\ p[2] = Len(text) \/ text[p[2] + 1] = Space}

WordsOf(text) == {SubSeq(text, p[1], p[2]) : p \in {b \in WordBounds(text) : b[1] <= b[2]}}

OccursAt(query, text, i) ==
    i + Len(query) - 1 <= Len(text) /\ SubSeq(text, i, i + Len(query) - 1) = query

FieldScore(text, query) ==
    CASE text = <<>> -> 0
      [] text = query -> 1000
      [] text # query /\ text # <<>> /\ OccursAt(query, text, 1) -> 920
      [] OTHER ->
           IF \E i \in 2..Len(text) : OccursAt(query, text, i) THEN 840
           ELSE IF WordsOf(query) \subseteq WordsOf(text) THEN 750 ELSE 0

Thousandths(n) == (n + 500) \div 1000

Greatest(S) == CHOOSE n \in S : \A m \in S : m <= n

\* Words found in several fields together: all of two, half of more.
Together(node, query) ==
    LET words == WordsOf(query)
        met == words \cap UNION {WordsOf(Text(node, f)) : f \in Fields}
        k == Cardinality(met)
        n == Cardinality(words)
    IN  IF k >= 2 /\ (n = 2 => k = 2) /\ 2 * k >= n
        THEN Thousandths(350000 + (350000 * k) \div n) ELSE 0

\* rankElementSearchMatch: 0 where the element does not match.
Score(node, query) ==
    Greatest({Thousandths(FieldScore(Text(node, f), query) * Weight[f]) : f \in Fields}
             \cup {Together(node, query)})

Exact(node, query) == \E f \in Fields : Text(node, f) = query

IsVisible(node) == node.lo <= node.hi /\ \E p \in OnScreen : node.lo <= p /\ p <= node.hi
IsActionable(node) == node.usable /\ node.acts

----------------------------------------------------------------------------
\* The elements of both trees that match, the native ones first.
Matches(natives, projected, query) ==
    LET of(from, t) ==
            {[from |-> from, node |-> i, el |-> t[i],
              score |-> Score(t[i], query), exact |-> Exact(t[i], query)] : i \in DOMAIN t}
    IN  {c \in of("native", natives) \cup of("fiber", projected) : c.score > 0}

Eligible(matches) == {c \in matches : IsVisible(c.el) /\ IsActionable(c.el)}

Earlier(c, e) == IF c.from = e.from THEN c.node < e.node ELSE c.from = "native"

\* elementSearchDedupeKey: what makes two matches copies of one element.
Key(c) ==
    <<IF c.el.id # 0 THEN Text(c.el, "id")
      ELSE IF c.el.name # 0 THEN Text(c.el, "name") ELSE <<c.from, c.node>>,
      c.el.role, c.el.lo, c.el.hi>>

\* Of copies the best is kept, the first of equals.  (Only what can be acted on
\* is searched for a tap, so that a native copy comes before a projected one
\* is all that is left of the preference for native elements.)
Unique(matches) ==
    {c \in matches : \A e \in matches \ {c} :
        Key(e) = Key(c) => e.score < c.score \/ (e.score = c.score /\ Earlier(c, e))}

Ahead(c, e) ==
    \/ c.score > e.score
    \/ c.score = e.score /\ c.exact /\ ~e.exact
    \/ c.score = e.score /\ c.exact = e.exact /\ Earlier(c, e)

First(matches) == {c \in matches : \A e \in matches \ {c} : Ahead(c, e)}

\* searchElements: the answer lists the first few and counts them all, and the
\* matches that are left out because they cannot be seen or acted on.
SearchElements(natives, projected, query) ==
    LET all == Matches(natives, projected, query)
        unique == Unique(Eligible(all))
    IN  [matches |-> {c \in unique : Cardinality({e \in unique : Ahead(e, c)}) < SearchLimit},
         total |-> Cardinality(unique),
         excluded |-> Cardinality({Key(c) : c \in all \ Eligible(all)})]

\* unambiguousSearchMatch: the one that stands out, if one does.
Outstanding(matches, total) ==
    {c \in First(matches) :
        \/ total = 1
        \/ \E e \in First(matches \ {c}) :
              (c.exact /\ ~e.exact) \/ c.score - e.score >= Gap}

\* Mutant: the first match wins.
MutantMeant(answer) == First(answer.matches)

\* unambiguousInteractionSearchMatch: native matches, if there are any, decide.
Meant(answer) ==
    LET ofNative == {c \in answer.matches : c.from = "native"}
    IN  IF ofNative # {} THEN Outstanding(ofNative, Cardinality(ofNative))
        ELSE Outstanding(answer.matches, answer.total)
=============================================================================
