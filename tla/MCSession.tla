------------------------------ MODULE MCSession ------------------------------
(* TLC instance of a review session and what it observes through: its         *)
(* semantic state (SemanticState), its connection and preview demand          *)
(* (ReviewSession) and accessibility.observe on the core                      *)
(* (AccessibilityObservation).  They share no state in the model: a behaviour *)
(* is one of these, whichever part is chosen at the start, and the variables  *)
(* of the others stay as they are.                                            *)
EXTENDS SemanticState, ReviewSession, AccessibilityObservation, TLC

VARIABLE part

ASSUME AccessibilityAssumption

SessionInit ==
  /\ part \in {"semantic", "review", "observe"}
  /\ SemanticInit /\ ReviewInit /\ AccessibilityInit

SessionNext ==
  \/ part = "semantic" /\ SemanticNext /\ UNCHANGED <<part, reviewVars, accessibilityVars>>
  \/ part = "review" /\ ReviewNext /\ UNCHANGED <<part, semanticVars, accessibilityVars>>
  \/ part = "observe" /\ AccessibilityNext
     /\ UNCHANGED <<part, semanticVars, reviewVars>>

SessionSpec ==
  SessionInit /\ [][SessionNext]_<<part, semanticVars, reviewVars, accessibilityVars>>

\* The type invariants of the three parts.
SessionTypeOK == SemanticTypeOK /\ ReviewTypeOK /\ AccessibilityTypeOK

Symmetry == Permutations(Calls) \cup Permutations(Apps) \cup Permutations(Devices)
=============================================================================
