----------------------------- MODULE CallService -----------------------------
(***************************************************************************)
(* What a task may rely on when it calls the backend through SimViewClient: *)
(* no call before the handshake has succeeded, every call settled at most   *)
(* once, answers one by one, and an end that fails whatever is pending and  *)
(* lets nothing begin after it.  Frames, buffers, timers and the native     *)
(* side do not appear.                                                      *)
(***************************************************************************)
CONSTANTS Requests, Hello

VARIABLES calls, open

Issuable(r) == open /\ calls[r] = "idle" /\ (r = Hello \/ calls[Hello] = "resolved")

Issued(r) == [calls EXCEPT ![r] = "pending"]

Abandoned(table) == [r \in Requests |-> IF table[r] = "pending" THEN "failed" ELSE table[r]]

Init == open = TRUE /\ calls = [r \in Requests |-> "idle"]

Issue(r) == Issuable(r) /\ calls' = Issued(r) /\ UNCHANGED open

\* Answered by the backend, or given up by its caller or timer.
Answer(r) ==
    /\ open /\ calls[r] = "pending"
    /\ \E outcome \in {"resolved", "failed"} : calls' = [calls EXCEPT ![r] = outcome]
    /\ UNCHANGED open

\* The connection stays, but nobody can tell any more which answer is whose.
Abandon == open /\ calls' = Abandoned(calls) /\ UNCHANGED open

\* The end, of its own or found out by the call that is being made.
End ==
    /\ open /\ open' = FALSE
    /\ \/ calls' = Abandoned(calls)
       \/ \E r \in Requests : Issuable(r) /\ calls' = Abandoned(Issued(r))

Next == Abandon \/ End \/ \E r \in Requests : Issue(r) \/ Answer(r)

Spec == Init /\ [][Next]_<<calls, open>>
=============================================================================
