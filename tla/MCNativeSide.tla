---------------------------- MODULE MCNativeSide ----------------------------
(* TLC instance of the two concurrent parts of the native core that promise   *)
(* progress: its transport to a task and its observation coordinator.  A      *)
(* behaviour is one of Transport or one of ObservationCoordinator, whichever  *)
(* part is chosen at the start; the variables of the other stay as they are.  *)
EXTENDS Transport, ObservationCoordinator, TLC

VARIABLE part

ASSUME ObservationAssumption

NativeInit ==
    /\ part \in {"transport", "observation"}
    /\ Init /\ ObservationInit
    /\ part # "observation" => policy = "onDemand"

TransportStep ==
    part = "transport" /\ Next /\ UNCHANGED <<part, observationVars>>
ObservationStep ==
    part = "observation" /\ ObservationNext /\ UNCHANGED <<part, vars>>

\* Fairness of both modules, each for the behaviours that are its own.
In(p, A) == part = p /\ A

NativeFairness ==
    /\ WF_vars(In("transport", (Connect \/ HelloFails \/ SocketCloses) /\ UNCHANGED connection))
    /\ WF_vars(In("transport", Drain /\ UNCHANGED connection))
    /\ WF_vars(In("transport", Data /\ UNCHANGED connection))
    /\ WF_vars(In("transport", (Accept \/ Read \/ ReadEnd) /\ UNCHANGED client))
    /\ WF_vars(In("transport", (WriteFailed \/ CloseDescriptor) /\ UNCHANGED client))
    /\ WF_vars(In("transport", (Take \/ Send) /\ UNCHANGED client))
    /\ \A r \in Requests :
          WF_vars(In("transport", (\E kind \in Kinds : Respond(r, kind)) /\ UNCHANGED client))
    /\ \A x \in Waiters : WF_observationVars(In("observation", QuietElapses(x)))
    /\ \A o \in Observers : WF_observationVars(In("observation", ReturnStable(o)))
    /\ WF_observationVars(In("observation", Encode))

NativeSpec ==
    /\ NativeInit
    /\ [][TransportStep \/ ObservationStep]_<<part, vars, observationVars>>
    /\ NativeFairness

-----------------------------------------------------------------------------
\* Every variable of both modules holds a value of its kind.
NativeTypeOK == TypeOK /\ ObservationTypeOK

\* Under eager preparation nobody waits for a frame that has arrived, and the newest
\* screen gets its image, or a failed attempt.
EagerPreparationServes == EagerObserverAnswered /\ EagerImageSettles
=============================================================================
