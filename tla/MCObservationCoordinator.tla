---------------------- MODULE MCObservationCoordinator ----------------------
(* TLC instance of ObservationCoordinator. *)
EXTENDS ObservationCoordinator, TLC
=============================================================================
