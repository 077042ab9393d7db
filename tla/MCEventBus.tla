------------------------------ MODULE MCEventBus ------------------------------
(* Small instances of EventBus for TLC: no symmetry, liveness is checked. *)
EXTENDS EventBus

=============================================================================
