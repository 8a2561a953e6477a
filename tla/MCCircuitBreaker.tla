-------------------------- MODULE MCCircuitBreaker --------------------------
(* TLC instances of CircuitBreaker. *)
EXTENDS CircuitBreaker, TLC

Symmetry == Permutations(Requests)

==============================================================================
