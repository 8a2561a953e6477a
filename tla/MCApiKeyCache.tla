---- MODULE MCApiKeyCache ----
(* Small instances of ApiKeyCache for TLC. *)
EXTENDS ApiKeyCache, TLC

Symmetry ==
    Permutations(Replicas) \cup Permutations(Checks) \cup Permutations(Flushes)
====
