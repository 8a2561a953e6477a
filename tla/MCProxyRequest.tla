---- MODULE MCProxyRequest ----
(* Small instances of ProxyRequest for TLC. *)
EXTENDS ProxyRequest, TLC

Symmetry == Permutations(Requests)

(* A route that relays and one that buffers and retries. *)
TwoModes == {[streamResponse |-> TRUE, retryCount |-> 1],
             [streamResponse |-> FALSE, retryCount |-> 1]}

====
