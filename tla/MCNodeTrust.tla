---------------------------- MODULE MCNodeTrust ----------------------------
(* Small instances of NodeTrust for TLC. *)
EXTENDS NodeTrust, TLC

\* Sessions of one store, requests, nodes and nonces are interchangeable.
Symmetry == Permutations(Nodes) \cup Permutations(Nonces)
              \cup Permutations(Onboarding) \cup Permutations(Requests)

=============================================================================
