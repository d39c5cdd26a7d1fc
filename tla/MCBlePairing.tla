----------------------------- MODULE MCBlePairing -----------------------------
(* BlePairing for TLC: sessions, devices, supervisors and requests are          *)
(* interchangeable.                                                             *)
EXTENDS BlePairing, TLC

Symmetry == Permutations(Supervisor) \cup Permutations(Session)
            \cup Permutations(Device) \cup Permutations(Request)

==============================================================================
