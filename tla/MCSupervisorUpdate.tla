------------------------- MODULE MCSupervisorUpdate -------------------------
(* Instances of SupervisorUpdate for TLC.                                    *)
EXTENDS SupervisorUpdate, TLC

\* The worker threads of the API are interchangeable.
Symmetry == Permutations(Request)

=============================================================================
