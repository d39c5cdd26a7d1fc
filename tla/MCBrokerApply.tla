---------------------------- MODULE MCBrokerApply ----------------------------
(* Small instances of BrokerApply for TLC. *)
EXTENDS BrokerApply, TLC

\* Sound for the runs that check no liveness.
Symmetry == Permutations(Request) \cup Permutations(File)

=============================================================================
