-------------------------- MODULE MCAddonReconcile --------------------------
(* Small instances of AddonReconcile for TLC. *)
EXTENDS AddonReconcile

CONSTANTS c1, c2

\* Configurations of the same primary service, and of a service of their own.
SameService == [c \in Configs |-> "addon"]
OwnService == [c \in Configs |-> c]

=============================================================================
