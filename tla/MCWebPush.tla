------------------------------ MODULE MCWebPush ------------------------------
(* WebPush on small sets of devices, events and routers. *)
EXTENDS WebPush, TLC

\* Events of one severity are interchangeable, and so are routers.
Symmetry == Permutations(Event \ Critical) \cup Permutations(Router)

==============================================================================
