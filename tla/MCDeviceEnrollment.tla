-------------------------- MODULE MCDeviceEnrollment --------------------------
(* DeviceEnrollment on small sets of users, devices and codes. *)
EXTENDS DeviceEnrollment, TLC

\* Requests are interchangeable, and so are enrollments.
Symmetry == Permutations(Request) \cup Permutations(Enrollment)

==============================================================================
