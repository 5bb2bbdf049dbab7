---------------------------- MODULE MCDriverBoot ----------------------------
(* DriverBoot with model values for threads and services. *)
EXTENDS DriverBoot, TLC

Symmetry == Permutations(Handlers) \cup Permutations(Services)
=============================================================================
