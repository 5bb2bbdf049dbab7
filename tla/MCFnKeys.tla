------------------------------ MODULE MCFnKeys ------------------------------
(* FnKeys with a panel of few steps: DarkStrokes and Unit stand for 16 and  *)
(* 64, and arrays of two places instead of 32.                              *)
EXTENDS FnKeys, TLC

Symmetry == Permutations(Handlers) \cup Permutations(Slots)
=============================================================================
