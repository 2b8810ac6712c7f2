-------------------------- MODULE MCWebShareDesktop --------------------------
(* Two tabs and three starts. *)
EXTENDS WebShareDesktop, TLC

Interchangeable == Permutations(Terminals) \cup Permutations(Starts)
=============================================================================
