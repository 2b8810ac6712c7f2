---------------------------- MODULE MCWebScreens ----------------------------
(* Two rows of two texts, one or two browsers. *)
EXTENDS WebScreens
=============================================================================
