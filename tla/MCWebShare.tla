----------------------------- MODULE MCWebShare -----------------------------
(* A few browsers on one shared terminal. *)
EXTENDS WebShare
=============================================================================
