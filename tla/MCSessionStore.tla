--------------------------- MODULE MCSessionStore ---------------------------
(* Three operations on the saved sessions, one failing access, one restart. *)
EXTENDS SessionStore
=============================================================================
