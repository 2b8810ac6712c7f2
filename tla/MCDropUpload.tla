---------------------------- MODULE MCDropUpload ----------------------------
(* A drop of two files of the same name beside a file that has it already. *)
EXTENDS DropUpload, TLC

CONSTANTS f1, f2, b1

OneDrop == b1 :> <<f1, f2>>
OneChunk == [f \in Files |-> 1]
=============================================================================
