---------------------------- MODULE MCSftpUpload ----------------------------
(* A batch of two files, one of two chunks and one of unknown size. *)
EXTENDS SftpUpload, TLC

CONSTANTS f1, f2, b1

OnePlan == b1 :> <<f1, f2>>
MCChunks == f1 :> 2 @@ f2 :> 1
=============================================================================
