------------------------------ MODULE MCSshOpen ------------------------------
(* A session behind a jump server, open in a tab of the saved workspace. *)
EXTENDS SshOpen, TLC

CONSTANTS s1, jump, host, t1

ThroughJump == s1 :> <<jump, host>>
JumpUnknown == jump :> "absent" @@ host :> "wrong"
Linked == t1 :> s1
=============================================================================
