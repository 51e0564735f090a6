------------------------------ MODULE MCRebase ------------------------------
(* Rebases of a branch of two commits, in two worlds: operations are        *)
(* refused, processes die and others wipe the rebase's state; or other      *)
(* changes are staged.                                                      *)
EXTENDS Rebase

Refusing == {"refuse", "unsigned", "commit", "pick", "reset", "elsewhere", "die"}
Staging  == {"unsigned", "commit", "stage", "elsewhere"}

EachWorld == {Refusing, Staging}
=============================================================================
