------------------------- MODULE MCIncludePolicies -------------------------
(***************************************************************************)
(* Programs with a default policy, and with callbacks that call.           *)
(***************************************************************************)
EXTENDS IncludePolicies, TLC

EachWorld == {{"default"}, {"nested"}}
Symmetry == Permutations(Threads) \cup Permutations(Repos)
============================================================================
