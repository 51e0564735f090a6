--------------------------- MODULE MCOctopusCheckout ---------------------------
(* OctopusCheckout with each path in every state a merge can put it in. *)
EXTENDS OctopusCheckout, TLC

Sides(h, rs) == {[head |-> h, result |-> r] : r \in rs}

\* What a path may be in HEAD and in the merge.
Clean == Sides("ours", {"ours", "theirs", Nothing}) \cup Sides(Nothing, {"theirs"})
Stops == Sides("ours", Unmerged) \cup Sides(Nothing, {"conflict", "oursGone"})

Both(sides) ==
    {[head |-> [p \in Paths |-> f[p].head], result |-> [p \in Paths |-> f[p].result]] :
        f \in [Paths -> sides]}

AllMerges == Both(Clean \cup Stops)

Symmetry == Permutations(Paths)

=============================================================================
