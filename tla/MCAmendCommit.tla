----------------------------- MODULE MCAmendCommit -----------------------------
(* AmendCommit on a small repository. *)
EXTENDS AmendCommit, FiniteSets, TLC

Symmetry == Permutations(Procs) \cup Permutations(Trees) \cup Permutations(Branches)

\* The first side step is taken beside two processes that live, or one, and
\* the second beside one that lives; git then leaves the index alone, unless
\* that process has edits of it that it has not written.
Acting == {p \in Procs : pc[p] # "idle" \/ mem[p] # NoIndex}
Dead   == {p \in Procs : pc[p] = "dead"}
Edited == {p \in Procs : mem[p].holds # mem[p].file}
FewTogether ==
    /\ steps >= 1 /\ Dead # {} => Cardinality(Acting) = 1
    /\ steps = 2 => /\ Cardinality(Acting) = 1
                    /\ Dead = {}
                    /\ lock[IndexFile] = Git => Edited # {}

=============================================================================
