----------------------------- MODULE MCMerging -----------------------------
(***************************************************************************)
(* The instances of Merging that are checked.                              *)
(***************************************************************************)
EXTENDS Merging

One == {6}
Two == {6, 7}

\* One process that calls everything, everything but deaths, or merges
\* alone; and two that neither fast-forward nor abort.
AloneOrPair ==
    {World(One, ops, Targets, Modes, 5) :
        ops \in {Operations, Operations \ {"die"}, Merges}}
    \cup {World(Two, Operations \ {"cherryPickAbort", "obstruct"}, {3},
                {"never"}, 4)}
=============================================================================
