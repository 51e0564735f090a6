---------------------------- MODULE MCFetchTags ----------------------------
(***************************************************************************)
(* The instances of FetchTags that are checked.                            *)
(***************************************************************************)
EXTENDS FetchTags

CONSTANTS v, w, main

MCAdvertised == <<main, v, w>>

Spec1(from, to, forced) == [from |-> from, to |-> to, forced |-> forced]

\* One refspec, or two that cross or share their source.
One == {<<Spec1(r, v, f)>> : r \in {main, v, w}, f \in BOOLEAN}
Two == {<<Spec1(r, v, f), Spec1(q, w, ~f)>> :
            r \in {main, w}, q \in {main, v}, f \in BOOLEAN}

\* A tag is asked for under its own name, beside the branch.
Beside == {<<Spec1(main, w, f), Spec1(v, v, g)>> : f, g \in BOOLEAN}

\* An excluded tag is stored into by force: see ClobberWorlds.
FetchWorlds ==
    {World(specs, {}, all, FALSE, {}) :
        specs \in One \cup Two, all \in BOOLEAN}
        \cup {World(<< >>, {v}, TRUE, FALSE, {})}
        \cup {World(<<Spec1(r, v, TRUE)>>, {v}, TRUE, FALSE, {}) :
                  r \in {main, v, w}}
        \cup {World(specs, {w}, FALSE, FALSE, {}) : specs \in Two}
        \cup {World(specs, {}, FALSE, TRUE, h) :
                  specs \in One, h \in {{}, {v}, {w}}}
        \cup {World(specs, {v}, FALSE, TRUE, h) :
                  specs \in One, h \in {{}, {v}}}
        \cup {World(specs, {}, FALSE, TRUE, {v}) : specs \in Beside}

ClobberWorlds ==
    {World(<<Spec1(main, v, FALSE)>>, {v}, TRUE, FALSE, {})}
============================================================================
