--------------------------------- MODULE MCPush ---------------------------------
(* Push with two commits that diverge from a first one. *)
EXTENDS Push, TLC, FiniteSets

CONSTANTS c0, c1, c2

MCCommits == {c0, c1, c2}
MCBefore  == [c \in MCCommits |-> IF c = c0 THEN {} ELSE {c0}]

\* A request for the refs ds by their full names, all with one wish and one
\* expectation; and the same by short names.
Ask(ds, wish, mode, expect, up) ==
    [want |-> [d \in Refs |-> IF d \in ds THEN wish ELSE "no"], short |-> {}, mode |-> mode,
     lease |-> [d \in Refs |-> IF d \in ds THEN expect ELSE Uncovered], setUpstream |-> up]

Shortly(r) == [r EXCEPT !.short = Refs]

Plain(d, w) == Ask({d}, w, "none", Uncovered, FALSE)

\* A branch pushed, forced, deleted or leased either way; a deletion whose
\* lease expects nothing there, and one whose lease expects something.
AskBranch ==
    {Plain(d, w) : d \in Branches, w \in {"push", "force", "delete"}}
        \cup {Shortly(Plain(d, "delete")) : d \in Branches}
        \cup {Ask({d}, "delete", "many", Absent, FALSE) : d \in Branches}
        \cup {Ask({d}, "delete", "one", c0, FALSE) : d \in Branches}
        \cup {Ask({d}, "push", m, "tracking", FALSE) : d \in Branches, m \in {"one", "many"}}

\* Pushes, deletions and leases of several refs at once.
AskSeveral ==
    {Ask(Refs, "push", "none", Uncovered, TRUE), Ask(Refs, "force", "many", "tracking", FALSE)}
        \cup {Ask(Refs, "push", "many", c0, FALSE), Ask(Refs, "delete", "many", "tracking", FALSE)}

AskAll == AskBranch \cup AskSeveral

\* At most one update of a push that was cut off is still under way.
OneAstray == Cardinality({u \in flight : ~u.live}) <= 1

Symmetry == Permutations(Clients) \cup Permutations({c1, c2})

=============================================================================
