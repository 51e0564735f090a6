------------------------------ MODULE OctopusHeads ------------------------------
(***************************************************************************)
(* Which commits an octopus merge takes: mergeHeads drops the heads that   *)
(* are already there and returns the names of the others, octopusMerge     *)
(* resolves those again and takes one after the other, and conclude picks  *)
(* the parents of the merge commit.  Trees are abstracted to the set of    *)
(* commits whose changes they hold.                                        *)
(***************************************************************************)
EXTENDS Naturals, Sequences, FiniteSets, Functions

CONSTANTS
    NCommits,    \* commits are 1..NCommits
    MaxParents,  \* of a commit
    MaxHeads,    \* bound: heads given to a merge
    MaxMoved     \* bound: refs that are elsewhere when octopusMerge reads them

ASSUME HeadsAssumption ==
    NCommits \in Nat \ {0} /\ MaxParents \in Nat /\ MaxHeads \in Nat /\ MaxMoved \in Nat

Commits == 1..NCommits

VARIABLES
    reach,          \* the history: each commit and what is reachable from it
    HEAD,           \* HEAD's commit
    named,          \* the commit each head asked for names, by its place
    reducedBy,      \* HEAD's commit when mergeHeads read it
    given,          \* and the heads'
    noFastForward,
    at,
    left,           \* the heads mergeHeads left, in the order given
    todo,           \* those of them octopusMerge has not taken
    mergedCommits,  \* git-merge-octopus' MRC
    mergedTree,     \* and MRT
    nonFastForward,
    conflicted,
    recorded        \* the merge commit's parents

headsVars == <<reach, HEAD, named, reducedBy, given, noFastForward, at, left, todo,
               mergedCommits, mergedTree, nonFastForward, conflicted, recorded>>

\* Parents come before their children.
Histories ==
    {h \in [Commits -> SUBSET Commits] :
        \A c \in Commits : /\ \A p \in h[c] : p < c
                           /\ Cardinality(h[c]) <= MaxParents}

\* What every set has that has the commit and the parents of its members.
Reachable(parents) ==
    LET Closed == {S \in SUBSET Commits : \A d \in S : parents[d] \subseteq S}
    IN  [c \in Commits |-> {d \in Commits : \A S \in Closed : c \in S => d \in S}]

\* git_graph_descendant_of.
IsDescendant(c, a) == c # a /\ a \in reach[c]

Maximal(cs) == {c \in cs : \A d \in cs : ~IsDescendant(d, c)}

\* git_merge_bases_many: the best common ancestors of one and a merge of
\* the others.
MergeBases(one, others) == Maximal(reach[one] \cap UNION {reach[c] : c \in others})

\* octopusMerge is given at least two heads; what it may be asked for is
\* anything.
HeadsInit ==
    /\ reach \in {Reachable(h) : h \in Histories}
    /\ HEAD \in Commits /\ reducedBy = HEAD
    /\ given \in UNION {[1..n -> Commits] : n \in 1..MaxHeads} /\ named = given
    /\ noFastForward \in BOOLEAN
    /\ at = "reduce"
    /\ left = {} /\ todo = {} /\ mergedCommits = {HEAD} /\ mergedTree = reach[HEAD]
    /\ nonFastForward = FALSE /\ conflicted = FALSE /\ recorded = {}

-----------------------------------------------------------------------------

\* The first mention of the commit.
IsFirst(i) == \A j \in 1..(i - 1) : given[j] # given[i]

ReachedByHead(i) == given[i] = HEAD \/ IsDescendant(HEAD, given[i])

KeepsReachable(i) == IsFirst(i) /\ ~ReachedByHead(i)    \* mutant: only HEAD is looked at

\* mergeHeads keeps a candidate that neither HEAD nor another one reaches.
Remains(i) ==
    /\ IsFirst(i)
    /\ ~ReachedByHead(i)
    /\ \A j \in DOMAIN given : ~IsDescendant(given[j], given[i])

asked == <<reach, reducedBy, given, noFastForward>>
refs  == <<HEAD, named>>

\* mergeHeads(reducing:), which returns the names of those that remain; a
\* merge of fewer than two heads is not an octopus.
MergeHeads ==
    /\ at = "reduce"
    /\ left' = {i \in DOMAIN given : Remains(i)}
    /\ at' = IF Cardinality(left') < 2 THEN "reduced" ELSE "between"
    /\ UNCHANGED <<asked, refs, todo, mergedCommits, mergedTree, nonFastForward, conflicted, recorded>>

\* The heads that name another commit than mergeHeads has seen.
MovedHeads == {i \in left : named[i] # given[i]}

\* Between the two calls others commit, merge or reset: HEAD's branch moves,
\* or one that is named as a head.
RefMoves ==
    /\ at = "between"
    /\ \E c \in Commits :
          \/ HEAD' = c /\ UNCHANGED named
          \/ \E i \in left : named' = [named EXCEPT ![i] = c] /\ UNCHANGED HEAD
    /\ UNCHANGED <<asked, at, left, todo, mergedCommits, mergedTree, nonFastForward,
                   conflicted, recorded>>
    /\ Cardinality(MovedHeads') + (IF HEAD' = reducedBy THEN 0 ELSE 1) <= MaxMoved

-----------------------------------------------------------------------------
(* octopusMerge, one head after the other                                  *)

\* It reads HEAD and resolves the names it is given, of which one may be
\* gone.
OctopusMerge ==
    /\ at = "between"
    /\ at' \in {"step", "failed"}
    /\ todo' = left
    /\ mergedCommits' = {HEAD} /\ mergedTree' = reach[HEAD]
    /\ UNCHANGED <<asked, refs, left, nonFastForward, conflicted, recorded>>

\* The next head, in the order given.
NextHead == CHOOSE i \in todo : \A j \in todo : i <= j
Oid == named[NextHead]

Bases == MergeBases(Oid, mergedCommits)

\* The next head is taken, or the merge fails there.
TakeHead == todo' = todo \ {NextHead} /\ at' = at
Stepping == at = "step" /\ todo # {}

\* An earlier head left conflicts, or nothing is common with this one.
GivesUp ==
    /\ Stepping
    /\ conflicted \/ Bases = {}
    /\ at' = "failed"
    /\ UNCHANGED <<asked, refs, left, todo, mergedCommits, mergedTree, nonFastForward,
                   conflicted, recorded>>

AlreadyUpToDate ==
    /\ Stepping /\ ~conflicted
    /\ Bases = {Oid}
    /\ TakeHead
    /\ UNCHANGED <<asked, refs, left, mergedCommits, mergedTree, nonFastForward, conflicted, recorded>>

ForwardFromAny ==                   \* mutant: whatever has been merged so far
    Bases \cap mergedCommits # {}

\* Nothing has been merged yet, and this head has all there is.
CanFastForward == ~nonFastForward /\ Bases = mergedCommits

\* A fast-forward, unless it would overwrite local changes.
FastForwards ==
    /\ Stepping /\ ~conflicted
    /\ Bases # {Oid} /\ CanFastForward
    /\ \/ TakeHead /\ mergedCommits' = {Oid} /\ mergedTree' = reach[Oid]
       \/ at' = "failed" /\ UNCHANGED <<todo, mergedCommits, mergedTree>>
    /\ UNCHANGED <<asked, refs, left, nonFastForward, conflicted, recorded>>

\* A merge against the merge bases: it may end in conflicts, or fail over
\* local changes.
MergesHead ==
    /\ Stepping /\ ~conflicted
    /\ Bases \notin {{}, {Oid}} /\ ~CanFastForward
    /\ nonFastForward' = TRUE
    /\ \/ /\ TakeHead
          /\ mergedCommits' = mergedCommits \cup {Oid}
          /\ \/ mergedTree' = mergedTree \cup reach[Oid] /\ UNCHANGED conflicted
             \/ conflicted' = TRUE /\ UNCHANGED mergedTree
       \/ at' = "failed" /\ UNCHANGED <<todo, mergedCommits, mergedTree, conflicted>>
    /\ UNCHANGED <<asked, refs, left, recorded>>

HeadLeftOut(hs) ==                \* mutant: HEAD is always left out
    IF noFastForward THEN {HEAD} \cup hs ELSE hs

\* conclude: HEAD is left out of the parents when a head contains it.
Parents(hs) ==
    IF (\E c \in hs : IsDescendant(c, HEAD)) /\ ~noFastForward THEN hs ELSE {HEAD} \cup hs

\* The commits of some heads.
Oids(hs) == {named[i] : i \in hs}

\* The heads are all taken: commit the merge, or leave its conflicts.
Conclude ==
    /\ at = "step" /\ todo = {}
    /\ at' = "concluded"
    /\ recorded' = IF conflicted THEN recorded ELSE Parents(Oids(left))
    /\ UNCHANGED <<asked, refs, left, todo, mergedCommits, mergedTree, nonFastForward, conflicted>>

HeadsNext ==
    \/ MergeHeads \/ RefMoves \/ OctopusMerge \/ GivesUp \/ AlreadyUpToDate
    \/ FastForwards \/ MergesHead \/ Conclude

HeadsSpec == HeadsInit /\ [][HeadsNext]_headsVars

-----------------------------------------------------------------------------
(* Properties                                                              *)

\* Everything reachable from one of cs.
ReachOf(cs) == UNION {reach[c] : c \in cs}

\* What mergeHeads saw some heads name.
Given(hs) == {given[i] : i \in hs}

\* The heads mergeHeads leaves are enough and none too many: with HEAD they
\* reach every head given, and none is reachable from HEAD or from another.
HeadsReduced ==
    at # "reduce" =>
        /\ Range(given) \subseteq ReachOf({reducedBy} \cup Given(left))
        /\ \A i \in left : given[i] \notin ReachOf({reducedBy} \cup Given(left \ {i}))

\* After each head, what has been merged is exactly HEAD and the heads taken,
\* however they were taken and whatever they name by now, and MRC stands for it.
MergedSoFar ==
    at = "step" /\ ~conflicted =>
        /\ mergedTree = ReachOf({HEAD} \cup Oids(left \ todo))
        /\ ReachOf(mergedCommits) = mergedTree

\* The merge commit's tree is what its parents reach, HEAD among it, no more
\* and no less; a head given is lost only with a ref that moved away from it
\* between the two calls.  Where one parent reaches another, or is it, one of
\* the two has moved meanwhile, or it is HEAD under --no-ff.
HistoryKept ==
    at = "concluded" /\ ~conflicted =>
        /\ mergedTree = ReachOf(recorded)
        /\ HEAD \in ReachOf(recorded) /\ (noFastForward => HEAD \in recorded)
        /\ Range(given) \subseteq ReachOf({reducedBy} \cup Given(MovedHeads) \cup recorded)
        /\ \A i \in left \ MovedHeads :
              /\ named[i] \in reach[HEAD] => HEAD # reducedBy
              /\ \A j \in left \ MovedHeads : i # j => named[i] \notin reach[named[j]]
        /\ HEAD \in recorded \ Oids(left) => noFastForward \/ HEAD \notin ReachOf(Oids(left))

-----------------------------------------------------------------------------
(* The invariant the proofs rest on                                        *)

HeadsTypeOK ==
    /\ reach \in [Commits -> SUBSET Commits]
    /\ HEAD \in Commits /\ reducedBy \in Commits
    /\ given \in Seq(Commits) /\ named \in [DOMAIN given -> Commits]
    /\ noFastForward \in BOOLEAN /\ nonFastForward \in BOOLEAN /\ conflicted \in BOOLEAN
    /\ at \in {"reduce", "reduced", "between", "step", "failed", "concluded"}
    /\ left \subseteq DOMAIN given /\ todo \subseteq left
    /\ mergedCommits \subseteq Commits
    /\ mergedTree \subseteq Commits /\ recorded \subseteq Commits

\* A commit reaches itself and what those it reaches do, none of it later.
Ancestry ==
    \A c \in Commits :
        /\ c \in reach[c] /\ reach[c] \subseteq 1..c
        /\ \A d \in reach[c] : reach[d] \subseteq reach[c]

\* Until octopusMerge begins no head is taken, and until mergeHeads has read
\* them the refs are where it finds them.
NoneTaken ==
    /\ at = "reduce" => reducedBy = HEAD /\ named = given /\ todo = {}
    /\ at \in {"reduce", "reduced", "between"} => ~conflicted
    /\ at = "concluded" => todo = {}

HeadsInv ==
    /\ HeadsTypeOK /\ Ancestry /\ NoneTaken
    /\ HeadsReduced /\ MergedSoFar /\ HistoryKept
=============================================================================
