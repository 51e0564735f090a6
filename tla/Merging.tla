------------------------------ MODULE Merging ------------------------------
(***************************************************************************)
(* merge, mergeContinue, cherryPick, cherryPickContinue and                *)
(* cherryPickAbort of Repository+Merge.swift and +CherryPick.swift, run by *)
(* the processes of Proc on one repository: what each reads, and when,     *)
(* of HEAD, the index, MERGE_HEAD and CHERRY_PICK_HEAD, what its caller    *)
(* resolves, stages and commits in between, and deaths at every step.      *)
(*                                                                         *)
(* A commit is its place in the sequence commits.  A tree is a set of      *)
(* changes, each named after the commit that made it or the process that   *)
(* staged it.  HEAD's branch starts at commit 2, behind 1; commit 3 and 5  *)
(* left 1 beside it, and 4 is one ahead of it.                             *)
(***************************************************************************)
EXTENDS Naturals, Sequences, FiniteSets

CONSTANTS
    Proc,        \* the processes, numbers above 5
    Targets,     \* the commits that may be merged or picked, within 3..5
    Worlds,      \* who calls what in a behaviour: see World
    MaxCommits   \* bound: the commits there are

Operations == {"merge", "mergeContinue", "cherryPick", "cherryPickContinue",
               "cherryPickAbort", "commit", "stage", "resolve", "obstruct", "die"}

Modes == {"auto", "never", "onlyFastForward"}

\* The processes of a behaviour, the operations they call, the commits they
\* name, the FastForwardModes they ask for, and a bound: the calls they make.
World(procs, operations, targets, modes, maxCalls) ==
    [procs |-> procs, operations |-> operations, targets |-> targets,
     modes |-> modes, maxCalls |-> maxCalls]

ASSUME MergingAssumption ==
    /\ Proc \subseteq Nat \ (0..5) /\ IsFiniteSet(Proc)
    /\ Targets \subseteq 3..5
    /\ \A w \in Worlds :
        /\ w.procs \subseteq Proc /\ w.operations \subseteq Operations
        /\ w.targets \subseteq Targets /\ w.modes \subseteq Modes
        /\ w.maxCalls \in Nat
    /\ MaxCommits \in Nat

Changes == (2..5) \cup Proc
Ids == 1..MaxCommits

None == 0   \* no MERGE_HEAD, no CHERRY_PICK_HEAD

VARIABLES
    commits,    \* the commits: [tree, parents, past], past the ancestors
    tip,        \* the commit of the branch HEAD names
    index,      \* [tree, unmerged]: the changes staged, those in conflict
    mergeHead,  \* MERGE_HEAD
    pickHead,   \* CHERRY_PICK_HEAD
    pc,         \* what each process does next
    call,       \* [of, heads, tree, parent]: what its call works on
    told,       \* what its last call returned
    calls,      \* how many calls were made
    given,      \* the changes a resolution left out
    world       \* who calls what, chosen once

repository == <<commits, tip, index, mergeHead, pickHead>>
bookkeeping == <<calls, given>>
vars == <<commits, tip, index, mergeHead, pickHead, pc, call, told, calls,
          given, world>>

Commit(tree, parents, id) ==
    [tree |-> tree, parents |-> parents,
     past |-> {id} \cup UNION {commits[q].past : q \in {parents[i] : i \in DOMAIN parents}}]

Tree(id) == commits[id].tree
Contains(id, other) == other \in commits[id].past

NoCall == [of |-> None, heads |-> << >>, tree |-> {}, parent |-> None]

Founding == << [tree |-> {},     parents |-> << >>,  past |-> {1}],
               [tree |-> {2},    parents |-> <<1>>,  past |-> {1, 2}],
               [tree |-> {3},    parents |-> <<1>>,  past |-> {1, 3}],
               [tree |-> {2, 4}, parents |-> <<2>>,  past |-> {1, 2, 4}],
               [tree |-> {5},    parents |-> <<1>>,  past |-> {1, 5}] >>

Init ==
    /\ commits = Founding
    /\ tip = 2
    /\ index = [tree |-> {2}, unmerged |-> {}]
    /\ mergeHead = None /\ pickHead = None
    /\ pc = [p \in Proc |-> "idle"]
    /\ call = [p \in Proc |-> NoCall]
    /\ told = [p \in Proc |-> "nothing"]
    /\ calls = 0 /\ given = {} /\ world \in Worlds

-----------------------------------------------------------------------------
Calls(operation) == operation \in world.operations

At(p, label) == pc[p] = label
GoTo(p, label) == pc' = [pc EXCEPT ![p] = label] /\ UNCHANGED <<told, world>>
Works(p, on) == call' = [call EXCEPT ![p] = on]
Return(p, as) ==
    /\ pc' = [pc EXCEPT ![p] = "idle"]
    /\ call' = [call EXCEPT ![p] = NoCall]
    /\ told' = [told EXCEPT ![p] = as]
    /\ UNCHANGED world

Enter(p, operation) ==
    /\ Calls(operation)
    /\ At(p, "idle") /\ calls < world.maxCalls
    /\ calls' = calls + 1

-----------------------------------------------------------------------------
\* merge(ref:fastForward:): the analysis against HEAD decides.
UpToDate(p, t) ==
    /\ Enter(p, "merge") /\ Contains(tip, t)
    /\ Return(p, "alreadyUpToDate")
    /\ UNCHANGED <<repository, given>>

\* Mutant: only what is up to date is not fast-forwarded.
CanAlways(t) == ~Contains(tip, t)

CanFF(t) == Contains(t, tip)

MergeStarts(p, t, mode) ==
    /\ Enter(p, "merge") /\ ~Contains(tip, t)
    /\ \/ /\ mode = "onlyFastForward" /\ ~CanFF(t)
          /\ Return(p, "error")
       \/ /\ mode # "never" /\ CanFF(t)
          /\ Works(p, [NoCall EXCEPT !.of = t])
          /\ GoTo(p, "fastForward")
       \/ /\ mode = "never" \/ (mode = "auto" /\ ~CanFF(t))
          /\ Works(p, [NoCall EXCEPT !.of = t, !.heads = <<t>>])
          /\ GoTo(p, "merge")
    /\ UNCHANGED <<repository, given>>

\* performFastForward.  A safe checkout moves what the two trees differ in
\* and keeps what else is staged; it refuses while there are conflicts.
CheckOut(p) ==
    /\ At(p, "fastForward") /\ index.unmerged = {}
    /\ index' = [index EXCEPT !.tree = (@ \ Tree(tip)) \cup Tree(call[p].of)]
    /\ GoTo(p, "readHead")
    /\ UNCHANGED <<commits, tip, mergeHead, pickHead, call, bookkeeping>>

CheckOutRefused(p) ==
    /\ At(p, "fastForward")
    /\ index.unmerged # {} \/ Calls("obstruct")
    /\ Return(p, "error")
    /\ UNCHANGED <<repository, bookkeeping>>

ReadHead(p) ==
    /\ At(p, "readHead")
    /\ Works(p, [call[p] EXCEPT !.parent = tip])
    /\ GoTo(p, "setTarget")
    /\ UNCHANGED <<repository, bookkeeping>>

\* git_reference_set_target replaces the value that was read.
SetTarget(p) ==
    /\ At(p, "setTarget")
    /\ IF tip = call[p].parent
       THEN tip' = call[p].of /\ Return(p, "fastForward")
       ELSE UNCHANGED tip /\ Return(p, "error")
    /\ UNCHANGED <<commits, index, mergeHead, pickHead, bookkeeping>>

-----------------------------------------------------------------------------
\* git_merge and git_cherrypick write their state file, apply what they bring
\* to the index and the work tree, and leave the conflicts in it.  They refuse
\* when anything is staged that is not in their result, or a file is in the
\* way, and then remove the state file, whoever's it is.
Brings(p) ==
    IF At(p, "merge") THEN Tree(call[p].of) \ Tree(tip) ELSE {call[p].of}

StateFiles(p, id) ==
    IF At(p, "merge") THEN mergeHead' = id /\ UNCHANGED pickHead
                      ELSE pickHead' = id /\ UNCHANGED mergeHead

Applies(p) == At(p, "merge") \/ At(p, "pick")

Fits(p) ==
    /\ index.unmerged = {} /\ Tree(tip) \subseteq index.tree
    /\ index.tree \ Tree(tip) \subseteq Brings(p)

ApplyRefused(p) ==
    /\ Applies(p) /\ (Fits(p) => Calls("obstruct"))
    /\ StateFiles(p, None)
    /\ Return(p, "error")
    /\ UNCHANGED <<commits, tip, index, bookkeeping>>

\* Mutant: the tree to commit is taken before the merge.
ApplyBehindTree(p) ==
    /\ Applies(p) /\ Fits(p)
    /\ StateFiles(p, call[p].of)
    /\ index' = [index EXCEPT !.tree = @ \cup Brings(p)]
    /\ Works(p, [call[p] EXCEPT !.tree = index.tree])
    /\ GoTo(p, "parent")
    /\ UNCHANGED <<commits, tip, bookkeeping>>

ApplyCleanly(p) ==
    /\ Applies(p) /\ Fits(p)
    /\ StateFiles(p, call[p].of)
    /\ index' = [index EXCEPT !.tree = @ \cup Brings(p)]
    /\ Works(p, [call[p] EXCEPT !.tree = index'.tree])
    /\ GoTo(p, "parent")
    /\ UNCHANGED <<commits, tip, bookkeeping>>

ApplyConflicting(p) ==
    /\ Applies(p) /\ Fits(p)
    /\ Brings(p) \ index.tree # {}
    /\ StateFiles(p, call[p].of)
    /\ index' = [index EXCEPT !.unmerged = Brings(p) \ index.tree]
    /\ Return(p, "conflict")
    /\ UNCHANGED <<commits, tip, bookkeeping>>

\* The end of performMergeCommit, writeCherryPickCommit and mergeContinue:
\* HEAD is read for the parent, git_commit_create refuses when it has moved
\* since, and the state files go last.
ReadParent(p) ==
    /\ At(p, "parent")
    /\ Works(p, [call[p] EXCEPT !.parent = tip])
    /\ GoTo(p, "create")
    /\ UNCHANGED <<repository, bookkeeping>>

Record(tree, parents) ==
    /\ Len(commits) < MaxCommits
    /\ commits' = Append(commits, Commit(tree, parents, Len(commits) + 1))
    /\ tip' = Len(commits) + 1

Create(p) ==
    /\ At(p, "create") /\ tip = call[p].parent
    /\ Record(call[p].tree, <<call[p].parent>> \o call[p].heads)
    /\ GoTo(p, "cleanUp")
    /\ UNCHANGED <<index, mergeHead, pickHead, call, bookkeeping>>

CreateRefused(p) ==
    /\ At(p, "create") /\ tip # call[p].parent
    /\ Return(p, "error")
    /\ UNCHANGED <<repository, bookkeeping>>

\* Mutant: MERGE_HEAD stays.
CleanUpPick(p) ==
    /\ At(p, "cleanUp")
    /\ pickHead' = None
    /\ Return(p, "committed")
    /\ UNCHANGED <<commits, tip, index, mergeHead, bookkeeping>>

CleanUp(p) ==
    /\ At(p, "cleanUp")
    /\ mergeHead' = None /\ pickHead' = None
    /\ Return(p, "committed")
    /\ UNCHANGED <<commits, tip, index, bookkeeping>>

-----------------------------------------------------------------------------
\* mergeContinue and cherryPickContinue throw without their state file and
\* while there are conflicts.
Resumes(p, operation, head, heads) ==
    /\ Enter(p, operation)
    /\ head # None /\ index.unmerged = {}
    /\ Works(p, [of |-> head, heads |-> heads, tree |-> index.tree, parent |-> None])
    /\ GoTo(p, "parent")
    /\ UNCHANGED <<repository, given>>

\* Mutant: MERGE_HEAD is not made a parent.
MergeContinueAlone(p) == Resumes(p, "mergeContinue", mergeHead, << >>)

MergeContinue(p) == Resumes(p, "mergeContinue", mergeHead, <<mergeHead>>)
CherryPickContinue(p) == Resumes(p, "cherryPickContinue", pickHead, << >>)

CannotContinue(p) ==
    /\ \/ Enter(p, "mergeContinue") /\ (mergeHead = None \/ index.unmerged # {})
       \/ Enter(p, "cherryPickContinue") /\ (pickHead = None \/ index.unmerged # {})
       \/ Enter(p, "cherryPickAbort") /\ pickHead = None
    /\ Return(p, "error")
    /\ UNCHANGED <<repository, given>>

CherryPickStarts(p, c) ==
    /\ Enter(p, "cherryPick")
    /\ Works(p, [NoCall EXCEPT !.of = c])
    /\ GoTo(p, "pick")
    /\ UNCHANGED <<repository, given>>

\* cherryPickAbort reads HEAD and then resets, hard, to what it read.
AbortReadsHead(p) ==
    /\ Enter(p, "cherryPickAbort") /\ pickHead # None
    /\ Works(p, [NoCall EXCEPT !.parent = tip])
    /\ GoTo(p, "reset")
    /\ UNCHANGED <<repository, given>>

AbortResets(p) ==
    /\ At(p, "reset")
    /\ tip' = call[p].parent
    /\ index' = [tree |-> Tree(call[p].parent), unmerged |-> {}]
    /\ mergeHead' = None /\ pickHead' = None
    /\ Return(p, "aborted")
    /\ UNCHANGED <<commits, bookkeeping>>

-----------------------------------------------------------------------------
\* commitDetailed, in one step: it records one parent, and no state file
\* matters to it.
Commits(p) ==
    /\ Enter(p, "commit")
    /\ index.unmerged = {} /\ index.tree # Tree(tip)
    /\ Record(index.tree, <<tip>>)
    /\ UNCHANGED <<index, mergeHead, pickHead, pc, call, told, given, world>>

Stages(p) ==
    /\ Calls("stage")
    /\ At(p, "idle") /\ p \notin index.tree
    /\ index' = [index EXCEPT !.tree = @ \cup {p}]
    /\ UNCHANGED <<commits, tip, mergeHead, pickHead, pc, call, told, bookkeeping, world>>

Resolves(p) ==
    /\ Calls("resolve")
    /\ At(p, "idle") /\ index.unmerged # {}
    /\ \E kept \in {{}, index.unmerged} :
          /\ index' = [tree |-> index.tree \cup kept, unmerged |-> {}]
          /\ given' = given \cup (index.unmerged \ kept)
    /\ UNCHANGED <<commits, tip, mergeHead, pickHead, pc, call, told, calls, world>>

Dies(p) ==
    /\ Calls("die") /\ ~At(p, "idle")
    /\ Return(p, "died")
    /\ UNCHANGED <<repository, bookkeeping>>

Next ==
    \E p \in world.procs :
        \/ \E t \in world.targets :
              \/ UpToDate(p, t) \/ CherryPickStarts(p, t)
              \/ \E mode \in world.modes : MergeStarts(p, t, mode)
        \/ CheckOut(p) \/ CheckOutRefused(p) \/ ReadHead(p) \/ SetTarget(p)
        \/ ApplyRefused(p) \/ ApplyCleanly(p) \/ ApplyConflicting(p)
        \/ ReadParent(p) \/ Create(p) \/ CreateRefused(p) \/ CleanUp(p)
        \/ MergeContinue(p) \/ CherryPickContinue(p) \/ CannotContinue(p)
        \/ AbortReadsHead(p) \/ AbortResets(p)
        \/ Commits(p) \/ Stages(p) \/ Resolves(p) \/ Dies(p)

Spec == Init /\ [][Next]_vars

-----------------------------------------------------------------------------
Alone == Cardinality(world.procs) = 1

\* A commit stays in effect where one process works alone: the tree of HEAD
\* has every change of every commit behind it, but for those a resolution
\* left out.  No merge, pick or commit takes back what another one brought.
NothingReverted ==
    Alone => \A a \in commits[tip].past : Tree(a) \subseteq Tree(tip) \cup given

\* The branch only goes forward: no operation drops a commit from it.
TipGrows == [][(tip \in commits'[tip'].past)]_vars

\* Histories that left 1 beside HEAD's branch, and a behaviour of merges.
Diverged == {3, 5}
Merges == {"merge", "mergeContinue", "resolve", "stage", "obstruct", "die"}

\* What a merge brought is recorded as merged, where nothing but merges are
\* called: a tree has the change of a branch that diverged only when that
\* branch's commit is behind it.
MergeRecorded ==
    Alone /\ world.operations \subseteq Merges =>
        \A t \in Targets \cap Diverged : t \in Tree(tip) => Contains(tip, t)

\* A merge of a branch that diverged is concluded once, where no process
\* dies: no merge commit has it as a parent when its first parent already
\* contains it.
ConcludedOnce ==
    Alone /\ ~Calls("die") =>
        \A i \in 6..Len(commits) :
            Len(commits[i].parents) = 2 /\ commits[i].parents[2] \in Diverged =>
                ~Contains(commits[i].parents[1], commits[i].parents[2])

-----------------------------------------------------------------------------
(***************************************************************************)
(* The invariant the proofs rest on.                                       *)
(***************************************************************************)
Forwarding == {"fastForward", "readHead", "setTarget"}
Concluding == {"parent", "create"}
Labels == Forwarding \cup Concluding \cup {"idle", "merge", "pick", "cleanUp", "reset"}

Jobs == [of : {None} \cup Targets, heads : Seq(Targets), tree : SUBSET Changes, parent : Nat]

CommitSet == [tree : SUBSET Changes, parents : Seq(Nat), past : SUBSET Nat]

TypeOK ==
    /\ commits \in Seq(CommitSet)
    /\ tip \in Nat
    /\ index \in [tree : SUBSET Changes, unmerged : SUBSET Changes]
    /\ mergeHead \in {None} \cup Targets /\ pickHead \in {None} \cup Targets
    /\ pc \in [Proc -> Labels]
    /\ call \in [Proc -> Jobs]
    /\ given \subseteq Changes
    /\ world \in Worlds

\* The history goes back: what a commit names as its parents and its past
\* was there before it.
History ==
    /\ 5 <= Len(commits) /\ tip \in 1..Len(commits)
    /\ \A i \in 1..5 : commits[i] = Founding[i]
    /\ \A i \in 1..Len(commits) :
        /\ i \in commits[i].past /\ commits[i].past \subseteq 1..i
        /\ \A j \in DOMAIN commits[i].parents : commits[i].parents[j] \in 1..(i - 1)

\* What each call works on, whoever else is at work.
Working(p) ==
    /\ pc[p] \in Forwarding \cup {"merge", "pick"} => call[p].of \in Targets
    /\ pc[p] = "merge" => call[p].heads = <<call[p].of>>
    /\ pc[p] = "pick" => call[p].heads = << >>
    /\ pc[p] \in Concluding =>
        call[p].heads = << >> \/ \E h \in Targets : call[p].heads = <<h>>
    /\ pc[p] \in {"create", "setTarget", "reset"} => call[p].parent \in 1..Len(commits)

\* Where one process works alone, the index holds what HEAD and the merge in
\* progress do, and HEAD what is behind it.
Held ==
    /\ tip \in {2, 4} \cup 6..Len(commits)
    /\ Tree(tip) \subseteq index.tree
    /\ mergeHead # None => Tree(mergeHead) \subseteq index.tree \cup index.unmerged \cup given
    /\ \A a \in commits[tip].past : Tree(a) \subseteq Tree(tip) \cup given

\* And HEAD stays where the call read it, the index what it took the tree from.
Staged(p) ==
    /\ pc[p] \in {"create", "setTarget", "reset"} => call[p].parent = tip
    /\ pc[p] \in Forwarding => Contains(call[p].of, tip)
    /\ pc[p] \in {"readHead", "setTarget"} => Tree(call[p].of) \subseteq index.tree
    /\ pc[p] = "merge" => ~Contains(tip, call[p].of)
    /\ pc[p] \in Concluding =>
        /\ call[p].tree = index.tree /\ index.unmerged = {}
        /\ call[p].heads = << >> \/ (mergeHead # None /\ call[p].heads = <<mergeHead>>)

\* Where nothing but merges are called, what diverged comes from the merge
\* in progress, or is in HEAD.
Merged(p) ==
    /\ pc[p] # "pick"
    /\ pc[p] \in Concluding => call[p].heads # << >>
    /\ mergeHead # None =>
        (index.tree \cup index.unmerged) \cap Diverged \subseteq Tree(tip) \cup {mergeHead}
    /\ \A t \in Diverged : t \in Tree(tip) => Contains(tip, t)

\* Where nobody dies, the merge in progress is not in HEAD yet, but for the
\* moment before its state is removed.
Pending(p) ==
    mergeHead \in Diverged /\ pc[p] # "cleanUp" => ~Contains(tip, mergeHead)

\* Where the calls ask for no fast-forward and no abort, nothing moves HEAD
\* but new commits.
OnlyRecords ==
    world.modes \subseteq {"never"} /\ ~Calls("cherryPickAbort") =>
        \A p \in world.procs : pc[p] \notin Forwarding \cup {"reset"}

IInv ==
    /\ TypeOK /\ History /\ OnlyRecords /\ ConcludedOnce
    /\ \A p \in world.procs : Working(p)
    /\ Alone => \A p \in world.procs :
        /\ Held /\ Staged(p)
        /\ world.operations \subseteq Merges => Merged(p)
        /\ ~Calls("die") => Pending(p)

\* The worlds in which HEAD cannot be moved back to a commit that was read: one
\* process, or several that neither fast-forward nor abort.
Steady ==
    \A w \in Worlds : \/ Cardinality(w.procs) = 1
                      \/ w.modes \subseteq {"never"} /\ "cherryPickAbort" \notin w.operations
=============================================================================
