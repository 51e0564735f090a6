------------------------------- MODULE Rebase -------------------------------
(***************************************************************************)
(* The rebase of Repository+Rebase.swift: rebase, rebaseContinue,          *)
(* rebaseSkip, rebaseAbort and the loop they share, together with what     *)
(* the caller does to the repository between two of those calls, and with  *)
(* a death of the process in the middle of one.                            *)
(*                                                                         *)
(* A history is the sequence of the commits made since the merge base; a   *)
(* commit keeps the work whose message it carries and the changes it       *)
(* brings, and a tree is the set of the changes its history brings.  The   *)
(* work is numbered: 0 is upstream's own, 1..Count the commits of the      *)
(* branch, Mine the caller's, Theirs another process's.                    *)
(***************************************************************************)
EXTENDS Naturals, Sequences, SequencesExt, FiniteSets

CONSTANTS
    Count,      \* the commits the branch has of its own
    Upstream,   \* the changes its upstream has gained since the merge base
    Worlds,     \* what else may happen in a behaviour: sets of Happenings
    MaxCalls    \* bound: the calls of the rebase operations

Happenings == {"refuse", "unsigned", "stage", "commit", "pick", "reset",
               "elsewhere", "die"}

ASSUME RebaseAssumption ==
    /\ Count \in Nat /\ MaxCalls \in Nat
    /\ Upstream \subseteq 0..Count
    /\ Worlds \subseteq SUBSET Happenings

Mine == Count + 1
Theirs == Count + 2
Work == 0..Theirs

Commits == [of : Work, brings : SUBSET Work]

\* The branch before any rebase, and the upstream it is to be moved onto.
OwnHistory == [i \in 1..Count |-> [of |-> i, brings |-> {i}]]
UpstreamHistory ==
    IF Upstream = {} THEN << >> ELSE << [of |-> 0, brings |-> Upstream] >>

Tree(history) == UNION {history[i].brings : i \in DOMAIN history}

NoRebase == [there |-> FALSE, ops |-> << >>, msgnum |-> 0, orig |-> << >>,
             named |-> FALSE]

VARIABLES
    branch,    \* the history of the branch HEAD names or named
    attached,  \* HEAD names the branch
    at,        \* the history a detached HEAD is at
    index,     \* [tree, unresolved]: the index, and its unmerged entries
    rebase,    \* .git/rebase-merge: whether it is there, the operations,
               \* msgnum, orig-head, and whether head-name names the branch
    pc,        \* the call in progress: "idle" when there is none
    call,      \* [name, applied]: its name and the loop's counter
    told,      \* [call, as, applied, ops]: what the last call returned
    calls,     \* how many calls were made
    given,     \* changes the caller gave up: skipped, or resolved away
    world      \* what else may happen, chosen once

repository == <<branch, attached, at, index, rebase>>
vars == <<branch, attached, at, index, rebase, pc, call, told, calls, given,
          world>>

HEAD == IF attached THEN branch ELSE at
Clean(history) == [tree |-> Tree(history), unresolved |-> FALSE]
InProgress == rebase.there
Operation == rebase.ops[rebase.msgnum]
Nothing == [call |-> "none", as |-> "none", applied |-> 0, ops |-> << >>]

\* Mutant: the walk gives the tip first.
TipFirst(history) ==
    Reverse(SubSeq(history,
                   Len(LongestCommonPrefix({history, UpstreamHistory})) + 1,
                   Len(history)))

\* The commits of a history that its upstream does not have.
ToReplay(history) ==
    SubSeq(history,
           Len(LongestCommonPrefix({history, UpstreamHistory})) + 1,
           Len(history))

Init ==
    /\ branch = OwnHistory /\ attached = TRUE /\ at = << >>
    /\ index = Clean(OwnHistory)
    /\ rebase = NoRebase
    /\ pc = "idle" /\ call = [name |-> "none", applied |-> 0]
    /\ told = Nothing
    /\ calls = 0
    /\ given = {}
    /\ world \in Worlds

-----------------------------------------------------------------------------
\* How a call starts, goes on and returns.
Enter(name) ==
    /\ pc = "idle" /\ calls < MaxCalls
    /\ calls' = calls + 1
    /\ call' = [name |-> name, applied |-> 0]

Return(as) ==
    /\ pc' = "idle"
    /\ told' = [call |-> call'.name, as |-> as, applied |-> call'.applied,
                ops |-> rebase.ops]
    /\ UNCHANGED world

GoTo(label) == pc' = label /\ told' = Nothing /\ UNCHANGED world

\* Mutant: the branch follows each commit.
MoveBranchAsWell(history) ==
    /\ branch' = history /\ at' = history
    /\ UNCHANGED attached

MoveHead(history) ==
    /\ branch' = IF attached THEN history ELSE branch
    /\ at' = IF attached THEN at ELSE history
    /\ UNCHANGED attached

\* git_rebase_abort: HEAD is put back where it was and reset --hard to it.
BackToOrigin(orig, named) ==
    /\ branch' = IF named THEN orig ELSE branch
    /\ at' = IF named THEN at ELSE orig
    /\ attached' = named
    /\ index' = Clean(orig)
    /\ given' = given \ Tree(orig)

-----------------------------------------------------------------------------
\* rebase(upstream:).  git_rebase_init refuses while another rebase is in
\* progress and while the index or the working tree is dirty.
MayRebase == ~InProgress /\ index = Clean(HEAD)

RebaseRefused ==
    /\ Enter("rebase") /\ ~MayRebase
    /\ Return("error")
    /\ UNCHANGED <<repository, given>>

RebaseStarts ==
    /\ Enter("rebase") /\ MayRebase
    /\ rebase' = [there |-> TRUE, ops |-> ToReplay(HEAD), msgnum |-> 0,
                  orig |-> HEAD, named |-> attached]
    /\ attached' = FALSE /\ at' = UpstreamHistory
    /\ index' = Clean(UpstreamHistory)
    /\ GoTo(IF rebase'.ops = << >> THEN "undo" ELSE "next")
    /\ UNCHANGED <<branch, given>>

\* Without an operation to apply the rebase is aborted at once.
NothingToReplay ==
    /\ pc = "undo"
    /\ BackToOrigin(rebase.orig, rebase.named)
    /\ rebase' = NoRebase
    /\ UNCHANGED <<call, calls>>
    /\ Return("alreadyUpToDate")

\* Mutant: the operation paused at is taken for committed.
ContinueBehind ==
    /\ Enter("rebaseContinue") /\ InProgress
    /\ GoTo("next")
    /\ UNCHANGED <<repository, given>>

\* rebaseContinue: the operation paused at is committed first, unless the
\* rebase has not started on any.
RebaseContinue ==
    /\ Enter("rebaseContinue") /\ InProgress
    /\ GoTo(IF rebase.msgnum # 0 THEN "resume" ELSE "next")
    /\ UNCHANGED <<repository, given>>

\* rebaseSkip: a forced checkout of HEAD, and the loop goes on behind the
\* operation paused at.
RebaseSkip ==
    /\ Enter("rebaseSkip") /\ InProgress
    /\ index' = Clean(HEAD)
    /\ given' = given \cup IF rebase.msgnum # 0 THEN Operation.brings ELSE {}
    /\ GoTo("next")
    /\ UNCHANGED <<branch, attached, at, rebase>>

RebaseAbort ==
    /\ Enter("rebaseAbort") /\ InProgress
    /\ BackToOrigin(rebase.orig, rebase.named)
    /\ rebase' = NoRebase
    /\ Return("aborted")

\* The three of them throw "no rebase in progress" when there is none.
NoRebaseInProgress ==
    \E name \in {"rebaseContinue", "rebaseSkip", "rebaseAbort"} :
        /\ Enter(name) /\ ~InProgress
        /\ Return("error")
        /\ UNCHANGED <<repository, given>>

-----------------------------------------------------------------------------
\* runRebaseLoop.  git_rebase_next counts msgnum on before it applies the
\* operation; GIT_ITEROVER ends the loop.
Step == pc = "next" /\ rebase.msgnum < Len(rebase.ops)
Upcoming == rebase.ops[rebase.msgnum + 1]
CountOn == rebase' = [rebase EXCEPT !.msgnum = @ + 1]

\* Nothing may be staged that is not in the result.
Fits(result) ==
    ~index.unresolved /\ Tree(HEAD) \subseteq index.tree /\ index.tree \subseteq result

AppliesCleanly ==
    /\ Step /\ CountOn
    /\ Fits(Tree(HEAD) \cup Upcoming.brings)
    /\ index' = [tree |-> Tree(HEAD) \cup Upcoming.brings, unresolved |-> FALSE]
    /\ GoTo("replay")
    /\ UNCHANGED <<branch, attached, at, call, calls, given>>

AppliesWithConflicts ==
    /\ Step /\ CountOn
    /\ Fits(Tree(HEAD) \cup Upcoming.brings)
    /\ ~(Upcoming.brings \subseteq index.tree)
    /\ index' = [tree |-> Tree(HEAD), unresolved |-> TRUE]
    /\ UNCHANGED <<branch, attached, at, call, calls, given>>
    /\ Return("conflict")

\* Mutant: any error is taken for the end of the loop.
AnyErrorEnds ==
    /\ Step /\ CountOn
    /\ Fits(Tree(HEAD) \cup Upcoming.brings) => "refuse" \in world
    /\ UNCHANGED <<branch, attached, at, index, call, calls, given>>
    /\ GoTo("finish")

\* Something else is staged, or a file is in the way of the checkout: the
\* error leaves the index as it is, and msgnum counted on.
NextRefused ==
    /\ Step /\ CountOn
    /\ Fits(Tree(HEAD) \cup Upcoming.brings) => "refuse" \in world
    /\ UNCHANGED <<branch, attached, at, index, call, calls, given>>
    /\ Return("error")

LoopEnds ==
    /\ pc = "next" /\ rebase.msgnum = Len(rebase.ops)
    /\ GoTo("finish")
    /\ UNCHANGED <<repository, call, calls, given>>

\* commitCurrent, for the operation the loop has just applied ("replay") and
\* for the one rebaseContinue found ("resume").
Unsigned ==
    /\ "unsigned" \in world
    /\ pc \in {"replay", "resume", "finish"}
    /\ UNCHANGED <<repository, call, calls, given>>
    /\ Return("error")

CommitRefused(why) ==
    /\ pc \in {"replay", "resume"}
    /\ UNCHANGED <<repository, call, calls, given>>
    /\ Return(why)

CommitUnmerged == index.unresolved /\ CommitRefused("unmerged")

CommitAlreadyApplied ==
    /\ ~index.unresolved /\ index.tree = Tree(HEAD)
    /\ CommitRefused("applied")

CommitCurrent ==
    /\ pc \in {"replay", "resume"}
    /\ ~index.unresolved /\ index.tree # Tree(HEAD)
    /\ MoveHead(Append(HEAD, [of |-> Operation.of,
                              brings |-> index.tree \ Tree(HEAD)]))
    /\ call' = [call EXCEPT !.applied = @ + IF pc = "replay" THEN 1 ELSE 0]
    /\ GoTo("next")
    /\ UNCHANGED <<index, rebase, calls, given>>

\* Mutant: the branch is moved wherever it is.
MoveBranchAnyway == TRUE

\* git_rebase_finish: the branch is moved if it still is where the rebase
\* found it, HEAD names it again, and .git/rebase-merge goes.
BranchAsFound == ~rebase.named \/ branch = rebase.orig

Finish ==
    /\ pc = "finish" /\ BranchAsFound
    /\ branch' = IF rebase.named THEN HEAD ELSE branch
    /\ attached' = rebase.named
    /\ rebase' = NoRebase
    /\ UNCHANGED <<at, index, call, calls, given>>
    /\ Return("completed")

FinishRefused ==
    /\ pc = "finish" /\ ~BranchAsFound
    /\ UNCHANGED <<repository, call, calls, given>>
    /\ Return("error")

Loop ==
    \/ AppliesCleanly \/ AppliesWithConflicts \/ NextRefused \/ LoopEnds
    \/ Unsigned \/ CommitUnmerged \/ CommitAlreadyApplied \/ CommitCurrent
    \/ Finish \/ FinishRefused

-----------------------------------------------------------------------------
\* Between two calls the caller resolves and stages, and may use the other
\* operations of the repository.
Between == pc = "idle" /\ UNCHANGED <<pc, call, told, calls, world>>

Resolve(keep) ==
    /\ Between /\ index.unresolved
    /\ index' = [tree |-> index.tree \cup IF keep THEN Operation.brings ELSE {},
                 unresolved |-> FALSE]
    /\ given' = IF keep THEN given ELSE given \cup Operation.brings
    /\ UNCHANGED <<branch, attached, at, rebase>>

Stage ==
    /\ "stage" \in world
    /\ Between /\ Mine \notin index.tree
    /\ index' = [index EXCEPT !.tree = @ \cup {Mine}]
    /\ UNCHANGED <<branch, attached, at, rebase, given>>

\* commitDetailed: it does not ask whether a rebase is in progress.
Commit ==
    /\ "commit" \in world
    /\ Between /\ ~index.unresolved /\ index.tree # Tree(HEAD)
    /\ MoveHead(Append(HEAD, [of |-> Mine, brings |-> index.tree \ Tree(HEAD)]))
    /\ UNCHANGED <<index, rebase, given>>

\* A cherry-pick that applies: git_repository_state_cleanup, called for
\* CHERRY_PICK_HEAD, removes .git/rebase-merge as well.
CherryPick ==
    /\ "pick" \in world
    /\ Between /\ Mine \notin Tree(HEAD)
    /\ Fits(Tree(HEAD) \cup {Mine})
    /\ index' = [index EXCEPT !.tree = @ \cup {Mine}]
    /\ MoveHead(Append(HEAD, [of |-> Mine, brings |-> index'.tree \ Tree(HEAD)]))
    /\ rebase' = NoRebase
    /\ UNCHANGED given

\* reset(to: "HEAD", mode: .hard): git_reset cleans the same files up.  The
\* conflict it throws away is that of the operation paused at.
Reset ==
    /\ "reset" \in world
    /\ Between /\ (InProgress \/ index # Clean(HEAD))
    /\ index' = Clean(HEAD)
    /\ rebase' = NoRebase
    /\ UNCHANGED <<branch, attached, at, given>>

\* Another process commits to the branch while HEAD does not name it.
Elsewhere ==
    /\ "elsewhere" \in world
    /\ ~attached /\ Theirs \notin Tree(branch)
    /\ branch' = Append(branch, [of |-> Theirs, brings |-> {Theirs}])
    /\ UNCHANGED <<attached, at, index, rebase, pc, call, told, calls, given, world>>

Die ==
    /\ "die" \in world
    /\ pc # "idle"
    /\ UNCHANGED <<repository, call, calls, given>>
    /\ Return("died")

Next ==
    \/ RebaseRefused \/ RebaseStarts \/ NothingToReplay
    \/ RebaseContinue \/ RebaseSkip \/ RebaseAbort \/ NoRebaseInProgress
    \/ Loop
    \/ \E keep \in BOOLEAN : Resolve(keep)
    \/ Stage \/ Commit \/ CherryPick \/ Reset \/ Elsewhere \/ Die

Spec == Init /\ [][Next]_vars

-----------------------------------------------------------------------------
TypeOK ==
    /\ branch \in Seq(Commits) /\ at \in Seq(Commits)
    /\ attached \in BOOLEAN
    /\ index \in [tree : SUBSET Work, unresolved : BOOLEAN]
    /\ rebase \in [there : BOOLEAN, ops : Seq(Commits), msgnum : Nat,
                   orig : Seq(Commits), named : BOOLEAN]
    /\ rebase.msgnum \in 0..Len(rebase.ops)
    /\ pc \in {"idle", "undo", "next", "replay", "resume", "finish"}
    /\ pc # "idle" => InProgress /\ ~attached
    /\ index.unresolved => InProgress /\ rebase.msgnum # 0
    /\ pc \in {"replay", "resume"} => rebase.msgnum # 0
    /\ calls \in 0..MaxCalls
    /\ given \subseteq Work
    /\ world \in Worlds

\* Every operation was applied (RebaseOutcome.completed): when a call reports
\* it completed, each operation's change is in HEAD, or its caller gave it
\* up with rebaseSkip or while resolving.
EveryOperationApplied ==
    told.as = "completed" /\ pc = "idle" =>
        \A i \in DOMAIN told.ops : told.ops[i].brings \subseteq Tree(HEAD) \cup given

\* The work is never out of reach: at every moment, in the middle of a
\* rebase and after a death too, the branch has every change it had, or the
\* caller gave it up.
WorkKept == 1..Count \subseteq Tree(branch) \cup given

\* The commits are replayed in the order they were made, and behind the whole
\* of upstream.
ReplayedInOrder ==
    InProgress =>
        /\ IsPrefix(UpstreamHistory, HEAD)
        /\ \A i, j \in DOMAIN HEAD :
              i < j /\ {HEAD[i].of, HEAD[j].of} \subseteq 1..Count =>
                  HEAD[i].of <= HEAD[j].of

\* The branch moves once: until the rebase finishes it stays as it was, and
\* it then moves to the whole of the replayed history; besides, only an abort
\* and new commits on top of it move it.
BranchMovesOnce ==
    [][branch' # branch =>
        \/ IsPrefix(branch, branch')
        \/ InProgress /\ ~InProgress' /\ branch' \in {rebase.orig, HEAD}
       ]_vars

\* A commit that reached the branch from elsewhere while it was being rebased
\* is dropped by a git_rebase_abort only, which puts the branch back where it
\* was: that of rebaseAbort, and that of a rebase with nothing to replay.
ElsewhereKept ==
    [][(Theirs \in Tree(branch) \ Tree(branch')) =>
          told'.as \in {"aborted", "alreadyUpToDate"}]_vars

-----------------------------------------------------------------------------
(***************************************************************************)
(* The invariant the proofs rest on.                                       *)
(***************************************************************************)

\* What is staged is HEAD's, the caller's, or of the operation paused at.
Brought == IF InProgress /\ rebase.msgnum # 0 THEN Operation.brings ELSE {}

Staged ==
    /\ Tree(HEAD) \subseteq index.tree
    /\ index.tree \subseteq Tree(HEAD) \cup Brought \cup {Mine}
    /\ pc \in {"undo", "next", "finish"} =>
            index.tree \subseteq Tree(HEAD) \cup {Mine} /\ ~index.unresolved

\* A rebase in progress: HEAD is behind upstream, its branch where it was but
\* for what came from elsewhere, and each change in upstream or an operation.
Replaying ==
    InProgress =>
        /\ ~attached
        /\ IsPrefix(UpstreamHistory, at)
        /\ Tree(rebase.orig) \subseteq Upstream \cup Tree(rebase.ops)
        /\ pc = "undo" => rebase.ops = << >>
        /\ pc = "finish" => rebase.msgnum = Len(rebase.ops)
        /\ rebase.named =>
            /\ IsPrefix(rebase.orig, branch)
            /\ Tree(branch) \subseteq Tree(rebase.orig) \cup {Theirs}

\* The commits of the branch are in their order in every history.
Ordered(history) ==
    \A i, j \in DOMAIN history :
        i < j /\ {history[i].of, history[j].of} \subseteq 1..Count =>
            history[i].of <= history[j].of

\* No commit of a history is later than the n-th operation, nor than those
\* behind it.
NotLater(history, ops, n) ==
    \A i \in DOMAIN history, j \in DOMAIN ops :
        j >= n /\ {history[i].of, ops[j].of} \subseteq 1..Count =>
            history[i].of <= ops[j].of

InOrder ==
    /\ Ordered(branch) /\ Ordered(HEAD)
    /\ InProgress => /\ Ordered(rebase.orig) /\ Ordered(rebase.ops)
                     /\ NotLater(at, rebase.ops, rebase.msgnum)

\* What the branch has not, or has from elsewhere, is nowhere else.
Gone == ((1..Count) \ Tree(branch)) \cup {Theirs}

StaysGone ==
    /\ Gone \cap (Upstream \cup Tree(HEAD)) = {}
    /\ InProgress => Gone \cap (Tree(rebase.orig) \cup Tree(rebase.ops)) = {}

\* What the operations bring is in HEAD or was given up, up to the one paused
\* at, and that one once it is committed or skipped.
Behind == IF pc \in {"next", "finish"} THEN rebase.msgnum ELSE rebase.msgnum - 1

Applied ==
    /\ InProgress => \A i \in 1..Behind :
            rebase.ops[i].brings \subseteq Tree(HEAD) \cup given
    /\ told.as = "completed" => \A i \in DOMAIN told.ops :
            told.ops[i].brings \subseteq Tree(HEAD) \cup given

\* The operation paused at is in conflict, staged, or not applied at all.
Paused ==
    InProgress /\ rebase.msgnum # 0 /\ pc \in {"idle", "replay", "resume"} =>
        \/ index.unresolved
        \/ Operation.brings \subseteq index.tree \cup given
        \/ "stage" \notin world /\ index.tree = Tree(HEAD)

\* Nothing is staged when an operation is applied.
Tidied ==
    /\ pc \in {"undo", "next", "finish"} => index.tree = Tree(HEAD)
    /\ "stage" \notin world => index.tree \subseteq Tree(HEAD) \cup Brought
    /\ "stage" \in world /\ InProgress =>
            /\ pc = "idle" => rebase.msgnum # 0
            /\ pc \in {"next", "finish"} => rebase.ops # << >>

\* The worlds in which nothing else is staged where an operation is refused
\* or a process dies.
Tidy(w) == "stage" \in w => w \cap {"refuse", "die"} = {}

IInv ==
    /\ TypeOK /\ Staged /\ Replaying /\ InOrder /\ StaysGone
    /\ Tidy(world) => WorkKept /\ Applied /\ Paused /\ Tidied
=============================================================================
