---------------------------- MODULE OctopusCheckout ----------------------------
(***************************************************************************)
(* How Repository.octopusMerge brings a merge it has made in memory to the *)
(* work tree, the index and HEAD, or takes back what it did: the preflight,*)
(* the snapshot, the paths outside a sparse checkout, libgit2's checkout,  *)
(* the merge state, the sparse rules again, and HEAD.  Any step that can   *)
(* throw may do so.  Meanwhile HEAD's ref may be locked, moved or deleted, *)
(* and someone may be editing files.                                       *)
(***************************************************************************)
EXTENDS Naturals

CONSTANTS
    Paths,
    Merges,        \* pairs of HEAD's tree and what a merge makes of it
    MaxFaults,     \* bound: steps that throw
    MaxEdits       \* bound: edits while the merge runs

Nothing == "nothing"

\* What a path holds in a tree: our side's content or the one merged in.
\* A merge may also leave it unmerged: changed on both sides, or deleted on
\* one of them.
Merged   == {"ours", "theirs", Nothing}
Unmerged == {"conflict", "theirsGone", "oursGone"}

Entries == Merged \cup Unmerged

\* What a path holds in the work tree.
Contents == {"ours", "theirs", "markers", "edit", Nothing}

Files == {"MERGE_HEAD", "MERGE_MSG", "MERGE_MODE"}

ASSUME OctopusAssumption ==
    /\ MaxFaults \in Nat /\ MaxEdits \in Nat
    /\ Merges \subseteq [head : [Paths -> {"ours", Nothing}], result : [Paths -> Entries]]

VARIABLES
    disk,    \* the work tree
    index,   \* each path's entry and skip-worktree bit
    rules,   \* the sparse checkout: off, on without a file, or the paths in
    head,    \* where HEAD's ref is
    locked,  \* whether another process holds HEAD's ref
    state,   \* the merge state files there are
    pc,
    call,    \* octopusMerge's locals
    outcome,
    faults, edits

vars == <<disk, index, rules, head, locked, state, pc, call, outcome, faults, edits>>

Index == [entry : [Paths -> Entries], skip : SUBSET Paths]

\* start is history, not code: what the call found.  found is the work tree
\* the snapshot saw, of which the code keeps only which paths were there.
Calls == [head    : [Paths -> {"ours", Nothing}],
          result  : [Paths -> Entries],
          keep    : SUBSET Paths,          \* skipWorktree
          snap    : Index,                 \* CheckoutSnapshot.index
          found   : [Paths -> Contents],
          outside : SUBSET Paths,
          todo    : SUBSET Paths,          \* checked out safely
          forced  : SUBSET Paths,          \* checked out by force
          gone    : SUBSET Paths,          \* left to the index alone
          written : SUBSET Paths,          \* reapplySparsity's undo
          removed : SUBSET Paths,
          start   : [disk : [Paths -> Contents], index : Index]]

Control == {"idle", "snapshot", "outside", "stage", "checkout", "force", "gone", "commit",
            "bits", "reapply", "hide", "mark", "head", "persist", "over"}

Outcomes == {"none", "refused", "thrown", "headUnreadable", "conflicts", "mergeCommit",
             "headNotUpdated", "headMoved", "headMissing"}

TypeOK ==
    /\ disk \in [Paths -> Contents]
    /\ index \in Index
    /\ rules \in [on : BOOLEAN, file : BOOLEAN, cone : SUBSET Paths]
    /\ head \in {"start", "other", "gone", "merge"}
    /\ locked \in BOOLEAN
    /\ state \in SUBSET Files
    /\ pc \in Control
    /\ call \in Calls
    /\ outcome \in Outcomes
    /\ faults \in 0..MaxFaults /\ edits \in 0..MaxEdits

Init ==
    /\ \E mg \in Merges :
        /\ disk \in [Paths -> {"ours", "edit", Nothing}]
        /\ index \in [entry : {mg.head}, skip : SUBSET {p \in Paths : mg.head[p] # Nothing}]
        /\ call = [head |-> mg.head, result |-> mg.result, keep |-> {}, snap |-> index,
                   found |-> disk, outside |-> {}, todo |-> {}, forced |-> {}, gone |-> {},
                   written |-> {}, removed |-> {}, start |-> [disk |-> disk, index |-> index]]
    /\ \A p \in Paths : disk[p] = "ours" => call.head[p] = "ours"
    /\ rules \in [on : BOOLEAN, file : BOOLEAN, cone : SUBSET Paths]
    /\ (rules.file => rules.on) /\ (~rules.file => rules.cone = {})
    /\ head = "start" /\ locked = FALSE
    /\ state \in {{}, {"MERGE_HEAD"}}
    /\ pc = "idle" /\ outcome = "none" /\ faults = 0 /\ edits = 0

-----------------------------------------------------------------------------

\* The paths the merge changes, and whether it leaves conflicts.
Changed   == {p \in Paths : call.result[p] # call.head[p]}
Conflicts == \E p \in Paths : call.result[p] \in Unmerged

\* The paths the sparse checkout leaves out of the work tree, of ps.
SparseExclusions(ps) ==
    IF ~rules.on THEN {}
    ELSE IF rules.file THEN ps \ rules.cone
    ELSE {p \in ps : p \in index.skip /\ disk[p] = Nothing}

\* What checkout writes for a path.
OnDisk(p) ==
    LET e == call.result[p]
    IN  IF e = "conflict" THEN "markers" ELSE IF e = "theirsGone" THEN "ours"
        ELSE IF e = "oursGone" THEN Nothing ELSE e

\* putBack: ps written again, by force, as the index i has them; a path it
\* does not have stays as it is.
PutBack(d, i, ps) ==
    [p \in Paths |-> IF p \in ps /\ i.entry[p] \in Merged \ {Nothing} THEN i.entry[p] ELSE d[p]]

BackForgetsRemoved(d) ==            \* mutant: only what the merge added goes
    [p \in Paths |-> IF p \in Changed /\ call.found[p] = Nothing THEN Nothing ELSE d[p]]

\* The work tree d after rollBack: the paths of the snapshot written again
\* where something stood, and taken away where nothing did.
Back(d) ==
    PutBack([p \in Paths |-> IF p \in Changed /\ call.found[p] = Nothing THEN Nothing ELSE d[p]],
            call.snap, {p \in Changed : call.found[p] # Nothing})

\* rollBack: the index file's bytes first, then the paths from it.
RollBack(d) == index' = call.snap /\ disk' = Back(d)

\* reapplySparsity's undo, with the index as i.
Undone(d, i) ==
    [p \in Paths |-> IF p \in call.written THEN Nothing
                     ELSE PutBack(d, i, call.removed)[p]]

Over(o) == pc' = "over" /\ outcome' = o
Goto(l) == pc' = l /\ UNCHANGED outcome

\* A step that throws.
Fault == faults < MaxFaults /\ faults' = faults + 1

others == <<rules, head, locked, edits>>

\* The call throws, with nothing of it to take back, or with the snapshot to
\* go back to.
ThrowsNow ==
    /\ Fault /\ Over("thrown")
    /\ UNCHANGED <<disk, index, state, call, others>>

ThrowsBack ==
    /\ Fault /\ Over("thrown")
    /\ RollBack(disk)
    /\ UNCHANGED <<state, call, others>>

-----------------------------------------------------------------------------

LooksAtTracked ==                   \* mutant: untracked files are not looked at
    \E p \in Changed : disk[p] \notin {index.entry[p], Nothing} /\ index.entry[p] # Nothing

\* Local changes in paths the merge changes: overwrites, of the entries and
\* files workingTreeChanges looks at.  A file gone has nothing to lose.
LocalChanges == \E p \in Changed : disk[p] \notin {index.entry[p], Nothing}

\* refuseWhereGitWontMerge, the index against HEAD, the preflight, and the
\* skip-worktree bits to keep.
Begin ==
    /\ pc = "idle"
    /\ IF state # {} \/ index.entry # call.head \/ LocalChanges
       THEN Over("refused") /\ UNCHANGED call
       ELSE /\ call' = [call EXCEPT !.keep = IF rules.file THEN index.skip \ rules.cone ELSE index.skip]
            /\ Goto("snapshot")
    /\ UNCHANGED <<disk, index, state, others, faults>>

\* Unmerged paths with nothing to write: those a side deleted that are not
\* in the work tree.
NotWritten ==
    {p \in Changed : /\ call.result[p] \in {"theirsGone", "oursGone"}
                     /\ disk[p] = Nothing \/ (call.result[p] = "oursGone" /\ call.head[p] = Nothing)}

\* Deletions of files the work tree no longer has.
GoneAlready == {p \in Changed : call.result[p] = Nothing /\ disk[p] = Nothing}

\* checkOutConflicts or commitMerge: the paths to check out, the snapshot,
\* then withCheckout's plan for them.
Snapshot ==
    /\ pc = "snapshot"
    /\ \/ LET gone  == IF Conflicts THEN NotWritten ELSE GoneAlready
              paths == Changed \ gone
              out   == {p \in SparseExclusions(paths) : call.result[p] \in {"ours", "theirs"}}
          IN  /\ call' = [call EXCEPT !.snap = index, !.found = disk, !.outside = out, !.gone = gone,
                                      !.todo = (paths \ out) \ index.skip,
                                      !.forced = (paths \ out) \cap index.skip]
              /\ Goto("outside")
              /\ UNCHANGED <<disk, index, state, others, faults>>
       \/ ThrowsNow

\* removeOutsideWorkTree: files outside the sparse checkout go, one by one.
RemoveOutside ==
    /\ pc = "outside"
    /\ \/ \E p \in call.outside :
            /\ disk[p] # Nothing
            /\ disk' = [disk EXCEPT ![p] = Nothing]
            /\ UNCHANGED <<index, pc, outcome, faults>>
       \/ /\ \A p \in call.outside : disk[p] = Nothing
          /\ Goto("stage")
          /\ UNCHANGED <<disk, index, faults>>
    /\ UNCHANGED <<state, call, others>>

RemoveOutsideThrows == pc = "outside" /\ call.outside # {} /\ ThrowsBack

StagesNothing ==                    \* mutant: the entries are left out
    pc = "stage" /\ Goto("checkout") /\ UNCHANGED <<disk, index, state, call, others, faults>>

\* stageOutsideWorkTree: their entries, skip-worktree, in one write.
StageOutside ==
    /\ pc = "stage"
    /\ \/ /\ index' = [entry |-> [p \in Paths |-> IF p \in call.outside THEN call.result[p]
                                                  ELSE index.entry[p]],
                       skip  |-> index.skip \cup call.outside]
          /\ Goto("checkout")
          /\ UNCHANGED <<disk, state, call, others, faults>>
       \/ call.outside # {} /\ ThrowsBack

-----------------------------------------------------------------------------
(* libgit2's checkout                                                      *)

\* A safe checkout refuses, before it writes, a file that is neither the
\* one in HEAD, the baseline, nor the merged one; a HEAD that moved is
\* another baseline, and may refuse more.
CheckoutRefuses ==
    /\ pc = "checkout"
    /\ \E p \in call.todo :
        head # "start" \/ disk[p] \notin {call.head[p], OnDisk(p), Nothing}
    /\ Over("thrown")
    /\ RollBack(disk)
    /\ UNCHANGED <<state, call, others, faults>>

\* It writes one file after another, safely or by force.
Writes(ps) ==
    /\ \E p \in ps :
        /\ disk[p] # OnDisk(p)
        /\ disk' = [disk EXCEPT ![p] = OnDisk(p)]
    /\ UNCHANGED <<index, state, pc, call, outcome, others, faults>>

\* Then the index, where entries lose their skip-worktree bit.
Indexes(ps, next) ==
    /\ \A p \in ps : disk[p] = OnDisk(p)
    /\ index' = [entry |-> [p \in Paths |-> IF p \in ps THEN call.result[p] ELSE index.entry[p]],
                 skip  |-> index.skip \ ps]
    /\ Goto(next)
    /\ UNCHANGED <<disk, state, call, others, faults>>

Checkout ==
    /\ pc = "checkout"
    /\ \A p \in call.todo : disk[p] \in {call.head[p], OnDisk(p), Nothing}
    /\ Writes(call.todo) \/ Indexes(call.todo, "force")

CheckoutThrows == pc = "checkout" /\ call.todo # {} /\ ThrowsBack

ForcedCheckout ==
    /\ pc = "force"
    /\ Writes(call.forced) \/ Indexes(call.forced, "gone")

ForcedCheckoutThrows == pc = "force" /\ call.forced # {} /\ ThrowsBack

\* The entries that had nothing to check out: a clean merge drops theirs, a
\* conflict gets its stages.
IndexGone ==
    /\ pc = "gone"
    /\ \/ /\ index' = [entry |-> [p \in Paths |-> IF p \in call.gone THEN call.result[p]
                                                  ELSE index.entry[p]],
                       skip  |-> index.skip \ call.gone]
          /\ Goto(IF Conflicts THEN "persist" ELSE "commit")
          /\ UNCHANGED <<disk, state, call, others, faults>>
       \/ call.gone # {} /\ ThrowsBack

-----------------------------------------------------------------------------
(* A clean merge: the commit object, the sparse rules, HEAD                *)

CreateCommit ==
    /\ pc = "commit"
    /\ \/ /\ Goto("bits")
          /\ UNCHANGED <<disk, index, state, call, others, faults>>
       \/ ThrowsBack

\* What a clean merge does where a later step throws; a merge that stopped
\* at conflicts has its merge state written by then, and keeps it.
SettleThrows(d) ==
    /\ Fault /\ Over("thrown")
    /\ IF Conflicts
       THEN disk' = d /\ UNCHANGED index
       ELSE RollBack(d)
    /\ UNCHANGED <<state, call, others>>

KeepsNoBits ==                      \* mutant: the bits stay lost
    pc = "bits" /\ Goto("reapply") /\ UNCHANGED <<disk, index, state, call, others, faults>>

\* keepSkipWorktree: the bits the checkout lost, one write of the index each.
KeepBits ==
    /\ pc = "bits"
    /\ \/ \E p \in call.keep :
            /\ index.entry[p] \in {"ours", "theirs"} /\ p \notin index.skip
            /\ index' = [index EXCEPT !.skip = @ \cup {p}]
            /\ UNCHANGED <<disk, state, pc, call, outcome, others, faults>>
       \/ /\ \A p \in call.keep : index.entry[p] \in {"ours", "theirs"} => p \in index.skip
          /\ Goto("reapply")
          /\ UNCHANGED <<disk, index, state, call, others, faults>>
       \/ SettleThrows(disk)

\* reapplySparsity: the entries the rules take back in, and leave out.
Restored == {p \in index.skip : index.entry[p] \in {"ours", "theirs"} /\ p \in rules.cone}
Hidden   == {p \in Paths : /\ index.entry[p] \in {"ours", "theirs"}
                           /\ p \notin rules.cone /\ p \notin index.skip}

\* What is missing of the paths taken back in is written.
Reapply ==
    /\ pc = "reapply"
    /\ \/ /\ ~rules.file
          /\ Goto("mark")
          /\ UNCHANGED <<disk, index, state, call, others, faults>>
       \/ /\ rules.file
          /\ LET missing == {p \in Restored : disk[p] = Nothing}
             IN  /\ call' = [call EXCEPT !.written = missing]
                 /\ disk' = PutBack(disk, index, missing)
          /\ Goto("hide")
          /\ UNCHANGED <<index, state, others, faults>>
       \/ rules.file /\ SettleThrows(disk)

\* The up-to-date files of those left out go; a changed one stays.
Hide ==
    /\ pc = "hide"
    /\ \/ \E p \in Hidden :
            /\ disk[p] = index.entry[p]
            /\ disk' = [disk EXCEPT ![p] = Nothing]
            /\ call' = [call EXCEPT !.removed = @ \cup {p}]
            /\ UNCHANGED <<index, state, pc, outcome, others, faults>>
       \/ /\ \A p \in Hidden : disk[p] # index.entry[p]
          /\ index' = [index EXCEPT !.skip = (@ \ Restored) \cup {p \in Hidden : disk[p] = Nothing}]
          /\ Goto("mark")
          /\ UNCHANGED <<disk, state, call, others, faults>>
       \/ SettleThrows(Undone(disk, index))

\* The work tree is settled: a merge stopped at conflicts is over, a clean
\* one moves HEAD.
Settled ==
    /\ pc = "mark"
    /\ IF Conflicts THEN Over("conflicts") ELSE Goto("head")
    /\ UNCHANGED <<disk, index, state, call, others, faults>>

\* git_reference_create_matching from where the merge began; where the ref
\* won't move the merge is to stay staged.
MoveHead ==
    /\ pc = "head"
    /\ IF head = "start" /\ ~locked
       THEN head' = "merge" /\ Over("mergeCommit")
       ELSE /\ UNCHANGED head
            /\ pc' = "persist"
            /\ outcome' = IF head = "gone" THEN "headMissing" ELSE IF locked THEN "headNotUpdated"
                          ELSE "headMoved"
    /\ UNCHANGED <<disk, index, rules, locked, state, call, faults, edits>>

\* git_repository_head fails for another reason: nothing is taken back.
MoveHeadThrows ==
    /\ pc = "head"
    /\ Fault /\ Over("headUnreadable")
    /\ UNCHANGED <<disk, index, state, call, others>>

-----------------------------------------------------------------------------
(* The merge state                                                         *)

NextFile == IF "MERGE_HEAD" \notin state THEN "MERGE_HEAD"
            ELSE IF "MERGE_MSG" \notin state THEN "MERGE_MSG" ELSE "MERGE_MODE"

\* writeMergeState, one file after another; conflicts go on to the sparse
\* rules, a clean merge whose HEAD won't move is over.
Persist ==
    /\ pc = "persist"
    /\ IF state # Files
       THEN state' = state \cup {NextFile} /\ UNCHANGED <<pc, outcome>>
       ELSE pc' = (IF Conflicts THEN "bits" ELSE "over") /\ UNCHANGED <<state, outcome>>
    /\ UNCHANGED <<disk, index, call, others, faults>>

KeepsState ==                       \* mutant: what was written of it stays
    /\ pc = "persist" /\ state # Files
    /\ Fault /\ Over("thrown")
    /\ RollBack(disk)
    /\ UNCHANGED <<state, call, others>>

\* No half-written merge state either: it goes, the checkout is taken back,
\* and once the index is back so are the files the sparse rules moved.
PersistThrows ==
    /\ pc = "persist" /\ state # Files
    /\ Fault /\ Over("thrown")
    /\ state' = {}
    /\ index' = call.snap
    /\ disk' = Undone(Back(disk), call.snap)
    /\ UNCHANGED <<call, others>>

-----------------------------------------------------------------------------
(* Everyone else                                                           *)

\* Another process commits on the branch, deletes it, or holds its lock.
OthersMoveHead ==
    /\ pc \notin {"idle", "over"} /\ head = "start" /\ ~locked
    /\ head' \in {"other", "gone"}
    /\ UNCHANGED <<disk, index, rules, locked, state, pc, call, outcome, faults, edits>>

OthersLockHead ==
    /\ pc \notin {"idle", "over"}
    /\ locked' = ~locked
    /\ UNCHANGED <<disk, index, rules, head, state, pc, call, outcome, faults, edits>>

\* Someone saves a file.
Edit(p) ==
    /\ pc # "over" /\ edits < MaxEdits
    /\ disk[p] # "edit"
    /\ disk' = [disk EXCEPT ![p] = "edit"]
    /\ edits' = edits + 1
    /\ UNCHANGED <<index, rules, head, locked, state, pc, call, outcome, faults>>

Next ==
    \/ Begin \/ Snapshot \/ RemoveOutside \/ RemoveOutsideThrows \/ StageOutside
    \/ CheckoutRefuses \/ Checkout \/ CheckoutThrows
    \/ ForcedCheckout \/ ForcedCheckoutThrows \/ IndexGone
    \/ CreateCommit \/ KeepBits \/ Reapply \/ Hide \/ Settled
    \/ MoveHead \/ MoveHeadThrows \/ Persist \/ PersistThrows
    \/ OthersMoveHead \/ OthersLockHead
    \/ \E p \in Paths : Edit(p)

Spec == Init /\ [][Next]_vars

-----------------------------------------------------------------------------
(* Properties                                                              *)

Staged == {"conflicts", "headNotUpdated", "headMoved", "headMissing"}

\* "HEAD, the index and the working tree change only once the merge succeeds
\* or stops at the last head's conflicts": a call that throws leaves all of
\* them as it found them, but for what others edit meanwhile, unless the merge
\* state says the merge waits, or HEAD could not be read in the end.
FailureChangesNothing ==
    outcome \in {"refused", "thrown"} /\ (state = {} \/ outcome = "refused") =>
        /\ edits = 0 => disk = call.start.disk
        /\ index = call.start.index
        /\ head # "merge"

\* "so `git commit` can conclude it": merge state this call leaves is whole,
\* with the merge in the index and HEAD where others have it, and the call
\* says so, but for a throw after the conflicts were checked out.
Concludable ==
    pc = "over" /\ outcome # "refused" =>
        /\ outcome \in Staged => state = Files
        /\ state # {} => /\ state = Files
                         /\ outcome \in Staged \/ (outcome = "thrown" /\ Conflicts)
                         /\ index.entry = call.result
                         /\ head # "merge"

\* A merge that is made, or left staged, is in the index, and in the work
\* tree but for what the sparse checkout leaves out: libgit2's two checkouts
\* and the entries staged by hand add up to the merge.
MergeCheckedOut ==
    pc = "over" /\ outcome \in Staged \cup {"mergeCommit"} =>
        /\ index.entry = call.result
        /\ edits = 0 => \A p \in Changed :
            disk[p] = OnDisk(p) \/ (disk[p] = Nothing /\ p \in index.skip \cup call.gone)
        /\ outcome = "mergeCommit" => head = "merge" /\ state = {}

\* "a working tree change in a path the merge doesn't touch survives": what
\* was edited, deleted or untracked is so in the end, however the call ends;
\* but a file its sparse rules take in again is written.
LocalChangesSurvive ==
    pc = "over" /\ edits = 0 =>
        \A p \in Paths :
            \/ disk[p] = call.start.disk[p]
            \/ IF call.start.disk[p] = Nothing
               THEN p \in Changed \/ (rules.file /\ p \in call.start.index.skip \cap rules.cone)
               ELSE call.start.disk[p] = call.start.index.entry[p]

\* The sparse checkout is whole again after a merge: with a file, exactly
\* its paths are in the work tree, or hold something of the user's; without
\* one, no entry lost its skip-worktree bit.
SparseAgain ==
    pc = "over" /\ outcome \in Staged \cup {"mergeCommit"} =>
        \A p \in Paths : index.entry[p] \in {"ours", "theirs"} =>
            IF rules.file
            THEN IF p \in rules.cone THEN p \notin index.skip
                 ELSE p \in index.skip \/ disk[p] \notin {index.entry[p], Nothing}
            ELSE p \in call.start.index.skip => p \in index.skip

-----------------------------------------------------------------------------
(***************************************************************************)
(* The invariant the proofs rest on: what each step may count on.  What it *)
(* says of the work tree holds while nobody has edited.                    *)
(***************************************************************************)
Begun   == pc \notin {"idle", "over"}
Planned == pc \notin {"idle", "snapshot", "over"}
Tracked(e) == e \in {"ours", "theirs"}

\* The phases in which the checkout goes on, and those after it.
Checking == pc \in {"outside", "stage", "checkout", "force", "gone"}
Checked  == Planned /\ ~Checking

\* The phases before the sparse rules are applied again, and those after.
Sparse    == pc \in {"mark", "head"} \/ (pc = "persist" /\ ~Conflicts)
Reapplied == Sparse \/ pc = "hide"

\* The preflight found the index as HEAD has it, and nothing to lose in what
\* the merge changes.
Preflight ==
    /\ call.start.index.entry = call.head
    /\ rules.file => rules.on
    /\ pc \in {"idle", "snapshot"} =>
          /\ index = call.start.index /\ (edits = 0 => disk = call.start.disk)
          /\ call.written = {} /\ call.removed = {}
    /\ Begun =>
          /\ call.keep = call.start.index.skip \ (IF rules.file THEN rules.cone ELSE {})
          /\ edits = 0 => \A p \in Changed : call.start.disk[p] \in {call.head[p], Nothing}

\* The paths the merge changes are each left to one phase.
Plan(p) ==
    /\ p \in Changed <=> p \in call.outside \cup call.todo \cup call.forced \cup call.gone
    /\ p \in call.outside => p \notin call.todo \cup call.forced \cup call.gone
    /\ p \in call.todo => p \notin call.forced \cup call.gone
    /\ p \in call.forced => p \notin call.gone
    /\ p \in call.outside => Tracked(call.result[p]) /\ (rules.file => p \notin rules.cone)
    /\ p \in call.todo \cup call.forced /\ Tracked(call.result[p]) /\ rules.file =>
          p \in rules.cone
    /\ p \in call.gone => /\ ~Tracked(call.result[p])
                          /\ edits = 0 => call.found[p] = Nothing

\* The paths whose entries have been written so far.
Entered ==
    CASE pc \in {"outside", "stage"} -> {}
      [] pc = "checkout" -> call.outside
      [] pc = "force" -> call.outside \cup call.todo
      [] pc = "gone" -> call.outside \cup call.todo \cup call.forced
      [] OTHER -> Changed

\* The index: what has been entered is the merge's, and what the sparse
\* checkout leaves out has its bit.
IndexOf(p) ==
    /\ index.entry[p] = IF p \in Entered THEN call.result[p] ELSE call.head[p]
    /\ p \in Entered =>
          /\ p \in call.outside => p \in index.skip
          /\ p \in index.skip /\ ~Sparse => p \in call.outside \cup call.keep
    /\ p \notin Changed /\ ~Sparse => (p \in index.skip <=> p \in call.start.index.skip)
    /\ pc \in {"reapply", "hide"} \/ Sparse =>
          (~rules.file /\ p \in call.start.index.skip /\ Tracked(index.entry[p]) =>
              p \in index.skip)
    /\ Sparse /\ rules.file /\ Tracked(index.entry[p]) =>
          IF p \in rules.cone THEN p \notin index.skip
          ELSE p \in index.skip \/ disk[p] \notin {index.entry[p], Nothing}

\* The work tree: a path is as it was found until its phase, and as the merge
\* has it afterwards.
DiskOf(p) ==
    LET was == call.start.disk[p]
    IN  /\ p \in call.outside =>
              disk[p] = Nothing \/ (pc = "outside" /\ disk[p] = was)
        /\ p \in call.todo =>
              CASE pc \in {"outside", "stage"} -> disk[p] = was
                [] pc = "checkout" -> disk[p] \in {was, OnDisk(p)}
                [] OTHER -> disk[p] = OnDisk(p)
        /\ p \in call.forced =>
              CASE pc \in {"outside", "stage", "checkout"} -> disk[p] = was
                [] pc = "force" -> disk[p] \in {was, OnDisk(p)}
                [] OTHER -> disk[p] = OnDisk(p)
        /\ p \in call.gone => disk[p] = Nothing
        /\ p \notin Changed /\ p \notin call.written \cup call.removed => disk[p] = was
        /\ p \in call.written => was = Nothing
        /\ p \in call.removed => was = call.head[p]

\* What the sparse rules move is nothing the merge changes.
Moved(p) ==
    /\ p \in call.written \cup call.removed => Reapplied /\ rules.file /\ p \notin Changed
    /\ p \in call.written => p \in call.start.index.skip \cap rules.cone
    /\ p \in call.removed => Tracked(call.head[p])

Progress ==
    Planned =>
        /\ call.snap = call.start.index
        /\ edits = 0 => call.found = call.start.disk
        /\ \A p \in Paths : Plan(p) /\ IndexOf(p) /\ Moved(p) /\ (edits = 0 => DiskOf(p))

\* The merge state is whole once the conflicts are in the index, and not
\* there before; the outcome is set where HEAD would not move.
Recorded ==
    /\ pc # "over" => head # "merge"
    /\ pc \notin {"over", "persist"} => outcome = "none"
    /\ Begun /\ pc # "persist" =>
          state = IF Conflicts /\ pc \in {"bits", "reapply", "hide", "mark"} THEN Files ELSE {}
    /\ pc = "persist" =>
          IF Conflicts THEN outcome = "none"
          ELSE outcome \in {"headNotUpdated", "headMoved", "headMissing"}
    /\ pc \in {"commit", "head"} => ~Conflicts
    /\ pc = "hide" => rules.file

IInv ==
    /\ TypeOK /\ Preflight /\ Progress /\ Recorded
    /\ FailureChangesNothing /\ Concludable /\ MergeCheckedOut
    /\ LocalChangesSurvive /\ SparseAgain

=============================================================================
