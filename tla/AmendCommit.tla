------------------------------ MODULE AmendCommit ------------------------------
(***************************************************************************)
(* Repository.amendDetailed and Repository.commitDetailed, run by several  *)
(* processes at once on one repository, beside other git processes: the    *)
(* index lock, the compare-and-swap of HEAD's branch, and the rewriting of *)
(* the reflog entries an amend leaves, step by step between the file       *)
(* system operations.  A step that throws releases what its defers release.*)
(* Between the calls a process stages, which may fail and leave its edits  *)
(* in the index its handle has in memory.                                  *)
(***************************************************************************)
EXTENDS Naturals, Sequences

CONSTANTS
    Procs,       \* processes using GitKit, each with one Repository handle
    Branches,    \* local branches
    Trees,       \* contents an index or a commit's tree can have
    MaxCommits,  \* bound: commit objects
    MaxSteps     \* bound: stagings, and steps of other git processes

HEAD     == "HEAD"      \* the ref HEAD; as a value of head: HEAD is detached
Free     == "free"      \* nobody holds the lock file
Git      == "git"       \* some other git process
Unmerged == "unmerged"  \* an index with conflict entries
NotRead  == "notread"   \* a handle that has not opened the index yet
Config   == "config"    \* the identity libgit2 logs an update under

StateFiles == {"MERGE_HEAD", "CHERRY_PICK_HEAD", "REVERT_HEAD"}

ASSUME ConstantsAssumption ==
    /\ MaxCommits \in Nat \ {0}
    /\ MaxSteps \in Nat
    /\ Branches # {}
    /\ HEAD \notin Branches
    /\ {Free, Git, Config} \cap Procs = {}
    /\ {Unmerged, NotRead} \cap Trees = {}

RefNames    == Branches \cup {HEAD}
NoCommit    == 0                       \* an unborn branch
Actors      == Procs \cup {Git}
Holders     == Actors \cup {Free}
IndexStates == Trees \cup {Unmerged}

\* The files that are locked by creating <file>.lock.
IndexFile  == <<"index", HEAD>>
RefFile(r) == <<"ref", r>>
LogFile(r) == <<"log", r>>
LockFiles  == {IndexFile} \cup ({"ref", "log"} \X RefNames)

Restamping  == {"lockRef", "lockHead", "verify", "restamp", "rewrite"}
AmendLocked == {"read", "build", "kind", "name", "move", "finish"} \cup Restamping
Control     == AmendLocked \cup {"idle", "state", "lock", "tree", "create", "dead"}

VARIABLES
    objects,    \* the commits in the object database, by number
    ref,        \* the commit each ref holds; HEAD's own only when detached
    head,       \* the ref that holds the current commit: a branch, or HEAD
    reflog,     \* each ref's log, oldest entry first
    index,      \* the index file
    stateFiles, \* which of StateFiles exist
    lock,       \* who holds each lock file
    pc,         \* where each process is
    mem,        \* each handle's index in memory, and the file it was read from
    call,       \* each running call's locals
    steps       \* stagings, and steps of the other git processes

repoVars == <<objects, ref, head, reflog, index, stateFiles>>
vars     == <<repoVars, lock, pc, mem, call, steps>>

Why     == {"amend", "commit", "checkout"}
Entries == [old : Nat, new : Nat, why : Why, by : Actors, stamp : Actors \cup {Config}]
Objects == [parent : Nat, amends : Nat, tree : Trees]

\* The index a handle has in memory, and the file it was last read from or
\* written to; they differ by the edits that were not written.
Caches      == [file : IndexStates, holds : IndexStates]
NoIndex     == [file |-> NotRead, holds |-> NotRead]
ReadFrom(i) == [file |-> i, holds |-> i]

Calls == [old      : Nat,            \* the commit to amend, or the parent
          new      : Nat,            \* the amended commit
          detached : BOOLEAN,        \* whether moveHead found HEAD detached
          name     : RefNames,       \* the ref moveHead moves
          todo     : Seq(RefNames),  \* the logs still to restamp
          seen     : Seq(Entries)]   \* the log as restampReflog read it
NoCall == [old |-> NoCommit, new |-> NoCommit, detached |-> FALSE, name |-> HEAD,
           todo |-> << >>, seen |-> << >>]

TypeOK ==
    /\ objects \in Seq(Objects)
    /\ ref \in [RefNames -> Nat]
    /\ head \in RefNames
    /\ reflog \in [RefNames -> Seq(Entries)]
    /\ index \in IndexStates
    /\ stateFiles \in SUBSET StateFiles
    /\ lock \in [LockFiles -> Holders]
    /\ pc \in [Procs -> Control]
    /\ mem \in [Procs -> Caches \cup {NoIndex}]
    /\ call \in [Procs -> Calls]
    /\ steps \in Nat

Init ==
    /\ \E t \in Trees :
        /\ objects = << [parent |-> NoCommit, amends |-> NoCommit, tree |-> t] >>
        /\ index = t
    /\ head \in Branches
    /\ ref = [r \in RefNames |-> IF r = head THEN 1 ELSE NoCommit]
    /\ reflog = [r \in RefNames |-> << >>]
    /\ stateFiles = {}
    /\ lock = [f \in LockFiles |-> Free]
    /\ pc = [p \in Procs |-> "idle"]
    /\ mem = [p \in Procs |-> NoIndex]
    /\ call = [p \in Procs |-> NoCall]
    /\ steps = 0

-----------------------------------------------------------------------------
(* Shared by every update of a ref, and by every call.                     *)

HeadCommit == ref[head]

\* The logs libgit2 (and git) append to when r moves: r's own, and HEAD's
\* when HEAD names r.
LogsOf(r) == {r} \cup (IF r = head THEN {HEAD} ELSE {})

\* A ref update: one log entry per log, then the ref itself.
UpdateRef(r, c, why, by, stamp) ==
    /\ ref' = [ref EXCEPT ![r] = c]
    /\ reflog' = [l \in RefNames |->
                    IF l \in LogsOf(r)
                    THEN Append(reflog[l], [old |-> ref[r], new |-> c, why |-> why,
                                            by |-> by, stamp |-> stamp])
                    ELSE reflog[l]]

CanCreate == Len(objects) < MaxCommits

Create(parent, amends, tree) ==
    objects' = Append(objects, [parent |-> parent, amends |-> amends, tree |-> tree])

\* The lock files of fs that p holds, released.
Release(p, fs) ==
    lock' = [f \in LockFiles |-> IF f \in fs /\ lock[f] = p THEN Free ELSE lock[f]]

Take(p, f) == lock[f] = Free /\ lock' = [lock EXCEPT ![f] = p]

Goto(p, l) == pc' = [pc EXCEPT ![p] = l]

\* The call is over: its locals are gone, its defers have run.
Return(p) ==
    /\ Goto(p, "idle")
    /\ Release(p, LockFiles)
    /\ call' = [call EXCEPT ![p] = NoCall]

Throw(p) == Return(p) /\ UNCHANGED <<repoVars, mem, steps>>

-----------------------------------------------------------------------------
(* amendDetailed                                                           *)

\* HEAD's commit is read first; an unborn HEAD is nothingToAmend.
BeginAmend(p) ==
    /\ pc[p] = "idle"
    /\ HeadCommit # NoCommit
    /\ call' = [call EXCEPT ![p].old = HeadCommit]
    /\ Goto(p, "state")
    /\ UNCHANGED <<repoVars, lock, mem, steps>>

\* mergeInProgress and cherryPickInProgress, before the lock is taken.
CheckState(p) ==
    /\ pc[p] = "state"
    /\ IF {"MERGE_HEAD", "CHERRY_PICK_HEAD"} \cap stateFiles # {}
       THEN Throw(p)
       ELSE /\ Goto(p, "lock")
            /\ UNCHANGED <<repoVars, lock, mem, call, steps>>

AcquireIndexLockEarlyRelease(p) ==   \* mutant: the lock is not held on
    /\ pc[p] = "lock"
    /\ lock[IndexFile] = Free
    /\ Goto(p, "read")
    /\ UNCHANGED <<repoVars, lock, mem, call, steps>>

\* gitkit_index_lock_acquire: GIT_ELOCKED when index.lock exists.
AcquireIndexLock(p) ==
    /\ pc[p] = "lock"
    /\ \/ /\ Take(p, IndexFile)
          /\ Goto(p, "read")
          /\ UNCHANGED <<repoVars, mem, call, steps>>
       \/ lock[IndexFile] # Free /\ Throw(p)

\* git_repository_index: opened by the handle's first call, kept after that.
HandleIndex(p) == IF mem[p] = NoIndex THEN ReadFrom(index) ELSE mem[p]

\* git_index_read without force: a file that is not the one last read is read.
\* One that is the same is not, and edits that were never written stay; a file
\* with the same content can still be another one, written anew.
SoftRead(p) ==
    {ReadFrom(index)}
    \cup (IF HandleIndex(p).file = index THEN {HandleIndex(p)} ELSE {})

ReadIndexUnchecked(p) ==             \* mutant: conflicts are not looked for
    /\ pc[p] = "read"
    /\ \E m \in SoftRead(p) : mem' = [mem EXCEPT ![p] = m]
    /\ Goto(p, "build")
    /\ UNCHANGED <<repoVars, lock, call, steps>>

\* The index as it is on disk now, but for the handle's own edits of it;
\* unmergedFiles throws.
ReadIndex(p) ==
    /\ pc[p] = "read"
    /\ \E m \in SoftRead(p) :
        /\ mem' = [mem EXCEPT ![p] = m]
        /\ IF m.holds = Unmerged
           THEN Return(p)
           ELSE /\ Goto(p, "build")
                /\ UNCHANGED <<lock, call>>
    /\ UNCHANGED <<repoVars, steps>>

\* The tree the amended commit must differ from: its first parent's.  A root
\* commit's, the empty tree, is no member of Trees.
SameAsParent(c, tree) ==
    /\ objects[c].parent # NoCommit
    /\ objects[objects[c].parent].tree = tree

\* wouldBeEmpty, unless allowEmpty; emptyMessage and the other refusals of
\* the message or its configuration, which the model leaves open.
RefuseAmend(p) ==
    /\ pc[p] = "build"
    /\ Throw(p)

\* The amended commit: old's parent, the tree of the index in memory.
BuildAmended(p, allowEmpty) ==
    /\ pc[p] = "build"
    /\ CanCreate
    /\ allowEmpty \/ ~SameAsParent(call[p].old, mem[p].holds)
    /\ Create(objects[call[p].old].parent, call[p].old, mem[p].holds)
    /\ call' = [call EXCEPT ![p].new = Len(objects) + 1]
    /\ Goto(p, "kind")
    /\ UNCHANGED <<ref, head, reflog, index, stateFiles, lock, mem, steps>>

-----------------------------------------------------------------------------
(* moveHead                                                                *)

\* git_repository_head_detached.
ReadHeadKind(p) ==
    /\ pc[p] = "kind"
    /\ call' = [call EXCEPT ![p].detached = (head = HEAD)]
    /\ Goto(p, IF head = HEAD THEN "move" ELSE "name")
    /\ UNCHANGED <<repoVars, lock, mem, steps>>

\* git_repository_head, a second read of HEAD: it throws when HEAD names a
\* branch without a commit by now, and returns HEAD when it is detached.
ReadHeadName(p) ==
    /\ pc[p] = "name"
    /\ IF HeadCommit = NoCommit
       THEN Throw(p)
       ELSE /\ call' = [call EXCEPT ![p].name = head]
            /\ Goto(p, "move")
            /\ UNCHANGED <<repoVars, lock, mem, steps>>

IgnoresOldValue(r, expected) ==     \* mutant: an update that is not conditional
    lock[RefFile(r)] = Free

\* git_reference_create_matching takes r's lock, and wants r to be a direct
\* ref with the expected value (HEAD is one only when detached).
Matches(r, expected) ==
    /\ lock[RefFile(r)] = Free
    /\ ref[r] = expected
    /\ r = HEAD => head = HEAD

\* The logs to restamp, in the order their refs' locks are taken.
LogsToRestamp(p) == IF call[p].detached THEN <<HEAD>> ELSE <<call[p].name, HEAD>>

MoveHead(p) ==
    /\ pc[p] = "move"
    /\ IF Matches(call[p].name, call[p].old)
       THEN /\ UpdateRef(call[p].name, call[p].new, "amend", p, Config)
            /\ call' = [call EXCEPT ![p].todo = LogsToRestamp(p)]
            /\ Goto(p, "lockRef")
            /\ UNCHANGED <<objects, head, index, stateFiles, lock, mem, steps>>
       ELSE Throw(p)

MoveHeadKeepsLocks(p) ==             \* mutant: an early return past the defer
    /\ Goto(p, "finish")
    /\ UNCHANGED <<repoVars, lock, mem, call, steps>>

\* moveHead returns: its ref locks are released.
MoveHeadReturns(p) ==
    /\ Release(p, LockFiles \ {IndexFile})
    /\ Goto(p, "finish")
    /\ UNCHANGED <<repoVars, mem, call, steps>>

NoLockRef(p) ==                      \* mutant: restamp without the ref's lock
    /\ pc[p] = "lockRef"
    /\ Goto(p, IF call[p].detached THEN "verify" ELSE "lockHead")
    /\ UNCHANGED <<repoVars, lock, mem, call, steps>>

\* The lock of the first log's ref; held by someone else, the entry libgit2
\* wrote stays.
LockRef(p) ==
    /\ pc[p] = "lockRef"
    /\ \/ /\ Take(p, RefFile(call[p].name))
          /\ Goto(p, IF call[p].detached THEN "verify" ELSE "lockHead")
          /\ UNCHANGED <<repoVars, mem, call, steps>>
       \/ lock[RefFile(call[p].name)] # Free /\ MoveHeadReturns(p)

\* HEAD's lock; p's own already when HEAD was detached between the two reads.
LockHead(p) ==
    /\ pc[p] = "lockHead"
    /\ \/ /\ Take(p, RefFile(HEAD))
          /\ Goto(p, "verify")
          /\ UNCHANGED <<repoVars, mem, call, steps>>
       \/ lock[RefFile(HEAD)] # Free /\ MoveHeadReturns(p)

\* What a ref name resolves to: HEAD through the branch it names.
Resolve(r) == IF r = HEAD THEN HeadCommit ELSE ref[r]

\* The refs are still as this amend left them.
VerifyRefs(p) ==
    /\ pc[p] = "verify"
    /\ IF /\ Resolve(call[p].name) = call[p].new
          /\ call[p].detached \/ head = call[p].name
       THEN /\ Goto(p, "restamp")
            /\ UNCHANGED <<repoVars, lock, mem, call, steps>>
       ELSE MoveHeadReturns(p)

NewestByIds(p, log) ==               \* mutant: the message is not compared
    /\ log # << >>
    /\ log[Len(log)].old = call[p].old
    /\ log[Len(log)].new = call[p].new

\* The newest entry is the update this amend just logged, message included.
NewestIsOurs(p, log) ==
    /\ log # << >>
    /\ log[Len(log)].old = call[p].old
    /\ log[Len(log)].new = call[p].new
    /\ log[Len(log)].why = "amend"

\* restampReflog with the log's lock: a log without our entry on top (or
\* without entries) is left alone.
ReadLog(p) ==
    /\ pc[p] = "restamp"
    /\ call[p].todo # << >>
    /\ LET log == Head(call[p].todo)
       IN  /\ lock[LogFile(log)] = Free
           /\ \/ /\ NewestIsOurs(p, reflog[log])
                 /\ Take(p, LogFile(log))
                 /\ call' = [call EXCEPT ![p].seen = reflog[log]]
                 /\ Goto(p, "rewrite")
              \/ /\ ~NewestIsOurs(p, reflog[log])
                 /\ call' = [call EXCEPT ![p].todo = Tail(@)]
                 /\ UNCHANGED <<lock, pc>>
    /\ UNCHANGED <<repoVars, mem, steps>>

\* Another process holds the log's lock, or reading or writing the log
\* fails: the call throws although HEAD has moved.
RestampFails(p) ==
    /\ pc[p] \in {"restamp", "rewrite"}
    /\ call[p].todo # << >>
    /\ Throw(p)

\* The last line replaced by the same update under p's committer.
Restamped(p, log) == [log EXCEPT ![Len(log)].stamp = p]

RewriteLog(p) ==
    /\ pc[p] = "rewrite"
    /\ LET log == Head(call[p].todo)
       IN  /\ reflog' = [reflog EXCEPT ![log] = Restamped(p, call[p].seen)]
           /\ Release(p, {LogFile(log)})
    /\ call' = [call EXCEPT ![p].todo = Tail(@), ![p].seen = << >>]
    /\ Goto(p, "restamp")
    /\ UNCHANGED <<objects, ref, head, index, stateFiles, mem, steps>>

RestampDone(p) ==
    /\ pc[p] = "restamp"
    /\ call[p].todo = << >>
    /\ MoveHeadReturns(p)

\* removeCommitState, and the index lock's defer.
FinishAmend(p) ==
    /\ pc[p] = "finish"
    /\ stateFiles' = stateFiles \ {"REVERT_HEAD"}
    /\ Return(p)
    /\ UNCHANGED <<objects, ref, head, reflog, index, mem, steps>>

-----------------------------------------------------------------------------
(* commitDetailed                                                          *)

BeginCommit(p) ==
    /\ pc[p] = "idle"
    /\ mem' = [mem EXCEPT ![p] = HandleIndex(p)]
    /\ Goto(p, "tree")
    /\ UNCHANGED <<repoVars, lock, call, steps>>

\* The parent is HEAD's commit, if any; an unmerged index has no tree, and a
\* tree equal to the parent's is nothing to commit, unless allowEmpty.
BuildTree(p, allowEmpty) ==
    /\ pc[p] = "tree"
    /\ IF \/ mem[p].holds = Unmerged
          \/ /\ ~allowEmpty
             /\ HeadCommit # NoCommit
             /\ objects[HeadCommit].tree = mem[p].holds
       THEN Throw(p)
       ELSE /\ call' = [call EXCEPT ![p].old = HeadCommit]
            /\ Goto(p, "create")
            /\ UNCHANGED <<repoVars, lock, mem, steps>>

\* git_commit_create on HEAD: the commit's parent must still be the tip.
CreateCommit(p) ==
    /\ pc[p] = "create"
    /\ IF lock[RefFile(head)] = Free /\ HeadCommit = call[p].old
       THEN /\ CanCreate
            /\ Create(call[p].old, NoCommit, mem[p].holds)
            /\ UpdateRef(head, Len(objects) + 1, "commit", p, Config)
            /\ Return(p)
            /\ UNCHANGED <<head, index, stateFiles, mem, steps>>
       ELSE Throw(p)

-----------------------------------------------------------------------------
(* add, remove, move and stageTrackedChanges: the index in memory is       *)
(* edited, and written.  An edit that fails (a file that is not there), a  *)
(* lock held by another, or a failing write leaves the edits in memory.    *)

SideStep == steps < MaxSteps /\ steps' = steps + 1

Stages(p) ==
    /\ pc[p] = "idle"
    /\ SideStep
    /\ \E t \in Trees :
        \/ /\ lock[IndexFile] = Free
           /\ index' = t
           /\ mem' = [mem EXCEPT ![p] = ReadFrom(t)]
        \/ /\ mem' = [mem EXCEPT ![p] = [HandleIndex(p) EXCEPT !.holds = t]]
           /\ UNCHANGED index
    /\ UNCHANGED <<objects, ref, head, reflog, stateFiles, lock, pc, call>>

-----------------------------------------------------------------------------
(* A process dies; its lock files stay until someone removes them, and a   *)
(* new process takes its place.                                            *)

Crash(p) ==
    /\ pc[p] \notin {"idle", "dead"}
    /\ Goto(p, "dead")
    /\ call' = [call EXCEPT ![p] = NoCall]
    /\ UNCHANGED <<repoVars, lock, mem, steps>>

Restart(p) ==
    /\ pc[p] = "dead"
    /\ Goto(p, "idle")
    /\ mem' = [mem EXCEPT ![p] = NoIndex]
    /\ Release(p, LockFiles)
    /\ UNCHANGED <<repoVars, call, steps>>

-----------------------------------------------------------------------------
(* The other git processes, which keep to git's locks.                     *)

GitLocksIndex ==
    /\ SideStep
    /\ Take(Git, IndexFile)
    /\ UNCHANGED <<repoVars, pc, mem, call>>

\* Staging, or starting or concluding a merge, a cherry-pick or a revert.
GitWritesIndex ==
    /\ lock[IndexFile] = Git
    /\ Release(Git, {IndexFile})
    /\ index' \in IndexStates
    /\ \/ UNCHANGED stateFiles
       \/ \E f \in StateFiles : stateFiles' \in {stateFiles \cup {f}, stateFiles \ {f}}
    /\ UNCHANGED <<objects, ref, head, reflog, pc, mem, call, steps>>

RefFiles(rs) == {RefFile(r) : r \in rs}

\* git locks HEAD too when it moves the branch HEAD names.
GitLocksRef(r) ==
    /\ SideStep
    /\ r = HEAD => head = HEAD
    /\ \A f \in RefFiles(LogsOf(r)) : lock[f] = Free
    /\ lock' = [f \in LockFiles |-> IF f \in RefFiles(LogsOf(r)) THEN Git ELSE lock[f]]
    /\ UNCHANGED <<repoVars, pc, mem, call>>

\* A commit on r, whatever its tree.
GitMovesRef(r) ==
    /\ lock[RefFile(r)] = Git
    /\ r = HEAD => head = HEAD
    /\ CanCreate
    /\ \E t \in Trees : Create(ref[r], NoCommit, t)
    /\ UpdateRef(r, Len(objects) + 1, "commit", Git, Git)
    /\ Release(Git, RefFiles(LogsOf(r)))
    /\ UNCHANGED <<head, index, stateFiles, pc, mem, call, steps>>

\* A checkout: HEAD names another branch (created here if need be), or is
\* detached; logged in HEAD's log.
GitSwitches ==
    /\ SideStep
    /\ HeadCommit # NoCommit
    /\ \E r \in RefNames \ {head} :
        /\ \A f \in RefFiles({r, HEAD}) : lock[f] = Free
        /\ head' = r
        /\ ref' = [ref EXCEPT ![r] = IF r # HEAD /\ ref[r] # NoCommit THEN @ ELSE HeadCommit]
        /\ reflog' = [reflog EXCEPT ![HEAD] =
                        Append(@, [old |-> HeadCommit, new |-> ref'[r], why |-> "checkout",
                                   by |-> Git, stamp |-> Git])]
    /\ UNCHANGED <<objects, index, stateFiles, lock, pc, mem, call>>

\* git checkout --orphan: HEAD names a branch without commits; not logged.
GitOrphans ==
    /\ SideStep
    /\ \E b \in Branches \ {head} :
        /\ \A f \in RefFiles({b, HEAD}) : lock[f] = Free
        /\ ref[b] = NoCommit
        /\ head' = b
    /\ UNCHANGED <<objects, ref, reflog, index, stateFiles, lock, pc, mem, call>>

\* git reflog expire --expire=all, holding the ref's lock and the log's.
GitExpires(r) ==
    /\ SideStep
    /\ lock[RefFile(r)] = Free
    /\ lock[LogFile(r)] = Free
    /\ reflog' = [reflog EXCEPT ![r] = << >>]
    /\ UNCHANGED <<objects, ref, head, index, stateFiles, lock, pc, mem, call>>

-----------------------------------------------------------------------------

Amend(p) ==
    \/ BeginAmend(p) \/ CheckState(p) \/ AcquireIndexLock(p) \/ ReadIndex(p)
    \/ RefuseAmend(p) \/ \E e \in BOOLEAN : BuildAmended(p, e)
    \/ ReadHeadKind(p) \/ ReadHeadName(p) \/ MoveHead(p)
    \/ LockRef(p) \/ LockHead(p) \/ VerifyRefs(p)
    \/ ReadLog(p) \/ RewriteLog(p) \/ RestampFails(p) \/ RestampDone(p)
    \/ FinishAmend(p)

Commit(p) == BeginCommit(p) \/ (\E e \in BOOLEAN : BuildTree(p, e)) \/ CreateCommit(p)

OtherGit ==
    \/ GitLocksIndex \/ GitWritesIndex
    \/ \E r \in RefNames : GitLocksRef(r) \/ GitMovesRef(r) \/ GitExpires(r)
    \/ GitSwitches \/ GitOrphans

Next ==
    \/ \E p \in Procs : Amend(p) \/ Commit(p) \/ Stages(p) \/ Crash(p) \/ Restart(p)
    \/ OtherGit

Spec == Init /\ [][Next]_vars

-----------------------------------------------------------------------------
(* Properties                                                              *)

\* Between reading the index and finishing, an amend holds index.lock, so two
\* amends never overlap there; and a lock file of a live process belongs to
\* the phase of the call that took it: whichever way a call ends, it leaves
\* no lock file behind (the defers of amendDetailed, moveHead and
\* restampReflog).
Disciplined(p) ==
    /\ pc[p] \in AmendLocked => lock[IndexFile] = p
    /\ lock[IndexFile] = p => pc[p] \in AmendLocked \cup {"dead"}
    /\ \A r \in RefNames :
        /\ lock[RefFile(r)] = p => pc[p] \in Restamping \cup {"dead"}
        /\ lock[LogFile(r)] = p => pc[p] \in {"rewrite", "dead"}
LockDiscipline == \A p \in Procs : Disciplined(p)

\* Every step of the file-system-level calls is a step of AtomicCommits, or
\* leaves refs, commits and index alone: the compare-and-swap of moveHead
\* loses no other process's commit, and index.lock, held from before the
\* index is read until HEAD has moved, makes the amend record the index as it
\* is when HEAD moves, or edits of just that which its handle has not written.
Atomic == INSTANCE AtomicCommits
    WITH Handles <- Procs, objects <- objects, ref <- ref, head <- head,
         index <- index, draft <- mem
ImplementsAtomicCommits == Atomic!ASpec

\* A log never loses an update it recorded, whoever made it: a step appends
\* one entry, changes only the identity of the newest, or expires the log.
\* It rests on restampReflog rewriting the file it read with the refs locked.
SameUpdate(e, f) == [e EXCEPT !.stamp = f.stamp] = f
GrowsTo(log, log2) ==
    \/ log2 = log
    \/ log2 = << >>
    \/ Len(log2) = Len(log) + 1 /\ SubSeq(log2, 1, Len(log)) = log
    \/ /\ Len(log2) = Len(log)
       /\ \A i \in 1..Len(log) :
            IF i = Len(log) THEN SameUpdate(log[i], log2[i]) ELSE log2[i] = log[i]
ReflogOnlyGrows == [][\A r \in RefNames : GrowsTo(reflog[r], reflog'[r])]_vars

\* An entry carries the identity libgit2 gave it or that of the process that
\* made the update: restampReflog never signs the update of another process.
StampedByMover ==
    \A r \in RefNames : \A i \in 1..Len(reflog[r]) :
        reflog[r][i].stamp \in {Config, reflog[r][i].by}

\* What the proofs add to TypeOK and LockDiscipline: every number names a
\* commit, and what a call found out while it holds index.lock stays true.
Known(p) ==
    /\ pc[p] \in {"state", "lock", "read", "build", "kind", "name", "move"} =>
        call[p].old \in 1..Len(objects)
    /\ pc[p] \in {"build", "kind", "name", "move"} =>
        mem[p].holds \in Trees /\ mem[p].file = index
    /\ pc[p] \in {"kind", "name", "move"} =>
        /\ call[p].new \in 1..Len(objects)
        /\ objects[call[p].new] = [parent |-> objects[call[p].old].parent,
                                  amends |-> call[p].old, tree |-> mem[p].holds]
    /\ pc[p] = "rewrite" => call[p].todo # << >> /\ call[p].seen # << >>
    /\ pc[p] = "rewrite" => \A r \in RefNames : lock[LogFile(r)] = p => r = Head(call[p].todo)
    /\ pc[p] = "tree" => mem[p].holds \in IndexStates
    /\ pc[p] = "create" => mem[p].holds \in Trees

RefsHold == \A r \in RefNames : ref[r] \in 0..Len(objects)

IInv == TypeOK /\ LockDiscipline /\ RefsHold /\ \A p \in Procs : Known(p)

\* What the proofs about the logs add: the numbers of the commits that running
\* amends made are theirs alone, and an entry that looks like the update of
\* one is its own.
Updating == {"kind", "name", "move"} \cup Restamping

LooksLike(p, e) == e.why = "amend" /\ e.new = call[p].new

Owned(p) ==
    pc[p] \in Updating =>
        /\ call[p].new \in 1..Len(objects)
        /\ \A q \in Procs \ {p} : pc[q] \in Updating => call[q].new # call[p].new
        /\ \A r \in RefNames : \A i \in 1..Len(reflog[r]) :
                LooksLike(p, reflog[r][i]) => reflog[r][i].by = p

\* From VerifyRefs on, the call holds the locks of HEAD and of the ref it
\* moved, and HEAD still names that ref.  Only a detached HEAD may be attached
\* to a branch in between, and that either takes it off the amended commit or
\* leaves another entry on top of HEAD's log.
Verified == {"verify", "restamp", "rewrite"}

Settled(p) ==
    /\ pc[p] \notin Restamping \cup {"move", "finish"} => call[p].name = HEAD
    /\ pc[p] \in Restamping \cup {"move"} /\ call[p].detached => call[p].name = HEAD
    /\ pc[p] \in {"name", "lockHead"} => ~call[p].detached
    /\ pc[p] \in Verified \cup {"lockHead"} => lock[RefFile(call[p].name)] = p
    /\ pc[p] \in Verified =>
        lock[RefFile(HEAD)] = p /\ (call[p].detached \/ call[p].name # HEAD)
    /\ pc[p] \in {"restamp", "rewrite"} => call[p].detached \/ head = call[p].name
    /\ pc[p] \in Restamping =>
        call[p].todo \in {<<call[p].name, HEAD>>, <<HEAD>>, << >>}
    /\ (/\ pc[p] \in Restamping
        /\ call[p].detached
        /\ head # HEAD
        /\ NewestIsOurs(p, reflog[HEAD])) =>
            pc[p] \in {"lockRef", "verify"} /\ ref[head] # call[p].new
    /\ pc[p] = "rewrite" =>
        /\ lock[LogFile(Head(call[p].todo))] = p
        /\ call[p].seen = reflog[Head(call[p].todo)]
        /\ NewestIsOurs(p, call[p].seen)

LogsHold == \A r \in RefNames : \A i \in 1..Len(reflog[r]) :
                reflog[r][i].new \in 0..Len(objects)

LogInv == LogsHold /\ StampedByMover /\ \A p \in Procs : Owned(p) /\ Settled(p)

=============================================================================
