---------------------------- MODULE IndexWriters ----------------------------
(***************************************************************************)
(* The operations that change the index: the flags of an entry, which are  *)
(* set under index.lock from before the index is read (index_flags.c,      *)
(* Repository+IndexFlags.swift), and add, remove, move and the staging of  *)
(* tracked changes, which change the index their handle has cached and     *)
(* lock it only to write it (Repository.swift, Repository+MvRm.swift).     *)
(*                                                                         *)
(* A handle is one Repository in one process; a git process changes an     *)
(* entry under the lock.  A handle may die, and its lock stays.  An entry  *)
(* is what it holds and its bits; a path that is not there holds Absent.   *)
(***************************************************************************)
EXTENDS Naturals, Sequences

CONSTANTS
    Handles,  \* the open repositories, model values
    Nobody,   \* no handle holds the lock, a model value
    Paths,    \* what can be tracked, model values
    Contents, \* what a file can hold, model values
    Absent,   \* no file, no entry, a model value
    Bits,     \* skip-worktree and assume-unchanged, model values
    MaxCalls, \* bound: the calls the handles make
    MaxOthers \* bound: what git processes and editors change

ASSUME IndexAssumption ==
    /\ Nobody \notin Handles /\ Absent \notin Contents
    /\ MaxCalls \in Nat /\ MaxOthers \in Nat

Entry(content) == [holds |-> content, bits |-> {}]

VARIABLES
    disk,     \* the index file
    memory,   \* the index each handle has cached, << >> before its first use
    lock,     \* who holds index.lock
    worktree, \* what each file holds
    call,     \* the call each handle is in
    asked,    \* the bits that were set for each path by calls that succeeded
    calls, others \* counters

files == <<disk, worktree>>
counters == <<calls, others>>
vars == <<files, memory, lock, call, asked, counters>>

NoCall == [at |-> "idle"]
Dead == [at |-> "dead"]

Init ==
    /\ worktree \in [Paths -> Contents]
    /\ \E p \in Paths :
        disk = [q \in Paths |-> Entry(IF q = p THEN Absent ELSE worktree[q])]
    /\ memory = [h \in Handles |-> << >>]
    /\ lock = Nobody
    /\ call = [h \in Handles |-> NoCall]
    /\ asked = [p \in Paths |-> {}]
    /\ calls = 0 /\ others = 0

At(h, at) == call[h].at = at
GoesTo(h, at) == call' = [call EXCEPT ![h].at = at]
Ends(h) == call' = [call EXCEPT ![h] = NoCall]
Unlocked == lock' = Nobody

\* git_repository_index: the cached index, read on its first use.
Begins(h, c) ==
    /\ At(h, "idle") /\ calls < MaxCalls
    /\ calls' = calls + 1
    /\ memory' = [memory EXCEPT ![h] = IF @ = << >> THEN disk ELSE @]
    /\ call' = [call EXCEPT ![h] = c]
    /\ UNCHANGED <<disk, lock, asked, others>>

(***************************************************************************)
(* gitkit_index_update_entry_flags                                         *)
(***************************************************************************)
UpdateFlags(h, p, bit, on) ==
    /\ Begins(h, [at |-> "flags", step |-> 1, path |-> p, bit |-> bit,
                  on |-> on])
    /\ UNCHANGED worktree

\* Mutant: the index is read before it is locked.
ReadFirst == <<"read", "lock">>

FlagsSteps == <<"lock", "read">>

FlagsStep(h, step) ==
    /\ At(h, "flags") /\ call[h].step <= Len(FlagsSteps)
    /\ FlagsSteps[call[h].step] = step

NextStep(h) == call' = [call EXCEPT ![h].step = @ + 1]

FlagsLock(h) ==
    /\ FlagsStep(h, "lock")
    /\ IF lock = Nobody THEN lock' = h /\ NextStep(h)
       ELSE UNCHANGED lock /\ GoesTo(h, "failed")
    /\ UNCHANGED <<files, memory, asked, counters>>

FlagsRead(h) ==
    /\ FlagsStep(h, "read")
    /\ memory' = [memory EXCEPT ![h] = disk]
    /\ NextStep(h)
    /\ UNCHANGED <<files, lock, asked, counters>>

Marked(h) ==
    [memory[h] EXCEPT ![call[h].path].bits =
        IF call[h].on THEN @ \cup {call[h].bit} ELSE @ \ {call[h].bit}]

\* The entry is marked in memory; without one there is nothing to mark.
FlagsMark(h) ==
    /\ At(h, "flags") /\ call[h].step > Len(FlagsSteps)
    /\ IF memory[h][call[h].path].holds = Absent
       THEN UNCHANGED memory /\ GoesTo(h, "cleanup")
       ELSE /\ memory' = [memory EXCEPT ![h] = Marked(h)]
            /\ GoesTo(h, "commit")
    /\ UNCHANGED <<files, lock, asked, counters>>

FlagsCommit(h) ==
    /\ At(h, "commit")
    /\ disk' = memory[h] /\ Unlocked
    /\ asked' = IF call[h].on
                THEN [asked EXCEPT ![call[h].path] = @ \cup {call[h].bit}]
                ELSE asked
    /\ Ends(h)
    /\ UNCHANGED <<worktree, memory, counters>>

\* The write fails, or there was nothing to mark: the lock is let go first.
FlagsCleanup(h) ==
    /\ At(h, "commit") \/ At(h, "cleanup")
    /\ Unlocked
    /\ GoesTo(h, "failed")
    /\ UNCHANGED <<files, memory, asked, counters>>

\* Mutant: what was marked in memory stays there.
KeepsMarks(h) == memory[h]

\* On failure, drop any in-memory change so a later write can't persist it.
AfterFailure(h) == disk

FlagsFail(h) ==
    /\ At(h, "failed")
    /\ memory' = [memory EXCEPT ![h] = AfterFailure(h)]
    /\ Ends(h)
    /\ UNCHANGED <<files, lock, asked, counters>>

(***************************************************************************)
(* add, remove, move and stageTrackedChanges                               *)
(***************************************************************************)
\* edits are made one by one; gone are the files deleted once it is written.
Edits(edits, gone) == [at |-> "edit", edits |-> edits, gone |-> gone]
Edit(kind, p) == [kind |-> kind, path |-> p]

Add(h, ps) ==
    /\ Begins(h, Edits([i \in DOMAIN ps |-> Edit("add", ps[i])], {}))
    /\ UNCHANGED worktree

\* add with no paths, and stageTrackedChanges for what is in the index.
StageAll(h, kind) ==
    /\ Begins(h, Edits(<<[kind |-> kind]>>, {}))
    /\ UNCHANGED worktree

Remove(h, p, keepWorktree) ==
    /\ Begins(h, Edits(<<Edit("remove", p)>>,
                       IF keepWorktree THEN {} ELSE {p}))
    /\ UNCHANGED worktree

\* The file is moved before the index is opened.
Move(h, p, q) ==
    /\ worktree[p] # Absent /\ worktree[q] = Absent
    /\ worktree' = [worktree EXCEPT ![q] = worktree[p], ![p] = Absent]
    /\ Begins(h, Edits(<<Edit("remove", p), Edit("add", q)>>, {}))

\* git_index_add_all and git_index_update_all pass over skipped files.
Swept(h, kind) ==
    [p \in Paths |->
        IF memory[h][p].bits # {} \/ memory[h][p].holds = worktree[p]
           \/ (kind = "tracked" /\ memory[h][p].holds = Absent)
        THEN memory[h][p] ELSE Entry(worktree[p])]

Puts(h, p, content) ==
    /\ memory' = [memory EXCEPT ![h][p] = Entry(content)]
    /\ call' = [call EXCEPT ![h].edits = Tail(@)]

\* The next edit is made in memory; the first file that is not there ends
\* the call, the edits before it made.
MakeEdit(h) ==
    /\ At(h, "edit") /\ call[h].edits # << >>
    /\ LET e == Head(call[h].edits)
       IN  \/ e.kind = "remove" /\ Puts(h, e.path, Absent)
           \/ /\ e.kind = "add" /\ worktree[e.path] # Absent
              /\ Puts(h, e.path, worktree[e.path])
           \/ /\ e.kind = "add" /\ worktree[e.path] = Absent
              /\ UNCHANGED memory /\ Ends(h)
           \/ /\ e.kind \in {"all", "tracked"}
              /\ memory' = [memory EXCEPT ![h] = Swept(h, e.kind)]
              /\ call' = [call EXCEPT ![h].edits = Tail(@)]
    /\ UNCHANGED <<files, lock, asked, counters>>

\* git_index_write takes the lock; it throws when another holds it, and the
\* edits stay in memory.
WriteLock(h) ==
    /\ At(h, "edit") /\ call[h].edits = << >>
    /\ IF lock = Nobody THEN lock' = h /\ GoesTo(h, "write")
       ELSE UNCHANGED lock /\ Ends(h)
    /\ UNCHANGED <<files, memory, asked, counters>>

Write(h) ==
    /\ At(h, "write")
    /\ disk' = memory[h] /\ Unlocked
    /\ GoesTo(h, "written")
    /\ UNCHANGED <<worktree, memory, asked, counters>>

WriteFails(h) ==
    /\ At(h, "write")
    /\ Unlocked /\ Ends(h)
    /\ UNCHANGED <<files, memory, asked, counters>>

RemoveFiles(h) ==
    /\ At(h, "written")
    /\ worktree' = [p \in Paths |-> IF p \in call[h].gone THEN Absent
                                    ELSE worktree[p]]
    /\ Ends(h)
    /\ UNCHANGED <<disk, memory, lock, asked, counters>>

(***************************************************************************)
(* Others                                                                  *)
(***************************************************************************)
\* A git process stages or marks a path under the lock.
GitWrites(p, entry) ==
    /\ lock = Nobody /\ others < MaxOthers
    /\ others' = others + 1
    /\ disk' = [disk EXCEPT ![p] = entry]
    /\ asked' = [asked EXCEPT ![p] = @ \cup entry.bits]
    /\ UNCHANGED <<worktree, memory, lock, call, calls>>

Saves(p, content) ==
    /\ others < MaxOthers /\ content # worktree[p]
    /\ others' = others + 1
    /\ worktree' = [worktree EXCEPT ![p] = content]
    /\ UNCHANGED <<disk, memory, lock, call, asked, calls>>

Dies(h) ==
    /\ call[h].at \notin {"idle", "dead"} /\ others < MaxOthers
    /\ others' = others + 1
    /\ call' = [call EXCEPT ![h] = Dead]
    /\ UNCHANGED <<files, memory, lock, asked, calls>>

Next ==
    \/ \E h \in Handles :
        \/ \E p \in Paths, bit \in Bits, on \in BOOLEAN :
               UpdateFlags(h, p, bit, on)
        \/ FlagsLock(h) \/ FlagsRead(h) \/ FlagsMark(h) \/ FlagsCommit(h)
        \/ FlagsCleanup(h) \/ FlagsFail(h)
        \/ \E p, q \in Paths : Add(h, <<p, q>>) \/ Move(h, p, q)
        \/ \E kind \in {"all", "tracked"} : StageAll(h, kind)
        \/ \E p \in Paths, keep \in BOOLEAN : Remove(h, p, keep)
        \/ MakeEdit(h) \/ WriteLock(h) \/ Write(h) \/ WriteFails(h)
        \/ RemoveFiles(h)
        \/ Dies(h)
    \/ \E p \in Paths, c \in Contents, bits \in SUBSET Bits :
           GitWrites(p, [holds |-> c, bits |-> bits])
    \/ \E p \in Paths, c \in Contents \cup {Absent} : Saves(p, c)

Spec == Init /\ [][Next]_vars

----------------------------------------------------------------------------
\* "a concurrent git process can neither be overwritten nor interleave"
\* (setSkipWorktree): a flags update changes the one bit it was asked for,
\* of the index as it is on disk, whatever its handle had cached.
FlagsChangeTheirBit ==
    [][\A h \in Handles : FlagsCommit(h) =>
          disk' = [disk EXCEPT ![call[h].path].bits =
                      IF call[h].on THEN @ \cup {call[h].bit}
                      ELSE @ \ {call[h].bit}]]_vars

\* "either way the index is unchanged": a bit is on disk only where it was
\* set by a call that succeeded, or by git; a later write of the same handle
\* never carries one of a call that failed.
NoFailedMark == \A p \in Paths : disk[p].bits \subseteq asked[p]

----------------------------------------------------------------------------
(***************************************************************************)
(* The invariant the proofs rest on.                                       *)
(***************************************************************************)
Entries == [holds : Contents \cup {Absent}, bits : SUBSET Bits]
Indexes == [Paths -> Entries]

FlagsCalls ==
    [at : {"flags", "commit", "cleanup", "failed"}, step : {1, 2, 3},
     path : Paths, bit : Bits, on : BOOLEAN]
EditKinds ==
    [kind : {"add", "remove"}, path : Paths] \cup [kind : {"all", "tracked"}]
EditCalls ==
    [at : {"edit", "write", "written"}, edits : Seq(EditKinds),
     gone : SUBSET Paths]
Calls == FlagsCalls \cup EditCalls

\* What each variable may hold; a call under way has read an index.
TypeOK ==
    /\ disk \in Indexes
    /\ memory \in [Handles -> Indexes \cup {<< >>}]
    /\ lock \in Handles \cup {Nobody}
    /\ worktree \in [Paths -> Contents \cup {Absent}]
    /\ call \in [Handles -> Calls \cup {NoCall, Dead}]
    /\ asked \in [Paths -> SUBSET Bits]
    /\ \A h \in Handles : call[h] \in Calls => memory[h] \in Indexes

\* Where a call has index.lock.
Locks(h) ==
    \/ At(h, "flags") /\ call[h].step > 1
    \/ At(h, "commit") \/ At(h, "cleanup") \/ At(h, "write")

LockHeld == \A h \in Handles : Locks(h) => lock = h

\* A flags update that has read the index has what is on disk, and once it
\* has marked the entry, that and the mark.
ReadsDisk ==
    \A h \in Handles :
        /\ At(h, "flags") /\ call[h].step > 2 => memory[h] = disk
        /\ At(h, "commit") =>
               memory[h] = [disk EXCEPT ![call[h].path].bits =
                               IF call[h].on THEN @ \cup {call[h].bit}
                               ELSE @ \ {call[h].bit}]

\* Only a call that is about to commit or has failed, and a dead handle,
\* have bits in memory that nobody set.
MarksAsked ==
    \A h \in Handles :
        memory[h] # << >> /\ call[h].at \notin {"commit", "failed", "dead"}
            => \A p \in Paths : memory[h][p].bits \subseteq asked[p]

IInv == TypeOK /\ LockHeld /\ ReadsDisk /\ NoFailedMark /\ MarksAsked
=============================================================================
