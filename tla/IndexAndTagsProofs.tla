------------------------ MODULE IndexAndTagsProofs ------------------------
(***************************************************************************)
(* Proofs about the index and the tags of a fetch.  IndexWriters,          *)
(* for any handles, paths, contents and bits and any number of calls: a    *)
(* flags update changes its bit of the index on disk and nothing else, and *)
(* no mark that failed is ever written.  FetchTags, for any tags, refspecs *)
(* and remote: a fetch leaves tags as git's rules have them, FETCH_HEAD    *)
(* names what was taken, and other tags are left alone.                    *)
(***************************************************************************)
EXTENDS IndexWriters, FetchTags, FiniteSetTheorems, WellFoundedInduction, TLAPS

\* A step of one handle is one of these; Next is made of them and of what
\* git processes and editors do.
HandleStep(h) ==
    \/ \E p \in Paths, bit \in Bits, on \in BOOLEAN : UpdateFlags(h, p, bit, on)
    \/ FlagsLock(h) \/ FlagsRead(h) \/ FlagsMark(h) \/ FlagsCommit(h)
    \/ FlagsCleanup(h) \/ FlagsFail(h)
    \/ \E p, q \in Paths : Add(h, <<p, q>>) \/ Move(h, p, q)
    \/ \E kind \in {"all", "tracked"} : StageAll(h, kind)
    \/ \E p \in Paths, keep \in BOOLEAN : Remove(h, p, keep)
    \/ MakeEdit(h) \/ WriteLock(h) \/ Write(h) \/ WriteFails(h)
    \/ RemoveFiles(h)
    \/ Dies(h)

OthersStep ==
    \/ \E p \in Paths, c \in Contents, bits \in SUBSET Bits :
           GitWrites(p, [holds |-> c, bits |-> bits])
    \/ \E p \in Paths, c \in Contents \cup {Absent} : Saves(p, c)

\* Every step is one of a handle's or one of the others'.
LEMMA NextSteps ==
    ASSUME Next
    PROVE  (\E h \in Handles : HandleStep(h)) \/ OthersStep
BY DEF Next, HandleStep, OthersStep

-----------------------------------------------------------------------------
(***************************************************************************)
(* Types.                                                                  *)
(***************************************************************************)
\* The state after Init is well-typed.
LEMMA TypeInit == Init => TypeOK
BY DEF Init, TypeOK, Indexes, Entries, Entry, Calls, FlagsCalls, EditCalls,
       NoCall, Dead

\* What a call can be tells where it is.
LEMMA CallKinds ==
    ASSUME TypeOK, NEW h \in Handles
    PROVE  /\ call[h].at \in {"flags", "commit", "cleanup", "failed"} =>
                  call[h] \in FlagsCalls
           /\ call[h].at \in {"edit", "write", "written"} =>
                  call[h] \in EditCalls
           /\ call[h].at \notin {"idle", "dead"} => call[h] \in Calls
BY DEF TypeOK, Calls, FlagsCalls, EditCalls, NoCall, Dead

\* A call that begins gets a well-typed index.
LEMMA TypeBegins ==
    ASSUME TypeOK, NEW h \in Handles, NEW c \in Calls, Begins(h, c),
           worktree' \in [Paths -> Contents \cup {Absent}]
    PROVE  TypeOK'
BY DEF TypeOK, Begins, At

\* A step of a handle keeps the types.
LEMMA TypeHandle ==
    ASSUME TypeOK, NEW h \in Handles, HandleStep(h)
    PROVE  TypeOK'
<1>1. ASSUME NEW p \in Paths, NEW bit \in Bits, NEW on \in BOOLEAN,
             UpdateFlags(h, p, bit, on)
      PROVE  TypeOK'
  BY <1>1, TypeBegins DEF UpdateFlags, Calls, FlagsCalls, TypeOK
<1>2. ASSUME NEW p \in Paths, NEW q \in Paths, Add(h, <<p, q>>)
      PROVE  TypeOK'
  <2> DEFINE edits == [i \in DOMAIN <<p, q>> |-> Edit("add", <<p, q>>[i])]
  <2>1. Edit("add", p) \in EditKinds /\ Edit("add", q) \in EditKinds
    BY DEF Edit, EditKinds
  <2>2. edits = <<Edit("add", p), Edit("add", q)>>
    OBVIOUS
  <2>3. edits \in Seq(EditKinds)
    BY <2>1, <2>2
  <2> HIDE DEF edits
  <2>4. Edits(edits, {}) \in Calls
    BY <2>3 DEF Edits, Calls, EditCalls
  <2> QED
    BY <1>2, <2>4, TypeBegins DEF Add, edits, TypeOK
<1>3. ASSUME NEW p \in Paths, NEW q \in Paths, Move(h, p, q)
      PROVE  TypeOK'
  <2>1. Edit("remove", p) \in EditKinds /\ Edit("add", q) \in EditKinds
    BY DEF Edit, EditKinds
  <2>2. Edits(<<Edit("remove", p), Edit("add", q)>>, {}) \in Calls
    BY <2>1 DEF Edits, Calls, EditCalls
  <2> QED
    BY <1>3, <2>2, TypeBegins DEF Move, TypeOK
<1>4. ASSUME NEW kind \in {"all", "tracked"}, StageAll(h, kind)
      PROVE  TypeOK'
  <2>1. [kind |-> kind] \in EditKinds
    BY DEF EditKinds
  <2>2. Edits(<<[kind |-> kind]>>, {}) \in Calls
    BY <2>1 DEF Edits, Calls, EditCalls
  <2> QED
    BY <1>4, <2>2, TypeBegins DEF StageAll, TypeOK
<1>5. ASSUME NEW p \in Paths, NEW keep \in BOOLEAN, Remove(h, p, keep)
      PROVE  TypeOK'
  <2>1. Edit("remove", p) \in EditKinds
    BY DEF Edit, EditKinds
  <2>2. Edits(<<Edit("remove", p)>>, IF keep THEN {} ELSE {p}) \in Calls
    BY <2>1 DEF Edits, Calls, EditCalls
  <2> QED
    BY <1>5, <2>2, TypeBegins DEF Remove, TypeOK
<1>6. CASE FlagsLock(h)
  BY <1>6, CallKinds DEF FlagsLock, FlagsStep, FlagsSteps, NextStep, GoesTo,
     At, TypeOK, Calls, FlagsCalls, files, counters
<1>7. CASE FlagsRead(h)
  BY <1>7, CallKinds DEF FlagsRead, FlagsStep, FlagsSteps, NextStep, GoesTo,
     At, TypeOK, Calls, FlagsCalls, files, counters
<1>8. CASE FlagsMark(h)
  <2>1. call[h] \in FlagsCalls /\ memory[h] \in Indexes
    BY <1>8, CallKinds DEF FlagsMark, At, TypeOK, Calls
  <2>2. Marked(h) \in Indexes
    BY <2>1 DEF Marked, Indexes, Entries, FlagsCalls
  <2>3. /\ [call[h] EXCEPT !.at = "cleanup"] \in Calls
        /\ [call[h] EXCEPT !.at = "commit"] \in Calls
    BY <2>1 DEF Calls, FlagsCalls
  <2> QED
    BY <1>8, <2>1, <2>2, <2>3 DEF FlagsMark, GoesTo, TypeOK, files, counters
<1>9. CASE FlagsCommit(h)
  BY <1>9, CallKinds DEF FlagsCommit, Unlocked, Ends, At, TypeOK, Calls,
     FlagsCalls, EditCalls, NoCall, counters
<1>10. CASE FlagsCleanup(h)
  BY <1>10, CallKinds DEF FlagsCleanup, Unlocked, GoesTo, At, TypeOK, Calls,
     FlagsCalls, files, counters
<1>11. CASE FlagsFail(h)
  BY <1>11, CallKinds DEF FlagsFail, AfterFailure, Ends, At, TypeOK, Calls,
     FlagsCalls, EditCalls, NoCall, files, counters
<1>12. CASE MakeEdit(h)
  <2> DEFINE e == Head(call[h].edits)
  <2>1. /\ call[h] \in EditCalls /\ memory[h] \in Indexes
        /\ call[h].edits # << >>
    BY <1>12, CallKinds DEF MakeEdit, At, TypeOK, Calls
  <2>2. e \in EditKinds /\ Tail(call[h].edits) \in Seq(EditKinds)
    BY <2>1 DEF EditCalls
  <2>3. [call[h] EXCEPT !.edits = Tail(@)] \in Calls
    BY <2>1, <2>2 DEF Calls, EditCalls
  <2>4. ASSUME NEW p \in Paths, NEW content \in Contents \cup {Absent},
               Puts(h, p, content)
        PROVE  TypeOK'
    <3>1. [memory[h] EXCEPT ![p] = Entry(content)] \in Indexes
      BY <2>1 DEF Indexes, Entries, Entry
    <3> QED
      BY <1>12, <2>1, <2>3, <2>4, <3>1
      DEF MakeEdit, Puts, TypeOK, files, counters
  <2>5. CASE e.kind = "remove" /\ Puts(h, e.path, Absent)
    BY <2>2, <2>4, <2>5 DEF EditKinds
  <2>6. CASE /\ e.kind = "add" /\ worktree[e.path] # Absent
             /\ Puts(h, e.path, worktree[e.path])
    BY <2>2, <2>4, <2>6 DEF EditKinds, TypeOK
  <2>7. CASE UNCHANGED memory /\ Ends(h)
    BY <1>12, <2>7 DEF MakeEdit, Ends, TypeOK, Calls, FlagsCalls, EditCalls,
       NoCall, files, counters
  <2>8. CASE /\ e.kind \in {"all", "tracked"}
             /\ memory' = [memory EXCEPT ![h] = Swept(h, e.kind)]
             /\ call' = [call EXCEPT ![h].edits = Tail(@)]
    <3>1. Swept(h, e.kind) \in Indexes
      BY <2>1 DEF Swept, Indexes, Entries, Entry, TypeOK
    <3> QED
      BY <1>12, <2>1, <2>3, <2>8, <3>1 DEF MakeEdit, TypeOK, files, counters
  <2> QED
    BY <1>12, <2>5, <2>6, <2>7, <2>8 DEF MakeEdit
<1>13. CASE WriteLock(h)
  <2>1. /\ call[h] \in EditCalls /\ memory[h] \in Indexes
        /\ [call[h] EXCEPT !.at = "write"] \in Calls
    BY <1>13, CallKinds DEF WriteLock, At, TypeOK, Calls, EditCalls
  <2>2. CASE lock' = h /\ GoesTo(h, "write")
    BY <1>13, <2>1, <2>2 DEF WriteLock, GoesTo, TypeOK, files, counters
  <2>3. CASE UNCHANGED lock /\ Ends(h)
    BY <1>13, <2>3 DEF WriteLock, Ends, TypeOK, Calls, FlagsCalls, EditCalls,
       NoCall, files, counters
  <2> QED
    BY <1>13, <2>2, <2>3 DEF WriteLock
<1>14. CASE Write(h)
  BY <1>14, CallKinds DEF Write, Unlocked, GoesTo, At, TypeOK, Calls,
     EditCalls, counters
<1>15. CASE WriteFails(h)
  BY <1>15, CallKinds DEF WriteFails, Unlocked, Ends, At, TypeOK, Calls,
     FlagsCalls, EditCalls, NoCall, files, counters
<1>16. CASE RemoveFiles(h)
  BY <1>16, CallKinds DEF RemoveFiles, Ends, At, TypeOK, Calls,
     FlagsCalls, EditCalls, NoCall, counters
<1>17. CASE Dies(h)
  BY <1>17 DEF Dies, TypeOK, Calls, FlagsCalls, EditCalls, Dead, files
<1> QED
  BY <1>1, <1>2, <1>3, <1>4, <1>5, <1>6, <1>7, <1>8, <1>9,
     <1>10, <1>11, <1>12, <1>13, <1>14, <1>15, <1>16, <1>17 DEF HandleStep

\* What others do, and a step that changes nothing, keeps the types.
LEMMA TypeOthers ==
    ASSUME TypeOK, OthersStep
    PROVE  TypeOK'
<1>1. ASSUME NEW p \in Paths, NEW c \in Contents, NEW bits \in SUBSET Bits,
             GitWrites(p, [holds |-> c, bits |-> bits])
      PROVE  TypeOK'
  <2>1. [holds |-> c, bits |-> bits] \in Entries
    BY DEF Entries
  <2>2. disk' \in Indexes
    BY <1>1, <2>1 DEF GitWrites, TypeOK, Indexes
  <2>3. asked' \in [Paths -> SUBSET Bits]
    BY <1>1 DEF GitWrites, TypeOK
  <2> QED
    BY <1>1, <2>2, <2>3 DEF GitWrites, TypeOK
<1>2. ASSUME NEW p \in Paths, NEW c \in Contents \cup {Absent}, Saves(p, c)
      PROVE  TypeOK'
  BY <1>2 DEF Saves, TypeOK
<1> QED
  BY <1>1, <1>2 DEF OthersStep

\* So does every step.
LEMMA TypeStep == TypeOK /\ [Next]_vars => TypeOK'
<1>1. CASE Next
  BY <1>1, NextSteps, TypeHandle, TypeOthers
<1>2. CASE UNCHANGED vars
  BY <1>2 DEF vars, files, counters, TypeOK
<1> QED
  BY <1>1, <1>2

-----------------------------------------------------------------------------
(***************************************************************************)
(* The lock.                                                               *)
(***************************************************************************)
\* Only the call and the index of the handle that steps change.
LEMMA HandleFrame ==
    ASSUME TypeOK, NEW h \in Handles, HandleStep(h)
    PROVE  \A g \in Handles \ {h} : call'[g] = call[g] /\ memory'[g] = memory[g]
BY DEF HandleStep, TypeOK, UpdateFlags, Add, StageAll, Remove, Move, Begins,
   FlagsLock, FlagsRead, FlagsMark, FlagsCommit, FlagsCleanup, FlagsFail,
   MakeEdit, Puts, WriteLock, Write, WriteFails, RemoveFiles, Dies, GoesTo,
   Ends, NextStep, files, counters

\* The lock passes only from nobody to the handle that steps, and back.
LEMMA LockMoves ==
    ASSUME TypeOK, LockHeld, NEW h \in Handles, HandleStep(h)
    PROVE  lock' = lock \/ (lock = Nobody /\ lock' = h)
                        \/ (lock = h /\ lock' = Nobody)
BY DEF HandleStep, TypeOK, UpdateFlags, Add, StageAll, Remove, Move, Begins,
   FlagsLock, FlagsRead, FlagsMark, FlagsCommit, FlagsCleanup, FlagsFail,
   MakeEdit, Puts, WriteLock, Write, WriteFails, RemoveFiles, Dies, Unlocked,
   files, counters, LockHeld, Locks, At

\* A step of h leaves h without a lock to hold, or holding it.
LEMMA OwnLock ==
    ASSUME TypeOK, LockHeld, NEW h \in Handles, HandleStep(h), Locks(h)'
    PROVE  lock' = h
<1>2. ASSUME NEW c, Begins(h, c), c.at = "edit"
      PROVE  FALSE
  BY <1>2 DEF Begins, TypeOK, Locks, At
<1>3. ASSUME NEW c, Begins(h, c), c.at = "flags", c.step = 1
      PROVE  FALSE
  BY <1>3 DEF Begins, TypeOK, Locks, At
<1>4. CASE \/ \E p \in Paths, bit \in Bits, on \in BOOLEAN :
                  UpdateFlags(h, p, bit, on)
           \/ \E p, q \in Paths : Add(h, <<p, q>>) \/ Move(h, p, q)
           \/ \E kind \in {"all", "tracked"} : StageAll(h, kind)
           \/ \E p \in Paths, keep \in BOOLEAN : Remove(h, p, keep)
  BY <1>2, <1>3, <1>4 DEF UpdateFlags, Add, Move, StageAll, Remove, Edits
<1>5. CASE FlagsLock(h) \/ FlagsRead(h)
  BY <1>5, CallKinds DEF FlagsLock, FlagsRead, FlagsStep, FlagsSteps, NextStep,
     GoesTo, TypeOK, LockHeld, Locks, At, FlagsCalls
<1>6. CASE FlagsMark(h) \/ FlagsCleanup(h)
  BY <1>6, CallKinds DEF FlagsMark, FlagsCleanup, FlagsSteps, GoesTo, TypeOK,
     LockHeld, Locks, At, FlagsCalls
<1>7. CASE FlagsCommit(h) \/ FlagsFail(h) \/ WriteFails(h) \/ RemoveFiles(h)
  BY <1>7 DEF FlagsCommit, FlagsFail, WriteFails, RemoveFiles, Ends, NoCall,
     TypeOK, Locks, At
<1>8. CASE MakeEdit(h)
  BY <1>8, CallKinds DEF MakeEdit, Puts, Ends, NoCall, TypeOK, Locks, At,
     EditCalls
<1>9. CASE WriteLock(h) \/ Write(h)
  BY <1>9, CallKinds DEF WriteLock, Write, GoesTo, Ends, NoCall, TypeOK, Locks,
     At, EditCalls
<1>10. CASE Dies(h)
  BY <1>10 DEF Dies, Dead, TypeOK, Locks, At
<1> QED
  BY <1>4, <1>5, <1>6, <1>7, <1>8, <1>9, <1>10 DEF HandleStep

\* A call that is where the lock is held goes on holding it: what another
\* handle or another process does leaves a lock that is taken alone.
LEMMA LockStep ==
    ASSUME TypeOK, LockHeld, [Next]_vars
    PROVE  LockHeld'
<1>1. ASSUME NEW h \in Handles, HandleStep(h), NEW g \in Handles, Locks(g)'
      PROVE  lock' = g
  <2>1. CASE g = h
    BY <1>1, <2>1, OwnLock
  <2>2. CASE g # h
    <3>1. Locks(g)
      BY <1>1, <2>2, HandleFrame DEF Locks, At
    <3> QED
      BY <1>1, <2>2, <3>1, LockMoves, IndexAssumption DEF LockHeld
  <2> QED
    BY <2>1, <2>2
<1>2. CASE OthersStep \/ UNCHANGED vars
  BY <1>2 DEF OthersStep, GitWrites, Saves, vars, files, LockHeld, Locks, At
<1> QED
  BY <1>1, <1>2, NextSteps DEF LockHeld

-----------------------------------------------------------------------------
(***************************************************************************)
(* What a flags update knows of the index on disk.                         *)
(***************************************************************************)
\* The index on disk changes only in the step of a handle that has the lock.
LEMMA DiskMoves ==
    ASSUME LockHeld, NEW h \in Handles, HandleStep(h), lock # h
    PROVE  disk' = disk
BY DEF HandleStep, UpdateFlags, Add, StageAll, Remove, Move, Begins,
   FlagsLock, FlagsRead, FlagsMark, FlagsCommit, FlagsCleanup, FlagsFail,
   MakeEdit, WriteLock, Write, WriteFails, RemoveFiles, Dies,
   files, LockHeld, Locks, At

\* The two phases in which a handle has what is on disk.
HasRead(h) == At(h, "flags") /\ call[h].step > 2
Knows(h) ==
    /\ HasRead(h) => memory[h] = disk
    /\ At(h, "commit") =>
           memory[h] = [disk EXCEPT ![call[h].path].bits =
                           IF call[h].on THEN @ \cup {call[h].bit}
                           ELSE @ \ {call[h].bit}]

\* They are reached by reading, and by marking what was read.
LEMMA OwnReads ==
    ASSUME TypeOK, ReadsDisk, NEW h \in Handles, HandleStep(h)
    PROVE  Knows(h)'
<1>1. ASSUME NEW c, Begins(h, c), c.at \in {"edit", "flags"},
             c.at = "flags" => c.step = 1
      PROVE  Knows(h)'
  BY <1>1 DEF Begins, TypeOK, Knows, HasRead, At
<1>2. CASE \/ \E p \in Paths, bit \in Bits, on \in BOOLEAN :
                  UpdateFlags(h, p, bit, on)
           \/ \E p, q \in Paths : Add(h, <<p, q>>) \/ Move(h, p, q)
           \/ \E kind \in {"all", "tracked"} : StageAll(h, kind)
           \/ \E p \in Paths, keep \in BOOLEAN : Remove(h, p, keep)
  BY <1>1, <1>2 DEF UpdateFlags, Add, Move, StageAll, Remove, Edits
<1>3. CASE FlagsLock(h) \/ FlagsRead(h)
  BY <1>3, CallKinds DEF FlagsLock, FlagsRead, FlagsStep, FlagsSteps, NextStep,
     GoesTo, TypeOK, Knows, HasRead, At, FlagsCalls, files
<1>4. CASE FlagsMark(h)
  <2>1. call[h] \in FlagsCalls /\ HasRead(h)
    BY <1>4, CallKinds DEF FlagsMark, HasRead, At, FlagsSteps
  <2>2. memory[h] = disk
    BY <2>1 DEF ReadsDisk, HasRead
  <2>3. CASE GoesTo(h, "cleanup")
    BY <2>1, <2>3 DEF GoesTo, TypeOK, Knows, HasRead, At, FlagsCalls
  <2>4. CASE memory' = [memory EXCEPT ![h] = Marked(h)] /\ GoesTo(h, "commit")
    <3>1. /\ call'[h].at = "commit" /\ call'[h].path = call[h].path
          /\ call'[h].on = call[h].on /\ call'[h].bit = call[h].bit
      BY <2>1, <2>4 DEF GoesTo, TypeOK, FlagsCalls
    <3>2. memory'[h] = Marked(h) /\ disk' = disk
      BY <1>4, <2>4 DEF FlagsMark, TypeOK, files
    <3> QED
      BY <2>2, <3>1, <3>2 DEF Knows, HasRead, At, Marked
  <2> QED
    BY <1>4, <2>3, <2>4 DEF FlagsMark
<1>5. CASE FlagsCommit(h) \/ FlagsFail(h) \/ WriteFails(h) \/ RemoveFiles(h)
  BY <1>5 DEF FlagsCommit, FlagsFail, WriteFails, RemoveFiles, Ends, NoCall,
     TypeOK, Knows, HasRead, At
<1>6. CASE FlagsCleanup(h)
  BY <1>6, CallKinds DEF FlagsCleanup, GoesTo, TypeOK, Knows, HasRead, At,
     FlagsCalls
<1>7. CASE MakeEdit(h)
  BY <1>7, CallKinds DEF MakeEdit, Puts, Ends, NoCall, TypeOK, Knows, HasRead,
     At, EditCalls
<1>8. CASE WriteLock(h) \/ Write(h)
  BY <1>8, CallKinds DEF WriteLock, Write, GoesTo, Ends, NoCall, TypeOK, Knows,
     HasRead, At, EditCalls
<1>9. CASE Dies(h)
  BY <1>9 DEF Dies, Dead, TypeOK, Knows, HasRead, At
<1> QED
  BY <1>2, <1>3, <1>4, <1>5, <1>6, <1>7, <1>8, <1>9 DEF HandleStep

\* No step makes a flags update's index differ from the one on disk: a step
\* of another handle finds the lock taken.
LEMMA ReadsStep ==
    ASSUME TypeOK, LockHeld, ReadsDisk, [Next]_vars
    PROVE  ReadsDisk'
<1> SUFFICES ASSUME NEW g \in Handles
             PROVE  Knows(g)'
  BY DEF ReadsDisk, Knows, HasRead
<1>1. Knows(g)
  BY DEF ReadsDisk, Knows, HasRead
<1>2. ASSUME NEW h \in Handles, HandleStep(h)
      PROVE  Knows(g)'
  <2>1. CASE g = h
    BY <1>2, <2>1, OwnReads
  <2>2. CASE g # h /\ (HasRead(g) \/ At(g, "commit"))
    <3>1. lock = g
      BY <2>2, CallKinds DEF LockHeld, Locks, HasRead, At, FlagsCalls
    <3>2. disk' = disk
      BY <1>2, <2>2, <3>1, DiskMoves
    <3> QED
      BY <1>1, <1>2, <2>2, <3>2, HandleFrame DEF Knows, HasRead, At
  <2>3. CASE g # h /\ ~(HasRead(g) \/ At(g, "commit"))
    BY <1>2, <2>3, HandleFrame DEF Knows, HasRead, At
  <2> QED
    BY <2>1, <2>2, <2>3
<1>3. CASE OthersStep
  <2>1. UNCHANGED <<call, memory>> /\ (lock = Nobody \/ disk' = disk)
    BY <1>3 DEF OthersStep, GitWrites, Saves
  <2>2. CASE disk' = disk
    BY <1>1, <2>1, <2>2 DEF Knows, HasRead, At
  <2>3. CASE lock = Nobody
    <3>1. ~HasRead(g) /\ ~At(g, "commit")
      BY <2>3, CallKinds, IndexAssumption
      DEF LockHeld, Locks, HasRead, At, FlagsCalls
    <3> QED
      BY <2>1, <3>1 DEF Knows, HasRead, At
  <2> QED
    BY <2>1, <2>2, <2>3
<1>4. CASE UNCHANGED vars
  BY <1>1, <1>4 DEF vars, files, Knows, HasRead, At
<1> QED
  BY <1>2, <1>3, <1>4, NextSteps

-----------------------------------------------------------------------------
(***************************************************************************)
(* The bits that were asked for.                                           *)
(***************************************************************************)
\* What was asked for stays asked for.
LEMMA AskedGrows ==
    ASSUME TypeOK, [Next]_vars
    PROVE  \A p \in Paths : asked[p] \subseteq asked'[p]
<1>1. ASSUME NEW h \in Handles, HandleStep(h), ~FlagsCommit(h)
      PROVE  asked' = asked
  BY <1>1 DEF HandleStep, UpdateFlags, Add, StageAll, Remove, Move, Begins,
     FlagsLock, FlagsRead, FlagsMark, FlagsCleanup, FlagsFail, MakeEdit,
     WriteLock, Write, WriteFails, RemoveFiles, Dies
<1>2. ASSUME NEW h \in Handles, FlagsCommit(h)
      PROVE  \A p \in Paths : asked[p] \subseteq asked'[p]
  BY <1>2 DEF FlagsCommit, TypeOK
<1>3. CASE OthersStep
  BY <1>3 DEF OthersStep, GitWrites, Saves, TypeOK
<1>4. CASE UNCHANGED vars
  BY <1>4 DEF vars
<1> QED
  BY <1>1, <1>2, <1>3, <1>4, NextSteps

\* Nothing is written to disk but indexes whose bits were asked for.
LEMMA DiskAsked ==
    ASSUME TypeOK, LockHeld, ReadsDisk, NoFailedMark, MarksAsked, [Next]_vars
    PROVE  NoFailedMark'
<1> USE DEF NoFailedMark
<1>1. ASSUME disk' = disk
      PROVE  NoFailedMark'
  BY <1>1, AskedGrows
<1>2. ASSUME NEW h \in Handles, FlagsCommit(h)
      PROVE  NoFailedMark'
  <2>1. call[h] \in FlagsCalls /\ disk' = memory[h]
    BY <1>2, CallKinds DEF FlagsCommit, At
  <2>2. memory[h] = [disk EXCEPT ![call[h].path].bits =
                        IF call[h].on THEN @ \cup {call[h].bit}
                        ELSE @ \ {call[h].bit}]
    BY <1>2 DEF FlagsCommit, ReadsDisk
  <2>3. \A p \in Paths : p # call[h].path => disk'[p] = disk[p]
    BY <2>1, <2>2 DEF TypeOK, Indexes
  <2>4. disk'[call[h].path].bits =
            IF call[h].on THEN disk[call[h].path].bits \cup {call[h].bit}
            ELSE disk[call[h].path].bits \ {call[h].bit}
    BY <2>1, <2>2 DEF TypeOK, Indexes, Entries, FlagsCalls
  <2>5. call[h].on => call[h].bit \in asked'[call[h].path]
    BY <1>2, <2>1 DEF FlagsCommit, TypeOK, FlagsCalls
  <2> QED
    BY <2>3, <2>4, <2>5, AskedGrows
<1>3. ASSUME NEW h \in Handles, Write(h)
      PROVE  NoFailedMark'
  <2>1. call[h] \in EditCalls /\ call[h].at = "write"
    BY <1>3, CallKinds DEF Write, At
  <2>2. memory[h] \in Indexes
    BY <2>1 DEF TypeOK, Calls
  <2>3. memory[h] # << >> \/ Paths = {}
    BY <2>2 DEF Indexes
  <2> QED
    BY <1>3, <2>1, <2>3 DEF Write, MarksAsked
<1>4. CASE OthersStep
  BY <1>4, <1>1 DEF OthersStep, GitWrites, Saves, TypeOK, Indexes, Entries
<1>5. ASSUME NEW h \in Handles, HandleStep(h), ~FlagsCommit(h), ~Write(h)
      PROVE  disk' = disk
  BY <1>5 DEF HandleStep, UpdateFlags, Add, StageAll, Remove, Move, Begins,
     FlagsLock, FlagsRead, FlagsMark, FlagsCleanup, FlagsFail, MakeEdit,
     WriteLock, WriteFails, RemoveFiles, Dies, files
<1>6. CASE UNCHANGED vars
  BY <1>6, <1>1 DEF vars, files
<1> QED
  BY <1>1, <1>2, <1>3, <1>4, <1>5, <1>6, NextSteps

\* Part of MarksAsked: the index handle h has cached.
Clean(h) ==
    memory[h] # << >> /\ call[h].at \notin {"commit", "failed", "dead"}
        => \A p \in Paths : memory[h][p].bits \subseteq asked[p]

\* Edits put entries without bits, and sweeps keep those there are.
LEMMA EditsClean ==
    ASSUME TypeOK, MarksAsked, NEW h \in Handles, MakeEdit(h)
    PROVE  Clean(h)'
<1> DEFINE e == Head(call[h].edits)
<1>1. /\ call[h] \in EditCalls /\ call[h].at = "edit"
      /\ memory[h] \in Indexes /\ asked' = asked
  BY CallKinds DEF MakeEdit, At, TypeOK, Calls
<1>2. \A p \in Paths : memory[h][p].bits \subseteq asked[p]
  BY <1>1 DEF MarksAsked, Indexes
<1>3. e \in EditKinds
  BY <1>1 DEF MakeEdit, EditCalls
<1>4. ASSUME NEW p \in Paths, NEW content, Puts(h, p, content)
      PROVE  Clean(h)'
  BY <1>1, <1>2, <1>4 DEF Puts, Entry, Clean, TypeOK, Indexes
<1>5. CASE e.kind \in {"remove", "add"} /\ \E content : Puts(h, e.path, content)
  BY <1>3, <1>4, <1>5 DEF EditKinds
<1>6. CASE UNCHANGED memory
  BY <1>1, <1>2, <1>6 DEF Clean
<1>7. CASE memory' = [memory EXCEPT ![h] = Swept(h, e.kind)]
  <2>1. memory'[h] = Swept(h, e.kind)
    BY <1>7 DEF TypeOK
  <2> QED
    BY <1>1, <1>2, <2>1 DEF Swept, Entry, Clean
<1> QED
  BY <1>3, <1>5, <1>6, <1>7 DEF MakeEdit

\* A step of h leaves in h's index bits asked for, or a call that must not
\* write it.
LEMMA OwnClean ==
    ASSUME TypeOK, NoFailedMark, NoFailedMark', MarksAsked, [Next]_vars,
           NEW h \in Handles, HandleStep(h)
    PROVE  Clean(h)'
<1>1. Clean(h)
  BY DEF MarksAsked, Clean
<1>2. ASSUME NEW c, Begins(h, c)
      PROVE  Clean(h)'
  BY <1>1, <1>2 DEF Begins, At, Clean, NoFailedMark, TypeOK
<1>3. CASE \/ \E p \in Paths, bit \in Bits, on \in BOOLEAN :
                  UpdateFlags(h, p, bit, on)
           \/ \E p, q \in Paths : Add(h, <<p, q>>) \/ Move(h, p, q)
           \/ \E kind \in {"all", "tracked"} : StageAll(h, kind)
           \/ \E p \in Paths, keep \in BOOLEAN : Remove(h, p, keep)
  BY <1>2, <1>3 DEF UpdateFlags, Add, Move, StageAll, Remove
<1>4. CASE FlagsRead(h) \/ FlagsFail(h)
  BY <1>4 DEF FlagsRead, FlagsFail, AfterFailure, files, Clean, NoFailedMark,
     TypeOK
<1>5. CASE FlagsCommit(h)
  BY <1>5 DEF FlagsCommit, Clean, NoFailedMark
<1>6. CASE FlagsMark(h)
  <2>1. CASE UNCHANGED memory
    BY <1>1, <1>6, <2>1 DEF FlagsMark, At, Clean
  <2>2. CASE GoesTo(h, "commit")
    <3>1. call[h] \in FlagsCalls
      BY <1>6, CallKinds DEF FlagsMark, At
    <3> QED
      BY <2>2, <3>1 DEF GoesTo, Clean, TypeOK, FlagsCalls
  <2> QED
    BY <1>6, <2>1, <2>2 DEF FlagsMark
<1>7. CASE FlagsCleanup(h)
  <2>1. call[h] \in FlagsCalls
    BY <1>7, CallKinds DEF FlagsCleanup, At
  <2> QED
    BY <1>7, <2>1 DEF FlagsCleanup, GoesTo, Clean, TypeOK, FlagsCalls
<1>8. CASE FlagsLock(h) \/ WriteLock(h) \/ Write(h) \/ WriteFails(h)
           \/ RemoveFiles(h)
  BY <1>1, <1>8 DEF FlagsLock, FlagsStep, WriteLock, Write, WriteFails,
     RemoveFiles, At, Clean
<1>9. CASE MakeEdit(h)
  BY <1>9, EditsClean
<1>10. CASE Dies(h)
  BY <1>10 DEF Dies, Dead, Clean, TypeOK
<1> QED
  BY <1>3, <1>4, <1>5, <1>6, <1>7, <1>8, <1>9, <1>10 DEF HandleStep

\* So does every step, in every handle's.
LEMMA MarksStep ==
    ASSUME TypeOK, NoFailedMark, NoFailedMark', MarksAsked, [Next]_vars
    PROVE  MarksAsked'
<1> SUFFICES ASSUME NEW g \in Handles
             PROVE  Clean(g)'
  BY DEF MarksAsked, Clean
<1>1. Clean(g)
  BY DEF MarksAsked, Clean
<1>2. ASSUME NEW h \in Handles, HandleStep(h)
      PROVE  Clean(g)'
  <2>1. CASE g = h
    BY <1>2, <2>1, OwnClean
  <2>2. CASE g # h
    BY <1>1, <1>2, <2>2, HandleFrame, AskedGrows DEF Clean
  <2> QED
    BY <2>1, <2>2
<1>3. CASE OthersStep \/ UNCHANGED vars
  BY <1>1, <1>3, AskedGrows DEF OthersStep, GitWrites, Saves, vars, Clean
<1> QED
  BY <1>2, <1>3, NextSteps

-----------------------------------------------------------------------------
(***************************************************************************)
(* The invariant, and what follows from it.                                *)
(***************************************************************************)
\* The state is always well-typed, and the lock, the index read under it and
\* the bits in memory are as IInv has them.
THEOREM Invariance == Spec => []IInv
<1>1. Init => IInv
  <2>1. Init => LockHeld /\ ReadsDisk /\ NoFailedMark /\ MarksAsked
    BY DEF Init, LockHeld, Locks, ReadsDisk, NoFailedMark, MarksAsked, At,
       NoCall, Entry
  <2> QED
    BY <2>1, TypeInit DEF IInv
<1>2. IInv /\ [Next]_vars => IInv'
  BY TypeStep, LockStep, ReadsStep, DiskAsked, MarksStep DEF IInv
<1> QED
  BY <1>1, <1>2, PTL DEF Spec

\* No bit is on disk that a call did not set with success, or git: whatever
\* fails in between, a mark that failed is dropped from memory before the
\* handle writes again (index_flags.c, lines 62-64).
THEOREM FailedMarksDropped == Spec => []NoFailedMark
<1>1. IInv => NoFailedMark
  BY DEF IInv
<1> QED
  BY <1>1, Invariance, PTL

\* A flags update commits the index that is on disk with its one bit changed,
\* because it reads it under the lock it takes first (index_flags.c, lines
\* 34-40).
THEOREM FlagsUpdatesExact == Spec => FlagsChangeTheirBit
<1>1. ASSUME IInv, NEW h \in Handles, FlagsCommit(h)
      PROVE  disk' = [disk EXCEPT ![call[h].path].bits =
                         IF call[h].on THEN @ \cup {call[h].bit}
                         ELSE @ \ {call[h].bit}]
  BY <1>1 DEF IInv, ReadsDisk, FlagsCommit
<1>2. IInv => [\A h \in Handles : FlagsCommit(h) =>
                  disk' = [disk EXCEPT ![call[h].path].bits =
                              IF call[h].on THEN @ \cup {call[h].bit}
                              ELSE @ \ {call[h].bit}]]_vars
  BY <1>1
<1> QED
  BY <1>2, Invariance, PTL DEF FlagsChangeTheirBit

-----------------------------------------------------------------------------
(* Numbers                                                                 *)

\* A set of numbers has a least one.
LEMMA Least ==
    ASSUME NEW S, S \subseteq Nat, S # {}
    PROVE  \E n \in S : \A m \in S : n <= m
<1> DEFINE Upto == {0..n : n \in S}
<1>1. Upto \subseteq FiniteSubsetsOf(Nat) /\ Upto # {}
    <2>1. ASSUME NEW n \in S
          PROVE  IsFiniteSet(0..n) /\ 0..n \subseteq Nat
        BY FS_Interval
    <2> QED
        BY <2>1 DEF FiniteSubsetsOf
<1>2. PICK x \in Upto : \A y \in Upto : ~ (<<y, x>> \in StrictSubsetOrdering(Nat))
    <2> HIDE DEF Upto
    <2> QED
        BY <1>1, WFMin, FS_StrictSubsetOrderingWellFounded
<1>3. PICK n \in S : x = 0..n
    BY <1>2
<1>4. ASSUME NEW m \in S, m < n
      PROVE  FALSE
    <2>1. 0..m \subseteq 0..n /\ n \in 0..n /\ n \notin 0..m
        BY <1>4
    <2>2. 0..m \in SUBSET Nat /\ 0..n \in SUBSET Nat
        OBVIOUS
    <2>3. <<0..m, 0..n>> \in StrictSubsetOrdering(Nat)
        BY <2>1, <2>2 DEF StrictSubsetOrdering
    <2> QED
        BY <1>2, <1>3, <2>3
<1> QED
    BY <1>4

\* What holds of nothing, and of one more each time, holds up to any number.
LEMMA UpTo ==
    ASSUME NEW N \in Nat, NEW S, 0 \in S, \A n \in 0..N : n \in S /\ n < N => n + 1 \in S
    PROVE  0..N \subseteq S
<1> SUFFICES ASSUME (0..N) \ S # {}
             PROVE  FALSE
    OBVIOUS
<1>1. PICK n \in (0..N) \ S : \A m \in (0..N) \ S : n <= m
    <2>1. (0..N) \ S \subseteq Nat
        OBVIOUS
    <2> QED
        BY <2>1, Least
<1>2. n # 0 /\ n - 1 \in 0..N /\ n - 1 \in S
    BY <1>1
<1> QED
    BY <1>1, <1>2

-----------------------------------------------------------------------------
(* The refs, in their order                                                *)

\* What is appended is the last.
LEMMA Appended ==
    ASSUME NEW T, NEW s \in Seq(T), NEW e \in T
    PROVE  /\ Append(s, e) \in Seq(T)
           /\ Range(Append(s, e)) = Range(s) \cup {e}
           /\ IsInjective(s) /\ e \notin Range(s) => IsInjective(Append(s, e))
<1>1. DOMAIN Append(s, e) = DOMAIN s \cup {Len(s) + 1} /\ Append(s, e)[Len(s) + 1] = e
    OBVIOUS
<1>2. \A i \in DOMAIN s : Append(s, e)[i] = s[i] /\ i # Len(s) + 1
    OBVIOUS
<1>3. ASSUME IsInjective(s), e \notin Range(s)
      PROVE  IsInjective(Append(s, e))
    BY <1>1, <1>2, <1>3 DEF IsInjective, Range
<1> QED
    BY <1>1, <1>2, <1>3 DEF Range

\* Only(s, S) has the members of s that are in S, each once if s does.
LEMMA OnlyThose ==
    ASSUME NEW T, NEW s \in Seq(T), NEW S
    PROVE  /\ Only(s, S) \in Seq(T)
           /\ Range(Only(s, S)) = Range(s) \cap S
           /\ IsInjective(s) => IsInjective(Only(s, S))
<1> DEFINE N == Len(s)
           Turn(g, n) == IF n = 0 THEN << >>
                         ELSE IF s[n] \in S THEN Append(g[n - 1], s[n]) ELSE g[n - 1]
           Loop(g, n) == g = [i \in 0..n |-> Turn(g, i)]
           Left(n) == {s[i] : i \in 1..n} \cap S
<1>1. N \in Nat /\ DOMAIN s = 1..N /\ \A i \in 1..N : s[i] \in T
    OBVIOUS
<1> HIDE DEF N
<1>2. \E g : Loop(g, N)
    <2> DEFINE Z == {n \in 0..N : \E g : Loop(g, n)}
    <2>1. 0 \in Z
        <3>1. Loop([i \in 0..0 |-> << >>], 0)
            OBVIOUS
        <3>2. \E g : Loop(g, 0)
            BY <3>1
        <3> HIDE DEF Loop
        <3> QED
            BY <1>1, <3>2
    <2>2. ASSUME NEW n \in 0..N, n \in Z, n < N
          PROVE  n + 1 \in Z
        <3>1. PICK g : Loop(g, n)
            BY <2>2
        <3> DEFINE d == [i \in 0..(n + 1) |-> IF i = n + 1 THEN Turn(g, n + 1) ELSE g[i]]
        <3>2. \A i \in 0..n : g[i] = Turn(g, i)
            BY <3>1
        <3>3. \A i \in 0..(n + 1) : i # 0 => i - 1 \in 0..n /\ d[i - 1] = g[i - 1]
            BY <1>1
        <3>4. ASSUME NEW i \in 0..(n + 1)
              PROVE  d[i] = Turn(d, i)
            <4>1. CASE i = n + 1
                BY <3>3, <4>1
            <4>2. CASE i # n + 1
                <5>1. i \in 0..n
                    BY <1>1, <4>2
                <5> QED
                    BY <3>2, <3>3, <4>2, <5>1
            <4> QED
                BY <4>1, <4>2
        <3>5. Loop(d, n + 1)
            BY <3>4
        <3>6. \E x : Loop(x, n + 1)
            BY <3>5
        <3> HIDE DEF Loop
        <3> QED
            BY <1>1, <2>2, <3>6
    <2>3. N \in 0..N
        BY <1>1
    <2> HIDE DEF Z
    <2>4. N \in Z
        BY <1>1, <2>1, <2>2, <2>3, UpTo
    <2> QED
        BY <2>4 DEF Z
<1> DEFINE kept == CHOOSE g : Loop(g, N)
<1>3. Loop(kept, N)
    BY <1>2
<1>4. Only(s, S) = kept[N]
    BY DEF Only, N
<1> HIDE DEF kept
<1>5. \A n \in 0..N : kept[n] = Turn(kept, n)
    BY <1>3
<1> DEFINE Good(m) == /\ kept[m] \in Seq(T) /\ Range(kept[m]) = Left(m)
                      /\ IsInjective(s) => IsInjective(kept[m])
           Z == {n \in 0..N : Good(n)}
<1>6. 0 \in Z
    <2>1. 0 \in 0..N /\ kept[0] = << >>
        BY <1>1, <1>5
    <2>2. << >> \in Seq(T) /\ Range(<< >>) = {} /\ Left(0) = {} /\ IsInjective(<< >>)
        BY DEF Range, IsInjective
    <2> QED
        BY <2>1, <2>2
<1>7. ASSUME NEW n \in 0..N, n \in Z, n < N
      PROVE  n + 1 \in Z
    <2>1. n + 1 \in 1..N /\ n + 1 \in 0..N /\ (n + 1) - 1 = n
        BY <1>1, <1>7
    <2>2. Good(n)
        BY <1>7
    <2>3. kept[n + 1] = IF s[n + 1] \in S THEN Append(kept[n], s[n + 1]) ELSE kept[n]
        BY <1>5, <2>1
    <2>4. Left(n + 1) = IF s[n + 1] \in S THEN Left(n) \cup {s[n + 1]} ELSE Left(n)
        <3>1. \A i : i \in 1..(n + 1) <=> i \in 1..n \/ i = n + 1
            BY <1>1
        <3> QED
            BY <3>1
    <2>5. IsInjective(s) => s[n + 1] \notin Left(n)
        BY <1>1, <2>1 DEF IsInjective
    <2>6. Good(n + 1)
        <3> HIDE DEF Left
        <3>1. s[n + 1] \in T
            BY <1>1, <2>1
        <3>2. CASE s[n + 1] \in S
            <4> DEFINE e == s[n + 1]
                       k == kept[n]
            <4>1. k \in Seq(T) /\ e \in T /\ kept[n + 1] = Append(k, e)
                BY <2>2, <2>3, <3>1, <3>2
            <4>2. /\ Range(k) = Left(n) /\ Left(n + 1) = Left(n) \cup {e}
                  /\ IsInjective(s) => IsInjective(k) /\ e \notin Left(n)
                BY <2>2, <2>4, <2>5, <3>2
            <4> HIDE DEF e, k
            <4>3. /\ Append(k, e) \in Seq(T) /\ Range(Append(k, e)) = Range(k) \cup {e}
                  /\ IsInjective(k) /\ e \notin Range(k) => IsInjective(Append(k, e))
                BY <4>1, Appended
            <4> QED
                BY <4>1, <4>2, <4>3
        <3>3. CASE s[n + 1] \notin S
            BY <2>2, <2>3, <2>4, <3>3
        <3> QED
            BY <3>2, <3>3
    <2> QED
        BY <2>1, <2>6
<1>8. N \in Z
    <2>1. N \in 0..N
        BY <1>1
    <2> HIDE DEF Z
    <2> QED
        BY <1>1, <1>6, <1>7, <2>1, UpTo
<1>9. Range(s) \cap S = Left(N)
    BY <1>1 DEF Range
<1> QED
    BY <1>1, <1>4, <1>8, <1>9

\* What two sequences joined have, and where.
LEMMA Joined ==
    ASSUME NEW T, NEW s \in Seq(T), NEW q \in Seq(T)
    PROVE  /\ s \o q \in Seq(T) /\ Range(s \o q) = Range(s) \cup Range(q)
           /\ Len(s) \in Nat /\ Len(q) \in Nat /\ Len(s \o q) = Len(s) + Len(q)
           /\ DOMAIN s = 1..Len(s) /\ DOMAIN q = 1..Len(q)
           /\ DOMAIN (s \o q) = 1..(Len(s) + Len(q))
           /\ \A i \in DOMAIN s : (s \o q)[i] = s[i]
           /\ \A i \in DOMAIN q : (s \o q)[Len(s) + i] = q[i]
           /\ \A i \in DOMAIN (s \o q) : i \in DOMAIN s \/ i - Len(s) \in DOMAIN q
<1>1. /\ s \o q \in Seq(T) /\ Len(s) \in Nat /\ Len(q) \in Nat
      /\ Len(s \o q) = Len(s) + Len(q)
      /\ DOMAIN s = 1..Len(s) /\ DOMAIN q = 1..Len(q)
      /\ DOMAIN (s \o q) = 1..(Len(s) + Len(q))
    OBVIOUS
<1>2. \A i \in DOMAIN s : (s \o q)[i] = s[i]
    OBVIOUS
<1>3. \A i \in DOMAIN q : Len(s) + i \in DOMAIN (s \o q) /\ (s \o q)[Len(s) + i] = q[i]
    OBVIOUS
<1>4. \A i \in DOMAIN (s \o q) :
          i \in DOMAIN s \/ (i - Len(s) \in DOMAIN q /\ i = Len(s) + (i - Len(s)))
    BY <1>1
<1>5. DOMAIN s \subseteq DOMAIN (s \o q)
    BY <1>1
<1>6. ASSUME NEW i \in DOMAIN (s \o q)
      PROVE  (s \o q)[i] \in Range(s) \cup Range(q)
    <2>1. CASE i \in DOMAIN s
        BY <1>2, <2>1 DEF Range
    <2>2. CASE i - Len(s) \in DOMAIN q /\ i = Len(s) + (i - Len(s))
        <3>1. (s \o q)[i] = q[i - Len(s)]
            BY <1>3, <2>2
        <3> QED
            BY <2>2, <3>1 DEF Range
    <2> QED
        BY <1>4, <2>1, <2>2
<1>7. \A i \in DOMAIN s : s[i] \in Range(s \o q)
    BY <1>2, <1>5 DEF Range
<1>8. \A i \in DOMAIN q : q[i] \in Range(s \o q)
    BY <1>3 DEF Range
<1>9. Range(s \o q) = Range(s) \cup Range(q)
    BY <1>6, <1>7, <1>8 DEF Range
<1> QED
    BY <1>1, <1>2, <1>3, <1>4, <1>9

-----------------------------------------------------------------------------
(* What stays the same throughout a fetch                                  *)

\* What the refs the remote advertises are.
LEMMA OfRefs ==
    /\ Len(Advertised) \in Nat /\ Len(Advertised) >= 1
    /\ DOMAIN Advertised = 1..Len(Advertised)
    /\ \A k \in DOMAIN Advertised : Advertised[k] \in Refs
    /\ \A j, k \in DOMAIN Advertised : Advertised[j] = Advertised[k] => j = k
    /\ \A r \in Refs : \E k \in DOMAIN Advertised : Advertised[k] = r
    /\ Tags \subseteq Refs
<1>1. Advertised \in Seq(Refs) /\ Range(Advertised) = Refs /\ IsInjective(Advertised)
    BY FetchAssumption
<1>2. Main \in Range(Advertised)
    BY <1>1 DEF Refs
<1>3. DOMAIN Advertised # {}
    BY <1>2 DEF Range
<1> QED
    BY <1>1, <1>3 DEF Range, IsInjective, Refs

\* What a fetch can be.
LEMMA OfWorld ==
    ASSUME world \in Worlds
    PROVE  /\ world.specs \in Seq(Refspec) /\ Specs \subseteq Refspec
           /\ Len(world.specs) \in Nat /\ DOMAIN world.specs = 1..Len(world.specs)
           /\ \A i \in DOMAIN world.specs : world.specs[i] \in Specs
           /\ \A s \in Specs : \E i \in DOMAIN world.specs : world.specs[i] = s
           /\ \A s \in Specs : s.from \in Refs /\ s.to \in Tags /\ s.forced \in BOOLEAN
           /\ world.excluded \subseteq Tags /\ world.reached \subseteq Tags
           /\ world.all \in BOOLEAN /\ world.follows \in BOOLEAN
           /\ world.follows => ~world.all /\ Len(world.specs) >= 1
<1>1. /\ world.specs \in Seq(Refspec)
      /\ world.excluded \subseteq Tags /\ world.reached \subseteq Tags
      /\ world.all \in BOOLEAN /\ world.follows \in BOOLEAN
      /\ world.follows => ~world.all /\ world.specs # << >>
    BY FetchAssumption
<1>2. Specs \subseteq Refspec
    BY <1>1 DEF Specs, Range
<1>3. \A s \in Specs : s.from \in Refs /\ s.to \in Tags /\ s.forced \in BOOLEAN
    BY <1>2 DEF Refspec
<1>4. Len(world.specs) \in Nat /\ DOMAIN world.specs = 1..Len(world.specs)
    BY <1>1
<1>5. world.specs # << >> => Len(world.specs) >= 1
    BY <1>1
<1> QED
    BY <1>1, <1>2, <1>3, <1>4, <1>5 DEF Specs, Range

\* A step leaves the fetch, the remote and what there was as they are, and
\* so all that is said of them.
LEMMA Fixed ==
    ASSUME UNCHANGED fetch
    PROVE  /\ UNCHANGED <<world, remote, first, Specs, Watches>>
           /\ \A r : Excluded(r)' = Excluded(r)
           /\ \A t : /\ Taken(t)' = Taken(t) /\ Forced(t)' = Forced(t)
                     /\ Clobbered(t)' = Clobbered(t) /\ ByRules(t)' = ByRules(t)
                     /\ Follows(t)' = Follows(t) /\ Overrun(t)' = Overrun(t)
                     /\ Stays(t)' = Stays(t)
           /\ OneSource' = OneSource
<1>1. UNCHANGED <<world, remote, first>>
    BY DEF fetch
<1>2. UNCHANGED <<Specs, Watches>> /\ \A r : Excluded(r)' = Excluded(r)
    BY <1>1 DEF Specs, Watches, Excluded
<1>3. \A t : Sources(t)' = Sources(t)
    BY <1>1, <1>2 DEF Sources
<1>4. \A t : Taken(t)' = Taken(t)
    BY <1>2, <1>3 DEF Taken
<1>5. \A t : Forced(t)' = Forced(t)
    BY <1>2, <1>4 DEF Forced
<1>6. \A t : Clobbered(t)' = Clobbered(t)
    BY <1>1, <1>4, <1>5 DEF Clobbered
<1>7. ASSUME NEW t
      PROVE  ByRules(t)' = ByRules(t)
    <2> DEFINE T == Taken(t)
               Some(S) == CHOOSE r \in S : TRUE
    <2>1. T' = T
        BY <1>4
    <2>2. Some(T)' = Some(T)
        BY <2>1
    <2> QED
        BY <1>1, <1>2, <1>4, <1>6, <2>1, <2>2, Zenon DEF ByRules
<1>8. \A t : /\ Follows(t)' = Follows(t) /\ Overrun(t)' = Overrun(t)
             /\ Stays(t)' = Stays(t)
    BY <1>1, <1>2, <1>4, <1>5 DEF Follows, Overrun, Stays
<1>9. OneSource' = OneSource
    BY <1>1, <1>3 DEF OneSource
<1> QED
    BY <1>1, <1>2, <1>4, <1>5, <1>6, <1>7, <1>8, <1>9

\* Every step is of such a kind.
LEMMA StepsFixed ==
    ASSUME FetchNext
    PROVE  UNCHANGED fetch
BY DEF FetchNext, Fetch, ReadTags, UpdateTip, UpdateAllTags, Fail, DropTag, DropEnds,
       Settle, ReorderHead, Change

\* What is taken to a tag: at most one ref the remote has, by a refspec or `--tags`.
LEMMA OfTaken ==
    ASSUME world \in Worlds, OneSource
    PROVE  /\ \A s \in Specs : remote[s.from] # NoObject /\ ~Excluded(s.from) =>
                  s.from \in Taken(s.to)
           /\ \A t \in Tags :
                /\ world.all /\ ~Excluded(t) /\ remote[t] # NoObject => t \in Taken(t)
                /\ \A r \in Taken(t) :
                    /\ r \in Refs /\ remote[r] # NoObject /\ ~Excluded(r)
                    /\ \A q \in Taken(t) : q = r
                    /\ (\E s \in Specs : s.to = t /\ s.from = r) \/ (world.all /\ r = t)
                    /\ world.follows /\ remote[t] # NoObject => r = t
                /\ Follows(t) => Taken(t) = {}
<1>1. \A s \in Specs : remote[s.from] # NoObject => s.from \in Sources(s.to)
    BY DEF Sources
<1>2. ASSUME NEW t \in Tags
      PROVE  /\ world.all /\ ~Excluded(t) /\ remote[t] # NoObject => t \in Sources(t)
             /\ \A r \in Sources(t) :
                 /\ remote[r] # NoObject
                 /\ (\E s \in Specs : s.to = t /\ s.from = r) \/ (world.all /\ r = t)
    BY DEF Sources
<1>3. ASSUME NEW t \in Tags, NEW r \in Sources(t)
      PROVE  /\ r \in Refs
             /\ \A q \in Sources(t) : q = r
             /\ world.follows /\ remote[t] # NoObject => r = t
    <2>1. r \in Refs
        BY <1>2, OfWorld DEF Refs
    <2> QED
        BY <2>1 DEF OneSource
<1>4. ASSUME NEW t \in Tags, Follows(t)
      PROVE  Taken(t) = {}
    BY <1>2, <1>3, <1>4, OfWorld DEF Follows, Taken
<1> QED
    BY <1>1, <1>2, <1>3, <1>4 DEF Taken

\* What the rules say of a tag.
LEMMA RulesSay ==
    ASSUME world \in Worlds, OneSource, NEW t \in Tags
    PROVE  /\ Clobbered(t) => /\ ByRules(t) = first[t] /\ Taken(t) # {} /\ ~Forced(t)
                              /\ first[t] # NoObject
                              /\ \A r \in Taken(t) : remote[r] # first[t]
           /\ ~Forced(t) /\ first[t] # NoObject => \A r \in Taken(t) :
                  remote[r] # first[t] => Clobbered(t)
           /\ ~Clobbered(t) => \A r \in Taken(t) : ByRules(t) = remote[r]
           /\ Taken(t) = {} /\ Follows(t) /\ t \in world.reached => ByRules(t) = remote[t]
           /\ Taken(t) = {} /\ ~(Follows(t) /\ t \in world.reached) => ByRules(t) = first[t]
<1>1. \A q, r \in Taken(t) : q = r
    BY OfTaken
<1>2. Clobbered(t) => /\ ByRules(t) = first[t] /\ Taken(t) # {} /\ ~Forced(t)
                      /\ first[t] # NoObject
                      /\ \A r \in Taken(t) : remote[r] # first[t]
    BY <1>1 DEF Clobbered, ByRules
<1>3. ~Forced(t) /\ first[t] # NoObject => \A r \in Taken(t) :
          remote[r] # first[t] => Clobbered(t)
    BY DEF Clobbered
<1>4. ASSUME ~Clobbered(t), NEW r \in Taken(t)
      PROVE  ByRules(t) = remote[r]
    <2>1. (CHOOSE q \in Taken(t) : TRUE) = r
        BY <1>1
    <2> QED
        BY <1>4, <2>1 DEF ByRules
<1>5. ASSUME Taken(t) = {}
      PROVE  /\ Follows(t) /\ t \in world.reached => ByRules(t) = remote[t]
             /\ ~(Follows(t) /\ t \in world.reached) => ByRules(t) = first[t]
    BY <1>2, <1>5 DEF ByRules, Follows
<1> QED
    BY <1>2, <1>3, <1>4, <1>5

-----------------------------------------------------------------------------
(* Types                                                                   *)

\* Where the refs' own numbers go.
LEMMA NextRef ==
    ASSUME ref \in DOMAIN Advertised
    PROVE  /\ Advertised[ref] \in Refs
           /\ ref < Len(Advertised) => ref + 1 \in DOMAIN Advertised
           /\ 1 \in DOMAIN Advertised
           /\ ~(ref < Len(Advertised)) => ref = Len(Advertised)
BY OfRefs

\* What MayMove does to the tags.
LEMMA Moves ==
    ASSUME FetchTypeOK, NEW t \in Tags, NEW forced, NEW o \in Objects \cup {NoObject},
           MayMove(t, forced, o)
    PROVE  /\ tags' \in [Tags -> Objects \cup {NoObject}]
           /\ \A u \in Tags : u # t => tags'[u] = tags[u]
           /\ tags'[t] = o \/ (tags'[t] = tags[t] /\ ~forced /\ tags[t] # NoObject)
BY DEF MayMove, FetchTypeOK

\* FETCH_HEAD names the tags of `--tags` and followed ones, and the refs
\* that refspecs take.
LEMMA HeadOf ==
    ASSUME world \in Worlds
    PROVE  /\ FetchedHead \in Seq(Refs)
           /\ \A r \in Range(FetchedHead) :
                  \/ /\ r \in Tags /\ remote[r] # NoObject
                     /\ world.all \/ (world.follows /\ r \in created)
                  \/ ~Excluded(r)
           /\ world.all => \A t \in Tags : remote[t] # NoObject => t \in Range(FetchedHead)
<1> DEFINE listed == {t \in Tags : remote[t] # NoObject
                               /\ (world.all \/ (world.follows /\ t \in created))}
           applied == {s \in Specs : remote[s.from] # NoObject /\ ~Excluded(s.from)}
           taken == Only(world.specs, applied)
           names == [i \in DOMAIN taken |-> taken[i].from]
<1>1. /\ taken \in Seq(Refspec) /\ Range(taken) \subseteq applied
    BY OfWorld, OnlyThose
<1>2. /\ Only(Advertised, listed) \in Seq(Refs)
      /\ Range(Only(Advertised, listed)) = listed
    <2>1. Advertised \in Seq(Refs) /\ Range(Advertised) = Refs
        BY FetchAssumption
    <2> QED
        BY <2>1, OnlyThose, OfRefs
<1>3. FetchedHead = Only(Advertised, listed) \o names
    BY DEF FetchedHead
<1> HIDE DEF taken
<1>4. names \in Seq(Refs) /\ \A r \in Range(names) : ~Excluded(r)
    <2>1. \A i \in DOMAIN taken : taken[i] \in Refspec /\ taken[i] \in applied
        BY <1>1 DEF Range
    <2>2. \A i \in DOMAIN taken : taken[i].from \in Refs /\ ~Excluded(taken[i].from)
        BY <2>1 DEF Refspec
    <2>3. Len(taken) \in Nat /\ DOMAIN taken = 1..Len(taken)
        BY <1>1
    <2>4. names \in [1..Len(taken) -> Refs]
        BY <2>2, <2>3
    <2> QED
        BY <2>2, <2>3, <2>4 DEF Range
<1> HIDE DEF listed, names
<1>5. FetchedHead \in Seq(Refs) /\ Range(FetchedHead) = listed \cup Range(names)
    BY <1>2, <1>3, <1>4, Joined
<1> QED
    BY <1>4, <1>5 DEF listed

\* Restored tags are tags.
LEMMA RestoredTags ==
    ASSUME FetchTypeOK, NEW T
    PROVE  /\ Restored(T) \in [Tags -> Objects \cup {NoObject}]
           /\ \A t \in Tags : Restored(T)[t] = IF t \in T THEN before[t] ELSE tags[t]
BY DEF Restored, FetchTypeOK

\* What the refspecs take a ref to.
LEMMA OfMapped ==
    ASSUME world \in Worlds, NEW r \in Refs
    PROVE  /\ \A m \in Mapped(r) : m.tag \in Tags
           /\ Mapped(r) # {} => ~Excluded(r)
           /\ \A m \in Mapped(r) :
                  \/ \E s \in Specs : s.from = r /\ s.to = m.tag /\ s.forced = m.forced
                  \/ r \in Tags /\ m.tag = r /\ world.all /\ ~m.forced
           /\ ~Excluded(r) => \A s \in Specs : s.from = r =>
                  [tag |-> s.to, forced |-> s.forced] \in Mapped(r)
           /\ ~Excluded(r) /\ r \in Tags /\ world.all =>
                  [tag |-> r, forced |-> FALSE] \in Mapped(r)
<1>1. \A m \in Mapped(r) :
          \/ \E s \in Specs : s.from = r /\ s.to = m.tag /\ s.forced = m.forced
          \/ r \in Tags /\ m.tag = r /\ world.all /\ ~m.forced
    BY DEF Mapped
<1> QED
    BY <1>1, OfWorld DEF Mapped

\* The tags it goes to unforced: a refspec or `--tags` takes it there, and no
\* forced one does.
LEMMA OfUnforced ==
    ASSUME world \in Worlds, NEW r \in Refs
    PROVE  /\ Unforced(r) \subseteq Tags
           /\ \A t \in Unforced(r) :
               /\ ~Excluded(r)
               /\ \A s \in Specs : s.from = r /\ s.to = t => ~s.forced
               /\ \/ \E s \in Specs : s.from = r /\ s.to = t /\ ~s.forced
                  \/ r = t /\ world.all
           /\ \A t \in Tags :
                  /\ ~Excluded(r)
                  /\ \A s \in Specs : s.from = r /\ s.to = t => ~s.forced
                  /\ (\E s \in Specs : s.from = r /\ s.to = t) \/ (r = t /\ world.all)
                  => t \in Unforced(r)
<1>1. ASSUME NEW t \in Unforced(r)
      PROVE  \E m \in Mapped(r) : /\ m.tag = t
                                  /\ \A n \in Mapped(r) : n.tag = t => ~n.forced
    BY DEF Unforced
<1>2. ASSUME NEW m \in Mapped(r), \A n \in Mapped(r) : n.tag = m.tag => ~n.forced
      PROVE  m.tag \in Unforced(r)
    BY <1>2 DEF Unforced
<1>3. ASSUME NEW t \in Unforced(r)
      PROVE  /\ t \in Tags /\ ~Excluded(r)
             /\ \A s \in Specs : s.from = r /\ s.to = t => ~s.forced
             /\ \/ \E s \in Specs : s.from = r /\ s.to = t /\ ~s.forced
                \/ r = t /\ world.all
    <2>1. PICK m \in Mapped(r) : /\ m.tag = t
                                 /\ \A n \in Mapped(r) : n.tag = t => ~n.forced
        BY <1>1
    <2>2. t \in Tags /\ ~Excluded(r)
        BY <2>1, OfMapped
    <2>3. ASSUME NEW s \in Specs, s.from = r, s.to = t
          PROVE  ~s.forced
        <3>1. [tag |-> s.to, forced |-> s.forced] \in Mapped(r)
            BY <2>2, <2>3, OfMapped
        <3> QED
            BY <2>1, <2>3, <3>1
    <2>4. ~m.forced
        BY <2>1
    <2>5. \/ \E s \in Specs : s.from = r /\ s.to = m.tag /\ s.forced = m.forced
          \/ r \in Tags /\ m.tag = r /\ world.all /\ ~m.forced
        BY OfMapped
    <2>6. (\E s \in Specs : s.from = r /\ s.to = t /\ ~s.forced) \/ (r = t /\ world.all)
        BY <2>1, <2>4, <2>5
    <2> QED
        BY <2>2, <2>3, <2>6
<1>4. ASSUME NEW t \in Tags, ~Excluded(r),
             \A s \in Specs : s.from = r /\ s.to = t => ~s.forced,
             (\E s \in Specs : s.from = r /\ s.to = t) \/ (r = t /\ world.all)
      PROVE  t \in Unforced(r)
    <2>1. \E m \in Mapped(r) : m.tag = t
        <3>1. CASE \E s \in Specs : s.from = r /\ s.to = t
            <4>1. PICK s \in Specs : s.from = r /\ s.to = t
                BY <3>1
            <4>2. [tag |-> s.to, forced |-> s.forced] \in Mapped(r)
                BY <1>4, <4>1, OfMapped
            <4>3. [tag |-> s.to, forced |-> s.forced].tag = t
                BY <4>1
            <4> QED
                BY <4>2, <4>3
        <3>2. CASE r = t /\ world.all
            <4>1. [tag |-> r, forced |-> FALSE] \in Mapped(r)
                BY <1>4, <3>2, OfMapped
            <4>2. [tag |-> r, forced |-> FALSE].tag = t
                BY <3>2
            <4> QED
                BY <4>1, <4>2
        <3> QED
            BY <1>4, <3>1, <3>2
    <2>2. ASSUME NEW n \in Mapped(r), n.tag = t
          PROVE  ~n.forced
        <3>1. \/ \E s \in Specs : s.from = r /\ s.to = n.tag /\ s.forced = n.forced
              \/ r \in Tags /\ n.tag = r /\ world.all /\ ~n.forced
            BY OfMapped
        <3> QED
            BY <1>4, <2>2, <3>1
    <2> QED
        BY <1>2, <2>1, <2>2
<1> QED
    BY <1>3, <1>4

\* What a turn of the loop over the refs does.
LEMMA SettleTurn ==
    ASSUME FetchTypeOK, Settle, NEW r \in Refs, r = Advertised[ref]
    PROVE  \/ remote[r] = NoObject /\ UNCHANGED <<tags, refused, out>>
           \/ /\ remote[r] # NoObject /\ r \in Tags /\ Overrun(r) /\ SettleExcluded(r)
           \/ /\ remote[r] # NoObject /\ ~(r \in Tags /\ Overrun(r)) /\ SettleMapped(r)
BY DEF Settle, Overrun

\* Excluded tags are settled as tags.
LEMMA ExcludedTags ==
    ASSUME FetchTypeOK, NEW r \in Tags, SettleExcluded(r)
    PROVE  /\ tags' \in [Tags -> Objects \cup {NoObject}] /\ out' = out \cup {r}
           /\ UNCHANGED refused
           /\ \A t \in Tags : t # r => tags'[t] = tags[t]
           /\ ExplicitSources(r) = {} => tags'[r] = before[r]
           /\ ExplicitSources(r) # {} => \E q \in ExplicitSources(r) : tags'[r] = remote[q]
<1>1. ExplicitSources(r) \subseteq Refs
    BY OfWorld DEF ExplicitSources, FetchTypeOK
<1>2. CASE ExplicitSources(r) = {}
    BY <1>2, RestoredTags DEF SettleExcluded
<1>3. CASE ExplicitSources(r) # {}
    <2>1. PICK q \in ExplicitSources(r) : q = CHOOSE u \in ExplicitSources(r) : TRUE
        BY <1>3
    <2>2. tags' = [tags EXCEPT ![r] = remote[q]]
        BY <1>3, <2>1 DEF SettleExcluded
    <2>3. q \in Refs
        BY <1>1
    <2> QED
        BY <1>3, <2>2, <2>3 DEF SettleExcluded, FetchTypeOK
<1> QED
    BY <1>2, <1>3

\* A step of the fetch keeps the types.
LEMMA FetchTypesStep ==
    ASSUME FetchTypeOK, FetchNext
    PROVE  FetchTypeOK'
<1> USE DEF FetchTypeOK
<1>1. UNCHANGED <<world, remote, first>>
    BY StepsFixed DEF fetch
<1>2. CASE ReadTags
    BY <1>1, <1>2 DEF ReadTags
<1>3. CASE UpdateTip
    <2> DEFINE s == world.specs[spec]
               r == Advertised[ref]
    <2>1. /\ s \in Refspec /\ s.to \in Tags /\ r \in Refs
          /\ spec \in 1..Len(world.specs) /\ Len(world.specs) \in Nat
        BY <1>3, OfWorld, NextRef DEF UpdateTip, Refspec
    <2>2. tags' \in [Tags -> Objects \cup {NoObject}]
        BY <1>3, <2>1, Moves DEF UpdateTip
    <2>3. created' \subseteq Refs
        BY <1>3, <2>1 DEF UpdateTip
    <2>4. ref' \in DOMAIN Advertised /\ spec' \in 1..(Len(world.specs) + 1)
        BY <1>3, <2>1, NextRef DEF UpdateTip
    <2> QED
        BY <1>1, <1>3, <2>2, <2>3, <2>4 DEF UpdateTip
<1>4. CASE UpdateAllTags
    <2> DEFINE r == Advertised[ref]
    <2>1. r \in Refs
        BY NextRef
    <2>2. tags' \in [Tags -> Objects \cup {NoObject}]
        BY <1>4, <2>1, Moves DEF UpdateAllTags
    <2>3. ref' \in DOMAIN Advertised
        BY <1>4, NextRef DEF UpdateAllTags
    <2>4. head' \in Seq(Refs)
        BY <1>4, HeadOf DEF UpdateAllTags
    <2>5. at' \in {"fetch", "drop", "settle"}
        BY <1>4 DEF UpdateAllTags
    <2> QED
        BY <1>1, <1>4, <2>2, <2>3, <2>4, <2>5 DEF UpdateAllTags
<1>5. CASE Fail
    BY <1>1, <1>5 DEF Fail
<1>6. ASSUME NEW t \in Tags, DropTag(t)
      PROVE  FetchTypeOK'
    BY <1>1, <1>6 DEF DropTag
<1>7. CASE DropEnds
    <2>1. head' \in Seq(Refs)
        BY <1>7, OnlyThose DEF DropEnds
    <2> QED
        BY <1>1, <1>7, <2>1 DEF DropEnds
<1>8. CASE Settle
    <2> DEFINE r == Advertised[ref]
    <2>1. r \in Refs
        BY NextRef
    <2>2. /\ tags' \in [Tags -> Objects \cup {NoObject}]
          /\ refused' \subseteq Tags /\ out' \subseteq Tags
        <3>1. CASE UNCHANGED <<tags, refused, out>>
            BY <3>1
        <3>2. CASE r \in Tags /\ SettleExcluded(r)
            BY <3>2, ExcludedTags
        <3>3. CASE SettleMapped(r)
            <4>1. Unforced(r) \subseteq Tags
                BY <2>1, OfUnforced
            <4> QED
                BY <3>3, <4>1, RestoredTags DEF SettleMapped
        <3> QED
            BY <1>8, <2>1, <3>1, <3>2, <3>3, SettleTurn
    <2>3. ref' \in DOMAIN Advertised /\ at' \in {"settle", "reorder", "done"}
        BY <1>8, NextRef DEF Settle
    <2> QED
        BY <1>1, <1>8, <2>2, <2>3 DEF Settle
<1>9. CASE ReorderHead
    <2>1. /\ Only(head, Refs \ Tags) \in Seq(Refs) /\ Advertised \in Seq(Refs)
          /\ ListedTags \in Seq(Refs)
        BY OnlyThose, FetchAssumption DEF ListedTags
    <2>2. head' \in Seq(Refs)
        BY <1>9, <2>1, Joined DEF ReorderHead
    <2> QED
        BY <1>1, <1>9, <2>2 DEF ReorderHead
<1>10. ASSUME NEW t \in Tags, NEW o \in Objects \cup {NoObject}, Change(t, o)
       PROVE  FetchTypeOK'
    BY <1>1, <1>10, FetchAssumption DEF Change
<1> QED
    BY <1>2, <1>3, <1>4, <1>5, <1>6, <1>7, <1>8, <1>9, <1>10 DEF FetchNext, Fetch

-----------------------------------------------------------------------------
(* What was there to begin with, and what came by following                *)

\* The first state is well-typed.
LEMMA FetchTypeInit == FetchInit => FetchTypeOK
<1> SUFFICES ASSUME FetchInit
             PROVE  FetchTypeOK
    OBVIOUS
<1>1. 1 \in 1..(Len(world.specs) + 1) /\ 1 \in DOMAIN Advertised
    BY OfWorld, OfRefs DEF FetchInit
<1>2. << >> \in Seq(Refs) /\ 0 \in 0..MaxChanges
    BY FetchAssumption
<1> QED
    BY <1>1, <1>2 DEF FetchInit, FetchTypeOK

\* A step leaves what the fetch began with as it was.
LEMMA BegunStep ==
    ASSUME FetchTypeOK, Begun, FetchNext
    PROVE  Begun'
<1>1. UNCHANGED <<world, remote, first, Specs, Watches>>
    BY StepsFixed, Fixed
<1>2. CASE ReadTags
    BY <1>1, <1>2 DEF ReadTags, Begun, FetchTypeOK
<1>3. CASE UpdateTip
    BY <1>1, <1>3 DEF UpdateTip, Begun
<1>4. CASE UpdateAllTags
    <2>1. CASE ref < Len(Advertised)
        BY <1>1, <1>4, <2>1 DEF UpdateAllTags, Begun
    <2>2. CASE ~(ref < Len(Advertised))
        BY <1>1, <1>4, <2>2 DEF UpdateAllTags, Begun
    <2> QED
        BY <2>1, <2>2
<1>5. CASE Fail
    BY <1>1, <1>5 DEF Fail, Begun
<1>6. ASSUME NEW t \in Tags, DropTag(t)
      PROVE  Begun'
    BY <1>1, <1>6 DEF DropTag, Begun
<1>7. CASE DropEnds
    BY <1>1, <1>7 DEF DropEnds, Begun
<1>8. CASE Settle
    <2>1. at = "settle" /\ at' \in {"settle", "reorder", "done"} /\ UNCHANGED <<changes, before>>
        BY <1>8 DEF Settle
    <2> QED
        BY <1>1, <2>1 DEF Begun
<1>9. CASE ReorderHead
    BY <1>1, <1>9 DEF ReorderHead, Begun
<1>10. ASSUME NEW t \in Tags, NEW o \in Objects \cup {NoObject}, Change(t, o)
       PROVE  Begun'
    <2>1. changes' # 0
        BY <1>10, FetchAssumption DEF Change, FetchTypeOK
    <2> QED
        BY <1>1, <1>10, <2>1 DEF Change, Begun
<1> QED
    BY <1>2, <1>3, <1>4, <1>5, <1>6, <1>7, <1>8, <1>9, <1>10 DEF FetchNext, Fetch

\* What an UpdateTip does, by the refspec and the ref it is at.
LEMMA TipTurn ==
    ASSUME FetchTypeOK, UpdateTip
    PROVE  /\ spec \in DOMAIN world.specs /\ ref \in DOMAIN Advertised
           /\ LET s == world.specs[spec]
                  r == Advertised[ref]
              IN  /\ s \in Specs /\ s.to \in Tags /\ r \in Refs
                  /\ created \subseteq created'
                  /\ created' \subseteq created \cup {r}
                  /\ \/ UNCHANGED <<tags, created>>
                        /\ \/ remote[r] = NoObject
                           \/ remote[r] # NoObject /\ s.from # r /\ ~(world.follows /\ r \in Tags)
                           \/ remote[r] # NoObject /\ s.from = r /\ Excluded(r)
                     \/ /\ remote[r] # NoObject
                        /\ world.follows /\ r \in Tags /\ s.from # r
                        /\ IF tags[r] = NoObject
                           THEN /\ tags'[r] = remote[r] /\ r \in created'
                                /\ \A t \in Tags : t # r => tags'[t] = tags[t]
                           ELSE UNCHANGED <<tags, created>>
                     \/ /\ remote[r] # NoObject
                        /\ s.from = r /\ ~Excluded(r)
                        /\ MayMove(s.to, s.forced, remote[r])
                        /\ \A t \in Tags : t # s.to => tags'[t] = tags[t]
                        /\ \/ tags'[s.to] = remote[r]
                           \/ tags'[s.to] = tags[s.to] /\ ~s.forced /\ tags[s.to] # NoObject
<1> DEFINE s == world.specs[spec]
           r == Advertised[ref]
           made == {c \in {r} : \E t \in Tags : tags[t] = NoObject /\ tags'[t] # NoObject}
           followed == world.follows /\ ProbeMatches(s, r)
<1>1. spec \in DOMAIN world.specs /\ ref \in DOMAIN Advertised
    BY OfWorld DEF UpdateTip, FetchTypeOK
<1>2. s \in Specs /\ s.to \in Tags /\ r \in Refs
    BY <1>1, OfWorld, NextRef DEF FetchTypeOK
<1>3. created' = created \cup made /\ made \subseteq {r}
    BY DEF UpdateTip
<1>4. UNCHANGED tags => UNCHANGED created
    BY <1>3
<1>5. \/ remote[r] = NoObject /\ UNCHANGED tags
      \/ /\ remote[r] # NoObject /\ followed
         /\ IF tags[r] = NoObject THEN tags' = [tags EXCEPT ![r] = remote[r]]
            ELSE UNCHANGED tags
      \/ /\ remote[r] # NoObject /\ ~followed
         /\ IF SrcMatches(s, r) THEN MayMove(s.to, s.forced, remote[r]) ELSE UNCHANGED tags
    BY DEF UpdateTip
<1> HIDE DEF s, made
<1>6. CASE remote[r] # NoObject /\ followed
    <2>1. world.follows /\ r \in Tags /\ s.from # r
        BY <1>6 DEF ProbeMatches
    <2>2. CASE tags[r] = NoObject
        <3>1. tags' = [tags EXCEPT ![r] = remote[r]]
            BY <1>5, <1>6, <2>2
        <3>2. tags'[r] = remote[r] /\ \A t \in Tags : t # r => tags'[t] = tags[t]
            BY <2>1, <3>1 DEF FetchTypeOK
        <3>3. r \in made
            BY <1>6, <2>1, <2>2, <3>2 DEF made
        <3> QED
            BY <1>1, <1>2, <1>3, <1>6, <2>1, <2>2, <3>2, <3>3 DEF s
    <2>3. CASE tags[r] # NoObject
        BY <1>1, <1>2, <1>3, <1>4, <1>5, <1>6, <2>1, <2>3 DEF s
    <2> QED
        BY <2>2, <2>3
<1>7. CASE remote[r] # NoObject /\ ~followed /\ SrcMatches(s, r)
    <2>1. MayMove(s.to, s.forced, remote[r]) /\ remote[r] \in Objects \cup {NoObject}
        BY <1>2, <1>5, <1>7 DEF FetchTypeOK
    <2>2. s.from = r /\ ~Excluded(r)
        BY <1>7 DEF SrcMatches
    <2>3. /\ \A t \in Tags : t # s.to => tags'[t] = tags[t]
          /\ \/ tags'[s.to] = remote[r]
             \/ tags'[s.to] = tags[s.to] /\ ~s.forced /\ tags[s.to] # NoObject
        BY <1>2, <2>1, Moves
    <2> QED
        BY <1>1, <1>2, <1>3, <1>7, <2>1, <2>2, <2>3 DEF s
<1>8. CASE remote[r] # NoObject /\ ~followed /\ ~SrcMatches(s, r)
    <2>1. UNCHANGED <<tags, created>>
        BY <1>4, <1>5, <1>8
    <2>2. (s.from # r /\ ~(world.follows /\ r \in Tags)) \/ (s.from = r /\ Excluded(r))
        BY <1>8 DEF SrcMatches, ProbeMatches
    <2> QED
        BY <1>1, <1>2, <1>3, <1>8, <2>1, <2>2 DEF s
<1>9. CASE remote[r] = NoObject
    BY <1>1, <1>2, <1>3, <1>4, <1>5, <1>9 DEF s
<1> QED
    BY <1>6, <1>7, <1>8, <1>9

\* What a turn of the pass over all tags does.
LEMMA AllTurn ==
    ASSUME FetchTypeOK, UpdateAllTags
    PROVE  LET r == Advertised[ref]
           IN  \/ UNCHANGED tags /\ ~(world.all /\ r \in Tags /\ remote[r] # NoObject)
               \/ /\ world.all /\ r \in Tags /\ remote[r] # NoObject
                  /\ \A t \in Tags : t # r => tags'[t] = tags[t]
                  /\ tags'[r] = remote[r] \/ (tags'[r] = tags[r] /\ tags[r] # NoObject)
<1> DEFINE r == Advertised[ref]
<1>1. CASE world.all /\ r \in Tags /\ remote[r] # NoObject
    <2>1. MayMove(r, FALSE, remote[r]) /\ remote[r] \in Objects \cup {NoObject}
        BY <1>1, NextRef DEF UpdateAllTags, FetchTypeOK
    <2>2. r \in Tags
        BY <1>1
    <2> HIDE DEF r
    <2>3. /\ \A t \in Tags : t # r => tags'[t] = tags[t]
          /\ tags'[r] = remote[r] \/ (tags'[r] = tags[r] /\ tags[r] # NoObject)
        BY <2>1, <2>2, Moves
    <2> QED
        BY <1>1, <2>3 DEF r
<1>2. CASE ~(world.all /\ r \in Tags /\ remote[r] # NoObject)
    BY <1>2 DEF UpdateAllTags
<1> QED
    BY <1>1, <1>2

\* A step keeps what came by following the remote's.
LEMMA FollowedStep ==
    ASSUME FetchTypeOK, FollowedOnly, FetchNext
    PROVE  FollowedOnly'
<1>1. UNCHANGED <<world, remote, first, Specs, Watches>>
    BY StepsFixed, Fixed
<1>2. CASE UpdateTip
    <2> SUFFICES ASSUME NEW t \in Tags, t \in created', \A s \in Specs : s.from # t
                 PROVE  world.follows /\ remote[t] # NoObject
        BY <1>1 DEF FollowedOnly, Followed
    <2>1. CASE t \in created
        BY <2>1 DEF FollowedOnly, Followed
    <2>2. CASE t \notin created
        BY <2>2, <1>2, TipTurn
    <2> QED
        BY <2>1, <2>2
<1>3. CASE UNCHANGED created
    BY <1>1, <1>3 DEF FollowedOnly, Followed
<1>4. UpdateTip \/ UNCHANGED created
    BY DEF FetchNext, Fetch, ReadTags, UpdateAllTags, Fail, DropTag, DropEnds, Settle,
           ReorderHead, Change
<1> QED
    BY <1>2, <1>3, <1>4

\* A step of the fetch leaves the tags it is not for as they are.
LEMMA OthersLeft ==
    ASSUME FetchTypeOK, FollowedOnly, Fetch, NEW t \in Tags, ~Concerned(t)
    PROVE  tags'[t] = tags[t]
<1>1. /\ \A s \in Specs : s.to # t
      /\ remote[t] # NoObject => ~world.all /\ ~world.follows
    BY DEF Concerned
<1>2. CASE UpdateTip
    BY <1>1, <1>2, TipTurn
<1>3. CASE UpdateAllTags
    BY <1>1, <1>3, AllTurn
<1>4. ASSUME NEW u \in Tags, DropTag(u)
      PROVE  tags'[t] = tags[t]
    <2>1. u # t
        BY <1>1, <1>4 DEF DropTag, Unfollowable, FollowedOnly
    <2> QED
        BY <1>4, <2>1 DEF DropTag, FetchTypeOK
<1>5. CASE Settle
    <2> DEFINE r == Advertised[ref]
    <2>1. r \in Refs
        BY NextRef DEF FetchTypeOK
    <2>2. CASE remote[r] # NoObject /\ r \in Tags /\ Overrun(r) /\ SettleExcluded(r)
        <3>1. t # r
            BY <1>1, <2>2 DEF Overrun
        <3> QED
            BY <2>2, <3>1, ExcludedTags
    <2>3. CASE remote[r] # NoObject /\ SettleMapped(r)
        <3>1. t \notin Unforced(r)
            BY <1>1, <2>1, <2>3, OfUnforced DEF FetchTypeOK
        <3> QED
            BY <2>3, <3>1, RestoredTags DEF SettleMapped
    <2> QED
        BY <1>5, <2>1, <2>2, <2>3, SettleTurn
<1>6. CASE UNCHANGED tags
    BY <1>6
<1> QED
    BY <1>2, <1>3, <1>4, <1>5, <1>6 DEF Fetch, ReadTags, Fail, DropEnds, ReorderHead

-----------------------------------------------------------------------------
(* FETCH_HEAD                                                              *)

\* The refs that are settled: one more with each turn.
LEMMA SettledMore ==
    ASSUME FetchTypeOK, Settle
    PROVE  /\ SettledRefs' = SettledRefs \cup {Advertised[ref]}
           /\ Advertised[ref] \in Refs /\ Advertised[ref] \notin SettledRefs
           /\ SettledRefs \subseteq Refs
<1>1. /\ at = "settle" /\ ref \in 1..Len(Advertised) /\ Len(Advertised) \in Nat
      /\ DOMAIN Advertised = 1..Len(Advertised)
    BY OfRefs DEF Settle, FetchTypeOK
<1>2. SettledRefs = {Advertised[k] : k \in 1..(ref - 1)}
    BY <1>1 DEF SettledRefs
<1>3. {Advertised[k] : k \in 1..ref} = SettledRefs \cup {Advertised[ref]}
    <2>1. \A k : k \in 1..ref <=> k \in 1..(ref - 1) \/ k = ref
        BY <1>1
    <2> QED
        BY <1>2, <2>1
<1>4. SettledRefs' = {Advertised[k] : k \in 1..ref}
    <2>1. CASE ref < Len(Advertised)
        <3>1. at' = "settle" /\ ref' = ref + 1 /\ ref' - 1 = ref
            BY <1>1, <2>1 DEF Settle
        <3> QED
            BY <3>1 DEF SettledRefs
    <2>2. CASE ~(ref < Len(Advertised))
        <3>1. at' \in {"reorder", "done"} /\ ref = Len(Advertised)
            <4>1. ref = Len(Advertised)
                BY <2>2, NextRef DEF FetchTypeOK
            <4>2. at' = IF world.all THEN "reorder" ELSE "done"
                BY <2>2 DEF Settle
            <4> QED
                BY <4>1, <4>2
        <3>2. SettledRefs' = Refs
            BY <3>1 DEF SettledRefs
        <3>3. Refs = {Advertised[k] : k \in 1..ref}
            BY <1>1, <3>1, OfRefs
        <3> QED
            BY <3>2, <3>3
    <2> QED
        BY <2>1, <2>2
<1>5. Advertised[ref] \in Refs /\ SettledRefs \subseteq Refs
    BY <1>1, <1>2, OfRefs
<1>6. Advertised[ref] \notin SettledRefs
    <2>1. ASSUME NEW k \in 1..(ref - 1)
          PROVE  Advertised[k] # Advertised[ref]
        BY <1>1, OfRefs
    <2> QED
        BY <1>2, <2>1
<1> QED
    BY <1>3, <1>4, <1>5, <1>6

\* What is listed once the fetch is in.
LEMMA ListedFetched ==
    ASSUME FetchTypeOK, Begun, FollowedOnly, UpdateAllTags
    PROVE  Listed'
<1>1. UNCHANGED <<world, remote, first, Specs, created, out>>
      /\ (\A r : Excluded(r)' = Excluded(r) /\ Overrun(r)' = Overrun(r))
    BY Fixed, OfWorld DEF UpdateAllTags, FetchTypeOK
<1>2. CASE ref < Len(Advertised)
    BY <1>2 DEF UpdateAllTags, Listed
<1>3. CASE ~(ref < Len(Advertised))
    <2>1. /\ at = "fetch" /\ ref' = 1 /\ head' = FetchedHead
          /\ at' = IF world.follows THEN "drop" ELSE "settle"
        BY <1>3 DEF UpdateAllTags
    <2>2. /\ \A r \in Range(head') : Excluded(r) =>
                 (world.follows /\ r \in created) \/ (r \in Tags /\ Overrun(r))
          /\ world.all => \A t \in Tags : remote[t] # NoObject => t \in Range(head')
        BY <2>1, HeadOf DEF Overrun, FetchTypeOK
    <2>3. ASSUME at' = "settle"
          PROVE  /\ \A r \in Range(head') : r \notin Unfollowable'
                 /\ out' = {t \in Tags : Overrun(t)' /\ t \in SettledRefs'}
        <3>1. ~world.follows
            BY <2>1, <2>3
        <3>2. Unfollowable = {}
            BY <3>1 DEF FollowedOnly, Unfollowable
        <3>3. Unfollowable' = {} /\ out = {}
            BY <1>1, <2>1, <3>2 DEF Unfollowable, Followed, Begun
        <3>4. SettledRefs' = {}
            BY <2>1, <2>3 DEF SettledRefs
        <3> QED
            BY <1>1, <3>3, <3>4
    <2>4. at' \in {"drop", "settle"}
        BY <2>1
    <2> QED
        BY <1>1, <2>2, <2>3, <2>4 DEF Listed
<1> QED
    BY <1>2, <1>3

\* A turn of the loop over the refs lists what it settles.
LEMMA ListedSettle ==
    ASSUME FetchTypeOK, Listed, Settle
    PROVE  Listed'
<1> DEFINE r == Advertised[ref]
<1>1. UNCHANGED <<world, remote, first, Specs, created, head>>
      /\ (\A q : Excluded(q)' = Excluded(q) /\ Overrun(q)' = Overrun(q))
    BY Fixed DEF Settle
<1>2. SettledRefs' = SettledRefs \cup {r} /\ r \in Refs
    BY SettledMore
<1>3. /\ at = "settle" /\ at' \in {"settle", "reorder", "done"}
      /\ at' = "reorder" => world.all
    BY DEF Settle
<1>4. out' = IF r \in Tags /\ Overrun(r) THEN out \cup {r} ELSE out
    <2>1. CASE remote[r] = NoObject /\ UNCHANGED <<tags, refused, out>>
        BY <2>1 DEF Overrun
    <2>2. CASE r \in Tags /\ Overrun(r) /\ SettleExcluded(r)
        BY <2>2 DEF SettleExcluded
    <2>3. CASE ~(r \in Tags /\ Overrun(r)) /\ SettleMapped(r)
        BY <2>3 DEF SettleMapped
    <2> QED
        BY <1>2, <2>1, <2>2, <2>3, SettleTurn
<1>5. Unfollowable' = Unfollowable
    BY <1>1 DEF Unfollowable, Followed
<1> HIDE DEF r
<1>6. out = {t \in Tags : Overrun(t) /\ t \in SettledRefs}
    BY <1>3 DEF Listed
<1>7. out' = {t \in Tags : Overrun(t)' /\ t \in SettledRefs'}
    BY <1>1, <1>2, <1>4, <1>6
<1> QED
    BY <1>1, <1>3, <1>5, <1>7 DEF Listed

\* A step keeps what is said of FETCH_HEAD on its way.
LEMMA ListedStep ==
    ASSUME FetchTypeOK, Begun, FollowedOnly, Listed, FetchNext
    PROVE  Listed'
<1>1. UNCHANGED <<world, remote, first, Specs>>
      /\ (\A r : Excluded(r)' = Excluded(r) /\ Overrun(r)' = Overrun(r))
    BY StepsFixed, Fixed
<1>2. ASSUME UNCHANGED created
      PROVE  Unfollowable' = Unfollowable
    BY <1>1, <1>2 DEF Unfollowable, Followed
<1>3. CASE at' \in {"read", "fetch", "failed"}
    BY <1>3 DEF Listed
<1>4. CASE UpdateAllTags
    BY <1>4, ListedFetched
<1>5. ASSUME NEW t \in Tags, DropTag(t)
      PROVE  Listed'
    BY <1>1, <1>5 DEF DropTag, Listed
<1>6. CASE DropEnds
    <2>1. /\ at = "drop" /\ at' = "settle" /\ out' = {} /\ UNCHANGED <<created, ref>>
          /\ head' = Only(head, Refs \ Unfollowable)
        BY <1>6 DEF DropEnds
    <2>2. Range(head') = Range(head) \cap (Refs \ Unfollowable)
        BY <2>1, OnlyThose DEF FetchTypeOK
    <2>3. ref = 1 /\ world.follows /\ ~world.all
        BY <2>1, OfWorld DEF Begun, FetchTypeOK
    <2>4. SettledRefs' = {} /\ \A t : ~Overrun(t)
        BY <2>1, <2>3 DEF SettledRefs, Overrun
    <2> QED
        BY <1>1, <1>2, <2>1, <2>2, <2>3, <2>4 DEF Listed
<1>7. CASE Settle
    BY <1>7, ListedSettle
<1>8. CASE ReorderHead
    <2>1. /\ at = "reorder" /\ at' = "done" /\ UNCHANGED <<created, out>>
          /\ head' = Only(head, Refs \ Tags) \o ListedTags
        BY <1>8 DEF ReorderHead
    <2>2. /\ Only(head, Refs \ Tags) \in Seq(Refs)
          /\ Range(Only(head, Refs \ Tags)) \subseteq Range(head)
        BY OnlyThose DEF FetchTypeOK
    <2>3. ListedTags \in Seq(Refs) /\ Range(ListedTags) \subseteq Range(head)
        <3>1. Advertised \in Seq(Refs)
            BY FetchAssumption
        <3> QED
            BY <3>1, OnlyThose DEF ListedTags
    <2>4. Range(head') \subseteq Range(head)
        <3>1. Range(Only(head, Refs \ Tags) \o ListedTags)
                  = Range(Only(head, Refs \ Tags)) \cup Range(ListedTags)
            BY <2>2, <2>3, Joined
        <3> QED
            BY <2>1, <2>2, <2>3, <3>1
    <2>5. SettledRefs' = SettledRefs
        BY <2>1 DEF SettledRefs
    <2> QED
        BY <1>1, <1>2, <2>1, <2>4, <2>5 DEF Listed
<1>9. ASSUME NEW t \in Tags, NEW o \in Objects \cup {NoObject}, Change(t, o)
      PROVE  Listed'
    <2>1. UNCHANGED <<at, ref, created, out, head>> /\ SettledRefs' = SettledRefs
        BY <1>9 DEF Change, SettledRefs
    <2> QED
        BY <1>1, <1>2, <2>1 DEF Listed
<1>10. ReadTags \/ UpdateTip \/ Fail => at' \in {"read", "fetch", "failed"}
    BY DEF ReadTags, UpdateTip, Fail
<1> QED
    BY <1>3, <1>4, <1>5, <1>6, <1>7, <1>8, <1>9, <1>10 DEF FetchNext, Fetch

\* A step leaves a FETCH_HEAD that is done with the refs it should name.
LEMMA HeadStep ==
    ASSUME FetchTypeOK, OneSource, Listed, Listed', HeadNamesTaken, FetchNext
    PROVE  HeadNamesTaken'
<1>1. UNCHANGED <<world, remote, first, Specs>>
      /\ (\A r : Excluded(r)' = Excluded(r) /\ Overrun(r)' = Overrun(r))
    BY StepsFixed, Fixed
<1>2. CASE at' # "done"
    BY <1>2 DEF HeadNamesTaken
<1>3. CASE Settle /\ at' = "done"
    <2>1. at = "settle" /\ ~world.all /\ UNCHANGED <<created, head>>
        BY <1>3 DEF Settle
    <2>2. \A r \in Range(head) : Excluded(r) => world.follows /\ r \in created
        BY <2>1 DEF Listed, Overrun
    <2>3. \A r \in Range(head') : r \notin Unfollowable'
        BY <1>3 DEF Listed
    <2> QED
        BY <1>1, <2>1, <2>2, <2>3 DEF HeadNamesTaken
<1>4. CASE ReorderHead
    <2> DEFINE rest == Only(head, Refs \ Tags)
    <2>1. /\ at = "reorder" /\ at' = "done" /\ UNCHANGED <<created, out>>
          /\ head' = rest \o ListedTags
        BY <1>4 DEF ReorderHead
    <2>2. rest \in Seq(Refs) /\ Range(rest) = Range(head) \cap (Refs \ Tags)
        BY OnlyThose DEF FetchTypeOK
    <2>3. /\ ListedTags \in Seq(Refs) /\ IsInjective(ListedTags)
          /\ Range(ListedTags) = (Tags \cap Range(head)) \ out
        <3>1. Advertised \in Seq(Refs) /\ Range(Advertised) = Refs /\ IsInjective(Advertised)
            BY FetchAssumption
        <3>2. /\ ListedTags \in Seq(Refs) /\ IsInjective(ListedTags)
              /\ Range(ListedTags) = Refs \cap ((Tags \cap Range(head)) \ out)
            BY <3>1, OnlyThose DEF ListedTags
        <3> QED
            BY <3>2 DEF Refs
    <2> HIDE DEF rest
    <2>4. out = {t \in Tags : Overrun(t)}
        <3>1. out' = {t \in Tags : Overrun(t)' /\ t \in SettledRefs'} /\ SettledRefs' = Refs
            BY <2>1 DEF Listed, SettledRefs
        <3> QED
            BY <1>1, <2>1, <3>1 DEF Refs
    <2>5. Range(head') = Range(rest) \cup Range(ListedTags)
        BY <2>1, <2>2, <2>3, Joined
    <2>6. \A r \in Range(head') : /\ Excluded(r) => world.follows /\ r \in created
                                  /\ r \notin Unfollowable'
        <3>1. \A r \in Range(head') : r \in Range(head) /\ (r \in Tags => ~Overrun(r))
            BY <2>2, <2>3, <2>4, <2>5
        <3> QED
            BY <2>1, <3>1 DEF Listed
    <2>7. /\ \A i \in DOMAIN rest : head'[i] = rest[i] /\ rest[i] \notin Tags
          /\ \A i \in DOMAIN ListedTags : /\ head'[Len(rest) + i] = ListedTags[i]
                                          /\ ListedTags[i] \in Tags
          /\ Len(rest) \in Nat /\ Len(ListedTags) \in Nat
          /\ DOMAIN rest = 1..Len(rest) /\ DOMAIN ListedTags = 1..Len(ListedTags)
          /\ DOMAIN head' = 1..(Len(rest) + Len(ListedTags))
          /\ \A i \in DOMAIN head' : i \in DOMAIN rest \/ i - Len(rest) \in DOMAIN ListedTags
        <3>1. /\ \A i \in DOMAIN rest : rest[i] \notin Tags
              /\ \A i \in DOMAIN ListedTags : ListedTags[i] \in Tags
            BY <2>2, <2>3 DEF Range
        <3> QED
            BY <2>1, <2>2, <2>3, <3>1, Joined
    <2>8. ASSUME world.all, NEW t \in Tags, remote[t] # NoObject, ~Excluded(t)
          PROVE  \E i \in DOMAIN head' : \A j \in DOMAIN head' : head'[j] = t <=> j = i
        <3>1. t \in Range(ListedTags)
            BY <2>1, <2>3, <2>4, <2>8 DEF Listed, Overrun
        <3>2. PICK k \in DOMAIN ListedTags : ListedTags[k] = t
            BY <3>1 DEF Range
        <3> DEFINE i == Len(rest) + k
        <3>3. i \in DOMAIN head' /\ head'[i] = t
            BY <2>7, <3>2
        <3>4. ASSUME NEW j \in DOMAIN head', head'[j] = t
              PROVE  j = i
            <4>1. j \notin DOMAIN rest
                BY <2>7, <3>4
            <4>2. j - Len(rest) \in DOMAIN ListedTags
                BY <2>7, <4>1
            <4>3. head'[Len(rest) + (j - Len(rest))] = ListedTags[j - Len(rest)]
                BY <2>7, <4>2
            <4>4. Len(rest) + (j - Len(rest)) = j
                BY <2>7
            <4>5. j - Len(rest) = k
                BY <2>3, <3>2, <3>4, <4>2, <4>3, <4>4 DEF IsInjective
            <4> QED
                BY <2>7, <3>2, <4>5
        <3> QED
            BY <3>3, <3>4
    <2>9. ASSUME NEW i \in DOMAIN head', NEW j \in DOMAIN head',
                 head'[i] \in Tags, head'[j] \notin Tags
          PROVE  j < i
        <3>1. i \notin DOMAIN rest
            BY <2>7, <2>9
        <3>2. j \in DOMAIN rest
            <4>1. ASSUME j - Len(rest) \in DOMAIN ListedTags
                  PROVE  FALSE
                <5>1. Len(rest) + (j - Len(rest)) = j
                    BY <2>7
                <5>2. head'[Len(rest) + (j - Len(rest))] \in Tags
                    BY <2>7, <4>1
                <5> QED
                    BY <2>9, <5>1, <5>2
            <4> QED
                BY <2>7, <4>1
        <3> QED
            BY <2>7, <3>1, <3>2
    <2>10. \A r \in Range(head)' : /\ Excluded(r)' => world'.follows /\ r \in created'
                                   /\ r \notin Unfollowable'
        BY <1>1, <2>1, <2>6
    <2>11. world'.all => /\ \A t \in Tags : remote'[t] # NoObject /\ ~Excluded(t)' =>
                               \E i \in DOMAIN head' : \A j \in DOMAIN head' :
                                   head'[j] = t <=> j = i
                         /\ \A i, j \in DOMAIN head' :
                               head'[i] \in Tags /\ head'[j] \notin Tags => j < i
        BY <1>1, <2>8, <2>9
    <2> QED
        BY <2>10, <2>11 DEF HeadNamesTaken
<1>5. ASSUME at' = "done"
      PROVE  Settle \/ ReorderHead
    BY <1>5 DEF FetchNext, Fetch, ReadTags, UpdateTip, UpdateAllTags, Fail, DropTag, DropEnds,
           Change
<1> QED
    BY <1>2, <1>3, <1>4, <1>5

-----------------------------------------------------------------------------
(* While libgit2 fetches: the parts of Coming, of any tags and created refs *)

\* Tag t is as it was or as the ref taken to it, or it is followed.
AsComing(T, C, t) ==
    IF Follows(t) THEN T[t] = IF t \in C THEN remote[t] ELSE NoObject
    ELSE T[t] = first[t] \/ \E r \in Taken(t) : T[t] = remote[r]

\* Where refspec s takes ref r, and where r is followed, it has come.
Arrived(T, C, s, r) ==
    /\ s.from = r /\ r \in Taken(s.to) /\ (s.forced \/ first[s.to] = NoObject)
            /\ ~Overrun(s.to) => T[s.to] = remote[r]
    /\ r \in Tags /\ Follows(r) => r \in C

\* What `--tags` takes to a tag that was not there has come.
AllArrived(T, t) ==
    world.all /\ t \in Tags /\ t \in Taken(t) /\ first[t] = NoObject => T[t] = remote[t]

\* The i-th refspec will have been matched with the k-th ref.
NowPassed(i, k) == i < spec' \/ (i = spec' /\ k < ref')

\* Coming is made of these.
LEMMA ComingSays ==
    Coming <=>
        /\ \A t \in Tags : ~Overrun(t) => AsComing(tags, created, t)
        /\ \A i \in DOMAIN world.specs, k \in DOMAIN Advertised : Passed(i, k) =>
               Arrived(tags, created, world.specs[i], Advertised[k])
        /\ \A k \in DOMAIN Advertised : Passed(Len(world.specs) + 1, k) =>
               AllArrived(tags, Advertised[k])
BY DEF Coming, AsComing, Arrived, AllArrived

\* ... in the next state as well.
LEMMA ComingNext ==
    ASSUME UNCHANGED fetch,
           \A t \in Tags : ~Overrun(t) => AsComing(tags', created', t),
           \A i \in DOMAIN world.specs, k \in DOMAIN Advertised : NowPassed(i, k) =>
               Arrived(tags', created', world.specs[i], Advertised[k]),
           \A k \in DOMAIN Advertised : NowPassed(Len(world.specs) + 1, k) =>
               AllArrived(tags', Advertised[k])
    PROVE  Coming'
<1>1. /\ UNCHANGED <<world, remote, first, Specs, Watches>>
      /\ \A t : /\ Taken(t)' = Taken(t) /\ Follows(t)' = Follows(t)
                /\ Overrun(t)' = Overrun(t)
    BY Fixed
<1>2. \A t \in Tags : ~Overrun(t)' =>
          IF Follows(t)' THEN tags'[t] = IF t \in created' THEN remote'[t] ELSE NoObject
          ELSE tags'[t] = first'[t] \/ \E r \in Taken(t)' : tags'[t] = remote'[r]
    BY <1>1 DEF AsComing
<1>3. \A i \in DOMAIN world.specs, k \in DOMAIN Advertised : \A s, r :
          s = world.specs[i] /\ r = Advertised[k] /\ NowPassed(i, k) =>
              /\ s.from = r /\ r \in Taken(s.to)' /\ (s.forced \/ first'[s.to] = NoObject)
                      /\ ~Overrun(s.to)' => tags'[s.to] = remote'[r]
              /\ r \in Tags /\ Follows(r)' => r \in created'
    BY <1>1 DEF Arrived
<1>4. \A k \in DOMAIN Advertised : \A t : t = Advertised[k] /\ NowPassed(Len(world.specs) + 1, k) =>
          (world.all /\ t \in Tags /\ t \in Taken(t)' /\ first'[t] = NoObject =>
              tags'[t] = remote'[t])
    BY <1>1 DEF AllArrived
<1> QED
    BY <1>1, <1>2, <1>3, <1>4 DEF Coming, Passed, NowPassed

\* Moving a tag to what is taken to it, or not, takes nothing back.
LEMMA MoveKeeps ==
    ASSUME world \in Worlds, OneSource, NEW t \in Tags, NEW r \in Taken(t), NEW T, NEW C,
           T[t] = remote[r] \/ T[t] = tags[t],
           \A u \in Tags : u # t => T[u] = tags[u],
           created \subseteq C, \A u \in Tags : Follows(u) /\ u \in C => u \in created
    PROVE  /\ \A u \in Tags : AsComing(tags, created, u) => AsComing(T, C, u)
           /\ \A s \in Specs, q \in Refs :
                  Arrived(tags, created, s, q) => Arrived(T, C, s, q)
           /\ \A u \in Tags : AllArrived(tags, u) => AllArrived(T, u)
<1>1. ~Follows(t) /\ \A q \in Taken(t) : q = r
    BY OfTaken
<1>2. ASSUME NEW u \in Tags, AsComing(tags, created, u)
      PROVE  AsComing(T, C, u)
    <2>1. CASE u = t
        BY <1>1, <1>2, <2>1 DEF AsComing
    <2>2. CASE u # t
        BY <1>2, <2>2 DEF AsComing
    <2> QED
        BY <2>1, <2>2
<1>3. ASSUME NEW s \in Specs, NEW q \in Refs, Arrived(tags, created, s, q)
      PROVE  Arrived(T, C, s, q)
    <2>1. s.to \in Tags
        BY OfWorld
    <2> QED
        BY <1>1, <1>3, <2>1 DEF Arrived
<1>4. ASSUME NEW u \in Tags, AllArrived(tags, u)
      PROVE  AllArrived(T, u)
    BY <1>1, <1>4 DEF AllArrived
<1> QED
    BY <1>2, <1>3, <1>4

\* It is the ref taken to it by force, or if it was not there.
LEMMA MoveArrives ==
    ASSUME world \in Worlds, OneSource, NEW t \in Tags, NEW r \in Taken(t), NEW T, NEW forced,
           T[t] = remote[r] \/ (T[t] = tags[t] /\ ~forced /\ tags[t] # NoObject),
           AsComing(tags, created, t), forced \/ first[t] = NoObject
    PROVE  T[t] = remote[r]
<1>1. ~Follows(t) /\ \A q \in Taken(t) : q = r
    BY OfTaken
<1> QED
    BY <1>1 DEF AsComing

\* When the tags are read, nothing has come.
LEMMA ComingRead ==
    ASSUME FetchTypeOK, Begun, changes = 0, ReadTags
    PROVE  Coming' /\ DroppedNew'
<1>1. /\ at = "read" /\ tags = first /\ spec = 1 /\ ref = 1 /\ created = {}
      /\ UNCHANGED <<fetch, tags, spec, ref, created>>
    BY DEF ReadTags, Begun
<1>2. \A t \in Tags : AsComing(tags', created', t)
    BY <1>1 DEF AsComing, Follows
<1>3. Len(world.specs) \in Nat /\ \A i \in DOMAIN world.specs : i >= 1
    BY OfWorld DEF FetchTypeOK
<1>4. \A k \in DOMAIN Advertised : k >= 1
    BY OfRefs
<1>5. spec' = 1 /\ ref' = 1
    BY <1>1
<1>6. /\ \A i \in DOMAIN world.specs, k \in DOMAIN Advertised : ~NowPassed(i, k)
      /\ \A k \in DOMAIN Advertised : ~NowPassed(Len(world.specs) + 1, k)
    <2>1. ASSUME NEW i \in Nat, i >= 1, NEW k \in DOMAIN Advertised
          PROVE  ~NowPassed(i, k)
        BY <1>4, <1>5, <2>1, OfRefs DEF NowPassed
    <2>2. DOMAIN world.specs \subseteq Nat
        BY OfWorld DEF FetchTypeOK
    <2> QED
        BY <1>1, <1>3, <2>1, <2>2 DEF fetch
<1>7. DroppedNew'
    BY <1>1 DEF DroppedNew, Followed
<1> QED
    BY <1>1, <1>2, <1>6, <1>7, ComingNext

\* A refspec matched with a ref keeps Coming.
LEMMA ComingTip ==
    ASSUME FetchTypeOK, OneSource, Ruly(world), Coming, DroppedNew, UpdateTip
    PROVE  Coming' /\ DroppedNew'
<1> DEFINE s == world.specs[spec]
           r == Advertised[ref]
           Keeps == /\ \A u \in Tags : AsComing(tags, created, u) => AsComing(tags', created', u)
                    /\ \A p \in Specs, q \in Refs :
                           Arrived(tags, created, p, q) => Arrived(tags', created', p, q)
           Comes == Arrived(tags', created', s, r)
           New == \A t \in Followed' : t \in Followed \/ first[t] = NoObject
<1>1. world \in Worlds /\ UNCHANGED fetch /\ UNCHANGED <<world, remote, first, Specs>>
    BY Fixed DEF UpdateTip, FetchTypeOK
<1>2. /\ spec \in DOMAIN world.specs /\ ref \in DOMAIN Advertised
      /\ s \in Specs /\ s.to \in Tags /\ r \in Refs
      /\ created \subseteq created' /\ created' \subseteq created \cup {r}
    BY TipTurn
<1>3. /\ Len(world.specs) \in Nat /\ DOMAIN world.specs = 1..Len(world.specs)
      /\ \A i \in DOMAIN world.specs : world.specs[i] \in Specs
    BY <1>1, OfWorld
<1>4. UNCHANGED <<tags, created>> => Keeps /\ New
    BY <1>1 DEF AsComing, Arrived, Followed
<1>5. Keeps /\ Comes /\ New
    <2>1. CASE /\ UNCHANGED <<tags, created>>
               /\ \/ remote[r] = NoObject
                  \/ remote[r] # NoObject /\ s.from # r /\ ~(world.follows /\ r \in Tags)
                  \/ remote[r] # NoObject /\ s.from = r /\ Excluded(r)
        <3>1. s.from # r \/ r \notin Taken(s.to)
            BY <1>1, <1>2, <2>1, OfTaken
        <3>2. ~(r \in Tags /\ Follows(r))
            BY <1>2, <2>1 DEF Follows
        <3>3. Comes
            BY <3>1, <3>2 DEF Arrived
        <3> QED
            BY <1>4, <2>1, <3>3
    <2>2. CASE /\ remote[r] # NoObject
               /\ world.follows /\ r \in Tags /\ s.from # r
               /\ IF tags[r] = NoObject
                  THEN /\ tags'[r] = remote[r] /\ r \in created'
                       /\ \A t \in Tags : t # r => tags'[t] = tags[t]
                  ELSE UNCHANGED <<tags, created>>
               /\ \A p \in Specs : p.from # r
        <3>1. \A p \in Specs : p.from # r
            BY <2>2
        <3>2. ~world.all
            BY <1>1, <2>2, OfWorld
        <3>3. Taken(r) = {}
            <4>1. \A q \in Taken(r) : q = r /\ \E p \in Specs : p.to = r /\ p.from = q
                BY <1>1, <2>2, <3>2, OfTaken
            <4> QED
                BY <3>1, <4>1
        <3>4. AsComing(tags, created, r)
            BY <2>2, <3>2, ComingSays DEF Overrun
        <3>5. first[r] # NoObject => UNCHANGED <<tags, created>> /\ ~Follows(r)
            BY <2>2, <3>3, <3>4 DEF AsComing, Follows
        <3>6. first[r] = NoObject => Follows(r)
            BY <2>2, <3>1 DEF Follows
        <3>7. s.from # r
            BY <2>2
        <3>8. CASE first[r] = NoObject /\ tags[r] = NoObject
            <4>1. /\ tags'[r] = remote[r] /\ r \in created' /\ Follows(r)
                  /\ \A t \in Tags : t # r => tags'[t] = tags[t]
                BY <2>2, <3>6, <3>8
            <4>2. \A u \in Tags : AsComing(tags, created, u) => AsComing(tags', created', u)
                <5> SUFFICES ASSUME NEW u \in Tags, AsComing(tags, created, u)
                             PROVE  AsComing(tags', created', u)
                    OBVIOUS
                <5>1. CASE u = r
                    BY <4>1, <5>1 DEF AsComing
                <5>2. CASE u # r
                    <6>1. tags'[u] = tags[u] /\ (u \in created' <=> u \in created)
                        BY <1>2, <4>1, <5>2
                    <6> QED
                        BY <6>1 DEF AsComing
                <5> QED
                    BY <5>1, <5>2
            <4>3. \A p \in Specs, q \in Refs :
                      Arrived(tags, created, p, q) => Arrived(tags', created', p, q)
                <5> SUFFICES ASSUME NEW p \in Specs, NEW q \in Refs,
                                    Arrived(tags, created, p, q)
                             PROVE  Arrived(tags', created', p, q)
                    OBVIOUS
                <5>1. p.to \in Tags
                    BY <1>1, OfWorld
                <5>2. q \in Taken(p.to) => tags'[p.to] = tags[p.to]
                    BY <3>3, <4>1, <5>1
                <5> QED
                    BY <1>2, <5>2 DEF Arrived
            <4>4. Comes
                BY <3>7, <4>1 DEF Arrived
            <4>5. New
                BY <1>1, <1>2, <3>8 DEF Followed
            <4> QED
                BY <4>2, <4>3, <4>4, <4>5
        <3>9. CASE first[r] = NoObject /\ tags[r] # NoObject
            <4>1. UNCHANGED <<tags, created>> /\ r \in created
                BY <2>2, <3>4, <3>6, <3>9 DEF AsComing
            <4>2. Comes
                BY <3>7, <4>1 DEF Arrived
            <4> QED
                BY <1>4, <4>1, <4>2
        <3>10. CASE first[r] # NoObject
            <4>1. Comes
                BY <3>5, <3>7, <3>10 DEF Arrived
            <4> QED
                BY <1>4, <3>5, <3>10, <4>1
        <3> QED
            BY <3>8, <3>9, <3>10
    <2>3. CASE /\ remote[r] # NoObject
               /\ s.from = r /\ ~Excluded(r)
               /\ MayMove(s.to, s.forced, remote[r])
               /\ \A t \in Tags : t # s.to => tags'[t] = tags[t]
               /\ \/ tags'[s.to] = remote[r]
                  \/ tags'[s.to] = tags[s.to] /\ ~s.forced /\ tags[s.to] # NoObject
        <3>1. r \in Taken(s.to)
            BY <1>1, <1>2, <2>3, OfTaken
        <3>2. ~Follows(r)
            BY <1>2, <2>3 DEF Follows
        <3>3. \A u \in Tags : Follows(u) /\ u \in created' => u \in created
            BY <1>2, <3>2
        <3> DEFINE t == s.to
        <3>4. t \in Tags /\ r \in Taken(t)
            BY <1>2, <3>1
        <3>5. /\ tags'[t] = remote[r] \/ (tags'[t] = tags[t] /\ ~s.forced /\ tags[t] # NoObject)
              /\ \A u \in Tags : u # t => tags'[u] = tags[u]
            BY <2>3
        <3>6. Keeps
            <4> HIDE DEF t, s, r
            <4> QED
                BY <1>1, <1>2, <3>3, <3>4, <3>5, MoveKeeps
        <3>7. ASSUME s.forced \/ first[t] = NoObject, ~Overrun(t)
              PROVE  tags'[t] = remote[r]
            <4>1. AsComing(tags, created, t)
                BY <3>4, <3>7, ComingSays
            <4> DEFINE fo == s.forced
            <4>2. /\ fo \/ first[t] = NoObject
                  /\ tags'[t] = remote[r] \/ (tags'[t] = tags[t] /\ ~fo /\ tags[t] # NoObject)
                BY <3>5, <3>7
            <4> HIDE DEF t, s, r, fo
            <4> QED
                BY <1>1, <3>4, <4>1, <4>2, MoveArrives
        <3>8. Comes
            BY <3>2, <3>7 DEF Arrived
        <3>9. New
            BY <1>1, <1>2, <2>3 DEF Followed
        <3> QED
            BY <3>6, <3>8, <3>9
    <2>4. CASE /\ remote[r] # NoObject
               /\ world.follows /\ r \in Tags /\ s.from # r
               /\ IF tags[r] = NoObject
                  THEN /\ tags'[r] = remote[r] /\ r \in created'
                       /\ \A t \in Tags : t # r => tags'[t] = tags[t]
                  ELSE UNCHANGED <<tags, created>>
               /\ \E p \in Specs : p.from = r
        <3>1. ~Excluded(r) /\ \E q \in Specs : q.from = r /\ q.to = r
            <4>1. \A p, q \in Specs : p.from \in Tags /\ q.from # p.from =>
                      /\ ~Excluded(p.from)
                      /\ \E o \in Specs : o.from = p.from /\ o.to = p.from
                BY <2>4 DEF Ruly, Specs, Excluded
            <4> QED
                BY <1>2, <2>4, <4>1
        <3>2. r \in Taken(r)
            BY <1>1, <2>4, <3>1, OfTaken
        <3>3. ~Follows(r) /\ s.from # r
            BY <2>4 DEF Follows
        <3>4. Comes
            BY <3>3 DEF Arrived
        <3>5. CASE tags[r] = NoObject
            <4>1. /\ tags'[r] = remote[r] /\ \A u \in Tags : u # r => tags'[u] = tags[u]
                  /\ \A u \in Tags : Follows(u) /\ u \in created' => u \in created
                BY <1>2, <2>4, <3>3, <3>5
            <4>2. Keeps
                <5>1. r \in Tags
                    BY <2>4
                <5> HIDE DEF r
                <5> QED
                    BY <1>1, <1>2, <3>2, <4>1, <5>1, MoveKeeps
            <4>3. New
                BY <1>1, <1>2, <2>4 DEF Followed
            <4> QED
                BY <3>4, <4>2, <4>3
        <3>6. CASE tags[r] # NoObject
            BY <1>4, <2>4, <3>4, <3>6
        <3> QED
            BY <3>5, <3>6
    <2> QED
        BY <2>1, <2>2, <2>3, <2>4, TipTurn
<1>6. \A t \in Tags : ~Overrun(t) => AsComing(tags', created', t)
    BY <1>5, ComingSays
<1>7. ASSUME NEW i \in DOMAIN world.specs, NEW k \in DOMAIN Advertised, NowPassed(i, k)
      PROVE  Arrived(tags', created', world.specs[i], Advertised[k])
    <2>1. Passed(i, k) \/ (i = spec /\ k = ref)
        BY <1>2, <1>3, <1>7, OfRefs DEF UpdateTip, NowPassed, Passed, FetchTypeOK
    <2>2. CASE Passed(i, k)
        <3>1. /\ Arrived(tags, created, world.specs[i], Advertised[k])
              /\ world.specs[i] \in Specs /\ Advertised[k] \in Refs
            BY <1>3, <2>2, ComingSays, OfRefs
        <3> QED
            BY <1>5, <3>1
    <2>3. CASE i = spec /\ k = ref
        BY <1>5, <2>3
    <2> QED
        BY <2>1, <2>2, <2>3
<1>8. ASSUME NEW k \in DOMAIN Advertised
      PROVE  ~NowPassed(Len(world.specs) + 1, k)
    <2>1. spec <= Len(world.specs) /\ spec \in Nat /\ k >= 1 /\ k \in Nat
        BY <1>2, <1>3, <1>8, OfRefs
    <2>2. spec' = spec \/ (spec' = spec + 1 /\ ref' = 1)
        BY DEF UpdateTip
    <2> QED
        BY <1>3, <2>1, <2>2 DEF NowPassed
<1>9. DroppedNew'
    BY <1>1, <1>5 DEF DroppedNew
<1> QED
    BY <1>1, <1>6, <1>7, <1>8, <1>9, ComingNext

\* A turn of the pass over all tags: what came stays, and that ref has come.
LEMMA AllComes ==
    ASSUME FetchTypeOK, OneSource, Coming, UpdateAllTags
    PROVE  /\ \A t \in Tags : ~Overrun(t) => AsComing(tags', created', t)
           /\ \A p \in Specs, q \in Refs :
                  Arrived(tags, created, p, q) => Arrived(tags', created', p, q)
           /\ \A t \in Tags : AllArrived(tags, t) => AllArrived(tags', t)
           /\ AllArrived(tags', Advertised[ref])
<1> DEFINE r == Advertised[ref]
<1>1. world \in Worlds /\ created' = created
    BY DEF UpdateAllTags, FetchTypeOK
<1>2. CASE UNCHANGED tags /\ ~(world.all /\ r \in Tags /\ remote[r] # NoObject)
    <2>1. AllArrived(tags', r)
        BY <1>1, <1>2, OfTaken DEF AllArrived
    <2> QED
        BY <1>1, <1>2, <2>1, ComingSays
<1>3. CASE /\ world.all /\ r \in Tags /\ remote[r] # NoObject
           /\ \A t \in Tags : t # r => tags'[t] = tags[t]
           /\ tags'[r] = remote[r] \/ (tags'[r] = tags[r] /\ tags[r] # NoObject)
    <2>1. CASE Excluded(r)
        <3>1. Overrun(r) /\ \A t \in Tags : r \notin Taken(t)
            BY <1>3, <2>1 DEF Overrun, Taken
        <3>2. \A t \in Tags : ~Overrun(t) => AsComing(tags', created', t)
            <4> SUFFICES ASSUME NEW t \in Tags, ~Overrun(t)
                         PROVE  AsComing(tags', created', t)
                OBVIOUS
            <4>1. AsComing(tags, created, t) /\ t # r
                BY <3>1, ComingSays
            <4> QED
                BY <1>1, <1>3, <4>1 DEF AsComing
        <3>3. ASSUME NEW p \in Specs, NEW q \in Refs, Arrived(tags, created, p, q)
              PROVE  Arrived(tags', created', p, q)
            <4>1. p.to \in Tags
                BY <1>1, OfWorld
            <4>2. ~Overrun(p.to) => tags'[p.to] = tags[p.to]
                BY <1>3, <3>1, <4>1
            <4> QED
                BY <1>1, <3>3, <4>2 DEF Arrived
        <3>4. \A t \in Tags : AllArrived(tags, t) => AllArrived(tags', t)
            BY <1>3, <3>1 DEF AllArrived
        <3>5. AllArrived(tags', r)
            BY <1>3, <3>1 DEF AllArrived
        <3> QED
            BY <3>2, <3>3, <3>4, <3>5
    <2>2. CASE ~Excluded(r)
        <3>1. r \in Tags /\ r \in Taken(r) /\ ~Overrun(r)
            BY <1>1, <1>3, <2>2, OfTaken DEF Overrun
        <3>2. /\ tags'[r] = remote[r] \/ tags'[r] = tags[r]
              /\ \A u \in Tags : u # r => tags'[u] = tags[u]
              /\ created \subseteq created'
              /\ \A u \in Tags : Follows(u) /\ u \in created' => u \in created
            BY <1>1, <1>3
        <3>3. /\ \A u \in Tags : AsComing(tags, created, u) => AsComing(tags', created', u)
              /\ \A p \in Specs, q \in Refs :
                     Arrived(tags, created, p, q) => Arrived(tags', created', p, q)
              /\ \A u \in Tags : AllArrived(tags, u) => AllArrived(tags', u)
            <4> HIDE DEF r
            <4> QED
                BY <1>1, <3>1, <3>2, MoveKeeps
        <3>4. AllArrived(tags', r)
            <4>1. AsComing(tags, created, r)
                BY <3>1, ComingSays
            <4>2. tags'[r] = remote[r] \/ (tags'[r] = tags[r] /\ ~FALSE /\ tags[r] # NoObject)
                BY <1>3
            <4>3. first[r] = NoObject => tags'[r] = remote[r]
                <5> HIDE DEF r
                <5> QED
                    BY <1>1, <3>1, <4>1, <4>2, MoveArrives
            <4> QED
                BY <4>3 DEF AllArrived
        <3> QED
            BY <3>3, <3>4, ComingSays
    <2> QED
        BY <2>1, <2>2
<1> QED
    BY <1>2, <1>3, AllTurn

\* Once all has come, a tag is as the rules have it, or settling is to make it so.
LEMMA AllCame ==
    ASSUME world \in Worlds, OneSource, NEW T, NEW t \in Tags, ~Overrun(t), ~Stays(t),
           AsComing(T, created, t),
           \A s \in Specs, r \in Refs : Arrived(T, created, s, r), AllArrived(T, t)
    PROVE  T[t] = ByRules(t) \/ t \in Unfollowable
<1>1. CASE Follows(t)
    <2>1. Taken(t) = {}
        BY <1>1, OfTaken
    <2>2. t \in created
        <3>1. PICK s \in Specs : TRUE
            <4>1. 1 \in DOMAIN world.specs
                BY <1>1, OfWorld DEF Follows
            <4> QED
                BY <4>1, OfWorld
        <3>2. t \in Refs
            BY OfRefs
        <3> QED
            BY <1>1, <3>1, <3>2 DEF Arrived
    <2>3. T[t] = remote[t]
        BY <1>1, <2>2 DEF AsComing
    <2>4. t \in Followed
        BY <1>1, <2>2 DEF Followed, Follows
    <2> QED
        BY <1>1, <2>1, <2>3, <2>4, RulesSay DEF Unfollowable
<1>2. CASE ~Follows(t) /\ Taken(t) = {}
    <2>1. T[t] = first[t]
        BY <1>2 DEF AsComing
    <2> QED
        BY <1>2, <2>1, RulesSay
<1>3. CASE ~Follows(t) /\ Taken(t) # {}
    <2>1. PICK r \in Taken(t) : TRUE
        BY <1>3
    <2>2. Forced(t) \/ first[t] = NoObject
        BY <1>3 DEF Stays
    <2>3. ByRules(t) = remote[r]
        BY <2>2, RulesSay
    <2>4. r \in Refs /\ \A q \in Taken(t) : q = r
        BY <2>1, OfTaken
    <2>5. CASE Forced(t)
        <3>1. PICK s \in Specs : s.to = t /\ s.forced /\ s.from \in Taken(t)
            BY <2>5 DEF Forced
        <3>2. s.from = r
            BY <2>4, <3>1
        <3> QED
            BY <2>1, <2>3, <2>4, <3>1, <3>2 DEF Arrived
    <2>6. CASE first[t] = NoObject
        <3>1. CASE \E s \in Specs : s.to = t /\ s.from = r
            <4>1. PICK s \in Specs : s.to = t /\ s.from = r
                BY <3>1
            <4> QED
                BY <2>1, <2>3, <2>4, <2>6, <4>1 DEF Arrived
        <3>2. CASE world.all /\ r = t
            BY <2>1, <2>3, <2>6, <3>2 DEF AllArrived
        <3> QED
            BY <2>1, <3>1, <3>2, OfTaken
    <2> QED
        BY <2>2, <2>5, <2>6
<1> QED
    BY <1>1, <1>2, <1>3

\* The pass over all tags keeps Coming, and its end makes it Fetched or Settling.
LEMMA ComingAll ==
    ASSUME FetchTypeOK, OneSource, Begun, FollowedOnly, Coming, DroppedNew, UpdateAllTags
    PROVE  /\ at' = "fetch" => Coming'
           /\ at' = "drop" => Fetched'
           /\ at' \in {"fetch", "drop"} => DroppedNew'
           /\ at' = "settle" => Settling'
<1>1. /\ world \in Worlds /\ UNCHANGED <<fetch, world, remote, first, Specs, created, out, refused>>
      /\ \A t : /\ Taken(t)' = Taken(t) /\ Clobbered(t)' = Clobbered(t)
                /\ ByRules(t)' = ByRules(t) /\ Overrun(t)' = Overrun(t)
                /\ Stays(t)' = Stays(t)
      /\ at = "fetch" /\ spec = Len(world.specs) + 1 /\ spec' = spec
    BY Fixed DEF UpdateAllTags, FetchTypeOK
<1>2. DroppedNew'
    BY <1>1 DEF DroppedNew, Followed
<1>3. /\ Len(world.specs) \in Nat /\ DOMAIN world.specs = 1..Len(world.specs)
      /\ \A i \in DOMAIN world.specs : world.specs[i] \in Specs
      /\ \A s \in Specs : \E i \in DOMAIN world.specs : world.specs[i] = s
    BY <1>1, OfWorld
<1>4. \A s \in Specs, r \in Refs : Arrived(tags', created', s, r)
    <2> SUFFICES ASSUME NEW s \in Specs, NEW r \in Refs
                 PROVE  Arrived(tags, created, s, r)
        BY AllComes
    <2>1. PICK i \in DOMAIN world.specs, k \in DOMAIN Advertised :
              world.specs[i] = s /\ Advertised[k] = r
        BY <1>3, OfRefs
    <2>2. Passed(i, k)
        BY <1>1, <1>3, <2>1 DEF Passed
    <2> QED
        BY <2>1, <2>2, ComingSays
<1>5. ASSUME NEW k \in DOMAIN Advertised, k \in 1..ref
      PROVE  AllArrived(tags', Advertised[k])
    <2>1. CASE k = ref
        BY <2>1, AllComes
    <2>2. CASE k # ref
        <3>1. Passed(Len(world.specs) + 1, k)
            BY <1>1, <1>5, <2>2, OfRefs DEF Passed, FetchTypeOK
        <3>2. AllArrived(tags, Advertised[k])
            BY <3>1, ComingSays
        <3>3. CASE Advertised[k] \in Tags
            BY <3>2, <3>3, AllComes
        <3>4. CASE Advertised[k] \notin Tags
            BY <3>4 DEF AllArrived
        <3> QED
            BY <3>3, <3>4
    <2> QED
        BY <2>1, <2>2
<1>6. CASE ref < Len(Advertised)
    <2>1. at' = "fetch" /\ ref' = ref + 1
        BY <1>1, <1>6 DEF UpdateAllTags
    <2>2. \A i \in DOMAIN world.specs, k \in DOMAIN Advertised :
              Arrived(tags', created', world.specs[i], Advertised[k])
        BY <1>3, <1>4, OfRefs
    <2>3. ASSUME NEW k \in DOMAIN Advertised, NowPassed(Len(world.specs) + 1, k)
          PROVE  AllArrived(tags', Advertised[k])
        <3>1. k \in 1..ref
            BY <1>1, <1>3, <2>1, <2>3, OfRefs DEF NowPassed, FetchTypeOK
        <3> QED
            BY <1>5, <3>1
    <2>4. Coming'
        BY <1>1, <2>2, <2>3, AllComes, ComingNext
    <2> QED
        BY <1>2, <2>1, <2>4
<1>7. CASE ~(ref < Len(Advertised))
    <2>1. /\ ref = Len(Advertised) /\ ref' = 1
          /\ at' = IF world.follows THEN "drop" ELSE "settle"
        BY <1>7, NextRef DEF UpdateAllTags, FetchTypeOK
    <2>2. \A t \in Tags : Overrun(t) \/ Stays(t) \/ tags'[t] = ByRules(t) \/ t \in Unfollowable
        <3> SUFFICES ASSUME NEW t \in Tags, ~Overrun(t), ~Stays(t)
                     PROVE  tags'[t] = ByRules(t) \/ t \in Unfollowable
            OBVIOUS
        <3>1. AllArrived(tags', t)
            <4>1. PICK k \in DOMAIN Advertised : Advertised[k] = t
                BY OfRefs
            <4>2. k \in 1..ref
                BY <2>1, OfRefs
            <4> QED
                BY <1>5, <4>1, <4>2
        <3>2. /\ AsComing(tags', created, t)
              /\ \A s \in Specs, r \in Refs : Arrived(tags', created, s, r)
            BY <1>1, <1>4, AllComes
        <3> QED
            BY <1>1, <3>1, <3>2, AllCame
    <2>3. CASE world.follows
        <3>1. Unfollowable' = Unfollowable /\ out' = {}
            BY <1>1 DEF Unfollowable, Followed, Begun
        <3>2. Fetched'
            BY <1>1, <2>2, <3>1 DEF Fetched
        <3> QED
            BY <1>2, <2>1, <2>3, <3>2
    <2>4. CASE ~world.follows
        <3>1. Unfollowable = {}
            BY <2>4 DEF FollowedOnly, Unfollowable
        <3>2. SettledRefs' = {} /\ refused' = {}
            BY <1>1, <2>1, <2>4 DEF SettledRefs, Begun
        <3>3. \A t \in Tags : Clobbered(t) => Taken(t) # {}
            BY <1>1, RulesSay
        <3>4. refused' = {t \in Tags : Clobbered(t)' /\ Taken(t)' \subseteq SettledRefs'}
            BY <1>1, <3>2, <3>3
        <3>5. \A t \in Tags : \/ tags'[t] = ByRules(t)'
                              \/ Overrun(t)' /\ t \notin SettledRefs'
                              \/ Stays(t)' /\ ~Overrun(t)' /\ Taken(t)' \cap SettledRefs' = {}
            BY <1>1, <2>2, <3>1, <3>2
        <3>6. Settling'
            BY <3>4, <3>5 DEF Settling
        <3> QED
            BY <2>1, <2>4, <3>6
    <2> QED
        BY <2>3, <2>4
<1> QED
    BY <1>6, <1>7

-----------------------------------------------------------------------------
(* Unfollowable tags go, and the rest are settled                          *)

\* A tag that is dropped was not there, and nothing is taken to it.
LEMMA Dropped ==
    ASSUME FetchTypeOK, OneSource, FollowedOnly, DroppedNew, NEW t \in Unfollowable
    PROVE  t \in Tags /\ ByRules(t) = NoObject
<1>1. /\ t \in Followed /\ t \in Tags /\ t \notin world.reached /\ first[t] = NoObject
      /\ world.follows /\ remote[t] # NoObject /\ \A s \in Specs : s.from # t
    BY DEF Unfollowable, Followed, FollowedOnly, DroppedNew
<1>2. Taken(t) = {}
    BY <1>1, OfTaken DEF Follows, FetchTypeOK
<1> QED
    BY <1>1, <1>2, RulesSay DEF FetchTypeOK

\* Dropping a tag makes it as the rules have it.
LEMMA DropStep ==
    ASSUME FetchTypeOK, OneSource, FollowedOnly, DroppedNew, Fetched,
           NEW t \in Tags, DropTag(t)
    PROVE  Fetched' /\ DroppedNew'
<1>1. /\ t \in Unfollowable /\ out' = out \cup {t} /\ UNCHANGED <<fetch, created>>
      /\ tags' = [tags EXCEPT ![t] = NoObject]
    BY DEF DropTag
<1>2. /\ UNCHANGED <<world, remote, first, Specs>>
      /\ \A u : ByRules(u)' = ByRules(u) /\ Overrun(u)' = Overrun(u) /\ Stays(u)' = Stays(u)
    BY <1>1, Fixed
<1>3. UNCHANGED <<Followed, Unfollowable>>
    BY <1>1, <1>2 DEF Followed, Unfollowable
<1>4. tags'[t] = ByRules(t)
    BY <1>1, Dropped DEF FetchTypeOK
<1>5. \A u \in Tags : u # t => tags'[u] = tags[u]
    BY <1>1 DEF FetchTypeOK
<1>6. Fetched'
    BY <1>1, <1>2, <1>3, <1>4, <1>5 DEF Fetched
<1> QED
    BY <1>2, <1>3, <1>6 DEF DroppedNew

\* Once those are dropped, what is left is for settling.
LEMMA DropsEnd ==
    ASSUME FetchTypeOK, OneSource, Begun, Fetched, DropEnds
    PROVE  Settling'
<1>1. /\ at = "drop" /\ at' = "settle" /\ Unfollowable \subseteq out
      /\ UNCHANGED <<fetch, tags, created, refused, ref>>
    BY DEF DropEnds
<1>2. \A t : /\ Taken(t)' = Taken(t) /\ Clobbered(t)' = Clobbered(t)
             /\ ByRules(t)' = ByRules(t) /\ Overrun(t)' = Overrun(t)
             /\ Stays(t)' = Stays(t)
    BY <1>1, Fixed
<1>3. SettledRefs' = {} /\ refused' = {}
    BY <1>1 DEF Begun, SettledRefs
<1>4. \A t \in Tags : Clobbered(t) => Taken(t) # {}
    BY RulesSay DEF FetchTypeOK
<1>5. refused' = {t \in Tags : Clobbered(t)' /\ Taken(t)' \subseteq SettledRefs'}
    BY <1>2, <1>3, <1>4
<1>6. \A t \in Tags : \/ tags'[t] = ByRules(t)'
                      \/ Overrun(t)' /\ t \notin SettledRefs'
                      \/ Stays(t)' /\ ~Overrun(t)' /\ Taken(t)' \cap SettledRefs' = {}
    BY <1>1, <1>2, <1>3 DEF Fetched
<1> QED
    BY <1>5, <1>6 DEF Settling

\* What was read of the tags that some unforced refspec moves is what was there.
LEMMA ReadTrue ==
    ASSUME Begun, changes = 0, at = "settle",
           world.all \/ \E s \in Specs : ~s.forced
    PROVE  before = first
BY DEF Begun, Watches

\* Settling an excluded tag puts it right.
LEMMA ExcludedRight ==
    ASSUME FetchTypeOK, OneSource, Begun, Ruly(world), changes = 0, at = "settle",
           NEW r \in Tags, Overrun(r), SettleExcluded(r)
    PROVE  tags'[r] = ByRules(r)
<1>1. /\ world \in Worlds /\ world.all /\ Excluded(r) /\ ~world.follows
      /\ before = first
    BY ReadTrue, OfWorld DEF Overrun, FetchTypeOK
<1>2. Taken(r) = ExplicitSources(r)
    BY <1>1 DEF Taken, Sources, ExplicitSources
<1>3. CASE ExplicitSources(r) = {}
    <2>1. tags'[r] = first[r]
        BY <1>1, <1>3, ExcludedTags
    <2>2. ~Follows(r)
        BY <1>1 DEF Follows
    <2> QED
        BY <1>1, <1>2, <1>3, <2>1, <2>2, RulesSay
<1>4. CASE ExplicitSources(r) # {}
    <2>1. PICK q \in ExplicitSources(r) : tags'[r] = remote[q]
        BY <1>4, ExcludedTags
    <2>2. \E s \in Specs : s.to = r /\ s.from = q
        BY <2>1 DEF ExplicitSources
    <2>3. Forced(r)
        <3>1. PICK s \in Specs : s.to = r /\ s.from = q
            BY <2>2
        <3>2. s.forced
            BY <1>1, <3>1 DEF Ruly, Specs, Excluded
        <3> QED
            BY <1>2, <2>1, <3>1, <3>2 DEF Forced
    <2> QED
        BY <1>1, <1>2, <2>1, <2>3, RulesSay
<1> QED
    BY <1>3, <1>4

\* The tags r goes to unforced and that were there: those that stay and take r.
LEMMA KeptOnes ==
    ASSUME FetchTypeOK, OneSource, Begun, changes = 0, at = "settle",
           NEW r \in Refs, remote[r] # NoObject
    PROVE  \A t \in Tags :
               t \in Unforced(r) /\ before[t] # NoObject <=> Stays(t) /\ r \in Taken(t)
<1>1. world \in Worlds
    BY DEF FetchTypeOK
<1>2. ASSUME NEW t \in Tags, t \in Unforced(r)
      PROVE  r \in Taken(t) /\ ~Forced(t) /\ before = first
    <2>1. /\ ~Excluded(r)
          /\ \A s \in Specs : s.from = r /\ s.to = t => ~s.forced
          /\ (\E s \in Specs : s.from = r /\ s.to = t /\ ~s.forced) \/ (r = t /\ world.all)
        BY <1>1, <1>2, OfUnforced
    <2>2. r \in Taken(t)
        BY <1>1, <2>1, OfTaken
    <2>3. ~Forced(t)
        BY <1>1, <2>1, <2>2, OfTaken DEF Forced
    <2>4. before = first
        BY <2>1, ReadTrue
    <2> QED
        BY <2>2, <2>3, <2>4
<1>3. ASSUME NEW t \in Tags, Stays(t), r \in Taken(t)
      PROVE  t \in Unforced(r) /\ before = first
    <2>1. /\ ~Excluded(r)
          /\ (\E s \in Specs : s.to = t /\ s.from = r) \/ (world.all /\ r = t)
        BY <1>1, <1>3, OfTaken
    <2>2. \A s \in Specs : s.from = r /\ s.to = t => ~s.forced
        BY <1>3 DEF Stays, Forced
    <2>3. t \in Unforced(r)
        BY <1>1, <2>1, <2>2, OfUnforced
    <2> QED
        BY <1>2, <2>3
<1>4. ASSUME NEW t \in Tags
      PROVE  t \in Unforced(r) /\ before[t] # NoObject <=> Stays(t) /\ r \in Taken(t)
    <2>1. ASSUME t \in Unforced(r), before[t] # NoObject
          PROVE  Stays(t) /\ r \in Taken(t)
        BY <1>2, <2>1 DEF Stays
    <2>2. ASSUME Stays(t), r \in Taken(t)
          PROVE  t \in Unforced(r) /\ before[t] # NoObject
        BY <1>3, <2>2 DEF Stays
    <2> QED
        BY <2>1, <2>2
<1> QED
    BY <1>4

\* A turn of the loop over the refs settles the tags that were for it.
LEMMA SettlingTurn ==
    ASSUME FetchTypeOK, OneSource, Begun, Ruly(world), changes = 0, Settling, Settle
    PROVE  Settling'
<1> DEFINE r == Advertised[ref]
<1>1. /\ world \in Worlds /\ at = "settle" /\ UNCHANGED <<fetch, before>>
    BY DEF Settle, FetchTypeOK
<1>2. /\ UNCHANGED <<world, remote, first>>
      /\ \A t : /\ Taken(t)' = Taken(t) /\ Clobbered(t)' = Clobbered(t)
                /\ ByRules(t)' = ByRules(t) /\ Overrun(t)' = Overrun(t)
                /\ Stays(t)' = Stays(t)
    BY <1>1, Fixed
<1>3. /\ SettledRefs' = SettledRefs \cup {r} /\ r \in Refs /\ r \notin SettledRefs
    BY SettledMore
<1>4. /\ \A t \in Tags :
          \/ tags[t] = ByRules(t)
          \/ Overrun(t) /\ t \notin SettledRefs
          \/ Stays(t) /\ ~Overrun(t) /\ Taken(t) \cap SettledRefs = {}
      /\ refused = {t \in Tags : Clobbered(t) /\ Taken(t) \subseteq SettledRefs}
    BY DEF Settling
<1>5. \/ remote[r] = NoObject /\ UNCHANGED <<tags, refused, out>>
      \/ /\ remote[r] # NoObject /\ r \in Tags /\ Overrun(r) /\ SettleExcluded(r)
      \/ /\ remote[r] # NoObject /\ ~(r \in Tags /\ Overrun(r)) /\ SettleMapped(r)
    BY <1>3, SettleTurn
<1> DEFINE Right == \A t \in Tags :
               \/ tags'[t] = ByRules(t)
               \/ Overrun(t) /\ t \notin SettledRefs'
               \/ Stays(t) /\ ~Overrun(t) /\ Taken(t) \cap SettledRefs' = {}
           Told == refused' = {t \in Tags : Clobbered(t) /\ Taken(t) \subseteq SettledRefs'}
<1> HIDE DEF r
<1>6. Right /\ Told => Settling'
    BY <1>2 DEF Settling
<1>7. CASE remote[r] = NoObject /\ UNCHANGED <<tags, refused, out>>
    <2>1. \A t \in Tags : r \notin Taken(t) /\ ~(Overrun(t) /\ t = r)
        BY <1>1, <1>7, OfTaken DEF Overrun
    <2>2. Right
        BY <1>3, <1>4, <1>7, <2>1
    <2>3. Told
        BY <1>3, <1>4, <1>7, <2>1
    <2> QED
        BY <1>6, <2>2, <2>3
<1>8. CASE remote[r] # NoObject /\ r \in Tags /\ Overrun(r) /\ SettleExcluded(r)
    <2>1. \A t \in Tags : r \notin Taken(t)
        BY <1>1, <1>8, OfTaken DEF Overrun
    <2>2. tags'[r] = ByRules(r)
        BY <1>1, <1>8, ExcludedRight
    <2>3. UNCHANGED refused /\ \A t \in Tags : t # r => tags'[t] = tags[t]
        BY <1>8, ExcludedTags
    <2>4. Right
        BY <1>3, <1>4, <2>1, <2>2, <2>3
    <2>5. Told
        BY <1>3, <1>4, <2>1, <2>3
    <2> QED
        BY <1>6, <2>4, <2>5
<1>9. CASE remote[r] # NoObject /\ ~(r \in Tags /\ Overrun(r)) /\ SettleMapped(r)
    <2> DEFINE kept == {t \in Unforced(r) : before[t] # NoObject} \ refused
               Keep(t) == Stays(t) /\ r \in Taken(t)
    <2>1. \A t \in Tags : Keep(t) => t \notin refused /\ before = first
        <3>1. \A t \in Tags : Keep(t) => t \notin refused
            BY <1>3, <1>4
        <3>2. ASSUME NEW t \in Tags, Keep(t)
              PROVE  before = first
            <4>1. (\E s \in Specs : s.to = t /\ s.from = r) \/ (world.all /\ r = t)
                BY <1>1, <3>2, OfTaken
            <4>2. world.all \/ \E s \in Specs : ~s.forced
                BY <3>2, <4>1 DEF Stays, Forced
            <4> QED
                BY <1>1, <4>2, ReadTrue
        <3> QED
            BY <3>1, <3>2
    <2>2. kept = {t \in Tags : Keep(t)}
        <3>1. Unforced(r) \subseteq Tags
            BY <1>1, <1>3, OfUnforced
        <3>2. \A t \in Tags : t \in Unforced(r) /\ before[t] # NoObject <=> Keep(t)
            BY <1>1, <1>3, <1>9, KeptOnes
        <3> QED
            BY <2>1, <3>1, <3>2
    <2>3. /\ tags' = Restored(kept)
          /\ refused' = refused \cup {t \in kept : before[t] # remote[r]}
        BY <1>9 DEF SettleMapped
    <2> HIDE DEF kept
    <2>4. \A t \in Tags : tags'[t] = IF Keep(t) THEN first[t] ELSE tags[t]
        <3>1. \A t \in Tags : tags'[t] = IF t \in kept THEN before[t] ELSE tags[t]
            BY <2>3, RestoredTags
        <3> QED
            BY <2>1, <2>2, <3>1
    <2>5. ASSUME NEW t \in Tags, Keep(t)
          PROVE  /\ Taken(t) = {r} /\ first[t] = ByRules(t)
                 /\ Clobbered(t) <=> first[t] # remote[r]
        <3>1. Taken(t) = {r}
            BY <1>1, <2>5, OfTaken
        <3>2. Clobbered(t) <=> first[t] # remote[r]
            BY <1>1, <2>5, <3>1, RulesSay DEF Stays
        <3>3. first[t] = ByRules(t)
            BY <1>1, <3>1, <3>2, RulesSay
        <3> QED
            BY <3>1, <3>2, <3>3
    <2>6. \A t \in Tags : Stays(t) /\ ~Keep(t) => r \notin Taken(t)
        OBVIOUS
    <2>7. Right
        <3> SUFFICES ASSUME NEW t \in Tags
                     PROVE  \/ tags'[t] = ByRules(t)
                            \/ Overrun(t) /\ t \notin SettledRefs'
                            \/ Stays(t) /\ ~Overrun(t) /\ Taken(t) \cap SettledRefs' = {}
            OBVIOUS
        <3>1. CASE Keep(t)
            BY <2>4, <2>5, <3>1
        <3>2. CASE ~Keep(t)
            BY <1>3, <1>4, <1>9, <2>4, <3>2
        <3> QED
            BY <3>1, <3>2
    <2>8. Told
        <3>1. ASSUME NEW t \in Tags
              PROVE  t \in refused' <=> Clobbered(t) /\ Taken(t) \subseteq SettledRefs'
            <4>1. CASE Keep(t)
                BY <1>3, <1>4, <2>1, <2>2, <2>3, <2>5, <4>1
            <4>2. CASE ~Keep(t)
                <5>1. Clobbered(t) => Stays(t)
                    BY <1>1, RulesSay DEF Stays
                <5>2. Clobbered(t) => r \notin Taken(t)
                    BY <4>2, <5>1
                <5> QED
                    BY <1>3, <1>4, <2>2, <2>3, <4>2, <5>2
            <4> QED
                BY <4>1, <4>2
        <3>2. refused' \subseteq Tags
            BY <1>4, <2>2, <2>3
        <3> QED
            BY <3>1, <3>2
    <2> QED
        BY <1>6, <2>7, <2>8
<1> QED
    BY <1>5, <1>7, <1>8, <1>9

-----------------------------------------------------------------------------
(* The invariant                                                           *)

\* What holds of the tags of a fetch no other process interferes with.
TagsInv ==
    /\ at = "fetch" => Coming
    /\ at = "drop" => Fetched
    /\ at \in {"fetch", "drop"} => DroppedNew
    /\ at \in {"settle", "reorder", "done"} => Settling

\* A step keeps it.
LEMMA TagsStep ==
    ASSUME FetchTypeOK, OneSource, Begun, FollowedOnly, Ruly(world), changes = 0, TagsInv,
           FetchNext, changes' = 0
    PROVE  TagsInv'
<1>1. CASE ReadTags
    <2>1. at' = "fetch"
        BY <1>1 DEF ReadTags
    <2> QED
        BY <1>1, <2>1, ComingRead DEF TagsInv
<1>2. CASE UpdateTip
    <2>1. at = "fetch" /\ at' = "fetch"
        BY <1>2 DEF UpdateTip
    <2> QED
        BY <1>2, <2>1, ComingTip DEF TagsInv
<1>3. CASE UpdateAllTags
    <2>1. at = "fetch" /\ at' \in {"fetch", "drop", "settle"}
        BY <1>3 DEF UpdateAllTags
    <2> QED
        BY <1>3, <2>1, ComingAll DEF TagsInv
<1>4. CASE Fail
    BY <1>4 DEF Fail, TagsInv
<1>5. ASSUME NEW t \in Tags, DropTag(t)
      PROVE  TagsInv'
    <2>1. at = "drop" /\ at' = "drop"
        BY <1>5 DEF DropTag
    <2> QED
        BY <1>5, <2>1, DropStep DEF TagsInv
<1>6. CASE DropEnds
    <2>1. at = "drop" /\ at' = "settle"
        BY <1>6 DEF DropEnds
    <2> QED
        BY <1>6, <2>1, DropsEnd DEF TagsInv
<1>7. CASE Settle
    <2>1. at = "settle" /\ at' \in {"settle", "reorder", "done"}
        BY <1>7 DEF Settle
    <2> QED
        BY <1>7, <2>1, SettlingTurn DEF TagsInv
<1>8. CASE ReorderHead
    <2>1. at = "reorder" /\ at' = "done" /\ UNCHANGED <<fetch, tags, refused>>
        BY <1>8 DEF ReorderHead
    <2>2. /\ \A t : /\ Taken(t)' = Taken(t) /\ Clobbered(t)' = Clobbered(t)
                    /\ ByRules(t)' = ByRules(t) /\ Overrun(t)' = Overrun(t)
                    /\ Stays(t)' = Stays(t)
          /\ SettledRefs' = SettledRefs
        BY <2>1, Fixed DEF SettledRefs
    <2>3. Settling
        BY <2>1 DEF TagsInv
    <2>4. Settling'
        BY <2>1, <2>2, <2>3 DEF Settling
    <2> QED
        BY <2>1, <2>4 DEF TagsInv
<1>9. ASSUME NEW t \in Tags, NEW o \in Objects \cup {NoObject}, Change(t, o)
      PROVE  FALSE
    BY <1>9 DEF Change
<1> QED
    BY <1>1, <1>2, <1>3, <1>4, <1>5, <1>6, <1>7, <1>8, <1>9 DEF FetchNext, Fetch

\* The invariant is its parts and that.
LEMMA FetchParts ==
    FetchInv <=>
        /\ FetchTypeOK /\ OneSource /\ Begun /\ FollowedOnly /\ Listed /\ HeadNamesTaken
        /\ Ruly(world) /\ changes = 0 => TagsInv
BY DEF FetchInv, TagsInv

\* A step keeps the invariant.
LEMMA FetchInvStep ==
    ASSUME FetchInv, FetchNext
    PROVE  FetchInv'
<1>1. /\ FetchTypeOK /\ OneSource /\ Begun /\ FollowedOnly /\ Listed /\ HeadNamesTaken
      /\ Ruly(world) /\ changes = 0 => TagsInv
    BY FetchParts
<1>2. FetchTypeOK' /\ Begun' /\ FollowedOnly' /\ Listed'
    BY <1>1, FetchTypesStep, BegunStep, FollowedStep, ListedStep
<1>3. HeadNamesTaken'
    BY <1>1, <1>2, HeadStep
<1>4. OneSource' /\ world' = world
    BY <1>1, StepsFixed, Fixed
<1>5. ASSUME Ruly(world'), changes' = 0
      PROVE  TagsInv'
    <2>1. changes = 0
        <3>1. changes' = changes \/ changes' = changes + 1
            BY DEF FetchNext, Fetch, ReadTags, UpdateTip, UpdateAllTags, Fail, DropTag,
                   DropEnds, Settle, ReorderHead, Change
        <3>2. changes \in Nat
            BY <1>1, FetchAssumption DEF FetchTypeOK
        <3> QED
            BY <1>5, <3>1, <3>2
    <2>2. Ruly(world)
        BY <1>4, <1>5
    <2> QED
        BY <1>1, <1>5, <2>1, <2>2, TagsStep
<1>6. Ruly(world)' => Ruly(world')
    BY <1>4 DEF Ruly
<1> QED
    BY <1>2, <1>3, <1>4, <1>5, <1>6 DEF FetchInv, TagsInv

\* ... and so does no step at all.
LEMMA FetchInvStays ==
    ASSUME FetchInv, UNCHANGED fetchVars
    PROVE  FetchInv'
<1>1. /\ UNCHANGED <<world, remote, first, tags, at, spec, ref, before, created, refused,
                      out, head, changes>>
      /\ UNCHANGED fetch
    BY DEF fetchVars, fetch
<1>2. /\ UNCHANGED <<Specs, Watches>> /\ (\A r : Excluded(r)' = Excluded(r))
      /\ \A t : /\ Taken(t)' = Taken(t) /\ Clobbered(t)' = Clobbered(t)
                /\ ByRules(t)' = ByRules(t) /\ Overrun(t)' = Overrun(t)
                /\ Stays(t)' = Stays(t)
      /\ OneSource' = OneSource
    BY <1>1, Fixed
<1>3. UNCHANGED <<Followed, Unfollowable, SettledRefs>>
    BY <1>1, <1>2 DEF Followed, Unfollowable, SettledRefs
<1>4. FetchTypeOK' /\ OneSource' /\ Begun' /\ FollowedOnly'
    BY <1>1, <1>2, <1>3 DEF FetchInv, FetchTypeOK, Begun, FollowedOnly
<1>5. Listed'
    BY <1>1, <1>2, <1>3 DEF FetchInv, Listed
<1>6. HeadNamesTaken'
    BY <1>1, <1>2, <1>3 DEF FetchInv, HeadNamesTaken
<1>7. ASSUME Ruly(world)', changes' = 0
      PROVE  TagsInv'
    <2>1. Ruly(world)
        BY <1>1, <1>7 DEF Ruly
    <2>2. TagsInv
        BY <1>1, <1>7, <2>1, FetchParts
    <2>3. Coming => Coming'
        <3> SUFFICES ASSUME Coming
                     PROVE  Coming'
            OBVIOUS
        <3>1. \A i, k : NowPassed(i, k) <=> Passed(i, k)
            BY <1>1 DEF NowPassed, Passed
        <3> QED
            BY <1>1, <3>1, ComingSays, ComingNext
    <2>4. /\ Fetched => Fetched'
          /\ DroppedNew => DroppedNew'
          /\ Settling => Settling'
        BY <1>1, <1>2, <1>3 DEF Fetched, DroppedNew, Settling
    <2> QED
        BY <1>1, <2>2, <2>3, <2>4 DEF TagsInv
<1> QED
    BY <1>4, <1>5, <1>6, <1>7 DEF FetchInv, TagsInv

\* Every state has the invariant.  One source for a tag, what the tags were
\* read as, and what came by following hold throughout; and while no other
\* process interferes, each tag is on its way to what the rules say.
THEOREM FetchInvariant == FetchSpec => []FetchInv
<1>1. ASSUME FetchInit
      PROVE  FetchInv
    <2>1. FetchTypeOK
        BY <1>1, FetchTypeInit
    <2>2. OneSource /\ Begun /\ FollowedOnly /\ Listed /\ HeadNamesTaken
        BY <1>1 DEF FetchInit, OneSource, Begun, FollowedOnly, Followed, Listed, HeadNamesTaken
    <2> QED
        BY <1>1, <2>1, <2>2 DEF FetchInv, FetchInit
<1>2. FetchInv /\ [FetchNext]_fetchVars => FetchInv'
    <2> SUFFICES ASSUME FetchInv, UNCHANGED fetchVars
                 PROVE  FetchInv'
        BY FetchInvStep
    <2> QED
        BY FetchInvStays
<1> QED
    BY <1>1, <1>2, PTL DEF FetchSpec

\* A fetch that no other process interferes with leaves every tag as git's
\* rules have it, and reports as refused exactly the tags the remote would
\* have clobbered, whatever libgit2 moved and left: in every fetch in which
\* no unforced refspec takes a ref to a tag `--tags` excludes, and in which a
\* tag that refspecs ask for beside other refs, where tags are followed, is
\* asked for under its own name and excluded by no negative refspec.
THEOREM RulySettled == FetchSpec => [](Ruly(world) => TagsSettled)
<1>1. ASSUME FetchInv, Ruly(world)
      PROVE  TagsSettled
    <2> SUFFICES ASSUME at = "done", changes = 0
                 PROVE  /\ \A t \in Tags : tags[t] = ByRules(t)
                        /\ refused = {t \in Tags : Clobbered(t)}
        BY DEF TagsSettled, Undisturbed
    <2>1. Settling /\ SettledRefs = Refs /\ world \in Worlds /\ OneSource
        BY <1>1 DEF FetchInv, SettledRefs, FetchTypeOK
    <2>2. \A t \in Tags : Taken(t) \subseteq Refs
        BY <2>1, OfTaken
    <2>3. Tags \subseteq Refs
        BY OfRefs
    <2> QED
        BY <2>1, <2>2, <2>3 DEF Settling, Stays
<1> QED
    BY <1>1, FetchInvariant, PTL

\* Whatever other processes do, FETCH_HEAD names no tag that was dropped and
\* no excluded ref but one that came by following, and with `--tags` each
\* tag once, after the others.
THEOREM HeadTaken == FetchSpec => []HeadNamesTaken
<1>1. FetchInv => HeadNamesTaken
    BY DEF FetchInv
<1> QED
    BY <1>1, FetchInvariant, PTL

\* No step of a fetch touches a tag that no refspec takes a ref to and that
\* neither `--tags` nor following is about.
THEOREM OthersUntouched == FetchSpec => OthersKept
<1>1. FetchInv /\ [FetchNext]_fetchVars =>
          [Fetch => \A t \in Tags : ~Concerned(t) => tags'[t] = tags[t]]_fetchVars
    BY OthersLeft DEF FetchInv
<1> QED
    BY <1>1, FetchInvariant, PTL DEF FetchSpec, OthersKept
=============================================================================
