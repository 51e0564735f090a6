-------------------------- MODULE AmendCommitProofs --------------------------
(***************************************************************************)
(* AmendCommit, for any processes, branches, trees and bounds: IInv is     *)
(* inductive, so the types and the locking discipline hold, and every step *)
(* is one of AtomicCommits; LogInv is inductive beside it, so no log loses *)
(* an update and none is signed by a process that did not make it.         *)
(***************************************************************************)
EXTENDS AmendCommit, SequenceTheorems, TLAPS

-----------------------------------------------------------------------------
(* The operators shared by the actions keep the types.                     *)

\* Letting locks go leaves every lock with a holder or free.
LEMMA ReleaseType ==
    ASSUME TypeOK, NEW p, NEW fs, Release(p, fs)
    PROVE  lock' \in [LockFiles -> Holders]
BY DEF TypeOK, Release, Holders

\* So does taking one.
LEMMA TakeType ==
    ASSUME TypeOK, NEW p \in Actors, NEW f \in LockFiles, Take(p, f)
    PROVE  lock' \in [LockFiles -> Holders]
BY DEF TypeOK, Take, Holders

\* A process that goes on is somewhere the code has a name for.
LEMMA GotoType ==
    ASSUME TypeOK, NEW p \in Procs, NEW l \in Control, Goto(p, l)
    PROVE  pc' \in [Procs -> Control]
BY DEF TypeOK, Goto

\* The record of no call is a record of a call.
LEMMA NoCallType == NoCall \in Calls
<1>1. HEAD \in RefNames
    BY DEF RefNames
<1> QED
    BY <1>1 DEF NoCall, Calls, NoCommit

\* Returning keeps the types of what it clears.
LEMMA ReturnType ==
    ASSUME TypeOK, NEW p \in Procs, Return(p)
    PROVE  /\ pc' \in [Procs -> Control]
           /\ lock' \in [LockFiles -> Holders]
           /\ call' \in [Procs -> Calls]
<1>1. pc' \in [Procs -> Control]
    BY DEF TypeOK, Return, Goto, Control
<1>2. lock' \in [LockFiles -> Holders]
    BY ReleaseType DEF Return
<1>3. call' \in [Procs -> Calls]
    BY NoCallType DEF TypeOK, Return
<1> QED
    BY <1>1, <1>2, <1>3

\* So does throwing, which changes nothing else.
LEMMA ThrowType ==
    ASSUME TypeOK, NEW p \in Procs, Throw(p)
    PROVE  TypeOK'
BY ReturnType DEF TypeOK, Throw, repoVars

\* Moving a ref adds an entry to its logs, and keeps both well-typed.
LEMMA UpdateRefType ==
    ASSUME TypeOK, NEW r \in RefNames, NEW c \in Nat, NEW why \in Why,
           NEW by \in Actors, NEW stamp \in Actors \cup {Config},
           UpdateRef(r, c, why, by, stamp)
    PROVE  /\ ref' \in [RefNames -> Nat]
           /\ reflog' \in [RefNames -> Seq(Entries)]
<1> DEFINE e == [old |-> ref[r], new |-> c, why |-> why, by |-> by, stamp |-> stamp]
<1>1. ref' \in [RefNames -> Nat]
    BY DEF TypeOK, UpdateRef
<1>2. e \in Entries
    BY DEF TypeOK, Entries
<1>3. \A l \in RefNames : Append(reflog[l], e) \in Seq(Entries)
    BY <1>2 DEF TypeOK
<1>4. reflog' = [l \in RefNames |-> IF l \in LogsOf(r) THEN Append(reflog[l], e) ELSE reflog[l]]
    BY DEF UpdateRef
<1>5. reflog' \in [RefNames -> Seq(Entries)]
    BY <1>3, <1>4 DEF TypeOK
<1> QED
    BY <1>1, <1>5

\* A new commit comes after all there are, and changes none of them.
LEMMA CreateType ==
    ASSUME TypeOK, NEW parent \in Nat, NEW amends \in Nat, NEW tree \in Trees,
           Create(parent, amends, tree)
    PROVE  /\ objects' \in Seq(Objects)
           /\ Len(objects') = Len(objects) + 1
           /\ \A c \in 1..Len(objects) : objects'[c] = objects[c]
           /\ objects'[Len(objects) + 1] =
                [parent |-> parent, amends |-> amends, tree |-> tree]
<1> DEFINE o == [parent |-> parent, amends |-> amends, tree |-> tree]
<1>1. o \in Objects /\ objects \in Seq(Objects)
    BY DEF TypeOK, Objects
<1>2. objects' = Append(objects, o)
    BY DEF Create
<1> QED
    BY <1>1, <1>2

\* What a handle has of the index once it is open is an index that was read,
\* edited or not; a soft read leaves it with one of the file there is.
LEMMA CacheType ==
    ASSUME TypeOK, NEW p \in Procs
    PROVE  /\ \A i \in IndexStates : ReadFrom(i) \in Caches
           /\ HandleIndex(p) \in Caches
           /\ SoftRead(p) \subseteq Caches
           /\ \A m \in SoftRead(p) : m.file = index
<1>1. \A i \in IndexStates : ReadFrom(i) \in Caches
    BY DEF Caches, ReadFrom
<1>2. HandleIndex(p) \in Caches
    BY <1>1 DEF TypeOK, HandleIndex
<1>3. ReadFrom(index) \in Caches /\ ReadFrom(index).file = index
    BY <1>1 DEF TypeOK, ReadFrom
<1> QED
    BY <1>1, <1>2, <1>3 DEF SoftRead

\* One local of a call is assigned a value of its type.
LEMMA CallType ==
    ASSUME TypeOK, NEW p \in Procs, NEW x,
           \/ x \in Nat /\ call' = [call EXCEPT ![p].old = x]
           \/ x \in Nat /\ call' = [call EXCEPT ![p].new = x]
           \/ x \in BOOLEAN /\ call' = [call EXCEPT ![p].detached = x]
           \/ x \in RefNames /\ call' = [call EXCEPT ![p].name = x]
           \/ x \in Seq(RefNames) /\ call' = [call EXCEPT ![p].todo = x]
           \/ x \in Seq(Entries) /\ call' = [call EXCEPT ![p].seen = x]
    PROVE  call' \in [Procs -> Calls]
<1>1. call[p] \in Calls
    BY DEF TypeOK
<1>2. \E c \in Calls : call' = [call EXCEPT ![p] = c]
    <2>1. CASE x \in Nat /\ call' = [call EXCEPT ![p].old = x]
        <3>1. [call[p] EXCEPT !.old = x] \in Calls
            BY <1>1, <2>1 DEF Calls
        <3> QED
            BY <2>1, <3>1
    <2>2. CASE x \in Nat /\ call' = [call EXCEPT ![p].new = x]
        <3>1. [call[p] EXCEPT !.new = x] \in Calls
            BY <1>1, <2>2 DEF Calls
        <3> QED
            BY <2>2, <3>1
    <2>3. CASE x \in BOOLEAN /\ call' = [call EXCEPT ![p].detached = x]
        <3>1. [call[p] EXCEPT !.detached = x] \in Calls
            BY <1>1, <2>3 DEF Calls
        <3> QED
            BY <2>3, <3>1
    <2>4. CASE x \in RefNames /\ call' = [call EXCEPT ![p].name = x]
        <3>1. [call[p] EXCEPT !.name = x] \in Calls
            BY <1>1, <2>4 DEF Calls
        <3> QED
            BY <2>4, <3>1
    <2>5. CASE x \in Seq(RefNames) /\ call' = [call EXCEPT ![p].todo = x]
        <3>1. [call[p] EXCEPT !.todo = x] \in Calls
            BY <1>1, <2>5 DEF Calls
        <3> QED
            BY <2>5, <3>1
    <2>6. CASE x \in Seq(Entries) /\ call' = [call EXCEPT ![p].seen = x]
        <3>1. [call[p] EXCEPT !.seen = x] \in Calls
            BY <1>1, <2>6 DEF Calls
        <3> QED
            BY <2>6, <3>1
    <2> QED
        BY <2>1, <2>2, <2>3, <2>4, <2>5, <2>6
<1> QED
    BY <1>2 DEF TypeOK

-----------------------------------------------------------------------------

\* The invariant holds at first.
LEMMA InitInv == Init => IInv
<1> SUFFICES ASSUME Init
             PROVE  IInv
    OBVIOUS
<1>1. PICK t \in Trees : /\ objects = << [parent |-> NoCommit, amends |-> NoCommit, tree |-> t] >>
                         /\ index = t
    BY DEF Init
<1>2. TypeOK
    <2>1. objects \in Seq(Objects)
        BY <1>1 DEF Objects, NoCommit
    <2>2. head \in RefNames /\ ref \in [RefNames -> Nat]
        BY DEF Init, RefNames, NoCommit
    <2>3. reflog \in [RefNames -> Seq(Entries)]
        BY DEF Init
    <2>4. lock \in [LockFiles -> Holders] /\ pc \in [Procs -> Control]
        BY DEF Init, Holders, Control
    <2>5. mem \in [Procs -> Caches \cup {NoIndex}] /\ call \in [Procs -> Calls]
        BY NoCallType DEF Init
    <2> QED
        BY <1>1, <2>1, <2>2, <2>3, <2>4, <2>5 DEF Init, TypeOK, IndexStates
<1>3. LockDiscipline
    <2> SUFFICES ASSUME NEW p \in Procs
                 PROVE  /\ pc[p] = "idle"
                        /\ \A f \in LockFiles : lock[f] # p
                        /\ IndexFile \in LockFiles
                        /\ \A r \in RefNames : RefFile(r) \in LockFiles /\ LogFile(r) \in LockFiles
        BY DEF LockDiscipline, Disciplined, AmendLocked, Restamping
    <2>1. p # Free
        BY ConstantsAssumption
    <2> QED
        BY <2>1 DEF Init, LockFiles, RefFile, LogFile
<1>4. RefsHold
    BY <1>1 DEF Init, RefsHold, NoCommit
<1>5. \A p \in Procs : Known(p)
    BY DEF Init, Known
<1> QED
    BY <1>2, <1>3, <1>4, <1>5 DEF IInv

-----------------------------------------------------------------------------
(* Types.                                                                  *)

\* Every step keeps the types, one case per action.
LEMMA TypeStep == IInv /\ Next => TypeOK'
<1> SUFFICES ASSUME IInv, Next
             PROVE  TypeOK'
    OBVIOUS
<1> USE DEF repoVars
<1>t. TypeOK /\ RefsHold /\ \A p \in Procs : Known(p)
    BY DEF IInv
<1>h. HeadCommit \in Nat
    BY <1>t DEF TypeOK, HeadCommit
<1>f. /\ IndexFile \in LockFiles
      /\ \A r \in RefNames : RefFile(r) \in LockFiles /\ LogFile(r) \in LockFiles
    BY DEF LockFiles, RefFile, LogFile
<1>1. ASSUME NEW p \in Procs, Amend(p) PROVE TypeOK'
    <2>a. p \in Actors
        BY DEF Actors
    <2>1. CASE BeginAmend(p)
        BY <2>1, <1>t, <1>h, CallType, GotoType DEF BeginAmend, TypeOK, Control
    <2>2. CASE CheckState(p)
        BY <2>2, <1>t, ThrowType, GotoType DEF CheckState, TypeOK, Control
    <2>3. CASE AcquireIndexLock(p)
        BY <2>3, <2>a, <1>t, <1>f, ThrowType, TakeType, GotoType
           DEF AcquireIndexLock, TypeOK, Control, AmendLocked
    <2>4. CASE ReadIndex(p)
        <3>0. PICK m \in SoftRead(p) :
                /\ mem' = [mem EXCEPT ![p] = m]
                /\ IF m.holds = Unmerged
                   THEN Return(p)
                   ELSE Goto(p, "build") /\ UNCHANGED <<lock, call>>
            BY <2>4 DEF ReadIndex
        <3>1. mem' \in [Procs -> Caches \cup {NoIndex}]
            BY <3>0, <1>t, CacheType DEF TypeOK
        <3>2. /\ pc' \in [Procs -> Control]
              /\ lock' \in [LockFiles -> Holders]
              /\ call' \in [Procs -> Calls]
            <4>1. CASE m.holds = Unmerged
                BY <3>0, <4>1, <1>t, ReturnType
            <4>2. CASE m.holds # Unmerged
                BY <3>0, <4>2, <1>t, GotoType DEF TypeOK, Control, AmendLocked
            <4> QED
                BY <4>1, <4>2
        <3> QED
            BY <2>4, <1>t, <3>1, <3>2 DEF ReadIndex, TypeOK
    <2>5. CASE RefuseAmend(p)
        BY <2>5, <1>t, ThrowType DEF RefuseAmend
    <2>6. ASSUME NEW e \in BOOLEAN, BuildAmended(p, e) PROVE TypeOK'
        <3>1. /\ call[p].old \in 1..Len(objects)
              /\ mem[p].holds \in Trees
            BY <2>6, <1>t DEF BuildAmended, Known
        <3>2. objects[call[p].old].parent \in Nat /\ Len(objects) + 1 \in Nat
            <4>1. objects \in Seq(Objects)
                BY <1>t DEF TypeOK
            <4>2. objects[call[p].old] \in Objects
                BY <3>1, <4>1
            <4> QED
                BY <4>1, <4>2 DEF Objects
        <3>3. objects' \in Seq(Objects)
            <4>1. Create(objects[call[p].old].parent, call[p].old, mem[p].holds)
                BY <2>6 DEF BuildAmended
            <4>2. call[p].old \in Nat
                BY <3>1
            <4> QED
                BY <3>1, <3>2, <4>1, <4>2, <1>t, CreateType
        <3> QED
            BY <2>6, <3>2, <3>3, <1>t, CallType, GotoType
               DEF BuildAmended, TypeOK, Control, AmendLocked
    <2>7. CASE ReadHeadKind(p)
        BY <2>7, <1>t, CallType, GotoType DEF ReadHeadKind, TypeOK, Control, AmendLocked
    <2>8. CASE ReadHeadName(p)
        <3>1. CASE HeadCommit = NoCommit
            BY <2>8, <3>1, <1>t, ThrowType DEF ReadHeadName
        <3>2. CASE HeadCommit # NoCommit
            BY <2>8, <3>2, <1>t, CallType, GotoType
               DEF ReadHeadName, TypeOK, Control, AmendLocked
        <3> QED
            BY <3>1, <3>2
    <2>9. CASE MoveHead(p)
        <3>1. CASE ~Matches(call[p].name, call[p].old)
            BY <2>9, <3>1, <1>t, ThrowType DEF MoveHead
        <3>2. CASE Matches(call[p].name, call[p].old)
            <4>1. call[p].name \in RefNames /\ call[p].new \in Nat
                BY <1>t DEF TypeOK, Calls
            <4>2. UpdateRef(call[p].name, call[p].new, "amend", p, Config)
                BY <2>9, <3>2 DEF MoveHead
            <4>3. /\ ref' \in [RefNames -> Nat]
                  /\ reflog' \in [RefNames -> Seq(Entries)]
                BY <4>1, <4>2, <2>a, <1>t, UpdateRefType DEF Why
            <4>4. LogsToRestamp(p) \in Seq(RefNames)
                <5>1. HEAD \in RefNames
                    BY DEF RefNames
                <5>2. <<HEAD>> \in Seq(RefNames) /\ <<call[p].name, HEAD>> \in Seq(RefNames)
                    BY <4>1, <5>1
                <5> QED
                    BY <5>2 DEF LogsToRestamp
            <4> QED
                <5>1. call' \in [Procs -> Calls]
                    BY <2>9, <3>2, <4>4, <1>t, CallType DEF MoveHead
                <5>2. pc' \in [Procs -> Control]
                    BY <2>9, <3>2, <1>t, GotoType
                       DEF MoveHead, Control, AmendLocked, Restamping
                <5> QED
                    BY <2>9, <3>2, <4>3, <5>1, <5>2, <1>t DEF MoveHead, TypeOK
        <3> QED
            BY <3>1, <3>2
    <2>m. ASSUME MoveHeadReturns(p) PROVE TypeOK'
        BY <2>m, <1>t, ReleaseType, GotoType
           DEF MoveHeadReturns, TypeOK, Control, AmendLocked
    <2>n. call[p].name \in RefNames /\ HEAD \in RefNames
        BY <1>t DEF TypeOK, Calls, RefNames
    <2>10. CASE LockRef(p)
        BY <2>10, <2>a, <2>m, <2>n, <1>t, <1>f, TakeType, GotoType
           DEF LockRef, TypeOK, Control, AmendLocked, Restamping
    <2>11. CASE LockHead(p)
        BY <2>11, <2>a, <2>m, <2>n, <1>t, <1>f, TakeType, GotoType
           DEF LockHead, TypeOK, Control, AmendLocked, Restamping
    <2>12. CASE VerifyRefs(p)
        BY <2>12, <2>m, <1>t, GotoType
           DEF VerifyRefs, TypeOK, Control, AmendLocked, Restamping
    <2>d. ASSUME call[p].todo # << >>
          PROVE  /\ Head(call[p].todo) \in RefNames
                 /\ Tail(call[p].todo) \in Seq(RefNames)
        BY <2>d, <1>t DEF TypeOK, Calls
    <2>13. CASE ReadLog(p)
        <3> DEFINE log == Head(call[p].todo)
        <3>1. log \in RefNames /\ Tail(call[p].todo) \in Seq(RefNames)
            BY <2>13, <2>d DEF ReadLog
        <3>2. CASE NewestIsOurs(p, reflog[log])
            <4>1. reflog[log] \in Seq(Entries)
                BY <3>1, <1>t DEF TypeOK
            <4>2. call' \in [Procs -> Calls]
                BY <2>13, <3>2, <4>1, <1>t, CallType DEF ReadLog
            <4>3. Take(p, LogFile(log)) /\ Goto(p, "rewrite")
                BY <2>13, <3>2 DEF ReadLog
            <4>4. lock' \in [LockFiles -> Holders]
                BY <4>3, <3>1, <2>a, <1>t, <1>f, TakeType
            <4>5. pc' \in [Procs -> Control]
                BY <4>3, <1>t, GotoType DEF Control, AmendLocked, Restamping
            <4> QED
                BY <2>13, <4>2, <4>4, <4>5, <1>t DEF ReadLog, TypeOK
        <3>3. CASE ~NewestIsOurs(p, reflog[log])
            <4>1. call' = [call EXCEPT ![p].todo = Tail(call[p].todo)]
                BY <2>13, <3>3, <1>t DEF ReadLog, TypeOK
            <4>2. call' \in [Procs -> Calls]
                BY <3>1, <4>1, <1>t, CallType
            <4> QED
                BY <2>13, <3>3, <4>2, <1>t DEF ReadLog, TypeOK
        <3> QED
            BY <3>2, <3>3
    <2>14. CASE RewriteLog(p)
        <3> DEFINE log == Head(call[p].todo)
                   seen == call[p].seen
        <3>1. call[p].todo # << >> /\ seen # << >> /\ seen \in Seq(Entries)
            BY <2>14, <1>t DEF RewriteLog, Known, TypeOK, Calls
        <3>2. log \in RefNames /\ Tail(call[p].todo) \in Seq(RefNames)
            BY <3>1, <2>d
        <3>3. Restamped(p, seen) \in Seq(Entries)
            <4>1. Len(seen) \in 1..Len(seen)
                BY <3>1
            <4>2. seen[Len(seen)] \in Entries
                BY <3>1, <4>1
            <4>3. [seen[Len(seen)] EXCEPT !.stamp = p] \in Entries
                BY <4>2, <2>a DEF Entries
            <4> QED
                BY <3>1, <4>1, <4>3 DEF Restamped
        <3>4. reflog' \in [RefNames -> Seq(Entries)]
            BY <2>14, <3>2, <3>3, <1>t DEF RewriteLog, TypeOK
        <3>5. lock' \in [LockFiles -> Holders]
            BY <2>14, <1>t, ReleaseType DEF RewriteLog
        <3>6. call' \in [Procs -> Calls]
            <4>1. call' = [call EXCEPT ![p] = [call[p] EXCEPT !.todo = Tail(call[p].todo), !.seen = << >>]]
                BY <2>14, <1>t DEF RewriteLog, TypeOK
            <4>2. [call[p] EXCEPT !.todo = Tail(call[p].todo), !.seen = << >>] \in Calls
                <5>1. call[p] \in Calls /\ << >> \in Seq(Entries)
                    BY <1>t DEF TypeOK
                <5> QED
                    BY <3>2, <5>1 DEF Calls
            <4> QED
                BY <4>1, <4>2, <1>t DEF TypeOK
        <3> QED
            BY <2>14, <3>4, <3>5, <3>6, <1>t, GotoType
               DEF RewriteLog, TypeOK, Control, AmendLocked, Restamping
    <2>15. CASE RestampFails(p)
        BY <2>15, <1>t, ThrowType DEF RestampFails
    <2>16. CASE RestampDone(p)
        BY <2>16, <2>m DEF RestampDone
    <2>17. CASE FinishAmend(p)
        BY <2>17, <1>t, ReturnType DEF FinishAmend, TypeOK
    <2> QED
        BY <1>1, <2>1, <2>2, <2>3, <2>4, <2>5, <2>6, <2>7, <2>8, <2>9, <2>10,
           <2>11, <2>12, <2>13, <2>14, <2>15, <2>16, <2>17 DEF Amend
<1>2. ASSUME NEW p \in Procs, Commit(p) PROVE TypeOK'
    <2>a. p \in Actors /\ Len(objects) \in Nat
        BY <1>t DEF Actors, TypeOK
    <2>1. CASE BeginCommit(p)
        <3>1. HandleIndex(p) \in Caches
            BY <1>t, CacheType
        <3> QED
            BY <2>1, <3>1, <1>t, GotoType DEF BeginCommit, TypeOK, Control
    <2>2. ASSUME NEW e \in BOOLEAN, BuildTree(p, e) PROVE TypeOK'
        <3>1. CASE Throw(p)
            BY <3>1, <1>t, ThrowType
        <3>2. CASE ~Throw(p)
            BY <2>2, <3>2, <1>t, <1>h, CallType, GotoType DEF BuildTree, TypeOK, Control
        <3> QED
            BY <3>1, <3>2
    <2>3. CASE CreateCommit(p)
        <3>1. CASE lock[RefFile(head)] = Free /\ HeadCommit = call[p].old
            <4>1. mem[p].holds \in Trees /\ call[p].old \in Nat /\ NoCommit \in Nat
                BY <2>3, <1>t DEF CreateCommit, Known, TypeOK, Calls, NoCommit
            <4>2. objects' \in Seq(Objects)
                BY <2>3, <3>1, <4>1, <1>t, CreateType DEF CreateCommit
            <4>3. /\ ref' \in [RefNames -> Nat]
                  /\ reflog' \in [RefNames -> Seq(Entries)]
                <5>1. head \in RefNames /\ Len(objects) + 1 \in Nat
                    BY <2>a, <1>t DEF TypeOK
                <5>2. UpdateRef(head, Len(objects) + 1, "commit", p, Config)
                    BY <2>3, <3>1 DEF CreateCommit
                <5> QED
                    BY <2>a, <5>1, <5>2, <1>t, UpdateRefType DEF Why
            <4> QED
                BY <2>3, <3>1, <4>2, <4>3, <1>t, ReturnType DEF CreateCommit, TypeOK
        <3>2. CASE ~(lock[RefFile(head)] = Free /\ HeadCommit = call[p].old)
            BY <2>3, <3>2, <1>t, ThrowType DEF CreateCommit
        <3> QED
            BY <3>1, <3>2
    <2> QED
        BY <1>2, <2>1, <2>2, <2>3 DEF Commit
<1>3. ASSUME NEW p \in Procs, Crash(p) PROVE TypeOK'
    BY <1>3, <1>t, GotoType, NoCallType DEF Crash, TypeOK, Control
<1>4. ASSUME NEW p \in Procs, Restart(p) PROVE TypeOK'
    BY <1>4, <1>t, GotoType, ReleaseType, CacheType DEF Restart, TypeOK, Control
<1>6. ASSUME NEW p \in Procs, Stages(p) PROVE TypeOK'
    <2>1. PICK t \in Trees :
            \/ index' = t /\ mem' = [mem EXCEPT ![p] = ReadFrom(t)]
            \/ /\ mem' = [mem EXCEPT ![p] = [HandleIndex(p) EXCEPT !.holds = t]]
               /\ UNCHANGED index
        BY <1>6 DEF Stages
    <2>2. t \in IndexStates /\ ReadFrom(t) \in Caches
        BY <1>t, CacheType DEF IndexStates
    <2>3. HandleIndex(p) \in Caches
        BY <1>t, CacheType
    <2>4. [HandleIndex(p) EXCEPT !.holds = t] \in Caches
        BY <2>2, <2>3 DEF Caches
    <2>5. mem' \in [Procs -> Caches \cup {NoIndex}] /\ index' \in IndexStates
        BY <2>1, <2>2, <2>4, <1>t DEF TypeOK
    <2>6. steps' \in Nat
        BY <1>6, <1>t DEF Stages, SideStep, TypeOK
    <2> QED
        BY <1>6, <2>5, <2>6, <1>t DEF Stages, TypeOK
<1>5. CASE OtherGit
    <2>g. Git \in Actors /\ Git \in Holders
        BY DEF Actors, Holders
    <2>s. SideStep => steps' \in Nat
        BY <1>t DEF SideStep, TypeOK
    <2>1. CASE GitLocksIndex
        BY <2>1, <2>g, <2>s, <1>t, <1>f, TakeType DEF GitLocksIndex, TypeOK
    <2>2. CASE GitWritesIndex
        <3>1. lock' \in [LockFiles -> Holders]
            BY <2>2, <1>t, ReleaseType DEF GitWritesIndex
        <3>2. stateFiles' \in SUBSET StateFiles
            BY <2>2, <1>t DEF GitWritesIndex, TypeOK
        <3> QED
            BY <2>2, <3>1, <3>2, <1>t DEF GitWritesIndex, TypeOK
    <2>3. ASSUME NEW r \in RefNames, GitLocksRef(r) PROVE TypeOK'
        BY <2>3, <2>g, <2>s, <1>t DEF GitLocksRef, TypeOK
    <2>4. ASSUME NEW r \in RefNames, GitMovesRef(r) PROVE TypeOK'
        <3>1. PICK t \in Trees : Create(ref[r], NoCommit, t)
            BY <2>4 DEF GitMovesRef
        <3>2. ref[r] \in Nat /\ NoCommit \in Nat /\ Len(objects) + 1 \in Nat
            BY <1>t DEF TypeOK, NoCommit
        <3>3. objects' \in Seq(Objects)
            BY <3>1, <3>2, <1>t, CreateType
        <3>4. /\ ref' \in [RefNames -> Nat]
              /\ reflog' \in [RefNames -> Seq(Entries)]
            BY <2>4, <2>g, <3>2, <1>t, UpdateRefType DEF GitMovesRef, Why
        <3>5. lock' \in [LockFiles -> Holders]
            BY <2>4, <1>t, ReleaseType DEF GitMovesRef
        <3> QED
            BY <2>4, <3>3, <3>4, <3>5, <1>t DEF GitMovesRef, TypeOK
    <2>5. ASSUME NEW r \in RefNames, GitExpires(r) PROVE TypeOK'
        BY <2>5, <2>s, <1>t DEF GitExpires, TypeOK
    <2>6. CASE GitSwitches
        <3>1. PICK r \in RefNames :
                /\ head' = r
                /\ ref' = [ref EXCEPT ![r] = IF r # HEAD /\ ref[r] # NoCommit THEN @ ELSE HeadCommit]
                /\ reflog' = [reflog EXCEPT ![HEAD] =
                        Append(@, [old |-> HeadCommit, new |-> ref'[r], why |-> "checkout",
                                   by |-> Git, stamp |-> Git])]
            BY <2>6 DEF GitSwitches
        <3>2. ref' \in [RefNames -> Nat] /\ HEAD \in RefNames
            BY <3>1, <1>h, <1>t DEF TypeOK, RefNames
        <3>3. [old |-> HeadCommit, new |-> ref'[r], why |-> "checkout", by |-> Git, stamp |-> Git]
                \in Entries
            BY <3>2, <2>g, <1>h DEF Entries, Why
        <3>4. reflog' \in [RefNames -> Seq(Entries)]
            BY <3>1, <3>2, <3>3, <1>t DEF TypeOK
        <3> QED
            BY <2>6, <2>s, <3>1, <3>2, <3>4, <1>t DEF GitSwitches, TypeOK
    <2>7. CASE GitOrphans
        BY <2>7, <2>s, <1>t DEF GitOrphans, TypeOK, RefNames
    <2> QED
        BY <1>5, <2>1, <2>2, <2>3, <2>4, <2>5, <2>6, <2>7 DEF OtherGit
<1> QED
    BY <1>1, <1>2, <1>3, <1>4, <1>5, <1>6 DEF Next

-----------------------------------------------------------------------------
(* Locks.                                                                  *)

\* The lock files of the index, the refs and the logs are different files.
LEMMA Files ==
    /\ IndexFile \in LockFiles
    /\ \A r \in RefNames :
        /\ RefFile(r) \in LockFiles /\ LogFile(r) \in LockFiles
        /\ RefFile(r) # IndexFile /\ LogFile(r) # IndexFile
        /\ \A s \in RefNames : RefFile(r) # LogFile(s)
BY DEF LockFiles, IndexFile, RefFile, LogFile

\* A process whose pc and locks a step leaves alone stays disciplined.
LEMMA LockFrame ==
    ASSUME NEW q \in Procs, Disciplined(q), pc'[q] = pc[q],
           \A f \in LockFiles : lock'[f] = q <=> lock[f] = q
    PROVE  Disciplined(q)'
BY Files DEF Disciplined

\* Releasing locks of one actor is nothing to the others.
LEMMA ReleaseFrame ==
    ASSUME TypeOK, NEW p \in Actors, NEW q \in Procs, q # p, NEW fs, Release(p, fs)
    PROVE  \A f \in LockFiles : lock'[f] = q <=> lock[f] = q
BY ConstantsAssumption DEF TypeOK, Release

\* A call that returns lets go of all it holds, as being idle requires, and
\* of nothing that another holds.
LEMMA ReturnLocks ==
    ASSUME TypeOK, LockDiscipline, NEW p \in Procs, Goto(p, "idle"), Release(p, LockFiles),
           NEW q \in Procs
    PROVE  Disciplined(q)'
<1>1. CASE q = p
    <2>1. pc'[q] = "idle"
        BY <1>1 DEF TypeOK, Goto
    <2>2. \A f \in LockFiles : lock'[f] # q
        BY <1>1, ConstantsAssumption DEF Release
    <2> QED
        BY <2>1, <2>2, Files DEF Disciplined, AmendLocked, Restamping
<1>2. CASE q # p
    <2>1. pc'[q] = pc[q]
        BY <1>2 DEF TypeOK, Goto
    <2>2. p \in Actors
        BY DEF Actors
    <2> QED
        BY <1>2, <2>1, <2>2, ReleaseFrame, LockFrame DEF LockDiscipline
<1> QED
    BY <1>1, <1>2

\* Every step keeps the locks with those whose program counter needs them.
LEMMA LockStep == IInv /\ Next => LockDiscipline'
<1> SUFFICES ASSUME IInv, Next, NEW q \in Procs
             PROVE  Disciplined(q)'
    BY DEF LockDiscipline
<1>t. TypeOK /\ LockDiscipline /\ Disciplined(q)
    BY DEF IInv, LockDiscipline
<1>p. \A p \in Procs : p \in Actors /\ p # Free /\ p # Git
    BY ConstantsAssumption DEF Actors
<1>s. ASSUME pc'[q] = pc[q], UNCHANGED lock PROVE Disciplined(q)'
    BY <1>s, <1>t, LockFrame
<1>1. ASSUME NEW p \in Procs, Amend(p) PROVE Disciplined(q)'
    <2>t. ASSUME Throw(p) PROVE Disciplined(q)'
        BY <2>t, <1>t, ReturnLocks DEF Throw, Return
    <2>g. ASSUME NEW l \in Control, Goto(p, l), q # p PROVE pc'[q] = pc[q]
        BY <2>g, <1>t DEF TypeOK, Goto
    <2>k. ASSUME NEW l \in Control, Goto(p, l), UNCHANGED lock,
                 pc[p] \in AmendLocked <=> l \in AmendLocked,
                 pc[p] \in Restamping => l \in Restamping, pc[p] # "rewrite", pc[p] # "dead"
          PROVE  Disciplined(q)'
        BY <2>k, <1>t DEF TypeOK, Goto, Disciplined
    <2>l. ASSUME NEW f \in LockFiles, Take(p, f), q # p
          PROVE  \A g \in LockFiles : lock'[g] = q <=> lock[g] = q
        BY <2>l, <1>t, <1>p DEF TypeOK, Take
    <2>1. CASE BeginAmend(p)
        BY <2>1, <2>k DEF BeginAmend, AmendLocked, Restamping, Control
    <2>2. CASE CheckState(p)
        <3>1. CASE Throw(p)
            BY <3>1, <2>t
        <3>2. CASE ~Throw(p)
            BY <2>2, <3>2, <2>k DEF CheckState, AmendLocked, Restamping, Control
        <3> QED
            BY <3>1, <3>2
    <2>3. CASE AcquireIndexLock(p)
        <3>1. CASE Throw(p)
            BY <3>1, <2>t
        <3>2. CASE ~Throw(p)
            <4>1. Take(p, IndexFile) /\ Goto(p, "read") /\ pc[p] = "lock"
                BY <2>3, <3>2 DEF AcquireIndexLock
            <4>2. CASE q = p
                <5>1. pc'[q] = "read" /\ lock'[IndexFile] = q
                    BY <4>1, <4>2, <1>t, Files DEF TypeOK, Goto, Take
                <5>2. \A r \in RefNames : lock'[RefFile(r)] = lock[RefFile(r)]
                                         /\ lock'[LogFile(r)] = lock[LogFile(r)]
                    BY <4>1, <1>t, Files DEF TypeOK, Take
                <5> QED
                    BY <4>1, <4>2, <5>1, <5>2, <1>t
                       DEF Disciplined, AmendLocked, Restamping
            <4>3. CASE q # p
                BY <4>1, <4>3, <2>g, <2>l, <1>t, Files, LockFrame
                   DEF Control, AmendLocked
            <4> QED
                BY <4>2, <4>3
        <3> QED
            BY <3>1, <3>2
    <2>4. CASE ReadIndex(p)
        <3>1. CASE Return(p)
            BY <3>1, <1>t, ReturnLocks DEF Return
        <3>2. CASE ~Return(p)
            BY <2>4, <3>2, <2>k DEF ReadIndex, AmendLocked, Restamping, Control
        <3> QED
            BY <3>1, <3>2
    <2>5. CASE RefuseAmend(p)
        BY <2>5, <2>t DEF RefuseAmend
    <2>6. ASSUME NEW e \in BOOLEAN, BuildAmended(p, e) PROVE Disciplined(q)'
        BY <2>6, <2>k DEF BuildAmended, AmendLocked, Restamping, Control
    <2>7. CASE ReadHeadKind(p)
        BY <2>7, <2>k DEF ReadHeadKind, AmendLocked, Restamping, Control
    <2>8. CASE ReadHeadName(p)
        <3>1. CASE Throw(p)
            BY <3>1, <2>t
        <3>2. CASE ~Throw(p)
            BY <2>8, <3>2, <2>k DEF ReadHeadName, AmendLocked, Restamping, Control
        <3> QED
            BY <3>1, <3>2
    <2>9. CASE MoveHead(p)
        <3>1. CASE Throw(p)
            BY <3>1, <2>t
        <3>2. CASE ~Throw(p)
            BY <2>9, <3>2, <2>k DEF MoveHead, AmendLocked, Restamping, Control
        <3> QED
            BY <3>1, <3>2
    <2>m. ASSUME MoveHeadReturns(p), pc[p] \in Restamping PROVE Disciplined(q)'
        <3>1. CASE q = p
            <4>1. pc'[q] = "finish" /\ lock'[IndexFile] = lock[IndexFile]
                BY <3>1, <2>m, <1>t, Files DEF TypeOK, MoveHeadReturns, Goto, Release
            <4>2. \A r \in RefNames : lock'[RefFile(r)] # q /\ lock'[LogFile(r)] # q
                BY <3>1, <2>m, <1>p, Files DEF MoveHeadReturns, Release
            <4> QED
                BY <3>1, <2>m, <4>1, <4>2, <1>t DEF Disciplined, AmendLocked
        <3>2. CASE q # p
            <4>1. pc'[q] = pc[q]
                BY <3>2, <2>m, <2>g DEF MoveHeadReturns, Control, AmendLocked
            <4> QED
                BY <3>2, <2>m, <4>1, <1>t, <1>p, ReleaseFrame, LockFrame DEF MoveHeadReturns
        <3> QED
            BY <3>1, <3>2
    <2>r. ASSUME NEW r \in RefNames, NEW l \in Restamping, Take(p, RefFile(r)), Goto(p, l),
                 pc[p] \in Restamping, pc[p] # "rewrite"
          PROVE  Disciplined(q)'
        <3>1. CASE q = p
            <4>1. pc'[q] = l /\ l \in AmendLocked /\ pc[p] \in AmendLocked
                BY <3>1, <2>r, <1>t DEF TypeOK, Goto, AmendLocked
            <4>2. lock'[IndexFile] = lock[IndexFile]
                BY <2>r, <1>t, Files DEF TypeOK, Take
            <4>3. \A s \in RefNames : lock'[LogFile(s)] = lock[LogFile(s)]
                BY <2>r, <1>t, Files DEF TypeOK, Take
            <4>4. pc[q] # "dead"
                BY <3>1, <2>r DEF Restamping
            <4> QED
                BY <3>1, <2>r, <4>1, <4>2, <4>3, <4>4, <1>t DEF Disciplined
        <3>2. CASE q # p
            <4>1. l \in Control
                BY DEF Control, AmendLocked
            <4> QED
                BY <3>2, <2>r, <4>1, <2>g, <2>l, <1>t, Files, LockFrame
        <3> QED
            BY <3>1, <3>2
    <2>n. call[p].name \in RefNames /\ HEAD \in RefNames
        BY <1>t DEF TypeOK, Calls, RefNames
    <2>10. CASE LockRef(p)
        BY <2>10, <2>m, <2>n, <2>r DEF LockRef, Restamping
    <2>11. CASE LockHead(p)
        BY <2>11, <2>m, <2>n, <2>r DEF LockHead, Restamping
    <2>12. CASE VerifyRefs(p)
        <3>1. CASE MoveHeadReturns(p)
            BY <2>12, <3>1, <2>m DEF VerifyRefs, Restamping
        <3>2. CASE ~MoveHeadReturns(p)
            BY <2>12, <3>2, <2>k DEF VerifyRefs, AmendLocked, Restamping, Control
        <3> QED
            BY <3>1, <3>2
    <2>13. CASE ReadLog(p)
        <3> DEFINE log == Head(call[p].todo)
        <3>1. log \in RefNames /\ pc[p] = "restamp"
            BY <2>13, <1>t DEF ReadLog, TypeOK, Calls
        <3>2. CASE UNCHANGED <<lock, pc>>
            BY <3>2, <1>s
        <3>3. CASE ~UNCHANGED <<lock, pc>>
            <4>1. Take(p, LogFile(log)) /\ Goto(p, "rewrite")
                BY <2>13, <3>3 DEF ReadLog
            <4>2. CASE q = p
                <5>1. pc'[q] = "rewrite" /\ lock'[IndexFile] = lock[IndexFile]
                    BY <4>1, <4>2, <3>1, <1>t, Files DEF TypeOK, Goto, Take
                <5> QED
                    BY <4>2, <3>1, <5>1, <1>t DEF Disciplined, AmendLocked, Restamping
            <4>3. CASE q # p
                BY <4>1, <4>3, <3>1, <2>g, <2>l, <1>t, Files, LockFrame
                   DEF Control, AmendLocked, Restamping
            <4> QED
                BY <4>2, <4>3
        <3> QED
            BY <3>2, <3>3
    <2>14. CASE RewriteLog(p)
        <3> DEFINE log == Head(call[p].todo)
        <3>1. Release(p, {LogFile(log)}) /\ Goto(p, "restamp") /\ pc[p] = "rewrite"
            BY <2>14 DEF RewriteLog
        <3>2. CASE q = p
            <4>1. call[p].todo # << >> /\ log \in RefNames
                <5>1. Known(p) /\ call[p].todo \in Seq(RefNames)
                    BY <1>t DEF IInv, TypeOK, Calls
                <5> QED
                    BY <3>1, <5>1 DEF Known
            <4>2. pc'[q] = "restamp" /\ lock'[IndexFile] = lock[IndexFile]
                BY <3>1, <3>2, <4>1, <1>t, Files DEF TypeOK, Goto, Release
            <4>3. \A r \in RefNames : lock'[LogFile(r)] # q
                <5>1. \A r \in RefNames : lock[LogFile(r)] = p => r = log
                    BY <3>1 DEF IInv, Known
                <5> QED
                    BY <3>1, <3>2, <5>1, <1>p, Files DEF Release
            <4> QED
                BY <3>1, <3>2, <4>2, <4>3, <1>t DEF Disciplined, AmendLocked, Restamping
        <3>3. CASE q # p
            <4>1. pc'[q] = pc[q]
                BY <3>1, <3>3, <2>g DEF Control, AmendLocked, Restamping
            <4> QED
                BY <3>1, <3>3, <4>1, <1>t, <1>p, ReleaseFrame, LockFrame
        <3> QED
            BY <3>2, <3>3
    <2>15. CASE RestampFails(p)
        BY <2>15, <2>t DEF RestampFails
    <2>16. CASE RestampDone(p)
        BY <2>16, <2>m DEF RestampDone, Restamping
    <2>17. CASE FinishAmend(p)
        BY <2>17, <1>t, ReturnLocks DEF FinishAmend, Return
    <2> QED
        BY <1>1, <2>1, <2>2, <2>3, <2>4, <2>5, <2>6, <2>7, <2>8, <2>9, <2>10,
           <2>11, <2>12, <2>13, <2>14, <2>15, <2>16, <2>17 DEF Amend
<1>2. ASSUME NEW p \in Procs, Commit(p) PROVE Disciplined(q)'
    <2>t. ASSUME Return(p) PROVE Disciplined(q)'
        BY <2>t, <1>t, ReturnLocks DEF Return
    <2>k. ASSUME NEW l \in {"tree", "create"}, Goto(p, l), UNCHANGED lock,
                 pc[p] \in {"idle", "tree"}
          PROVE  Disciplined(q)'
        BY <2>k, <1>t DEF TypeOK, Goto, Disciplined, AmendLocked, Restamping
    <2>1. CASE BeginCommit(p)
        BY <2>1, <2>k DEF BeginCommit
    <2>2. ASSUME NEW e \in BOOLEAN, BuildTree(p, e) PROVE Disciplined(q)'
        <3>1. CASE Throw(p)
            BY <3>1, <2>t DEF Throw
        <3>2. CASE ~Throw(p)
            BY <2>2, <3>2, <2>k DEF BuildTree
        <3> QED
            BY <3>1, <3>2
    <2>3. CASE CreateCommit(p)
        BY <2>3, <2>t DEF CreateCommit, Throw
    <2> QED
        BY <1>2, <2>1, <2>2, <2>3 DEF Commit
<1>3. ASSUME NEW p \in Procs, Crash(p) PROVE Disciplined(q)'
    <2>1. CASE q = p
        BY <1>3, <2>1, <1>t DEF Crash, Goto, TypeOK, Disciplined, AmendLocked, Restamping
    <2>2. CASE q # p
        <3>1. pc'[q] = pc[q]
            BY <1>3, <2>2, <1>t DEF Crash, Goto, TypeOK
        <3> QED
            BY <1>3, <3>1, <1>s DEF Crash
    <2> QED
        BY <2>1, <2>2
<1>4. ASSUME NEW p \in Procs, Restart(p) PROVE Disciplined(q)'
    BY <1>4, <1>t, ReturnLocks DEF Restart
<1>6. ASSUME NEW p \in Procs, Stages(p) PROVE Disciplined(q)'
    BY <1>6, <1>s DEF Stages
<1>5. CASE OtherGit
    <2>a. Git \in Actors
        BY DEF Actors
    <2>f. ASSUME pc'[q] = pc[q], \A f \in LockFiles : lock'[f] = q <=> lock[f] = q
          PROVE  Disciplined(q)'
        BY <2>f, <1>t, LockFrame
    <2>1. CASE GitLocksIndex
        BY <2>1, <2>f, <1>t, <1>p DEF GitLocksIndex, Take, TypeOK
    <2>2. CASE GitWritesIndex
        BY <2>2, <2>a, <2>f, <1>t, <1>p, ReleaseFrame DEF GitWritesIndex
    <2>3. ASSUME NEW r \in RefNames, GitLocksRef(r) PROVE Disciplined(q)'
        BY <2>3, <2>f, <1>t, <1>p DEF GitLocksRef, TypeOK
    <2>4. ASSUME NEW r \in RefNames, GitMovesRef(r) PROVE Disciplined(q)'
        BY <2>4, <2>a, <2>f, <1>t, <1>p, ReleaseFrame DEF GitMovesRef
    <2>5. ASSUME NEW r \in RefNames, GitExpires(r) PROVE Disciplined(q)'
        BY <2>5, <1>s DEF GitExpires
    <2>6. CASE GitSwitches
        BY <2>6, <1>s DEF GitSwitches
    <2>7. CASE GitOrphans
        BY <2>7, <1>s DEF GitOrphans
    <2> QED
        BY <1>5, <2>1, <2>2, <2>3, <2>4, <2>5, <2>6, <2>7 DEF OtherGit
<1> QED
    BY <1>1, <1>2, <1>3, <1>4, <1>5, <1>6 DEF Next

-----------------------------------------------------------------------------
(* What the calls know.                                                    *)

\* Commits are only added, and a step that adds one adds it at the end.
LEMMA ObjectsStep ==
    ASSUME IInv, Next
    PROVE  /\ Len(objects') \in Nat /\ Len(objects') >= Len(objects)
           /\ \A c \in 1..Len(objects) : objects'[c] = objects[c]
           /\ \/ objects' = objects
              \/ Len(objects') = Len(objects) + 1
<1>t. TypeOK /\ TypeOK' /\ \A p \in Procs : Known(p)
    BY TypeStep DEF IInv
<1>1. \/ UNCHANGED objects
      \/ \E parent, amends \in Nat, tree \in Trees : Create(parent, amends, tree)
    <2>1. ASSUME NEW p \in Procs, NEW e \in BOOLEAN, BuildAmended(p, e)
          PROVE  \E parent, amends \in Nat, tree \in Trees : Create(parent, amends, tree)
        <3>1. call[p].old \in 1..Len(objects) /\ mem[p].holds \in Trees
            BY <2>1, <1>t DEF BuildAmended, Known
        <3>2. objects[call[p].old] \in Objects
            BY <3>1, <1>t DEF TypeOK
        <3> QED
            BY <2>1, <3>1, <3>2 DEF BuildAmended, Objects
    <2>2. ASSUME NEW p \in Procs, CreateCommit(p)
          PROVE  \/ UNCHANGED objects
                 \/ \E parent, amends \in Nat, tree \in Trees : Create(parent, amends, tree)
        <3>1. mem[p].holds \in Trees /\ call[p].old \in Nat /\ NoCommit \in Nat
            BY <2>2, <1>t DEF CreateCommit, Known, TypeOK, Calls, NoCommit
        <3> QED
            BY <2>2, <3>1 DEF CreateCommit, Throw, repoVars
    <2>3. ASSUME NEW r \in RefNames, GitMovesRef(r)
          PROVE  \E parent, amends \in Nat, tree \in Trees : Create(parent, amends, tree)
        <3>1. ref[r] \in Nat /\ NoCommit \in Nat
            BY <1>t DEF TypeOK, NoCommit
        <3> QED
            BY <2>3, <3>1 DEF GitMovesRef
    <2>4. ASSUME NEW p \in Procs, Amend(p), UNCHANGED objects \/ ~UNCHANGED objects
          PROVE  UNCHANGED objects \/ \E e \in BOOLEAN : BuildAmended(p, e)
        BY <2>4 DEF Amend, BeginAmend, CheckState, AcquireIndexLock, ReadIndex, RefuseAmend,
            ReadHeadKind, ReadHeadName, MoveHead, LockRef, LockHead, VerifyRefs, ReadLog,
            RewriteLog, RestampFails, RestampDone, FinishAmend, Throw, MoveHeadReturns, repoVars
    <2>5. ASSUME NEW p \in Procs, Commit(p)
          PROVE  UNCHANGED objects \/ CreateCommit(p)
        BY <2>5 DEF Commit, BeginCommit, BuildTree, Throw, repoVars
    <2>6. ASSUME OtherGit
          PROVE  UNCHANGED objects \/ \E r \in RefNames : GitMovesRef(r)
        BY <2>6 DEF OtherGit, GitLocksIndex, GitWritesIndex, GitLocksRef, GitExpires,
            GitSwitches, GitOrphans, repoVars
    <2>7. ASSUME NEW p \in Procs, Stages(p) \/ Crash(p) \/ Restart(p)
          PROVE  UNCHANGED objects
        BY <2>7 DEF Stages, Crash, Restart, repoVars
    <2> QED
        BY <2>1, <2>2, <2>3, <2>4, <2>5, <2>6, <2>7 DEF Next
<1>2. CASE UNCHANGED objects
    <2>1. Len(objects) \in Nat
        BY <1>t DEF TypeOK
    <2> QED
        BY <1>2, <2>1
<1>3. ASSUME NEW parent \in Nat, NEW amends \in Nat, NEW tree \in Trees,
             Create(parent, amends, tree)
      PROVE  /\ Len(objects') = Len(objects) + 1 /\ Len(objects) \in Nat
             /\ \A c \in 1..Len(objects) : objects'[c] = objects[c]
    <2>1. Len(objects) \in Nat
        BY <1>t DEF TypeOK
    <2> QED
        BY <1>3, <2>1, <1>t, CreateType
<1> QED
    BY <1>1, <1>2, <1>3

\* A step of p touches no other process's pc, handle, locals or locks, nor
\* the index.
LEMMA OthersFrame ==
    ASSUME TypeOK, NEW p \in Procs, NEW q \in Procs, q # p,
           Amend(p) \/ Commit(p) \/ Crash(p) \/ Restart(p)
    PROVE  /\ pc'[q] = pc[q] /\ mem'[q] = mem[q] /\ call'[q] = call[q]
           /\ index' = index
           /\ \A f \in LockFiles : lock'[f] = q => lock[f] = q
<1> USE DEF TypeOK, Goto, repoVars
<1>p. p \in Actors /\ q # Free
    BY ConstantsAssumption DEF Actors
<1>r. ASSUME NEW fs, Release(p, fs) PROVE \A f \in LockFiles : lock'[f] = q => lock[f] = q
    BY <1>p, <1>r DEF Release
<1>m. ASSUME NEW f, Take(p, f) PROVE \A g \in LockFiles : lock'[g] = q => lock[g] = q
    BY <1>m DEF Take
<1>t. ASSUME Return(p)
      PROVE  /\ pc'[q] = pc[q] /\ call'[q] = call[q]
             /\ \A f \in LockFiles : lock'[f] = q => lock[f] = q
    BY <1>t, <1>r DEF Return
<1>1. CASE \/ BeginAmend(p) \/ CheckState(p) \/ ReadIndex(p) \/ RefuseAmend(p)
           \/ ReadHeadKind(p) \/ ReadHeadName(p) \/ FinishAmend(p)
    BY <1>1, <1>t DEF BeginAmend, CheckState, ReadIndex, RefuseAmend, ReadHeadKind,
        ReadHeadName, FinishAmend, Throw
<1>2. CASE AcquireIndexLock(p)
    BY <1>2, <1>t, <1>m DEF AcquireIndexLock, Throw
<1>3. ASSUME NEW e \in BOOLEAN, BuildAmended(p, e)
      PROVE  /\ pc'[q] = pc[q] /\ mem'[q] = mem[q] /\ call'[q] = call[q]
             /\ index' = index /\ UNCHANGED lock
    BY <1>3 DEF BuildAmended
<1>4. CASE MoveHead(p)
    BY <1>4, <1>t DEF MoveHead, Throw
<1>5. CASE LockRef(p) \/ LockHead(p) \/ VerifyRefs(p) \/ RestampDone(p)
    BY <1>5, <1>m, <1>r DEF LockRef, LockHead, VerifyRefs, RestampDone, MoveHeadReturns
<1>6. CASE ReadLog(p)
    BY <1>6, <1>m DEF ReadLog
<1>7. CASE RewriteLog(p)
    BY <1>7, <1>r DEF RewriteLog
<1>8. CASE RestampFails(p)
    BY <1>8, <1>t DEF RestampFails, Throw
<1>9. CASE Commit(p)
    <2>1. CASE BeginCommit(p)
        BY <2>1 DEF BeginCommit
    <2>2. ASSUME NEW e \in BOOLEAN, BuildTree(p, e)
          PROVE  /\ pc'[q] = pc[q] /\ mem'[q] = mem[q] /\ call'[q] = call[q]
                 /\ index' = index
                 /\ \A f \in LockFiles : lock'[f] = q => lock[f] = q
        BY <2>2, <1>t DEF BuildTree, Throw
    <2>3. CASE CreateCommit(p)
        BY <2>3, <1>t DEF CreateCommit, Throw
    <2> QED
        BY <1>9, <2>1, <2>2, <2>3 DEF Commit
<1>10. CASE Crash(p) \/ Restart(p)
    BY <1>10, <1>r DEF Crash, Restart
<1> QED
    BY <1>1, <1>2, <1>3, <1>4, <1>5, <1>6, <1>7, <1>8, <1>9, <1>10 DEF Amend

\* What a process knows stays true in a step that leaves its call, its cached
\* index and, while it holds the lock, the index file alone.
LEMMA KnownFrame ==
    ASSUME IInv, Next, NEW q \in Procs,
           pc'[q] = pc[q], mem'[q] = mem[q],
           call'[q].old = call[q].old, call'[q].new = call[q].new,
           call'[q].todo = call[q].todo, call'[q].seen = call[q].seen,
           index' = index \/ pc[q] \notin AmendLocked,
           \A f \in LockFiles : lock'[f] = q => lock[f] = q
    PROVE  Known(q)'
<1>1. Known(q)
    BY DEF IInv
<1>2. \A r \in RefNames : lock'[LogFile(r)] = q => lock[LogFile(r)] = q
    BY Files
<1>3. 1..Len(objects) \subseteq 1..Len(objects')
    BY ObjectsStep
<1> QED
    BY <1>1, <1>2, <1>3, ObjectsStep DEF Known, AmendLocked

\* Refs keep naming commits that exist.
LEMMA RefsStep == IInv /\ Next => RefsHold'
<1> SUFFICES ASSUME IInv, Next, NEW r \in RefNames
             PROVE  ref'[r] \in 0..Len(objects')
    BY DEF RefsHold
<1>t. /\ TypeOK /\ \A p \in Procs : Known(p)
      /\ \A s \in RefNames : ref[s] \in 0..Len(objects)
      /\ head \in RefNames
    BY DEF IInv, RefsHold, TypeOK
<1>o. 0..Len(objects) \subseteq 0..Len(objects') /\ Len(objects') \in 0..Len(objects')
    BY ObjectsStep
<1>u. ASSUME ref' = ref PROVE ref'[r] \in 0..Len(objects')
    BY <1>u, <1>t, <1>o
<1>m. ASSUME NEW s \in RefNames, NEW c \in 0..Len(objects'), NEW why, NEW by, NEW stamp,
             UpdateRef(s, c, why, by, stamp)
      PROVE  ref'[r] \in 0..Len(objects')
    BY <1>m, <1>t, <1>o DEF UpdateRef, TypeOK
<1>c. ASSUME NEW parent \in Nat, NEW amends \in Nat, NEW tree \in Trees,
             Create(parent, amends, tree)
      PROVE  Len(objects) + 1 \in 0..Len(objects')
    BY <1>c, <1>t, <1>o, CreateType
<1>1. ASSUME NEW p \in Procs, Amend(p) PROVE ref'[r] \in 0..Len(objects')
    <2>1. CASE MoveHead(p)
        <3>1. call[p].new \in 1..Len(objects) /\ call[p].name \in RefNames
            BY <2>1, <1>t DEF MoveHead, Known, TypeOK, Calls
        <3>2. call[p].new \in 0..Len(objects')
            BY <3>1, <1>o
        <3> QED
            BY <2>1, <3>1, <3>2, <1>m, <1>u DEF MoveHead, Throw, repoVars
    <2>2. CASE ~MoveHead(p)
        <3>1. ref' = ref
            BY <1>1, <2>2 DEF Amend, BeginAmend, CheckState, AcquireIndexLock, ReadIndex,
               RefuseAmend, BuildAmended, ReadHeadKind, ReadHeadName, LockRef, LockHead,
               VerifyRefs, ReadLog, RewriteLog, RestampFails, RestampDone, FinishAmend, Throw,
               MoveHeadReturns, repoVars
        <3> QED
            BY <3>1, <1>u
    <2> QED
        BY <2>1, <2>2
<1>2. ASSUME NEW p \in Procs, Commit(p) PROVE ref'[r] \in 0..Len(objects')
    <2>1. CASE CreateCommit(p)
        <3>1. mem[p].holds \in Trees /\ call[p].old \in Nat /\ NoCommit \in Nat
            BY <2>1, <1>t DEF CreateCommit, Known, TypeOK, Calls, NoCommit
        <3>2. CASE UNCHANGED ref
            BY <3>2, <1>u
        <3>3. CASE ~UNCHANGED ref
            <4>1. /\ Create(call[p].old, NoCommit, mem[p].holds)
                  /\ UpdateRef(head, Len(objects) + 1, "commit", p, Config)
                BY <2>1, <3>3 DEF CreateCommit, Throw, repoVars
            <4>2. Len(objects) + 1 \in 0..Len(objects')
                BY <3>1, <4>1, <1>c
            <4> QED
                BY <4>1, <4>2, <1>t, <1>m
        <3> QED
            BY <3>2, <3>3
    <2>2. CASE ~CreateCommit(p)
        BY <1>2, <2>2, <1>u DEF Commit, BeginCommit, BuildTree, Throw, repoVars
    <2> QED
        BY <2>1, <2>2
<1>3. ASSUME NEW p \in Procs, Stages(p) \/ Crash(p) \/ Restart(p)
      PROVE  ref'[r] \in 0..Len(objects')
    BY <1>3, <1>u DEF Stages, Crash, Restart, repoVars
<1>4. CASE OtherGit
    <2>1. ASSUME NEW s \in RefNames, GitMovesRef(s) PROVE ref'[r] \in 0..Len(objects')
        <3>1. PICK t \in Trees : Create(ref[s], NoCommit, t)
            BY <2>1 DEF GitMovesRef
        <3>2. ref[s] \in Nat /\ NoCommit \in Nat
            BY <1>t DEF TypeOK, NoCommit
        <3>3. Len(objects) + 1 \in 0..Len(objects')
            BY <3>1, <3>2, <1>c
        <3> QED
            BY <2>1, <3>3, <1>m DEF GitMovesRef
    <2>2. CASE GitSwitches
        BY <2>2, <1>t, <1>o DEF GitSwitches, HeadCommit, TypeOK
    <2>3. ASSUME ~GitSwitches, \A s \in RefNames : ~GitMovesRef(s)
          PROVE  ref'[r] \in 0..Len(objects')
        BY <1>4, <2>3, <1>u DEF OtherGit, GitLocksIndex, GitWritesIndex, GitLocksRef,
            GitExpires, GitOrphans, repoVars
    <2> QED
        BY <2>1, <2>2, <2>3
<1> QED
    BY <1>1, <1>2, <1>3, <1>4 DEF Next

\* Every step keeps what each process knows at its program counter.
LEMMA KnownStep == IInv /\ Next => \A q \in Procs : Known(q)'
<1> SUFFICES ASSUME IInv, Next, NEW q \in Procs
             PROVE  Known(q)'
    OBVIOUS
<1>t. TypeOK /\ Known(q) /\ Disciplined(q) /\ RefsHold
    BY DEF IInv, LockDiscipline
<1>o. 1..Len(objects) \subseteq 1..Len(objects') /\ Len(objects) \in Nat
    BY ObjectsStep, <1>t DEF TypeOK
\* Where nothing is asked of a call.
<1>i. ASSUME NEW l \in {"idle", "dead", "lockRef", "lockHead", "verify", "restamp", "finish"},
             Goto(q, l)
      PROVE  Known(q)'
    BY <1>i, <1>t DEF TypeOK, Goto, Known
<1>r. ASSUME Return(q) PROVE Known(q)'
    BY <1>r, <1>i DEF Return
<1>m. ASSUME MoveHeadReturns(q) PROVE Known(q)'
    BY <1>m, <1>i DEF MoveHeadReturns
\* From one point of an amend to the next, nothing forgotten.
<1>k. ASSUME NEW l \in {"lock", "read", "kind", "name", "move"}, Goto(q, l),
             UNCHANGED <<objects, index, mem>>,
             call'[q].old = call[q].old, call'[q].new = call[q].new,
             l \in {"lock", "read"} => pc[q] \in {"state", "lock", "read"},
             l \in {"kind", "name", "move"} => pc[q] \in {"kind", "name", "move"}
      PROVE  Known(q)'
    BY <1>k, <1>t DEF TypeOK, Goto, Known
<1>1. CASE Amend(q)
    <2>1. CASE BeginAmend(q)
        <3>1. pc'[q] = "state" /\ call'[q].old = HeadCommit /\ objects' = objects
            BY <2>1, <1>t DEF BeginAmend, Goto, TypeOK, repoVars
        <3>2. HeadCommit \in 1..Len(objects)
            BY <2>1, <1>t DEF BeginAmend, HeadCommit, RefsHold, TypeOK, NoCommit
        <3> QED
            BY <3>1, <3>2 DEF Known
    <2>2. CASE CheckState(q)
        BY <2>2, <1>k, <1>r DEF CheckState, Throw, repoVars
    <2>3. CASE AcquireIndexLock(q)
        BY <2>3, <1>k, <1>r DEF AcquireIndexLock, Throw, repoVars
    <2>4. CASE ReadIndex(q)
        <3>0. PICK m \in SoftRead(q) :
                /\ mem' = [mem EXCEPT ![q] = m]
                /\ IF m.holds = Unmerged
                   THEN Return(q)
                   ELSE Goto(q, "build") /\ UNCHANGED <<lock, call>>
            BY <2>4 DEF ReadIndex
        <3>1. CASE m.holds = Unmerged
            BY <3>0, <3>1, <1>r
        <3>2. CASE m.holds # Unmerged
            <4>1. /\ pc'[q] = "build" /\ mem'[q] = m /\ call'[q].old = call[q].old
                  /\ objects' = objects /\ index' = index
                  /\ m.file = index /\ m.holds \in Trees
                <5>1. UNCHANGED <<repoVars, call>>
                    BY <2>4, <3>0, <3>2 DEF ReadIndex
                <5>2. pc'[q] = "build" /\ mem'[q] = m
                    BY <3>0, <3>2, <1>t DEF Goto, TypeOK
                <5>3. m.file = index /\ m.holds \in IndexStates
                    BY <3>0, <1>t, CacheType DEF Caches
                <5> QED
                    BY <3>2, <5>1, <5>2, <5>3 DEF repoVars, IndexStates
            <4> QED
                BY <2>4, <4>1, <1>t DEF ReadIndex, Known
        <3> QED
            BY <3>1, <3>2
    <2>5. CASE RefuseAmend(q)
        BY <2>5, <1>r DEF RefuseAmend, Throw
    <2>6. ASSUME NEW e \in BOOLEAN, BuildAmended(q, e) PROVE Known(q)'
        <3>1. /\ call[q].old \in 1..Len(objects)
              /\ mem[q].holds \in Trees /\ mem[q].file = index
            BY <2>6, <1>t DEF BuildAmended, Known
        <3>2. objects[call[q].old].parent \in Nat
            <4>1. objects[call[q].old] \in Objects
                BY <3>1, <1>t DEF TypeOK
            <4> QED
                BY <4>1 DEF Objects
        <3>3. Create(objects[call[q].old].parent, call[q].old, mem[q].holds)
            BY <2>6 DEF BuildAmended
        <3>4. call[q].old \in Nat
            BY <3>1
        <3>5. /\ Len(objects') = Len(objects) + 1
              /\ \A c \in 1..Len(objects) : objects'[c] = objects[c]
              /\ objects'[Len(objects) + 1] = [parent |-> objects[call[q].old].parent,
                                              amends |-> call[q].old, tree |-> mem[q].holds]
            BY <3>1, <3>2, <3>3, <3>4, <1>t, CreateType
        <3>6. /\ pc'[q] = "kind" /\ mem'[q] = mem[q] /\ index' = index
              /\ call'[q].old = call[q].old /\ call'[q].new = Len(objects) + 1
            BY <2>6, <1>t DEF BuildAmended, Goto, TypeOK
        <3>7. /\ call'[q].new \in 1..Len(objects') /\ call'[q].old \in 1..Len(objects')
              /\ objects'[call'[q].old] = objects[call[q].old]
            BY <3>1, <3>5, <3>6, <1>o
        <3> QED
            BY <3>1, <3>5, <3>6, <3>7 DEF Known
    <2>7. CASE ReadHeadKind(q)
        <3>1. call'[q].old = call[q].old /\ call'[q].new = call[q].new
            BY <2>7, <1>t DEF ReadHeadKind, TypeOK
        <3> QED
            BY <2>7, <3>1, <1>k DEF ReadHeadKind, repoVars
    <2>8. CASE ReadHeadName(q)
        <3>1. CASE HeadCommit = NoCommit
            BY <2>8, <3>1, <1>r DEF ReadHeadName, Throw
        <3>2. CASE HeadCommit # NoCommit
            <4>1. call'[q].old = call[q].old /\ call'[q].new = call[q].new
                <5>1. call' = [call EXCEPT ![q].name = head]
                    BY <2>8, <3>2 DEF ReadHeadName
                <5> QED
                    BY <5>1, <1>t DEF TypeOK
            <4> QED
                BY <2>8, <3>2, <4>1, <1>k DEF ReadHeadName, repoVars
        <3> QED
            BY <3>1, <3>2
    <2>9. CASE MoveHead(q)
        BY <2>9, <1>i, <1>r DEF MoveHead, Throw
    <2>10. CASE LockRef(q) \/ LockHead(q) \/ VerifyRefs(q) \/ RestampDone(q)
        BY <2>10, <1>i, <1>m DEF LockRef, LockHead, VerifyRefs, RestampDone
    <2>11. CASE ReadLog(q)
        <3> DEFINE log == Head(call[q].todo)
        <3>1. CASE UNCHANGED pc
            BY <2>11, <3>1, <1>t DEF ReadLog, Known
        <3>2. CASE ~UNCHANGED pc
            <4>1. /\ call[q].todo # << >> /\ pc[q] = "restamp" /\ Goto(q, "rewrite")
                  /\ NewestIsOurs(q, reflog[log]) /\ Take(q, LogFile(log))
                  /\ call' = [call EXCEPT ![q].seen = reflog[log]]
                BY <2>11, <3>2 DEF ReadLog
            <4>2. /\ call'[q].todo = call[q].todo /\ call'[q].seen = reflog[log]
                  /\ pc'[q] = "rewrite" /\ reflog[log] # << >>
                BY <4>1, <1>t DEF TypeOK, Goto, NewestIsOurs
            <4>3. ASSUME NEW r \in RefNames, lock'[LogFile(r)] = q PROVE r = log
                <5>1. lock[LogFile(r)] # q
                    BY <4>1, <1>t DEF Disciplined
                <5>2. LogFile(r) = LogFile(log)
                    BY <4>1, <4>3, <5>1, <1>t, Files DEF Take, TypeOK
                <5> QED
                    BY <5>2 DEF LogFile
            <4> QED
                BY <4>1, <4>2, <4>3 DEF Known
        <3> QED
            BY <3>1, <3>2
    <2>12. CASE RewriteLog(q)
        BY <2>12, <1>i DEF RewriteLog
    <2>13. CASE RestampFails(q)
        BY <2>13, <1>r DEF RestampFails, Throw
    <2>14. CASE FinishAmend(q)
        BY <2>14, <1>r DEF FinishAmend
    <2> QED
        BY <1>1, <2>1, <2>2, <2>3, <2>4, <2>5, <2>6, <2>7, <2>8, <2>9, <2>10,
           <2>11, <2>12, <2>13, <2>14 DEF Amend
<1>2. CASE Commit(q)
    <2>1. CASE BeginCommit(q)
        <3>1. HandleIndex(q).holds \in IndexStates
            BY <1>t, CacheType DEF Caches
        <3>2. pc'[q] = "tree" /\ mem'[q] = HandleIndex(q)
            BY <2>1, <1>t DEF BeginCommit, Goto, TypeOK
        <3> QED
            BY <3>1, <3>2 DEF Known
    <2>2. ASSUME NEW e \in BOOLEAN, BuildTree(q, e) PROVE Known(q)'
        <3>1. CASE Throw(q)
            BY <3>1, <1>r DEF Throw
        <3>2. CASE ~Throw(q)
            <4>1. /\ pc[q] = "tree" /\ Goto(q, "create") /\ mem' = mem
                  /\ mem[q].holds # Unmerged
                BY <2>2, <3>2 DEF BuildTree
            <4>2. pc'[q] = "create" /\ mem[q].holds \in Trees
                BY <4>1, <1>t DEF Goto, TypeOK, Known, IndexStates
            <4> QED
                BY <4>1, <4>2 DEF Known
        <3> QED
            BY <3>1, <3>2
    <2>3. CASE CreateCommit(q)
        BY <2>3, <1>r DEF CreateCommit, Throw
    <2> QED
        BY <1>2, <2>1, <2>2, <2>3 DEF Commit
<1>3. CASE Crash(q) \/ Restart(q)
    BY <1>3, <1>i DEF Crash, Restart
<1>6. ASSUME NEW p \in Procs, Stages(p) PROVE Known(q)'
    <2>1. CASE p = q
        <3>1. pc'[q] = "idle"
            BY <1>6, <2>1 DEF Stages
        <3> QED
            BY <3>1 DEF Known
    <2>2. CASE p # q
        <3>1. mem'[q] = mem[q] /\ UNCHANGED <<pc, call, lock>>
            BY <1>6, <2>2, <1>t DEF Stages, TypeOK
        <3>2. index' = index \/ pc[q] \notin AmendLocked
            BY <1>6, <1>t, ConstantsAssumption DEF Stages, Disciplined
        <3> QED
            BY <3>1, <3>2, KnownFrame
    <2> QED
        BY <2>1, <2>2
<1>4. ASSUME NEW p \in Procs, p # q, Amend(p) \/ Commit(p) \/ Crash(p) \/ Restart(p)
      PROVE  Known(q)'
    BY <1>4, <1>t, OthersFrame, KnownFrame
<1>5. CASE OtherGit
    <2>p. Git \in Actors /\ q # Git /\ q # Free
        BY ConstantsAssumption DEF Actors
    <2>1. CASE GitWritesIndex
        <3>1. pc[q] \notin AmendLocked
            BY <2>1, <2>p, <1>t DEF GitWritesIndex, Disciplined
        <3>2. \A f \in LockFiles : lock'[f] = q => lock[f] = q
            BY <2>1, <2>p DEF GitWritesIndex, Release
        <3> QED
            BY <2>1, <3>1, <3>2, KnownFrame DEF GitWritesIndex
    <2>2. CASE ~GitWritesIndex
        <3>1. /\ UNCHANGED <<pc, mem, call, index>>
              /\ \A f \in LockFiles : lock'[f] = q => lock[f] = q
            <4>1. CASE GitLocksIndex \/ GitSwitches \/ GitOrphans
                BY <4>1, <2>p, <1>t DEF GitLocksIndex, GitSwitches, GitOrphans, Take, repoVars, TypeOK
            <4>2. ASSUME NEW r \in RefNames, GitLocksRef(r) \/ GitMovesRef(r) \/ GitExpires(r)
                  PROVE  /\ UNCHANGED <<pc, mem, call, index>>
                         /\ \A f \in LockFiles : lock'[f] = q => lock[f] = q
                BY <4>2, <2>p DEF GitLocksRef, GitMovesRef, GitExpires, Release, repoVars
            <4> QED
                BY <1>5, <2>2, <4>1, <4>2 DEF OtherGit
        <3> QED
            BY <3>1, KnownFrame
    <2> QED
        BY <2>1, <2>2
<1> QED
    BY <1>1, <1>2, <1>3, <1>4, <1>5, <1>6 DEF Next

-----------------------------------------------------------------------------
(* The invariant and what follows from it.                                 *)

\* A step that changes nothing keeps the invariant.
LEMMA Stutter == IInv /\ UNCHANGED vars => IInv'
<1> SUFFICES ASSUME IInv, UNCHANGED vars
             PROVE  IInv'
    OBVIOUS
<1> QED
    BY DEF IInv, vars, repoVars, TypeOK, LockDiscipline, Disciplined, RefsHold, Known

\* The invariant holds throughout: types, locks, refs, and what each process
\* of amendDetailed and commitDetailed knows of what it has read.
THEOREM Invariant == Spec => []IInv
<1>1. IInv /\ [Next]_vars => IInv'
    BY TypeStep, LockStep, RefsStep, KnownStep, Stutter DEF IInv
<1> QED
    BY InitInv, <1>1, PTL DEF Spec

\* Every variable keeps its type: no amend ever records an unmerged index as
\* a tree, and no reflog entry is half written.
THEOREM TypeCorrect == Spec => []TypeOK
<1>1. IInv => TypeOK
    BY DEF IInv
<1> QED
    BY Invariant, <1>1, PTL

\* However many processes amend, and wherever they stop, an amend that has
\* read the index holds index.lock, and no call leaves a lock file behind.
THEOREM LocksDisciplined == Spec => []LockDiscipline
<1>1. IInv => LockDiscipline
    BY DEF IInv
<1> QED
    BY Invariant, <1>1, PTL

-----------------------------------------------------------------------------
(* AmendCommit implements AtomicCommits.                                   *)

\* Initial states are initial states of the abstract specification.
LEMMA InitImplements == Init => Atomic!AInit
BY DEF Init, Atomic!AInit, Atomic!Nothing, RefNames, HEAD, NoCommit, NoIndex, NotRead

\* The abstract step of a new commit on r.
LEMMA ExtendImplements ==
    ASSUME TypeOK, NEW r \in RefNames, NEW tree \in Trees, NEW why, NEW by, NEW stamp,
           Create(ref[r], NoCommit, tree), UpdateRef(r, Len(objects) + 1, why, by, stamp),
           UNCHANGED <<head, index, mem>>
    PROVE  Atomic!Extend(r)
<1> DEFINE n == Len(objects) + 1
<1>1. ref[r] \in Nat /\ NoCommit \in Nat /\ Len(objects) \in Nat
    BY DEF TypeOK, NoCommit
<1>2. /\ Len(objects') = n
      /\ objects'[n] = [parent |-> ref[r], amends |-> NoCommit, tree |-> tree]
    BY <1>1, CreateType
<1>3. objects' = Append(objects, objects'[Len(objects')])
    BY <1>2 DEF Create
<1>4. n \in 1..Len(objects') /\ objects'[n].parent = ref[r] /\ objects'[n].amends = 0
    BY <1>1, <1>2 DEF NoCommit
<1>5. ref' = [ref EXCEPT ![r] = n]
    BY DEF UpdateRef
<1> QED
    BY <1>2, <1>3, <1>4, <1>5 DEF Atomic!Extend, Atomic!Add

\* Every step is an abstract step or changes none of its variables.
LEMMA StepImplements == IInv /\ Next => [Atomic!ANext]_(Atomic!avars)
<1> SUFFICES ASSUME IInv, Next
             PROVE  Atomic!ANext \/ UNCHANGED <<objects, ref, head, index, mem>>
    BY DEF Atomic!avars
<1>t. TypeOK /\ RefsHold /\ \A p \in Procs : Known(p)
    BY DEF IInv
<1>n. RefNames = Branches \cup {"HEAD"}
    BY DEF RefNames, HEAD
\* A handle opens the index, reads it again or is gone.
<1>d. ASSUME NEW p \in Procs, NEW m \in {ReadFrom(index), mem[p], NoIndex},
             mem' = [mem EXCEPT ![p] = m], UNCHANGED <<objects, ref, head, index>>
      PROVE  Atomic!ANext \/ UNCHANGED <<objects, ref, head, index, mem>>
    <2>1. CASE m = mem[p]
        BY <1>d, <2>1, <1>t DEF TypeOK
    <2>2. CASE m = ReadFrom(index)
        <3>1. Atomic!Draft(p)
            BY <1>d, <2>2 DEF Atomic!Draft, ReadFrom
        <3> QED
            BY <3>1 DEF Atomic!ANext
    <2>3. CASE m = NoIndex
        <3>1. Atomic!Draft(p)
            BY <1>d, <2>3 DEF Atomic!Draft, Atomic!Nothing, NoIndex, NotRead
        <3> QED
            BY <3>1 DEF Atomic!ANext
    <2> QED
        BY <2>1, <2>2, <2>3
<1>1. ASSUME NEW p \in Procs, Amend(p)
      PROVE  Atomic!ANext \/ UNCHANGED <<objects, ref, head, index, mem>>
    <2>1. ASSUME NEW e \in BOOLEAN, BuildAmended(p, e) PROVE Atomic!ANext
        <3>1. call[p].old \in 1..Len(objects) /\ mem[p].holds \in Trees
            BY <2>1, <1>t DEF BuildAmended, Known
        <3>2. objects \in Seq(Objects) /\ objects[call[p].old] \in Objects
            BY <3>1, <1>t DEF TypeOK
        <3> DEFINE o == [parent |-> objects[call[p].old].parent, amends |-> call[p].old,
                        tree |-> mem[p].holds]
        <3>a. objects' = Append(objects, o)
            BY <2>1 DEF BuildAmended, Create
        <3>b. o \in Objects
            BY <3>1, <3>2 DEF Objects
        <3>3. \E x \in Objects : objects' = Append(objects, x)
            BY <3>a, <3>b
        <3>4. /\ Len(objects') = Len(objects) + 1
              /\ objects' = Append(objects, objects'[Len(objects')])
            BY <3>2, <3>3
        <3> QED
            BY <2>1, <3>4 DEF BuildAmended, Atomic!ANext, Atomic!WriteObject, Atomic!Add
    <2>2. CASE MoveHead(p)
        <3>1. CASE ~Matches(call[p].name, call[p].old)
            BY <2>2, <3>1 DEF MoveHead, Throw, repoVars
        <3>2. CASE Matches(call[p].name, call[p].old)
            <4> DEFINE r == call[p].name
                       c == call[p].new
            <4>1. /\ r \in RefNames /\ ref[r] = call[p].old
                  /\ UpdateRef(r, c, "amend", p, Config)
                  /\ UNCHANGED <<objects, head, index, mem>>
                BY <2>2, <3>2, <1>t DEF MoveHead, Matches, TypeOK, Calls
            <4>2. /\ c \in 1..Len(objects) /\ ref[r] \in 1..Len(objects)
                  /\ objects[c] = [parent |-> objects[ref[r]].parent,
                                   amends |-> ref[r], tree |-> mem[p].holds]
                  /\ mem[p].file = index
                BY <2>2, <4>1, <1>t DEF MoveHead, Known
            <4>3. Atomic!Replace(r, p)
                <5>1. ref[r] # 0 /\ ref' = [ref EXCEPT ![r] = c]
                    BY <4>1, <4>2 DEF UpdateRef
                <5>2. /\ objects[c].amends = ref[r]
                      /\ objects[c].parent = objects[ref[r]].parent
                      /\ objects[c].tree = mem[p].holds
                    BY <4>2
                <5> HIDE DEF r, c
                <5> QED
                    BY <4>1, <4>2, <5>1, <5>2 DEF Atomic!Replace
            <4> QED
                BY <4>1, <4>3, <1>n DEF Atomic!ANext
        <3> QED
            BY <3>1, <3>2
    <2>4. CASE ReadIndex(p)
        <3>1. PICK m \in SoftRead(p) : mem' = [mem EXCEPT ![p] = m]
            BY <2>4 DEF ReadIndex
        <3>2. m \in {ReadFrom(index), mem[p]}
            BY <3>1 DEF SoftRead, HandleIndex
        <3>3. UNCHANGED <<objects, ref, head, index>>
            BY <2>4 DEF ReadIndex, repoVars
        <3> QED
            BY <3>1, <3>2, <3>3, <1>d
    <2>3. ASSUME ~MoveHead(p), ~ReadIndex(p), \A e \in BOOLEAN : ~BuildAmended(p, e)
          PROVE  UNCHANGED <<objects, ref, head, index, mem>>
        BY <1>1, <2>3 DEF Amend, BeginAmend, CheckState, AcquireIndexLock,
           RefuseAmend, ReadHeadKind, ReadHeadName, LockRef, LockHead, VerifyRefs, ReadLog,
           RewriteLog, RestampFails, RestampDone, FinishAmend, Throw, MoveHeadReturns, repoVars
    <2> QED
        BY <2>1, <2>2, <2>3, <2>4
<1>2. ASSUME NEW p \in Procs, Commit(p)
      PROVE  Atomic!ANext \/ UNCHANGED <<objects, ref, head, index, mem>>
    <2>1. CASE CreateCommit(p)
        <3>1. CASE lock[RefFile(head)] = Free /\ HeadCommit = call[p].old
            <4>1. /\ head \in RefNames /\ mem[p].holds \in Trees
                  /\ Create(ref[head], NoCommit, mem[p].holds)
                  /\ UpdateRef(head, Len(objects) + 1, "commit", p, Config)
                  /\ UNCHANGED <<head, index, mem>>
                BY <2>1, <3>1, <1>t DEF CreateCommit, HeadCommit, Known, TypeOK
            <4>2. Atomic!Extend(head)
                BY <4>1, <1>t, ExtendImplements
            <4> QED
                BY <4>1, <4>2, <1>n DEF Atomic!ANext
        <3>2. CASE ~(lock[RefFile(head)] = Free /\ HeadCommit = call[p].old)
            BY <2>1, <3>2 DEF CreateCommit, Throw, repoVars
        <3> QED
            BY <3>1, <3>2
    <2>2. CASE BeginCommit(p)
        <3>1. mem' = [mem EXCEPT ![p] = HandleIndex(p)] /\ UNCHANGED <<objects, ref, head, index>>
            BY <2>2 DEF BeginCommit, repoVars
        <3> QED
            BY <3>1, <1>d DEF HandleIndex
    <2>3. CASE ~CreateCommit(p) /\ ~BeginCommit(p)
        BY <1>2, <2>3 DEF Commit, BuildTree, Throw, repoVars
    <2> QED
        BY <2>1, <2>2, <2>3
<1>3. ASSUME NEW p \in Procs, Crash(p) \/ Restart(p)
      PROVE  Atomic!ANext \/ UNCHANGED <<objects, ref, head, index, mem>>
    <2>1. CASE Crash(p)
        BY <2>1 DEF Crash, repoVars
    <2>2. CASE Restart(p)
        BY <1>3, <2>2, <1>d DEF Restart, repoVars
    <2> QED
        BY <1>3, <2>1, <2>2
<1>5. ASSUME NEW p \in Procs, Stages(p) PROVE Atomic!ANext
    <2>0. PICK t \in Trees :
            \/ index' = t /\ mem' = [mem EXCEPT ![p] = ReadFrom(t)]
            \/ mem' = [mem EXCEPT ![p] = [HandleIndex(p) EXCEPT !.holds = t]] /\ index' = index
        BY <1>5 DEF Stages
    <2>u. UNCHANGED <<objects, ref, head>>
        BY <1>5 DEF Stages
    <2>1. CASE index' = t /\ mem' = [mem EXCEPT ![p] = ReadFrom(t)]
        <3>1. index' \in Atomic!Indexes /\ mem' = [mem EXCEPT ![p] = Atomic!Copy(index')]
            BY <2>1 DEF Atomic!Indexes, Atomic!Copy, ReadFrom
        <3> QED
            BY <2>u, <3>1 DEF Atomic!Stage, Atomic!ANext
    <2>2. CASE mem' = [mem EXCEPT ![p] = [HandleIndex(p) EXCEPT !.holds = t]] /\ index' = index
        <3>1. HandleIndex(p) \in Caches /\ HandleIndex(p) \in {ReadFrom(index), mem[p]}
            BY <1>t, CacheType DEF HandleIndex
        <3>2. /\ [HandleIndex(p) EXCEPT !.holds = t] = [file |-> HandleIndex(p).file, holds |-> t]
              /\ HandleIndex(p).file \in {index, mem[p].file}
            BY <3>1 DEF Caches, ReadFrom
        <3>3. Atomic!Draft(p)
            BY <2>2, <2>u, <3>2 DEF Atomic!Draft
        <3> QED
            BY <3>3 DEF Atomic!ANext
    <2> QED
        BY <2>0, <2>1, <2>2
<1>4. CASE OtherGit
    <2>1. ASSUME NEW r \in RefNames, GitMovesRef(r) PROVE Atomic!ANext
        <3>1. PICK t \in Trees : Create(ref[r], NoCommit, t)
            BY <2>1 DEF GitMovesRef
        <3>2. Atomic!Extend(r)
            BY <2>1, <3>1, <1>t, ExtendImplements DEF GitMovesRef
        <3> QED
            BY <3>2, <1>n DEF Atomic!ANext
    <2>2. CASE GitSwitches
        <3>1. PICK r \in RefNames \ {head} :
                /\ head' = r
                /\ ref' = [ref EXCEPT ![r] = IF r # HEAD /\ ref[r] # NoCommit THEN @ ELSE HeadCommit]
            BY <2>2 DEF GitSwitches
        <3>2. CASE r # HEAD /\ ref[r] # NoCommit
            <4>1. ref' = ref
                BY <3>1, <3>2, <1>t DEF TypeOK
            <4> QED
                BY <2>2, <3>1, <4>1, <1>n DEF GitSwitches, Atomic!ANext, Atomic!Switch
        <3>3. CASE ~(r # HEAD /\ ref[r] # NoCommit)
            <4>1. ref' = [ref EXCEPT ![head'] = ref[head]]
                BY <3>1, <3>3, <1>t DEF TypeOK, HeadCommit
            <4>2. head' = "HEAD" \/ ref[head'] = 0
                BY <3>1, <3>3 DEF HEAD, NoCommit
            <4> QED
                BY <2>2, <3>1, <4>1, <4>2, <1>n DEF GitSwitches, Atomic!ANext, Atomic!Switch
        <3> QED
            BY <3>2, <3>3
    <2>3. CASE GitOrphans
        BY <2>3, <1>n DEF GitOrphans, Atomic!ANext, Atomic!Switch
    <2>4. CASE GitWritesIndex
        BY <2>4 DEF GitWritesIndex, IndexStates, Unmerged, Atomic!ANext, Atomic!Stage,
           Atomic!Indexes
    <2>5. CASE GitLocksIndex
        BY <2>5 DEF GitLocksIndex, repoVars
    <2>6. ASSUME NEW r \in RefNames, GitLocksRef(r) \/ GitExpires(r)
          PROVE  UNCHANGED <<objects, ref, head, index, mem>>
        BY <2>6 DEF GitLocksRef, GitExpires, repoVars
    <2> QED
        BY <1>4, <2>1, <2>2, <2>3, <2>4, <2>5, <2>6 DEF OtherGit
<1> QED
    BY <1>1, <1>2, <1>3, <1>4, <1>5 DEF Next

\* Amends and commits are atomic to everyone who shares the repository: no
\* step overwrites a commit it did not read, and an amend records the index
\* file as it is when HEAD moves, or its own handle's unwritten edits of that.
THEOREM Refinement == Spec => ImplementsAtomicCommits
<1>1. Init => Atomic!AInit
    BY InitImplements
<1>2. IInv /\ [Next]_vars => [Atomic!ANext]_(Atomic!avars)
    <2>1. UNCHANGED vars => UNCHANGED Atomic!avars
        BY DEF vars, repoVars, Atomic!avars
    <2> QED
        BY <2>1, StepImplements
<1> QED
    BY <1>1, <1>2, Invariant, PTL DEF Spec, ImplementsAtomicCommits, Atomic!ASpec

-----------------------------------------------------------------------------
(* The logs.                                                               *)

\* A step of p.
Acts(p) == Amend(p) \/ Commit(p) \/ Stages(p) \/ Crash(p) \/ Restart(p)

\* An update of a ref, as MoveHead, CreateCommit and GitMovesRef make one.
Updates(r, c, why, by, stamp) ==
    /\ UpdateRef(r, c, why, by, stamp)
    /\ lock[RefFile(r)] \in {Free, Git}
    /\ r = HEAD => head = HEAD
    /\ head' = head
    /\ stamp \in {Config, by}
    /\ IF why = "amend"
       THEN /\ by \in Procs
            /\ pc[by] = "move" /\ pc'[by] = "lockRef" /\ c = call[by].new
       ELSE c = Len(objects) + 1 /\ Len(objects') = Len(objects) + 1

\* What a step can do to the refs, to HEAD and to the logs.
LEMMA LogEffects ==
    ASSUME IInv, Next
    PROVE  \/ UNCHANGED <<ref, head, reflog>>
           \/ \E r \in RefNames, c \in Nat, why \in Why, by \in Actors, stamp \in Actors \cup {Config} :
                Updates(r, c, why, by, stamp)
           \/ GitSwitches
           \/ GitOrphans
           \/ \E r \in RefNames : GitExpires(r)
           \/ \E p \in Procs : RewriteLog(p)
<1>t. /\ TypeOK /\ \A p \in Procs : Known(p) /\ p \in Actors
      /\ Len(objects) \in Nat
      /\ head \in RefNames
    BY DEF IInv, TypeOK, Actors
<1>1. ASSUME NEW p \in Procs, Amend(p), ~RewriteLog(p)
      PROVE  \/ UNCHANGED <<ref, head, reflog>>
             \/ \E r \in RefNames, c \in Nat : Updates(r, c, "amend", p, Config)
    <2>1. CASE MoveHead(p) /\ Matches(call[p].name, call[p].old)
        <3>1. call[p].name \in RefNames /\ call[p].new \in Nat
            BY <1>t DEF TypeOK, Calls
        <3>2. pc[p] = "move" /\ pc'[p] = "lockRef"
            BY <2>1, <1>t DEF MoveHead, Goto, TypeOK
        <3>3. Updates(call[p].name, call[p].new, "amend", p, Config)
            BY <2>1, <3>2 DEF MoveHead, Matches, Updates
        <3> QED
            BY <3>1, <3>3
    <2>2. CASE ~(MoveHead(p) /\ Matches(call[p].name, call[p].old))
        BY <1>1, <2>2 DEF Amend, BeginAmend, CheckState, AcquireIndexLock, ReadIndex,
           RefuseAmend, BuildAmended, ReadHeadKind, ReadHeadName, MoveHead, LockRef, LockHead,
           VerifyRefs, ReadLog, RestampFails, RestampDone, FinishAmend, Throw,
           MoveHeadReturns, repoVars
    <2> QED
        BY <2>1, <2>2
<1>2. ASSUME NEW p \in Procs, Commit(p)
      PROVE  \/ UNCHANGED <<ref, head, reflog>>
             \/ \E r \in RefNames, c \in Nat : Updates(r, c, "commit", p, Config)
    <2>1. CASE CreateCommit(p) /\ ~Throw(p)
        <3>1. /\ UpdateRef(head, Len(objects) + 1, "commit", p, Config)
              /\ lock[RefFile(head)] = Free /\ head' = head
              /\ Create(call[p].old, NoCommit, mem[p].holds)
            BY <2>1 DEF CreateCommit
        <3>2. Len(objects') = Len(objects) + 1
            <4>1. objects \in Seq(Objects) /\ mem[p].holds \in Trees /\ call[p].old \in Nat /\ NoCommit \in Nat
                BY <2>1, <1>t DEF CreateCommit, Known, TypeOK, Calls, NoCommit
            <4> QED
                BY <3>1, <4>1, <1>t, CreateType
        <3>3. Updates(head, Len(objects) + 1, "commit", p, Config)
            BY <3>1, <3>2 DEF Updates
        <3> QED
            BY <3>3, <1>t
    <2>2. CASE ~(CreateCommit(p) /\ ~Throw(p))
        BY <1>2, <2>2 DEF Commit, BeginCommit, BuildTree, Throw, repoVars
    <2> QED
        BY <2>1, <2>2
<1>3. ASSUME NEW p \in Procs, Stages(p) \/ Crash(p) \/ Restart(p)
      PROVE  UNCHANGED <<ref, head, reflog>>
    BY <1>3 DEF Stages, Crash, Restart, repoVars
<1>4. ASSUME NEW r \in RefNames, GitMovesRef(r)
      PROVE  \E c \in Nat : Updates(r, c, "commit", Git, Git)
    <2>1. PICK t \in Trees : Create(ref[r], NoCommit, t)
        BY <1>4 DEF GitMovesRef
    <2>2. Len(objects') = Len(objects) + 1
        <3>1. ref[r] \in Nat /\ NoCommit \in Nat
            BY <1>t DEF TypeOK, NoCommit
        <3> QED
            BY <2>1, <3>1, <1>t, CreateType
    <2>3. Updates(r, Len(objects) + 1, "commit", Git, Git)
        BY <1>4, <2>2 DEF GitMovesRef, Updates
    <2> QED
        BY <2>3, <1>t
<1>5. ASSUME OtherGit, ~GitSwitches, ~GitOrphans,
             \A r \in RefNames : ~GitMovesRef(r) /\ ~GitExpires(r)
      PROVE  UNCHANGED <<ref, head, reflog>>
    BY <1>5 DEF OtherGit, GitLocksIndex, GitWritesIndex, GitLocksRef, repoVars
<1>6. {"amend", "commit"} \subseteq Why /\ Git \in Actors /\ Procs \subseteq Actors
    BY DEF Why, Actors
<1> QED
    BY <1>1, <1>2, <1>3, <1>4, <1>5, <1>6 DEF Next, OtherGit

\* Appending keeps what a log held.
LEMMA AppendGrows ==
    ASSUME NEW log \in Seq(Entries), NEW e \in Entries
    PROVE  /\ GrowsTo(log, Append(log, e))
           /\ Len(Append(log, e)) = Len(log) + 1
           /\ Append(log, e)[Len(log) + 1] = e
           /\ \A i \in 1..Len(log) : Append(log, e)[i] = log[i]
<1>1. Append(log, e) \in Seq(Entries) /\ Len(Append(log, e)) = Len(log) + 1 /\ Len(log) \in Nat
    OBVIOUS
<1>2. \A i \in 1..Len(log) : Append(log, e)[i] = log[i]
    OBVIOUS
<1>3. SubSeq(Append(log, e), 1, Len(log)) = log
    <2> DEFINE s == SubSeq(Append(log, e), 1, Len(log))
    <2>1. s \in Seq(Entries) /\ Len(s) = Len(log) /\ \A i \in 1..Len(log) : s[i] = Append(log, e)[i]
        BY <1>1
    <2> HIDE DEF s
    <2>2. s = log
        BY <1>2, <2>1, SeqEqual
    <2> QED
        BY <2>2 DEF s
<1>4. Append(log, e)[Len(log) + 1] = e
    OBVIOUS
<1> QED
    BY <1>1, <1>2, <1>3, <1>4 DEF GrowsTo

\* Restamping changes the stamp of the newest entry alone.
LEMMA RestampedLog ==
    ASSUME NEW log \in Seq(Entries), log # << >>, NEW p \in Procs
    PROVE  /\ GrowsTo(log, Restamped(p, log))
           /\ Len(Restamped(p, log)) = Len(log)
           /\ Len(log) \in 1..Len(log)
           /\ \A i \in 1..Len(log) :
                /\ Restamped(p, log)[i].old = log[i].old
                /\ Restamped(p, log)[i].new = log[i].new
                /\ Restamped(p, log)[i].why = log[i].why
                /\ Restamped(p, log)[i].by = log[i].by
                /\ Restamped(p, log)[i].stamp = IF i = Len(log) THEN p ELSE log[i].stamp
<1> DEFINE n == Len(log)
           e == [log[n] EXCEPT !.stamp = p]
<1>1. n \in 1..n /\ log[n] \in Entries
    OBVIOUS
<1>2. Restamped(p, log) = [log EXCEPT ![n] = e]
    BY DEF Restamped
<1>3. /\ e \in Entries /\ e.stamp = p
      /\ e.old = log[n].old /\ e.new = log[n].new /\ e.why = log[n].why /\ e.by = log[n].by
    BY <1>1 DEF Entries, Actors
<1> HIDE DEF e
<1>4. /\ Len(Restamped(p, log)) = n
      /\ \A i \in 1..n : Restamped(p, log)[i] = IF i = n THEN e ELSE log[i]
    BY <1>1, <1>2, <1>3
<1>5. SameUpdate(log[n], e)
    <2>1. [log[n] EXCEPT !.stamp = e.stamp] = e
        BY <1>3 DEF e
    <2> QED
        BY <2>1 DEF SameUpdate
<1>6. GrowsTo(log, Restamped(p, log))
    BY <1>4, <1>5 DEF GrowsTo
<1> QED
    BY <1>1, <1>3, <1>4, <1>6

\* What a step can do to one log: nothing, expire it, add an entry that says
\* who moved the ref, or restamp the newest entry, an update of the process
\* that does.
LEMMA LogStep ==
    ASSUME IInv, LogInv, Next, NEW r \in RefNames
    PROVE  \/ reflog'[r] = reflog[r]
           \/ reflog'[r] = << >>
           \/ \E e \in Entries :
                /\ reflog'[r] = Append(reflog[r], e)
                /\ e.new \in 0..Len(objects')
                /\ e.stamp \in {Config, e.by}
                /\ e.why = "amend" =>
                    /\ e.by \in Procs
                    /\ pc[e.by] = "move" /\ pc'[e.by] = "lockRef" /\ e.new = call[e.by].new
           \/ \E p \in Procs :
                /\ reflog[r] # << >>
                /\ reflog'[r] = Restamped(p, reflog[r])
                /\ reflog[r][Len(reflog[r])].by = p
<1>t. /\ TypeOK /\ \A s \in RefNames : reflog[s] \in Seq(Entries)
      /\ RefsHold /\ RefsHold' /\ TypeOK'
      /\ \A p \in Procs : Known(p)
    BY TypeStep, RefsStep DEF IInv, TypeOK
<1>o. /\ Len(objects) \in Nat /\ Len(objects') \in Nat /\ Len(objects) <= Len(objects')
    BY ObjectsStep, <1>t DEF TypeOK
<1>1. ASSUME NEW s \in RefNames, NEW c \in Nat, NEW why \in Why, NEW by \in Actors,
             NEW stamp \in Actors \cup {Config}, Updates(s, c, why, by, stamp)
      PROVE  \/ reflog'[r] = reflog[r]
             \/ \E e \in Entries :
                  /\ reflog'[r] = Append(reflog[r], e)
                  /\ e.new \in 0..Len(objects')
                  /\ e.stamp \in {Config, e.by}
                  /\ e.why = "amend" =>
                      /\ e.by \in Procs
                      /\ pc[e.by] = "move" /\ pc'[e.by] = "lockRef" /\ e.new = call[e.by].new
    <2> DEFINE e == [old |-> ref[s], new |-> c, why |-> why, by |-> by, stamp |-> stamp]
    <2>1. e \in Entries
        BY <1>t DEF TypeOK, Entries
    <2>2. reflog'[r] = IF r \in LogsOf(s) THEN Append(reflog[r], e) ELSE reflog[r]
        BY <1>1 DEF Updates, UpdateRef
    <2>3. c \in 0..Len(objects')
        <3>1. CASE why = "amend"
            <4>1. by \in Procs /\ pc[by] = "move" /\ c = call[by].new
                BY <1>1, <3>1 DEF Updates
            <4>2. c \in 1..Len(objects)
                BY <4>1, <1>t DEF Known
            <4> QED
                BY <4>2, <1>o
        <3>2. CASE why # "amend"
            BY <1>1, <3>2, <1>o DEF Updates
        <3> QED
            BY <3>1, <3>2
    <2>4. /\ e.stamp \in {Config, e.by}
          /\ e.why = "amend" =>
                /\ e.by \in Procs
                /\ pc[e.by] = "move" /\ pc'[e.by] = "lockRef" /\ e.new = call[e.by].new
        BY <1>1 DEF Updates
    <2> QED
        BY <2>1, <2>2, <2>3, <2>4
<1>2. CASE GitSwitches
    <2> DEFINE e == [old |-> HeadCommit, new |-> ref'[head'], why |-> "checkout",
                     by |-> Git, stamp |-> Git]
    <2>1. reflog' = [reflog EXCEPT ![HEAD] = Append(reflog[HEAD], e)]
        BY <1>2, <1>t DEF GitSwitches, TypeOK
    <2>2. HeadCommit \in Nat /\ head' \in RefNames /\ ref'[head'] \in 0..Len(objects')
        BY <1>t DEF TypeOK, HeadCommit, RefsHold
    <2>3. e \in Entries
        BY <2>2, <1>o DEF Entries, Why, Actors
    <2>4. reflog'[r] = IF r = HEAD THEN Append(reflog[r], e) ELSE reflog[r]
        BY <2>1, <1>t DEF TypeOK
    <2>5. e.new \in 0..Len(objects') /\ e.stamp \in {Config, e.by} /\ e.why # "amend"
        BY <2>2
    <2> QED
        BY <2>3, <2>4, <2>5
<1>3. ASSUME NEW s \in RefNames, GitExpires(s) PROVE reflog'[r] \in {reflog[r], << >>}
    BY <1>3, <1>t DEF GitExpires, TypeOK
<1>4. ASSUME NEW p \in Procs, RewriteLog(p)
      PROVE  \/ reflog'[r] = reflog[r]
             \/ /\ reflog[r] # << >>
                /\ reflog'[r] = Restamped(p, reflog[r])
                /\ reflog[r][Len(reflog[r])].by = p
    <2>1. pc[p] = "rewrite" /\ call[p].todo # << >>
        BY <1>4, <1>t DEF RewriteLog, Known
    <2> DEFINE log == Head(call[p].todo)
    <2>2. log \in RefNames
        <3>1. call[p].todo \in Seq(RefNames)
            BY <1>t DEF TypeOK, Calls
        <3> QED
            BY <2>1, <3>1
    <2>3. call[p].seen = reflog[log] /\ NewestIsOurs(p, call[p].seen)
        BY <2>1 DEF LogInv, Settled
    <2>4. reflog[log] # << >> /\ LooksLike(p, reflog[log][Len(reflog[log])])
        BY <2>3 DEF NewestIsOurs, LooksLike
    <2>5. Len(reflog[log]) \in 1..Len(reflog[log])
        BY <2>2, <2>4, <1>t
    <2>6. reflog[log][Len(reflog[log])].by = p
        BY <2>1, <2>2, <2>4, <2>5 DEF LogInv, Owned, Updating, Restamping
    <2>7. reflog' = [reflog EXCEPT ![log] = Restamped(p, reflog[log])]
        BY <1>4, <2>3 DEF RewriteLog
    <2> HIDE DEF log
    <2> QED
        BY <2>2, <2>4, <2>6, <2>7, <1>t DEF TypeOK
<1>5. CASE UNCHANGED <<ref, head, reflog>> \/ GitOrphans
    BY <1>5 DEF GitOrphans
<1> QED
    BY <1>1, <1>2, <1>3, <1>4, <1>5, LogEffects

\* A log grows, is restamped or is expired.
LEMMA GrowStep ==
    ASSUME IInv, LogInv, Next, NEW r \in RefNames
    PROVE  GrowsTo(reflog[r], reflog'[r])
<1>t. reflog[r] \in Seq(Entries)
    BY DEF IInv, TypeOK
<1>1. CASE reflog'[r] \in {reflog[r], << >>}
    BY <1>1 DEF GrowsTo
<1>2. ASSUME NEW e \in Entries, reflog'[r] = Append(reflog[r], e)
      PROVE  GrowsTo(reflog[r], reflog'[r])
    BY <1>2, <1>t, AppendGrows
<1>3. ASSUME NEW p \in Procs, reflog[r] # << >>, reflog'[r] = Restamped(p, reflog[r])
      PROVE  GrowsTo(reflog[r], reflog'[r])
    BY <1>3, <1>t, RestampedLog
<1> QED
    BY <1>1, <1>2, <1>3, LogStep

\* The entries keep naming commits that exist, and the identity libgit2 gave
\* them or that of the process that made the update.
LEMMA EntriesStep ==
    ASSUME IInv, LogInv, Next
    PROVE  LogsHold' /\ StampedByMover'
<1> SUFFICES ASSUME NEW r \in RefNames, NEW i \in 1..Len(reflog'[r])
             PROVE  /\ reflog'[r][i].new \in 0..Len(objects')
                    /\ reflog'[r][i].stamp \in {Config, reflog'[r][i].by}
    BY DEF LogsHold, StampedByMover
<1>t. reflog[r] \in Seq(Entries) /\ Len(reflog[r]) \in Nat
    BY DEF IInv, TypeOK
<1>o. 0..Len(objects) \subseteq 0..Len(objects')
    <2>1. Len(objects) \in Nat
        BY DEF IInv, TypeOK
    <2> QED
        BY <2>1, ObjectsStep
<1>i. \A j \in 1..Len(reflog[r]) : /\ reflog[r][j].new \in 0..Len(objects')
                                   /\ reflog[r][j].stamp \in {Config, reflog[r][j].by}
    BY <1>o DEF LogInv, LogsHold, StampedByMover
<1>1. CASE reflog'[r] = reflog[r]
    BY <1>1, <1>i
<1>2. CASE reflog'[r] = << >>
    BY <1>2
<1>3. ASSUME NEW e \in Entries, reflog'[r] = Append(reflog[r], e), e.new \in 0..Len(objects'),
             e.stamp \in {Config, e.by}
      PROVE  /\ reflog'[r][i].new \in 0..Len(objects')
             /\ reflog'[r][i].stamp \in {Config, reflog'[r][i].by}
    <2>1. i \in 1..(Len(reflog[r]) + 1)
        BY <1>3, <1>t, AppendGrows
    <2>2. CASE i = Len(reflog[r]) + 1
        <3>1. reflog'[r][i] = e
            BY <1>3, <2>2, <1>t, AppendGrows
        <3> QED
            BY <1>3, <3>1
    <2>3. CASE i \in 1..Len(reflog[r])
        <3>1. reflog'[r][i] = reflog[r][i]
            BY <1>3, <2>3, <1>t, AppendGrows
        <3> QED
            BY <3>1, <2>3, <1>i
    <2> QED
        BY <2>1, <2>2, <2>3, <1>t
<1>4. ASSUME NEW p \in Procs, reflog[r] # << >>, reflog'[r] = Restamped(p, reflog[r]),
             reflog[r][Len(reflog[r])].by = p
      PROVE  /\ reflog'[r][i].new \in 0..Len(objects')
             /\ reflog'[r][i].stamp \in {Config, reflog'[r][i].by}
    <2>1. /\ i \in 1..Len(reflog[r])
          /\ reflog'[r][i].new = reflog[r][i].new
          /\ reflog'[r][i].by = reflog[r][i].by
          /\ reflog'[r][i].stamp = IF i = Len(reflog[r]) THEN p ELSE reflog[r][i].stamp
        BY <1>4, <1>t, RestampedLog
    <2> QED
        BY <2>1, <1>4, <1>i
<1> QED
    BY <1>1, <1>2, <1>3, <1>4, LogStep

\* Assigning one local of a call leaves its others.
LEMMA CallFields ==
    ASSUME TypeOK, NEW p \in Procs, NEW x
    PROVE  /\ call' = [call EXCEPT ![p].name = x] =>
                /\ call'[p].name = x
                /\ call'[p].old = call[p].old /\ call'[p].new = call[p].new
                /\ call'[p].detached = call[p].detached /\ call'[p].todo = call[p].todo
                /\ call'[p].seen = call[p].seen
           /\ call' = [call EXCEPT ![p].todo = x] =>
                /\ call'[p].todo = x
                /\ call'[p].old = call[p].old /\ call'[p].new = call[p].new
                /\ call'[p].detached = call[p].detached /\ call'[p].name = call[p].name
                /\ call'[p].seen = call[p].seen
           /\ call' = [call EXCEPT ![p].seen = x] =>
                /\ call'[p].seen = x
                /\ call'[p].old = call[p].old /\ call'[p].new = call[p].new
                /\ call'[p].detached = call[p].detached /\ call'[p].name = call[p].name
                /\ call'[p].todo = call[p].todo
<1>1. call[p] \in Calls /\ call \in [Procs -> Calls]
    BY DEF TypeOK
<1> QED
    BY <1>1 DEF Calls

\* A call comes to be about to move HEAD only by making its commit.
LEMMA NewlyUpdating ==
    ASSUME IInv, Next, NEW p \in Procs, pc'[p] \in Updating
    PROVE  \/ pc[p] \in Updating /\ call'[p].new = call[p].new
           \/ /\ call'[p].new = Len(objects) + 1 /\ Len(objects') = Len(objects) + 1
              /\ UNCHANGED reflog
              /\ \A q \in Procs \ {p} : pc'[q] = pc[q] /\ call'[q] = call[q]
<1>t. TypeOK /\ Known(p) /\ Len(objects) \in Nat
    BY DEF IInv, TypeOK
<1>1. ASSUME NEW q \in Procs, q # p, Acts(q)
      PROVE  pc[p] \in Updating /\ call'[p].new = call[p].new
    BY <1>1, <1>t, OthersFrame DEF Acts, Stages
<1>2. CASE OtherGit
    BY <1>2 DEF OtherGit, GitLocksIndex, GitWritesIndex, GitLocksRef, GitMovesRef, GitExpires,
        GitSwitches, GitOrphans
<1>3. CASE Acts(p)
    <2>1. ASSUME NEW e \in BOOLEAN, BuildAmended(p, e)
          PROVE  /\ call'[p].new = Len(objects) + 1 /\ Len(objects') = Len(objects) + 1
                 /\ UNCHANGED reflog
                 /\ \A q \in Procs \ {p} : pc'[q] = pc[q] /\ call'[q] = call[q]
        <3>1. call[p].old \in 1..Len(objects) /\ mem[p].holds \in Trees
            BY <2>1, <1>t DEF BuildAmended, Known
        <3>2. objects[call[p].old].parent \in Nat
            <4>1. objects[call[p].old] \in Objects
                BY <3>1, <1>t DEF TypeOK
            <4> QED
                BY <4>1 DEF Objects
        <3>3. call[p].old \in Nat
            BY <3>1
        <3>4. Len(objects') = Len(objects) + 1
            BY <2>1, <3>1, <3>2, <3>3, <1>t, CreateType DEF BuildAmended
        <3> QED
            BY <2>1, <3>4, <1>t DEF BuildAmended, Goto, TypeOK
    <2>2. CASE \A e \in BOOLEAN : ~BuildAmended(p, e)
        <3> USE <1>t DEF TypeOK, Goto, Updating, Restamping
        <3>r. ~Return(p)
            BY DEF Return
        <3>1. CASE \/ BeginAmend(p) \/ CheckState(p) \/ AcquireIndexLock(p) \/ ReadIndex(p)
                   \/ RefuseAmend(p) \/ FinishAmend(p) \/ RestampFails(p)
            BY <3>1, <3>r DEF BeginAmend, CheckState, AcquireIndexLock, ReadIndex, RefuseAmend,
                FinishAmend, RestampFails, Throw
        <3>2. CASE ReadHeadKind(p)
            BY <3>2 DEF ReadHeadKind
        <3>3. CASE ReadHeadName(p)
            BY <3>3, <3>r, CallFields DEF ReadHeadName, Throw
        <3>5. CASE MoveHead(p)
            BY <3>5, <3>r, CallFields DEF MoveHead, Throw
        <3>6. CASE LockRef(p) \/ LockHead(p) \/ VerifyRefs(p) \/ RestampDone(p)
            BY <3>6 DEF LockRef, LockHead, VerifyRefs, RestampDone, MoveHeadReturns
        <3>7. CASE ReadLog(p)
            <4>1. \/ \E x : call' = [call EXCEPT ![p].seen = x]
                  \/ \E x : call' = [call EXCEPT ![p].todo = x]
                BY <3>7 DEF ReadLog
            <4>2. pc[p] = "restamp"
                BY <3>7 DEF ReadLog
            <4>3. ASSUME NEW x, call' = [call EXCEPT ![p].seen = x]
                  PROVE  call'[p].new = call[p].new
                BY <4>3
            <4>4. ASSUME NEW x, call' = [call EXCEPT ![p].todo = x]
                  PROVE  call'[p].new = call[p].new
                BY <4>4
            <4> QED
                BY <4>1, <4>2, <4>3, <4>4
        <3>8. CASE RewriteLog(p)
            BY <3>8 DEF RewriteLog
        <3>4. CASE Commit(p) \/ Stages(p) \/ Crash(p) \/ Restart(p)
            BY <3>4, <3>r DEF Commit, BeginCommit, BuildTree, CreateCommit, Throw, Stages, Crash,
                Restart
        <3> QED
            BY <1>3, <2>2, <3>1, <3>2, <3>3, <3>4, <3>5, <3>6, <3>7, <3>8 DEF Acts, Amend
    <2> QED
        BY <2>1, <2>2
<1> QED
    BY <1>1, <1>2, <1>3 DEF Next, Acts

\* The commits of running amends stay their own, and so do the entries that
\* record them.
LEMMA OwnedStep ==
    ASSUME IInv, LogInv, Next, NEW p \in Procs
    PROVE  Owned(p)'
<1> SUFFICES ASSUME pc'[p] \in Updating
             PROVE  /\ call'[p].new \in 1..Len(objects')
                    /\ \A q \in Procs \ {p} : pc'[q] \in Updating => call'[q].new # call'[p].new
                    /\ \A r \in RefNames : \A i \in 1..Len(reflog'[r]) :
                        reflog'[r][i].why = "amend" /\ reflog'[r][i].new = call'[p].new
                            => reflog'[r][i].by = p
    BY DEF Owned, LooksLike
<1>t. TypeOK /\ \A r \in RefNames : reflog[r] \in Seq(Entries) /\ Len(reflog[r]) \in Nat
    BY DEF IInv, TypeOK
<1>o. Len(objects) \in Nat /\ Len(objects') \in Nat /\ Len(objects) <= Len(objects')
    BY ObjectsStep, <1>t DEF TypeOK
<1>i. /\ \A q \in Procs : Owned(q)
      /\ LogsHold
    BY DEF LogInv
<1>1. CASE pc[p] \in Updating /\ call'[p].new = call[p].new
    <2>1. call[p].new \in 1..Len(objects)
        BY <1>1, <1>i DEF Owned
    <2>2. ASSUME NEW q \in Procs \ {p}, pc'[q] \in Updating PROVE call'[q].new # call[p].new
        <3>1. CASE pc[q] \in Updating /\ call'[q].new = call[q].new
            BY <1>1, <3>1, <1>i DEF Owned
        <3>2. CASE call'[q].new = Len(objects) + 1
            BY <2>1, <3>2, <1>o
        <3> QED
            BY <2>2, <3>1, <3>2, NewlyUpdating
    <2>3. ASSUME NEW r \in RefNames, NEW i \in 1..Len(reflog'[r]),
                 reflog'[r][i].why = "amend", reflog'[r][i].new = call[p].new
          PROVE  reflog'[r][i].by = p
        <3>i. \A j \in 1..Len(reflog[r]) :
                reflog[r][j].why = "amend" /\ reflog[r][j].new = call[p].new => reflog[r][j].by = p
            BY <1>1, <1>i DEF Owned, LooksLike
        <3>1. CASE reflog'[r] = reflog[r]
            BY <2>3, <3>1, <3>i
        <3>2. CASE reflog'[r] = << >>
            BY <2>3, <3>2
        <3>3. ASSUME NEW e \in Entries, reflog'[r] = Append(reflog[r], e),
                     e.why = "amend" =>
                        /\ e.by \in Procs
                        /\ pc[e.by] = "move" /\ pc'[e.by] = "lockRef" /\ e.new = call[e.by].new
              PROVE  reflog'[r][i].by = p
            <4>1. i \in 1..(Len(reflog[r]) + 1)
                BY <3>3, <1>t, AppendGrows
            <4>2. CASE i = Len(reflog[r]) + 1
                <5>1. reflog'[r][i] = e
                    BY <3>3, <4>2, <1>t, AppendGrows
                <5>2. e.by \in Procs /\ pc[e.by] \in Updating /\ call[e.by].new = call[p].new
                    BY <2>3, <3>3, <5>1 DEF Updating
                <5> QED
                    BY <1>1, <5>1, <5>2, <1>i DEF Owned
            <4>3. CASE i \in 1..Len(reflog[r])
                <5>1. reflog'[r][i] = reflog[r][i]
                    BY <3>3, <4>3, <1>t, AppendGrows
                <5> QED
                    BY <2>3, <4>3, <5>1, <3>i
            <4> QED
                BY <4>1, <4>2, <4>3, <1>t
        <3>4. ASSUME NEW q \in Procs, reflog[r] # << >>, reflog'[r] = Restamped(q, reflog[r])
              PROVE  reflog'[r][i].by = p
            <4>1. /\ i \in 1..Len(reflog[r])
                  /\ reflog'[r][i].new = reflog[r][i].new
                  /\ reflog'[r][i].why = reflog[r][i].why
                  /\ reflog'[r][i].by = reflog[r][i].by
                BY <3>4, <1>t, RestampedLog
            <4> QED
                BY <2>3, <4>1, <3>i
        <3> QED
            BY <3>1, <3>2, <3>3, <3>4, LogStep
    <2>4. call[p].new \in 1..Len(objects')
        BY <2>1, <1>o
    <2> QED
        BY <1>1, <2>2, <2>3, <2>4
<1>2. CASE /\ call'[p].new = Len(objects) + 1 /\ Len(objects') = Len(objects) + 1
           /\ UNCHANGED reflog
           /\ \A q \in Procs \ {p} : pc'[q] = pc[q] /\ call'[q] = call[q]
    <2>1. call'[p].new \in 1..Len(objects')
        BY <1>2, <1>o
    <2>2. ASSUME NEW q \in Procs \ {p}, pc'[q] \in Updating PROVE call'[q].new # call'[p].new
        <3>1. call'[q].new \in 1..Len(objects)
            BY <1>2, <2>2, <1>i DEF Owned
        <3> QED
            BY <1>2, <3>1, <1>o
    <2>3. ASSUME NEW r \in RefNames, NEW i \in 1..Len(reflog'[r])
          PROVE  reflog'[r][i].new # call'[p].new
        BY <1>2, <1>i, <1>o DEF LogsHold
    <2> QED
        BY <2>1, <2>2, <2>3
<1> QED
    BY <1>1, <1>2, NewlyUpdating


\* What nobody but q does to q: its call goes on where it was, with its locks.
LEMMA OthersLeave ==
    ASSUME TypeOK, NEW q \in Procs,
           OtherGit \/ \E p \in Procs \ {q} : Acts(p)
    PROVE  /\ pc'[q] = pc[q] /\ call'[q] = call[q]
           /\ \A f \in LockFiles : lock[f] = q => lock'[f] = q
<1>p. q # Free /\ q # Git
    BY ConstantsAssumption
<1>1. ASSUME NEW p \in Procs \ {q}, Acts(p)
      PROVE  /\ pc'[q] = pc[q] /\ call'[q] = call[q]
             /\ \A f \in LockFiles : lock[f] = q => lock'[f] = q
    <2>1. pc'[q] = pc[q] /\ call'[q] = call[q]
        BY <1>1, OthersFrame DEF Acts, Stages
    <2>r. ASSUME NEW fs, Release(p, fs) PROVE \A f \in LockFiles : lock[f] = q => lock'[f] = q
        BY <2>r DEF Release
    <2>m. ASSUME NEW f, Take(p, f) PROVE \A g \in LockFiles : lock[g] = q => lock'[g] = q
        BY <2>m, <1>p DEF Take, TypeOK
    <2>u. ASSUME lock' = lock PROVE \A f \in LockFiles : lock[f] = q => lock'[f] = q
        BY <2>u
    <2>2. \/ lock' = lock
          \/ \E fs : Release(p, fs)
          \/ \E f : Take(p, f)
        <3>1. CASE Amend(p)
            BY <3>1 DEF Amend, BeginAmend, CheckState, AcquireIndexLock, ReadIndex,
               RefuseAmend, BuildAmended, ReadHeadKind, ReadHeadName, MoveHead, LockRef, LockHead,
               VerifyRefs, ReadLog, RewriteLog, RestampFails, RestampDone, FinishAmend, Throw,
               Return, MoveHeadReturns, repoVars
        <3>2. CASE Commit(p) \/ Stages(p) \/ Crash(p) \/ Restart(p)
            BY <3>2 DEF Commit, BeginCommit, BuildTree, CreateCommit, Stages, Crash, Restart,
                Throw, Return
        <3> QED
            BY <1>1, <3>1, <3>2 DEF Acts
    <2> QED
        BY <2>1, <2>2, <2>r, <2>m, <2>u
<1>2. CASE OtherGit
    <2>1. UNCHANGED <<pc, call>>
        BY <1>2 DEF OtherGit, GitLocksIndex, GitWritesIndex, GitLocksRef, GitMovesRef,
            GitExpires, GitSwitches, GitOrphans
    <2>2. \A f \in LockFiles : lock[f] = q => lock'[f] = q
        <3>1. CASE GitLocksIndex \/ GitWritesIndex \/ GitSwitches \/ GitOrphans
            BY <3>1, <1>p DEF GitLocksIndex, GitWritesIndex, GitSwitches, GitOrphans,
                Take, Release, TypeOK
        <3>2. ASSUME NEW r \in RefNames, GitLocksRef(r) \/ GitMovesRef(r) \/ GitExpires(r)
              PROVE  \A f \in LockFiles : lock[f] = q => lock'[f] = q
            BY <3>2, <1>p DEF GitLocksRef, GitMovesRef, GitExpires, Release
        <3> QED
            BY <1>2, <3>1, <3>2 DEF OtherGit
    <2> QED
        BY <2>1, <2>2
<1> QED
    BY <1>1, <1>2

\* Whether the newest entry is an amend's does not depend on its stamp.
LEMMA RestampedIsOurs ==
    ASSUME NEW log \in Seq(Entries), log # << >>, NEW p \in Procs, NEW q \in Procs,
           NewestIsOurs(q, Restamped(p, log))
    PROVE  NewestIsOurs(q, log)
BY RestampedLog DEF NewestIsOurs

\* The steps of others leave alone what a verified call relies on: the locks
\* of HEAD and of its ref keep HEAD where it is and both logs from growing,
\* and the lock of the log it has read keeps the log from expiring.
LEMMA SettledFrame ==
    ASSUME IInv, LogInv, Next, NEW q \in Procs,
           pc'[q] = pc[q], call'[q] = call[q],
           \A f \in LockFiles : lock[f] = q => lock'[f] = q
    PROVE  Settled(q)'
<1>t. /\ TypeOK /\ Settled(q) /\ Owned(q) /\ Known(q)
      /\ \A r \in RefNames : reflog[r] \in Seq(Entries)
      /\ HEAD \in RefNames /\ call[q].name \in RefNames /\ head \in RefNames
    BY DEF IInv, LogInv, TypeOK, RefNames, Calls
<1>p. q # Free /\ q # Git
    BY ConstantsAssumption
<1>1. pc[q] \in Verified => head' = head
    <2>1. pc[q] \in Verified => lock[RefFile(HEAD)] = q
        BY <1>t DEF Settled
    <2>2. GitSwitches \/ GitOrphans => lock[RefFile(HEAD)] = Free
        BY DEF GitSwitches, GitOrphans, RefFiles
    <2>3. ~GitSwitches /\ ~GitOrphans => head' = head
        BY LogEffects DEF Updates, GitExpires, RewriteLog
    <2> QED
        BY <2>1, <2>2, <2>3, <1>p
<1>2. ASSUME pc[q] \in Restamping, call[q].detached, head' # HEAD,
             NewestIsOurs(q, reflog'[HEAD])
      PROVE  pc[q] \in {"lockRef", "verify"} /\ ref'[head'] # call[q].new
    <2>n. pc[q] \in Updating /\ call[q].new \in 1..Len(objects) /\ pc[q] # "lockHead"
        BY <1>2, <1>t DEF Updating, Owned, Settled
    <2>i. head # HEAD /\ NewestIsOurs(q, reflog[HEAD])
            => pc[q] \in {"lockRef", "verify"} /\ ref[head] # call[q].new
        BY <1>2, <1>t DEF Settled
    <2>1. CASE UNCHANGED <<ref, head, reflog>>
        BY <1>2, <2>1, <2>i
    <2>2. ASSUME NEW r \in RefNames, NEW c \in Nat, NEW why \in Why, NEW by \in Actors,
                 NEW stamp \in Actors \cup {Config}, Updates(r, c, why, by, stamp)
          PROVE  pc[q] \in {"lockRef", "verify"} /\ ref'[head'] # call[q].new
        <3> DEFINE e == [old |-> ref[r], new |-> c, why |-> why, by |-> by, stamp |-> stamp]
        <3>0. head' = head /\ head # HEAD /\ r # HEAD
            BY <1>2, <2>2 DEF Updates
        <3>1. CASE r = head
            <4>1. reflog'[HEAD] = Append(reflog[HEAD], e)
                BY <2>2, <3>1, <1>t DEF Updates, UpdateRef, LogsOf
            <4>2. e \in Entries
                BY <1>t DEF TypeOK, Entries
            <4>3. reflog'[HEAD][Len(reflog'[HEAD])] = e
                BY <4>1, <4>2, <1>t, AppendGrows
            <4>4. why = "amend" /\ c = call[q].new
                BY <1>2, <4>3 DEF NewestIsOurs
            <4>5. by \in Procs /\ pc[by] \in Updating /\ by # q /\ call[by].new = call[q].new
                BY <2>2, <4>4 DEF Updates, Updating
            <4> QED
                BY <2>n, <4>5, <1>t DEF Owned
        <3>2. CASE r # head
            <4>1. reflog'[HEAD] = reflog[HEAD] /\ ref'[head'] = ref[head]
                BY <2>2, <3>0, <3>2, <1>t DEF Updates, UpdateRef, LogsOf, TypeOK
            <4> QED
                BY <1>2, <3>0, <4>1, <2>i
        <3> QED
            BY <3>1, <3>2
    <2>3. CASE GitSwitches
        <3> DEFINE e == [old |-> HeadCommit, new |-> ref'[head'], why |-> "checkout",
                         by |-> Git, stamp |-> Git]
        <3>1. reflog'[HEAD] = Append(reflog[HEAD], e)
            BY <2>3, <1>t DEF GitSwitches, TypeOK
        <3>2. TypeOK'
            BY TypeStep
        <3>3. e \in Entries
            BY <3>2, <1>t DEF TypeOK, HeadCommit, Entries, Why, Actors
        <3>4. reflog'[HEAD][Len(reflog'[HEAD])] = e
            BY <3>1, <3>3, <1>t, AppendGrows
        <3> QED
            BY <1>2, <3>4 DEF NewestIsOurs
    <2>4. CASE GitOrphans
        <3>1. ref'[head'] = NoCommit
            BY <2>4 DEF GitOrphans
        <3>2. lock[RefFile(HEAD)] = Free
            BY <2>4 DEF GitOrphans, RefFiles
        <3>3. pc[q] # "restamp" /\ pc[q] # "rewrite"
            BY <3>2, <1>p, <1>t DEF Settled, Verified
        <3>4. pc[q] \in {"lockRef", "verify"}
            BY <1>2, <2>n, <3>3 DEF Restamping
        <3>5. NoCommit \notin 1..Len(objects)
            BY DEF NoCommit
        <3> QED
            BY <2>n, <3>1, <3>4, <3>5
    <2>5. ASSUME NEW r \in RefNames, GitExpires(r)
          PROVE  pc[q] \in {"lockRef", "verify"} /\ ref'[head'] # call[q].new
        <3>1. UNCHANGED <<ref, head>> /\ reflog'[HEAD] \in {reflog[HEAD], << >>}
            BY <2>5, <1>t DEF GitExpires, TypeOK
        <3> QED
            BY <1>2, <3>1, <2>i DEF NewestIsOurs
    <2>6. ASSUME NEW p \in Procs, RewriteLog(p)
          PROVE  pc[q] \in {"lockRef", "verify"} /\ ref'[head'] # call[q].new
        <3>1. UNCHANGED <<ref, head>>
            BY <2>6 DEF RewriteLog
        <3>2. pc[p] = "rewrite" /\ call[p].seen = reflog[Head(call[p].todo)] /\ call[p].seen # << >>
            BY <2>6 DEF RewriteLog, LogInv, Settled, NewestIsOurs
        <3>3. CASE HEAD = Head(call[p].todo)
            <4>1. reflog'[HEAD] = Restamped(p, reflog[HEAD]) /\ reflog[HEAD] # << >>
                BY <2>6, <3>2, <3>3, <1>t DEF RewriteLog, TypeOK
            <4>2. NewestIsOurs(q, reflog[HEAD])
                BY <1>2, <4>1, <1>t, RestampedIsOurs
            <4> QED
                BY <1>2, <3>1, <4>2, <2>i
        <3>4. CASE HEAD # Head(call[p].todo)
            <4>1. reflog'[HEAD] = reflog[HEAD]
                BY <2>6, <3>4, <1>t DEF RewriteLog, TypeOK
            <4> QED
                BY <1>2, <3>1, <4>1, <2>i
        <3> QED
            BY <3>3, <3>4
    <2> QED
        BY <2>1, <2>2, <2>3, <2>4, <2>5, <2>6, LogEffects
<1>3. ASSUME pc[q] = "rewrite"
      PROVE  reflog'[Head(call[q].todo)] = reflog[Head(call[q].todo)]
    <2> DEFINE log == Head(call[q].todo)
    <2>1. /\ lock[LogFile(log)] = q /\ lock[RefFile(HEAD)] = q /\ lock[RefFile(call[q].name)] = q
          /\ NewestIsOurs(q, reflog[log])
          /\ call[q].detached => call[q].name = HEAD
          /\ call[q].detached \/ head = call[q].name
        BY <1>3, <1>t DEF Settled, Verified, Restamping
    <2>2. log \in {call[q].name, HEAD}
        <3>1. call[q].todo # << >> /\ call[q].todo \in {<<call[q].name, HEAD>>, <<HEAD>>, << >>}
            BY <1>3, <1>t DEF Known, Settled, Restamping
        <3> QED
            BY <3>1
    <2>3. call[q].detached => head = HEAD
        <3>1. call[q].detached => log = HEAD
            BY <2>1, <2>2
        <3>2. ~(call[q].detached /\ head # HEAD /\ NewestIsOurs(q, reflog[HEAD]))
            BY <1>3, <1>t DEF Settled, Restamping
        <3> HIDE DEF log
        <3> QED
            BY <2>1, <3>1, <3>2
    <2>l. log \in RefNames
        BY <2>2, <1>t
    <2> HIDE DEF log
    <2>4. ASSUME NEW r \in RefNames, NEW c, NEW why, NEW by, NEW stamp, Updates(r, c, why, by, stamp)
          PROVE  reflog'[log] = reflog[log]
        <3>1. r # HEAD /\ r # call[q].name
            BY <2>1, <2>4, <1>p DEF Updates
        <3>2. log \notin LogsOf(r)
            BY <2>1, <2>2, <2>3, <3>1 DEF LogsOf
        <3> QED
            BY <2>4, <2>l, <3>2 DEF Updates, UpdateRef
    <2>5. ~GitSwitches /\ ~GitOrphans
        BY <2>1, <1>p DEF GitSwitches, GitOrphans, RefFiles
    <2>6. ASSUME NEW r \in RefNames, GitExpires(r) PROVE reflog'[log] = reflog[log]
        <3>1. r # log
            BY <2>1, <2>6, <1>p DEF GitExpires, log
        <3> QED
            BY <2>6, <2>l, <3>1, <1>t DEF GitExpires, TypeOK
    <2>7. ASSUME NEW p \in Procs, RewriteLog(p) PROVE reflog'[log] = reflog[log]
        <3>1. pc[p] = "rewrite" /\ pc'[p] = "restamp"
            BY <2>7, <1>t DEF RewriteLog, Goto, TypeOK
        <3>2. p # q
            BY <3>1
        <3>3. lock[LogFile(Head(call[p].todo))] = p
            BY <3>1 DEF LogInv, Settled
        <3>4. Head(call[p].todo) # log
            BY <2>1, <3>2, <3>3 DEF log
        <3> QED
            BY <2>7, <2>l, <3>4, <1>t DEF RewriteLog, TypeOK
    <2> QED
        BY <2>4, <2>5, <2>6, <2>7, LogEffects DEF log
<1>4. \A r \in RefNames : /\ lock[RefFile(r)] = q => lock'[RefFile(r)] = q
                          /\ lock[LogFile(r)] = q => lock'[LogFile(r)] = q
    BY Files
<1>5. pc[q] = "rewrite" => Head(call[q].todo) \in RefNames
    <2>1. call[q].todo \in Seq(RefNames)
        BY <1>t DEF TypeOK, Calls
    <2> QED
        BY <2>1, <1>t DEF Known
<1> QED
    BY <1>1, <1>2, <1>3, <1>4, <1>5, <1>t DEF Settled, NewestIsOurs, Verified


\* Every step of a call keeps what it relies on while it restamps.
LEMMA SettledStep ==
    ASSUME IInv, LogInv, Next, NEW q \in Procs
    PROVE  Settled(q)'
<1>t. /\ TypeOK /\ Settled(q) /\ Owned(q) /\ Known(q)
      /\ \A r \in RefNames : reflog[r] \in Seq(Entries)
      /\ HEAD \in RefNames /\ call[q].name \in RefNames /\ head \in RefNames
    BY DEF IInv, LogInv, TypeOK, RefNames, Calls
<1>p. q # Free /\ q # Git
    BY ConstantsAssumption
<1>g. ASSUME NEW l \in Control, Goto(q, l) PROVE pc'[q] = l
    BY <1>g, <1>t DEF TypeOK, Goto
\* Outside moveHead the call has named no ref.
<1>e. ASSUME NEW l \in Control, Goto(q, l), l \notin Restamping, l \notin {"move", "name"},
             call'[q].name = HEAD \/ l = "finish"
      PROVE  Settled(q)'
    BY <1>e, <1>g DEF Settled, Restamping, Verified
<1>r. ASSUME Return(q) PROVE Settled(q)'
    <2>1. call'[q].name = HEAD
        BY <1>r, <1>t DEF Return, NoCall, TypeOK
    <2> QED
        BY <2>1, <1>r, <1>e DEF Return, Control, Restamping
<1>m. ASSUME MoveHeadReturns(q) PROVE Settled(q)'
    BY <1>m, <1>e DEF MoveHeadReturns, Control, AmendLocked, Restamping
<1>1. CASE Amend(q)
    <2>1. CASE BeginAmend(q)
        <3>1. call'[q].name = HEAD
            BY <2>1, <1>t DEF TypeOK, BeginAmend, Settled, Restamping
        <3> QED
            BY <2>1, <3>1, <1>e DEF BeginAmend, Control, Restamping
    <2>2. CASE CheckState(q) \/ AcquireIndexLock(q) \/ ReadIndex(q) \/ RefuseAmend(q)
        <3>1. CASE Return(q)
            BY <3>1, <1>r
        <3>2. CASE ~Return(q)
            <4>1. /\ UNCHANGED call /\ pc[q] \in {"state", "lock", "read"}
                  /\ \E l \in {"lock", "read", "build"} : Goto(q, l)
                BY <2>2, <3>2 DEF CheckState, AcquireIndexLock, ReadIndex, RefuseAmend, Throw
            <4>2. call'[q].name = HEAD
                BY <4>1, <1>t DEF Settled, Restamping
            <4> QED
                BY <4>1, <4>2, <1>e DEF Control, AmendLocked, Restamping
        <3> QED
            BY <3>1, <3>2
    <2>3. ASSUME NEW e \in BOOLEAN, BuildAmended(q, e) PROVE Settled(q)'
        <3>1. call'[q].name = HEAD
            BY <2>3, <1>t DEF TypeOK, BuildAmended, Settled, Restamping
        <3> QED
            BY <2>3, <3>1, <1>e DEF BuildAmended, Control, AmendLocked, Restamping
    <2>4. CASE ReadHeadKind(q)
        <3>0. /\ call' = [call EXCEPT ![q].detached = (head = HEAD)]
              /\ call[q].name = HEAD
            BY <2>4, <1>t DEF ReadHeadKind, Settled, Restamping
        <3>1. call'[q].name = HEAD /\ call'[q].detached = (head = HEAD)
            <4>1. call[q] \in Calls /\ call \in [Procs -> Calls]
                BY <1>t DEF TypeOK
            <4> QED
                BY <3>0, <4>1 DEF Calls
        <3>2. pc'[q] = IF head = HEAD THEN "move" ELSE "name"
            BY <2>4, <1>t DEF ReadHeadKind, Goto, TypeOK
        <3> QED
            BY <3>1, <3>2 DEF Settled, Restamping, Verified
    <2>5. CASE ReadHeadName(q)
        <3>1. CASE Return(q)
            BY <3>1, <1>r
        <3>2. CASE ~Return(q)
            <4>1. call' = [call EXCEPT ![q].name = head] /\ Goto(q, "move") /\ pc[q] = "name"
                BY <2>5, <3>2 DEF ReadHeadName, Throw
            <4>2. ~call'[q].detached
                BY <4>1, <1>t, CallFields DEF Settled
            <4>3. pc'[q] = "move"
                BY <4>1, <1>g DEF Control, AmendLocked
            <4> QED
                BY <4>2, <4>3 DEF Settled, Restamping, Verified
        <3> QED
            BY <3>1, <3>2
    <2>6. CASE MoveHead(q)
        <3>1. CASE Return(q)
            BY <3>1, <1>r
        <3>2. CASE ~Return(q)
            <4>1. /\ call' = [call EXCEPT ![q].todo = LogsToRestamp(q)]
                  /\ Goto(q, "lockRef") /\ pc[q] = "move" /\ head' = head
                  /\ call[q].name = HEAD => head = HEAD
                BY <2>6, <3>2 DEF MoveHead, Matches, Throw
            <4>2. /\ call'[q].name = call[q].name /\ call'[q].detached = call[q].detached
                  /\ call'[q].todo = LogsToRestamp(q)
                BY <4>1, <1>t DEF TypeOK, Calls
            <4>3. call[q].detached => call[q].name = HEAD
                BY <4>1, <1>t DEF Settled
            <4>4. pc'[q] = "lockRef"
                BY <4>1, <1>g DEF Control, AmendLocked, Restamping
            <4>5. call'[q].todo \in {<<call'[q].name, HEAD>>, <<HEAD>>, << >>}
                BY <4>2, <4>3 DEF LogsToRestamp
            <4> QED
                BY <4>1, <4>2, <4>3, <4>4, <4>5 DEF Settled, Restamping, Verified
        <3> QED
            BY <3>1, <3>2
    <2>l. /\ RefFile(HEAD) \in LockFiles /\ RefFile(call[q].name) \in LockFiles
          /\ RefFile(call[q].name) = RefFile(HEAD) <=> call[q].name = HEAD
        BY <1>t, Files DEF RefFile
    <2>7. CASE LockRef(q)
        <3>1. CASE MoveHeadReturns(q)
            BY <3>1, <1>m
        <3>2. CASE ~MoveHeadReturns(q)
            <4>1. /\ pc[q] = "lockRef" /\ UNCHANGED <<ref, head, reflog, call>>
                  /\ lock'[RefFile(call[q].name)] = q
                  /\ pc'[q] = IF call[q].detached THEN "verify" ELSE "lockHead"
                BY <2>7, <3>2, <2>l, <1>t DEF LockRef, Take, Goto, repoVars, TypeOK
            <4>2. call[q].detached => call[q].name = HEAD
                BY <4>1, <1>t DEF Settled, Restamping
            <4>3. NewestIsOurs(q, reflog[HEAD])' <=> NewestIsOurs(q, reflog[HEAD])
                BY <4>1 DEF NewestIsOurs
            <4> QED
                BY <4>1, <4>2, <4>3, <1>t DEF Settled, Restamping, Verified
        <3> QED
            BY <3>1, <3>2
    <2>8. CASE LockHead(q)
        <3>1. CASE MoveHeadReturns(q)
            BY <3>1, <1>m
        <3>2. CASE ~MoveHeadReturns(q)
            <4>1. /\ pc[q] = "lockHead" /\ UNCHANGED <<ref, head, reflog, call>>
                  /\ lock[RefFile(HEAD)] = Free
                  /\ Take(q, RefFile(HEAD))
                  /\ pc'[q] = "verify"
                BY <2>8, <3>2, <1>t DEF LockHead, Take, Goto, repoVars, TypeOK
            <4>2. lock[RefFile(call[q].name)] = q /\ ~call[q].detached
                BY <4>1, <1>t DEF Settled
            <4>3. call[q].name # HEAD
                BY <4>1, <4>2, <1>p
            <4>4. lock'[RefFile(HEAD)] = q /\ lock'[RefFile(call[q].name)] = q
                BY <4>1, <4>2, <4>3, <2>l, <1>t DEF Take, TypeOK
            <4>5. call[q].todo \in {<<call[q].name, HEAD>>, <<HEAD>>, << >>}
                BY <4>1, <1>t DEF Settled, Restamping
            <4> QED
                BY <4>1, <4>2, <4>3, <4>4, <4>5 DEF Settled, Restamping, Verified
        <3> QED
            BY <3>1, <3>2
    <2>9. CASE VerifyRefs(q)
        <3>1. CASE MoveHeadReturns(q)
            BY <3>1, <1>m
        <3>2. CASE ~MoveHeadReturns(q)
            <4>1. /\ pc[q] = "verify" /\ UNCHANGED <<ref, head, reflog, call, lock>>
                  /\ pc'[q] = "restamp"
                  /\ Resolve(call[q].name) = call[q].new
                  /\ call[q].detached \/ head = call[q].name
                BY <2>9, <3>2, <1>t DEF VerifyRefs, Goto, repoVars, TypeOK
            <4>2. /\ call[q].detached => call[q].name = HEAD
                  /\ lock[RefFile(call[q].name)] = q /\ lock[RefFile(HEAD)] = q
                  /\ call[q].detached \/ call[q].name # HEAD
                  /\ call[q].todo \in {<<call[q].name, HEAD>>, <<HEAD>>, << >>}
                BY <4>1, <1>t DEF Settled, Restamping, Verified
            <4>3. ~(call[q].detached /\ head # HEAD /\ NewestIsOurs(q, reflog[HEAD]))
                <5>1. call[q].detached => ref[head] = call[q].new
                    BY <4>1, <4>2 DEF Resolve, HeadCommit
                <5> QED
                    BY <5>1, <4>1, <1>t DEF Settled, Restamping
            <4>4. NewestIsOurs(q, reflog[HEAD])' <=> NewestIsOurs(q, reflog[HEAD])
                BY <4>1 DEF NewestIsOurs
            <4> QED
                BY <4>1, <4>2, <4>3, <4>4 DEF Settled, Restamping, Verified
        <3> QED
            BY <3>1, <3>2
    \* What ReadLog and RewriteLog keep.
    <2>v. ASSUME pc[q] \in {"restamp", "rewrite"}
          PROVE  /\ lock[RefFile(call[q].name)] = q /\ lock[RefFile(HEAD)] = q
                 /\ call[q].detached => call[q].name = HEAD
                 /\ call[q].detached \/ call[q].name # HEAD
                 /\ call[q].detached \/ head = call[q].name
                 /\ call[q].todo \in {<<call[q].name, HEAD>>, <<HEAD>>, << >>}
                 /\ ~(call[q].detached /\ head # HEAD /\ NewestIsOurs(q, reflog[HEAD]))
        BY <2>v, <1>t DEF Settled, Restamping, Verified
    <2>t. ASSUME pc[q] \in {"restamp", "rewrite"}, call[q].todo # << >>
          PROVE  Tail(call[q].todo) \in {<<HEAD>>, << >>}
        <3>1. Tail(<<HEAD>>) = << >> /\ Tail(<<call[q].name, HEAD>>) = <<HEAD>>
            OBVIOUS
        <3> QED
            BY <2>v, <2>t, <3>1
    <2>10. CASE ReadLog(q)
        <3> DEFINE log == Head(call[q].todo)
        <3>1. /\ pc[q] = "restamp" /\ call[q].todo # << >> /\ UNCHANGED <<ref, head, reflog>>
              /\ lock[LogFile(log)] = Free
            BY <2>10 DEF ReadLog, repoVars
        <3>2. CASE NewestIsOurs(q, reflog[log])
            <4>1. /\ Take(q, LogFile(log)) /\ Goto(q, "rewrite")
                  /\ call' = [call EXCEPT ![q].seen = reflog[log]]
                BY <2>10, <3>2 DEF ReadLog
            <4>2. /\ call'[q].seen = reflog[log] /\ call'[q].todo = call[q].todo
                  /\ call'[q].name = call[q].name /\ call'[q].detached = call[q].detached
                  /\ call'[q].old = call[q].old /\ call'[q].new = call[q].new
                BY <4>1, <1>t, CallFields
            <4>3. pc'[q] = "rewrite"
                BY <4>1, <1>g DEF Control, AmendLocked, Restamping
            <4>4. log \in {call[q].name, HEAD} /\ log \in RefNames
                BY <2>v, <3>1, <1>t
            <4>5. /\ lock'[RefFile(HEAD)] = q /\ lock'[RefFile(call[q].name)] = q
                  /\ lock'[LogFile(log)] = q
                BY <4>1, <4>4, <2>l, <2>v, <3>1, <1>t, <1>p, Files DEF Take, TypeOK
            <4>6. /\ \A x : NewestIsOurs(q, x) <=>
                        /\ x # << >>
                        /\ x[Len(x)].old = call[q].old
                        /\ x[Len(x)].new = call[q].new
                        /\ x[Len(x)].why = "amend"
                BY DEF NewestIsOurs
            <4> HIDE DEF log
            <4>7. Head(call'[q].todo) = log
                BY <4>2 DEF log
            <4>8. /\ NewestIsOurs(q, call[q].seen)'
                  /\ NewestIsOurs(q, reflog[HEAD])' => NewestIsOurs(q, reflog[HEAD])
                BY <3>1, <3>2, <4>2 DEF NewestIsOurs
            <4> QED
                BY <2>v, <3>1, <4>2, <4>3, <4>5, <4>7, <4>8 DEF Settled, Restamping, Verified
        <3>3. CASE ~NewestIsOurs(q, reflog[log])
            <4>1. call' = [call EXCEPT ![q].todo = Tail(call[q].todo)] /\ UNCHANGED <<lock, pc>>
                BY <2>10, <3>3, <1>t DEF ReadLog, TypeOK
            <4>2. /\ call'[q].todo = Tail(call[q].todo)
                  /\ call'[q].name = call[q].name /\ call'[q].detached = call[q].detached
                  /\ call'[q].old = call[q].old /\ call'[q].new = call[q].new
                BY <4>1, <1>t DEF TypeOK, Calls
            <4>3. call'[q].todo \in {<<HEAD>>, << >>}
                BY <2>t, <3>1, <4>2
            <4>4. NewestIsOurs(q, reflog[HEAD])' => NewestIsOurs(q, reflog[HEAD])
                BY <3>1, <4>2 DEF NewestIsOurs
            <4> QED
                BY <2>v, <3>1, <4>1, <4>2, <4>3, <4>4 DEF Settled, Restamping, Verified
        <3> QED
            BY <3>2, <3>3
    <2>11. CASE RewriteLog(q)
        <3> DEFINE log == Head(call[q].todo)
        <3>1. /\ pc[q] = "rewrite" /\ UNCHANGED <<ref, head>> /\ Goto(q, "restamp")
              /\ Release(q, {LogFile(log)})
              /\ call' = [call EXCEPT ![q].todo = Tail(call[q].todo), ![q].seen = << >>]
              /\ call[q].todo # << >>
            BY <2>11, <1>t DEF RewriteLog, Known, TypeOK
        <3>2. /\ call'[q].todo = Tail(call[q].todo)
              /\ call'[q].name = call[q].name /\ call'[q].detached = call[q].detached
            <4>1. call' = [call EXCEPT ![q] =
                            [call[q] EXCEPT !.todo = Tail(call[q].todo), !.seen = << >>]]
                BY <3>1, <1>t DEF TypeOK
            <4>2. call[q] \in Calls
                BY <1>t DEF TypeOK
            <4> QED
                BY <4>1, <4>2, <1>t DEF TypeOK, Calls
        <3>3. pc'[q] = "restamp"
            BY <3>1, <1>g DEF Control, AmendLocked, Restamping
        <3>4. log \in {call[q].name, HEAD} /\ log \in RefNames
            BY <2>v, <3>1, <1>t
        <3>5. lock'[RefFile(HEAD)] = q /\ lock'[RefFile(call[q].name)] = q
            <4>1. RefFile(HEAD) # LogFile(log) /\ RefFile(call[q].name) # LogFile(log)
                BY <3>4, <1>t, Files
            <4> QED
                BY <2>v, <3>1, <4>1, <2>l DEF Release
        <3>6. call'[q].todo \in {<<HEAD>>, << >>}
            BY <2>t, <3>1, <3>2
        <3>7. call[q].detached => head = HEAD
            <4>1. call[q].detached => log = HEAD
                BY <2>v, <3>1, <3>4
            <4>2. call[q].seen = reflog[log] /\ NewestIsOurs(q, call[q].seen)
                BY <3>1, <1>t DEF Settled
            <4> HIDE DEF log
            <4> QED
                BY <2>v, <3>1, <4>1, <4>2
        <3> HIDE DEF log
        <3> QED
            BY <2>v, <3>1, <3>2, <3>3, <3>5, <3>6, <3>7 DEF Settled, Restamping, Verified
    <2>12. CASE RestampFails(q) \/ FinishAmend(q)
        BY <2>12, <1>r DEF RestampFails, FinishAmend, Throw
    <2>13. CASE RestampDone(q)
        BY <2>13, <1>m DEF RestampDone
    <2> QED
        BY <1>1, <2>1, <2>2, <2>3, <2>4, <2>5, <2>6, <2>7, <2>8, <2>9, <2>10, <2>11, <2>12,
           <2>13 DEF Amend
<1>2. CASE Commit(q)
    <2>1. CASE BeginCommit(q)
        <3>1. call'[q].name = HEAD
            BY <2>1, <1>t DEF BeginCommit, Settled, Restamping
        <3> QED
            BY <2>1, <3>1, <1>e DEF BeginCommit, Control, Restamping
    <2>2. ASSUME NEW e \in BOOLEAN, BuildTree(q, e) PROVE Settled(q)'
        <3>1. CASE Return(q)
            BY <3>1, <1>r
        <3>2. CASE ~Return(q)
            <4>0. /\ call' = [call EXCEPT ![q].old = HeadCommit]
                  /\ Goto(q, "create") /\ pc[q] = "tree"
                BY <2>2, <3>2 DEF BuildTree, Throw
            <4>1. call'[q].name = HEAD /\ Goto(q, "create")
                BY <4>0, <1>t DEF TypeOK, Settled, Restamping
            <4> QED
                BY <4>1, <1>e DEF Control, Restamping
        <3> QED
            BY <3>1, <3>2
    <2>3. CASE CreateCommit(q)
        BY <2>3, <1>r DEF CreateCommit, Throw
    <2> QED
        BY <1>2, <2>1, <2>2, <2>3 DEF Commit
<1>3. CASE Crash(q)
    <2>1. call'[q].name = HEAD
        BY <1>3, <1>t DEF Crash, NoCall, TypeOK
    <2> QED
        BY <1>3, <2>1, <1>e DEF Crash, Control, Restamping
<1>4. CASE Restart(q)
    <2>1. call'[q].name = HEAD
        BY <1>4, <1>t DEF Restart, Settled, Restamping
    <2> QED
        BY <1>4, <2>1, <1>e DEF Restart, Control, Restamping
<1>5. CASE OtherGit \/ \E p \in Procs \ {q} : Acts(p)
    BY <1>5, <1>t, OthersLeave, SettledFrame
<1>6. CASE Stages(q)
    BY <1>6, SettledFrame DEF Stages
<1> QED
    BY <1>1, <1>2, <1>3, <1>4, <1>5, <1>6 DEF Next, Acts

-----------------------------------------------------------------------------

\* No log, no call: the invariant about the logs holds at first.
LEMMA InitLogs == Init => LogInv
<1> SUFFICES ASSUME Init
             PROVE  LogInv
    OBVIOUS
<1>1. \A r \in RefNames : reflog[r] = << >>
    BY DEF Init
<1>2. \A p \in Procs : pc[p] = "idle" /\ call[p].name = HEAD
    BY DEF Init, NoCall
<1>3. LogsHold /\ StampedByMover
    BY <1>1 DEF LogsHold, StampedByMover
<1>4. \A p \in Procs : Owned(p) /\ Settled(p)
    BY <1>2 DEF Owned, Settled, Updating, Restamping, Verified
<1> QED
    BY <1>3, <1>4 DEF LogInv

\* A step that changes nothing keeps what the logs rest on.
LEMMA StutterLogs == LogInv /\ UNCHANGED vars => LogInv'
BY DEF LogInv, LogsHold, StampedByMover, Owned, Settled, LooksLike, NewestIsOurs, vars, repoVars

\* Whatever other processes do, what amendDetailed and commitDetailed rely on
\* while they log and restamp holds.
THEOREM LogInvariant == Spec => []LogInv
<1>1. IInv /\ LogInv /\ [Next]_vars => LogInv'
    BY EntriesStep, OwnedStep, SettledStep, StutterLogs DEF LogInv
<1> QED
    BY InitLogs, Invariant, <1>1, PTL DEF Spec

\* restampReflog never signs an update that another process made.
THEOREM StampsAreOurs == Spec => []StampedByMover
<1>1. LogInv => StampedByMover
    BY DEF LogInv
<1> QED
    BY LogInvariant, <1>1, PTL

\* restampReflog never drops an update that another process logged.
THEOREM LogsGrow == Spec => ReflogOnlyGrows
<1>1. IInv /\ LogInv /\ [Next]_vars => [\A r \in RefNames : GrowsTo(reflog[r], reflog'[r])]_vars
    BY GrowStep
<1> QED
    BY Invariant, LogInvariant, <1>1, PTL DEF Spec, ReflogOnlyGrows

=============================================================================
