---------------------------- MODULE OctopusProofs ----------------------------
(***************************************************************************)
(* Proofs about the octopus merge.  OctopusCheckout, for any paths, any    *)
(* merges and any number of throws and edits: a merge that fails is taken  *)
(* back, and one that is made or left staged is all there.  OctopusHeads,  *)
(* for any history and heads: the heads taken and the parents recorded     *)
(* are all that is needed and no more.                                     *)
(***************************************************************************)
EXTENDS OctopusCheckout, OctopusHeads, FiniteSetTheorems, WellFoundedInduction, TLAPS

-----------------------------------------------------------------------------
(* Types                                                                   *)

\* What checkout writes is content.
LEMMA OnDiskType ==
    ASSUME TypeOK, NEW p \in Paths
    PROVE  OnDisk(p) \in Contents
<1>1. call.result[p] \in Entries
    BY DEF TypeOK, Calls
<1> QED
    BY <1>1 DEF OnDisk, Entries, Merged, Unmerged, Contents

\* Putting back keeps a work tree a work tree, and so does rolling back.
LEMMA PutBackType ==
    ASSUME NEW d \in [Paths -> Contents], NEW i \in Index, NEW ps
    PROVE  PutBack(d, i, ps) \in [Paths -> Contents]
BY DEF PutBack, Index, Merged, Contents

\* So does the rollback's work tree.
LEMMA BackType ==
    ASSUME TypeOK, NEW d \in [Paths -> Contents]
    PROVE  Back(d) \in [Paths -> Contents]
<1>1. [p \in Paths |-> IF p \in Changed /\ call.found[p] = Nothing THEN Nothing ELSE d[p]]
         \in [Paths -> Contents]
    BY DEF Contents
<1>2. call.snap \in Index
    BY DEF TypeOK, Calls
<1> QED
    BY <1>1, <1>2, PutBackType DEF Back

\* And reapplySparsity's undo.
LEMMA UndoneType ==
    ASSUME TypeOK, NEW d \in [Paths -> Contents], NEW i \in Index
    PROVE  Undone(d, i) \in [Paths -> Contents]
<1>1. PutBack(d, i, call.removed) \in [Paths -> Contents]
    BY PutBackType
<1> QED
    BY <1>1 DEF Undone, Contents

\* A step of the call that leaves everyone else's state alone.
LEMMA ThrowTypes ==
    ASSUME TypeOK, Fault, Over("thrown"), UNCHANGED <<call, others>>,
           disk' \in [Paths -> Contents], index' \in Index, state' \in SUBSET Files
    PROVE  TypeOK'
BY OctopusAssumption DEF OctopusAssumption, TypeOK, Fault, Over, others, Control, Outcomes

\* A rollback restores an index and a work tree.
LEMMA RollBackTypes ==
    ASSUME TypeOK, RollBack(disk)
    PROVE  disk' \in [Paths -> Contents] /\ index' \in Index
BY BackType DEF TypeOK, RollBack, Calls

\* A throw that takes the merge back.
LEMMA ThrowsBackTypes ==
    ASSUME TypeOK, ThrowsBack
    PROVE  TypeOK'
BY ThrowTypes, RollBackTypes DEF ThrowsBack, TypeOK

\* A throw with nothing to take back.
LEMMA ThrowsNowTypes ==
    ASSUME TypeOK, ThrowsNow
    PROVE  TypeOK'
BY ThrowTypes DEF ThrowsNow, TypeOK

\* A throw of a step after the checkout.
LEMMA SettleThrowsTypes ==
    ASSUME TypeOK, NEW d \in [Paths -> Contents], SettleThrows(d)
    PROVE  TypeOK'
<1>1. CASE Conflicts
    BY <1>1, ThrowTypes DEF SettleThrows, TypeOK
<1>2. CASE ~Conflicts
    <2>1. disk' \in [Paths -> Contents] /\ index' \in Index
        BY <1>2, BackType DEF SettleThrows, RollBack, TypeOK, Calls
    <2> QED
        BY <2>1, ThrowTypes DEF SettleThrows, TypeOK
<1> QED
    BY <1>1, <1>2

\* Writing and indexing what a checkout has for some paths.
LEMMA WritesTypes ==
    ASSUME TypeOK, NEW ps \in SUBSET Paths, Writes(ps)
    PROVE  TypeOK'
BY OnDiskType DEF Writes, TypeOK, others

\* And entering them in the index.
LEMMA IndexesTypes ==
    ASSUME TypeOK, NEW ps \in SUBSET Paths, NEW l \in Control, Indexes(ps, l)
    PROVE  TypeOK'
<1>1. index' \in Index
    BY DEF Indexes, TypeOK, Index, Calls
<1> QED
    BY <1>1 DEF Indexes, TypeOK, Goto, others

\* Every variable keeps its type.
LEMMA TypeStep ==
    ASSUME TypeOK, [Next]_vars
    PROVE  TypeOK'
<1> USE DEF others, Goto, Over
<1>1. CASE Begin
    BY <1>1 DEF Begin, TypeOK, Calls, Control, Outcomes, Index
<1>2. CASE Snapshot
    <2>1. CASE ThrowsNow
        BY <2>1, ThrowsNowTypes
    <2>2. CASE ~ThrowsNow
        <3>1. Changed \subseteq Paths /\ NotWritten \subseteq Paths
              /\ GoneAlready \subseteq Paths
            BY DEF Changed, NotWritten, GoneAlready
        <3>2. call' \in Calls
            <4>1. PICK g \in SUBSET Paths, o \in SUBSET Paths :
                     call' = [call EXCEPT !.snap = index, !.found = disk, !.outside = o,
                                 !.gone = g, !.todo = ((Changed \ g) \ o) \ index.skip,
                                 !.forced = ((Changed \ g) \ o) \cap index.skip]
                <5>1. \A g : {p \in SparseExclusions(Changed \ g) :
                                call.result[p] \in {"ours", "theirs"}} \subseteq Paths
                    BY <3>1 DEF SparseExclusions
                <5> QED
                    BY <1>2, <2>2, <3>1, <5>1 DEF Snapshot
            <4> QED
                BY <3>1, <4>1 DEF TypeOK, Calls
        <3> QED
            BY <1>2, <2>2, <3>2 DEF Snapshot, TypeOK, Control
    <2> QED
        BY <2>1, <2>2
<1>3. CASE RemoveOutside
    BY <1>3 DEF RemoveOutside, TypeOK, Contents, Control
<1>4. CASE RemoveOutsideThrows \/ CheckoutThrows \/ ForcedCheckoutThrows
    BY <1>4, ThrowsBackTypes DEF RemoveOutsideThrows, CheckoutThrows, ForcedCheckoutThrows
<1>5. CASE StageOutside
    <2>1. CASE ThrowsBack
        BY <2>1, ThrowsBackTypes
    <2>2. CASE ~ThrowsBack
        <3>1. index' \in Index
            BY <1>5, <2>2 DEF StageOutside, TypeOK, Index, Calls
        <3> QED
            BY <1>5, <2>2, <3>1 DEF StageOutside, TypeOK, Control
    <2> QED
        BY <2>1, <2>2
<1>6. CASE CheckoutRefuses
    <2>1. disk' \in [Paths -> Contents] /\ index' \in Index
        BY <1>6, RollBackTypes DEF CheckoutRefuses
    <2> QED
        BY <1>6, <2>1 DEF CheckoutRefuses, TypeOK, Control, Outcomes
<1>7. CASE Checkout \/ ForcedCheckout
    <2>1. call.todo \in SUBSET Paths /\ call.forced \in SUBSET Paths
        BY DEF TypeOK, Calls
    <2> QED
        BY <1>7, <2>1, WritesTypes, IndexesTypes DEF Checkout, ForcedCheckout, Control
<1>8. CASE IndexGone
    <2>1. CASE ThrowsBack
        BY <2>1, ThrowsBackTypes
    <2>2. CASE ~ThrowsBack
        <3>1. index' \in Index
            BY <1>8, <2>2 DEF IndexGone, TypeOK, Index, Calls
        <3> QED
            BY <1>8, <2>2, <3>1 DEF IndexGone, TypeOK, Control
    <2> QED
        BY <2>1, <2>2
<1>9. CASE CreateCommit
    <2>1. CASE ThrowsBack
        BY <2>1, ThrowsBackTypes
    <2>2. CASE ~ThrowsBack
        BY <1>9, <2>2 DEF CreateCommit, TypeOK, Control
    <2> QED
        BY <2>1, <2>2
<1>10. CASE KeepBits
    <2>1. CASE SettleThrows(disk)
        BY <2>1, SettleThrowsTypes DEF TypeOK
    <2>2. CASE ~SettleThrows(disk)
        BY <1>10, <2>2 DEF KeepBits, TypeOK, Control, Index, Calls
    <2> QED
        BY <2>1, <2>2
<1>11. CASE Reapply
    <2>1. CASE SettleThrows(disk)
        BY <2>1, SettleThrowsTypes DEF TypeOK
    <2>2. CASE ~SettleThrows(disk) /\ ~rules.file
        BY <1>11, <2>2 DEF Reapply, TypeOK, Control
    <2>3. CASE ~SettleThrows(disk) /\ rules.file
        <3>1. disk' \in [Paths -> Contents]
            BY <1>11, <2>3, PutBackType DEF Reapply, TypeOK
        <3>2. Restored \subseteq Paths
            BY DEF Restored, TypeOK, Index
        <3> QED
            BY <1>11, <2>3, <3>1, <3>2 DEF Reapply, TypeOK, Control, Calls
    <2> QED
        BY <2>1, <2>2, <2>3
<1>12. CASE Hide
    <2>1. CASE SettleThrows(Undone(disk, index))
        <3>1. Undone(disk, index) \in [Paths -> Contents]
            BY UndoneType DEF TypeOK
        <3> QED
            BY <2>1, <3>1, SettleThrowsTypes
    <2>2. CASE ~SettleThrows(Undone(disk, index))
        <3>1. Hidden \subseteq Paths /\ Restored \subseteq Paths
            BY DEF Hidden, Restored, TypeOK, Index
        <3> QED
            BY <1>12, <2>2, <3>1 DEF Hide, TypeOK, Control, Index, Calls, Contents
    <2> QED
        BY <2>1, <2>2
<1>13. CASE Settled
    BY <1>13 DEF Settled, TypeOK, Control, Outcomes
<1>14. CASE MoveHead \/ MoveHeadThrows
    BY <1>14, OctopusAssumption DEF OctopusAssumption, MoveHead, MoveHeadThrows, Fault, TypeOK, Control, Outcomes
<1>15. CASE Persist
    BY <1>15 DEF Persist, TypeOK, Control, NextFile, Files
<1>16. CASE PersistThrows
    <2>1. call.snap \in Index /\ disk \in [Paths -> Contents]
        BY DEF TypeOK, Calls
    <2>2. Undone(Back(disk), call.snap) \in [Paths -> Contents]
        BY <2>1, BackType, UndoneType
    <2> QED
        BY <1>16, <2>1, <2>2, ThrowTypes DEF PersistThrows
<1>17. CASE OthersMoveHead \/ OthersLockHead
    BY <1>17 DEF OthersMoveHead, OthersLockHead, TypeOK
<1>18. CASE \E p \in Paths : Edit(p)
    BY <1>18, OctopusAssumption DEF OctopusAssumption, Edit, TypeOK, Contents
<1>19. CASE UNCHANGED vars
    BY <1>19 DEF vars, TypeOK
<1> QED
    BY <1>1, <1>2, <1>3, <1>4, <1>5, <1>6, <1>7, <1>8, <1>9, <1>10, <1>11, <1>12, <1>13,
       <1>14, <1>15, <1>16, <1>17, <1>18, <1>19 DEF Next

-----------------------------------------------------------------------------
(* What the steps leave in place                                           *)

\* The plan, the index, what the sparse rules moved and the work tree, of one
\* path.
Good(p) == Plan(p) /\ IndexOf(p) /\ Moved(p) /\ (edits = 0 => DiskOf(p))

\* What is written is the same while the call merges the same.
LEMMA SameMerge ==
    ASSUME call'.head = call.head, call'.result = call.result
    PROVE  /\ Changed' = Changed /\ (Conflicts' <=> Conflicts)
           /\ \A p \in Paths : OnDisk(p)' = OnDisk(p)
BY DEF Changed, Conflicts, OnDisk

\* The plan of a path does not change while the call goes on.
LEMMA PlanKeeps ==
    ASSUME UNCHANGED <<call, rules>>, edits' = 0 => edits = 0, NEW p \in Paths, Plan(p)
    PROVE  Plan(p)'
BY DEF Plan, Changed, Tracked

\* What is known of a path in a phase after the plan.
LEMMA Known ==
    ASSUME IInv, Planned, NEW p \in Paths
    PROVE  Good(p) /\ call.snap = call.start.index /\ (edits = 0 => call.found = call.start.disk)
BY DEF IInv, Progress, Good

\* Removing what is outside the sparse checkout.
LEMMA RemoveOutsidePath ==
    ASSUME IInv, RemoveOutside, NEW p \in Paths
    PROVE  Good(p)'
<1>1. /\ pc = "outside" /\ UNCHANGED <<index, call, others>>
      /\ Good(p) /\ disk \in [Paths -> Contents]
    BY Known DEF RemoveOutside, Planned, IInv, TypeOK
<1>2. Changed' = Changed /\ (Conflicts' <=> Conflicts) /\ OnDisk(p)' = OnDisk(p)
    BY <1>1, SameMerge
<1>3. Plan(p)'
    BY <1>1, PlanKeeps DEF Good, others
<1>4. pc' \in {"outside", "stage"}
    BY DEF RemoveOutside, Goto
<1>5. IndexOf(p)'
    BY <1>1, <1>2, <1>3, <1>4 DEF Good, IndexOf, Plan, Entered, Sparse, Tracked, others
<1>6. Moved(p)'
    BY <1>1, <1>2, <1>4 DEF Good, Moved, Reapplied, Sparse, Tracked, others
<1>7. edits' = 0 => DiskOf(p)'
    <2>1. CASE \E q \in call.outside : disk' = [disk EXCEPT ![q] = Nothing]
        BY <1>1, <1>2, <1>4, <2>1 DEF Good, DiskOf, Plan, others, RemoveOutside
    <2>2. CASE /\ UNCHANGED disk
               /\ \A q \in call.outside : disk[q] = Nothing
        BY <1>1, <1>2, <1>4, <2>2 DEF Good, DiskOf, Plan, others
    <2> QED
        BY <2>1, <2>2 DEF RemoveOutside
<1> QED
    BY <1>3, <1>5, <1>6, <1>7 DEF Good

\* The snapshot is of what the call found.
LEMMA SnapshotTaken ==
    ASSUME IInv, Snapshot, Planned'
    PROVE  /\ call'.snap = call'.start.index
           /\ edits' = 0 => call'.found = call'.start.disk
<1>1. /\ pc = "snapshot" /\ UNCHANGED <<disk, index, others>>
      /\ index = call.start.index /\ (edits = 0 => disk = call.start.disk) /\ TypeOK
    BY DEF Snapshot, ThrowsNow, Over, Goto, Planned, IInv, Preflight
<1>2. call'.snap = index /\ call'.found = disk /\ call'.start = call.start
    BY <1>1 DEF Snapshot, ThrowsNow, Over, Planned, TypeOK, Calls
<1> QED
    BY <1>1, <1>2 DEF others

\* The snapshot and the plan made from it.
LEMMA SnapshotPath ==
    ASSUME IInv, Snapshot, Planned', NEW p \in Paths
    PROVE  Good(p)'
<1>1. /\ pc = "snapshot" /\ pc' = "outside" /\ UNCHANGED <<disk, index, state, others>>
      /\ index = call.start.index /\ (edits = 0 => disk = call.start.disk)
      /\ index.entry = call.head
      /\ call.keep = call.start.index.skip \ (IF rules.file THEN rules.cone ELSE {})
      /\ edits = 0 => \A q \in Changed : disk[q] \in {call.head[q], Nothing}
    BY DEF Snapshot, ThrowsNow, Over, Goto, Planned, IInv, Preflight, Begun
<1>2. /\ TypeOK /\ call.written = {} /\ call.removed = {} /\ (rules.file => rules.on)
    BY <1>1 DEF IInv, Preflight
<1>3. PICK gone, out : /\ gone = IF Conflicts THEN NotWritten ELSE GoneAlready
                       /\ out = {q \in SparseExclusions(Changed \ gone) :
                                    call.result[q] \in {"ours", "theirs"}}
                       /\ call' = [call EXCEPT !.snap = index, !.found = disk, !.outside = out,
                                      !.gone = gone,
                                      !.todo = ((Changed \ gone) \ out) \ index.skip,
                                      !.forced = ((Changed \ gone) \ out) \cap index.skip]
    BY <1>1 DEF Snapshot, ThrowsNow, Over
<1>4. /\ call'.snap = index /\ call'.found = disk /\ call'.outside = out /\ call'.gone = gone
      /\ call'.todo = ((Changed \ gone) \ out) \ index.skip
      /\ call'.forced = ((Changed \ gone) \ out) \cap index.skip
      /\ call'.head = call.head /\ call'.result = call.result /\ call'.start = call.start
      /\ call'.keep = call.keep /\ call'.written = {} /\ call'.removed = {}
    BY <1>2, <1>3 DEF TypeOK, Calls
<1>5. Changed' = Changed /\ (Conflicts' <=> Conflicts) /\ OnDisk(p)' = OnDisk(p)
    BY <1>4, SameMerge
<1>6. /\ gone \subseteq Changed
      /\ \A q \in gone : /\ ~Tracked(call.result[q])
                         /\ edits = 0 => disk[q] = Nothing
    BY <1>1, <1>3 DEF NotWritten, GoneAlready, Tracked, Changed, Nothing
<1>7. /\ out \subseteq Changed \ gone
      /\ \A q \in out : Tracked(call.result[q]) /\ (rules.file => q \notin rules.cone)
      /\ \A q \in Changed \ gone :
             Tracked(call.result[q]) /\ rules.file /\ q \notin out => q \in rules.cone
    BY <1>2, <1>3 DEF SparseExclusions, Tracked
<1>8. Plan(p)'
    BY <1>1, <1>4, <1>5, <1>6, <1>7 DEF Plan, Tracked, others
<1>9. IndexOf(p)'
    BY <1>1, <1>2, <1>4, <1>5 DEF IndexOf, Entered, Sparse, Tracked, others
<1>10. Moved(p)'
    BY <1>4 DEF Moved
<1>11. edits' = 0 => DiskOf(p)'
    BY <1>1, <1>4, <1>5, <1>6 DEF DiskOf, others
<1> QED
    BY <1>1, <1>4, <1>8, <1>9, <1>10, <1>11 DEF Good, others

\* The entries outside the sparse checkout.
LEMMA StageOutsidePath ==
    ASSUME IInv, StageOutside, Planned', NEW p \in Paths
    PROVE  Good(p)'
<1>1. /\ pc = "stage" /\ pc' = "checkout" /\ UNCHANGED <<disk, call, others>>
      /\ index' = [entry |-> [q \in Paths |-> IF q \in call.outside THEN call.result[q]
                                              ELSE index.entry[q]],
                   skip  |-> index.skip \cup call.outside]
      /\ Good(p) /\ TypeOK
    BY Known DEF StageOutside, ThrowsBack, Over, Goto, Planned, IInv
<1>2. Changed' = Changed /\ (Conflicts' <=> Conflicts) /\ OnDisk(p)' = OnDisk(p)
    BY <1>1, SameMerge
<1>3. Plan(p)'
    BY <1>1, PlanKeeps DEF Good, others
<1>4. IndexOf(p)'
    BY <1>1, <1>2, <1>3 DEF Good, IndexOf, Plan, Entered, Sparse, Tracked, others
<1>5. Moved(p)' /\ (edits' = 0 => DiskOf(p)')
    BY <1>1, <1>2 DEF Good, Moved, Reapplied, Sparse, Tracked, DiskOf, others
<1> QED
    BY <1>3, <1>4, <1>5 DEF Good

\* libgit2's checkout, of what is safe and what is forced.
LEMMA CheckoutPath ==
    ASSUME IInv, Checkout \/ ForcedCheckout, NEW p \in Paths
    PROVE  Good(p)'
<1>1. PICK ps, next : /\ \/ pc = "checkout" /\ ps = call.todo /\ next = "force"
                         \/ pc = "force" /\ ps = call.forced /\ next = "gone"
                      /\ Writes(ps) \/ Indexes(ps, next)
    BY DEF Checkout, ForcedCheckout
<1>2. /\ UNCHANGED <<call, others>> /\ Good(p) /\ TypeOK
    BY <1>1, Known DEF Writes, Indexes, Planned, IInv
<1>3. Changed' = Changed /\ (Conflicts' <=> Conflicts) /\ OnDisk(p)' = OnDisk(p)
    BY <1>2, SameMerge
<1>4. Plan(p)'
    BY <1>2, PlanKeeps DEF Good, others
<1>5. CASE Writes(ps)
    <2>1. UNCHANGED <<index, pc>>
        BY <1>5 DEF Writes
    <2>2. PICK q \in ps : disk' = [disk EXCEPT ![q] = OnDisk(q)]
        BY <1>5 DEF Writes
    <2>3. IndexOf(p)' /\ Moved(p)'
        BY <1>1, <1>2, <1>3, <2>1 DEF Good, IndexOf, Entered, Moved, Reapplied, Sparse, Tracked, others
    <2>4. edits' = 0 => DiskOf(p)'
        BY <1>1, <1>2, <1>3, <2>1, <2>2 DEF Good, DiskOf, Plan, others, TypeOK
    <2> QED
        BY <1>4, <2>3, <2>4 DEF Good
<1>6. CASE Indexes(ps, next)
    <2>1. /\ pc' = next /\ UNCHANGED disk /\ \A q \in ps : disk[q] = OnDisk(q)
          /\ index' = [entry |-> [q \in Paths |-> IF q \in ps THEN call.result[q]
                                                  ELSE index.entry[q]],
                       skip  |-> index.skip \ ps]
        BY <1>6 DEF Indexes, Goto
    <2>2. IndexOf(p)'
        BY <1>1, <1>2, <1>3, <2>1 DEF Good, IndexOf, Plan, Entered, Sparse, Tracked, others
    <2>3. Moved(p)'
        BY <1>1, <1>2, <1>3, <2>1 DEF Good, Moved, Reapplied, Sparse, Tracked, others
    <2>4. edits' = 0 => DiskOf(p)'
        BY <1>1, <1>2, <1>3, <2>1 DEF Good, DiskOf, Plan, others
    <2> QED
        BY <1>4, <2>2, <2>3, <2>4 DEF Good
<1> QED
    BY <1>1, <1>5, <1>6

\* The entries with nothing to check out.
LEMMA IndexGonePath ==
    ASSUME IInv, IndexGone, Planned', NEW p \in Paths
    PROVE  Good(p)'
<1>1. /\ pc = "gone" /\ pc' = (IF Conflicts THEN "persist" ELSE "commit")
      /\ UNCHANGED <<disk, call, others>>
      /\ index' = [entry |-> [q \in Paths |-> IF q \in call.gone THEN call.result[q]
                                              ELSE index.entry[q]],
                   skip  |-> index.skip \ call.gone]
      /\ Good(p) /\ TypeOK
    BY Known DEF IndexGone, ThrowsBack, Over, Goto, Planned, IInv
<1>2. Changed' = Changed /\ (Conflicts' <=> Conflicts) /\ OnDisk(p)' = OnDisk(p)
    BY <1>1, SameMerge
<1>3. Plan(p)'
    BY <1>1, PlanKeeps DEF Good, others
<1>4. IndexOf(p)'
    BY <1>1, <1>2, <1>3 DEF Good, IndexOf, Plan, Entered, Sparse, Tracked, others
<1>5. Moved(p)'
    BY <1>1, <1>2 DEF Good, Moved, Reapplied, Sparse, Tracked, others
<1>6. edits' = 0 => DiskOf(p)'
    BY <1>1, <1>2 DEF Good, DiskOf, Plan, others
<1> QED
    BY <1>3, <1>4, <1>5, <1>6 DEF Good

\* The bits the checkout lost.
LEMMA KeepBitsPath ==
    ASSUME IInv, KeepBits, Planned', NEW p \in Paths
    PROVE  Good(p)'
<1>1. /\ pc = "bits" /\ UNCHANGED <<disk, call, others>>
      /\ Good(p) /\ TypeOK
      /\ \/ pc' = "bits" /\ \E q \in call.keep : index' = [index EXCEPT !.skip = @ \cup {q}]
         \/ /\ pc' = "reapply" /\ UNCHANGED index
            /\ \A q \in call.keep : index.entry[q] \in {"ours", "theirs"} => q \in index.skip
    BY Known DEF KeepBits, SettleThrows, Over, Goto, Planned, IInv
<1>2. /\ Changed' = Changed /\ (Conflicts' <=> Conflicts) /\ OnDisk(p)' = OnDisk(p)
      /\ call.keep = call.start.index.skip \ (IF rules.file THEN rules.cone ELSE {})
    BY <1>1, SameMerge DEF IInv, Preflight, Begun
<1>3. Plan(p)'
    BY <1>1, PlanKeeps DEF Good, others
<1>4. IndexOf(p)'
    BY <1>1, <1>2, <1>3 DEF Good, IndexOf, Plan, Entered, Sparse, Tracked, others, TypeOK, Index
<1>5. Moved(p)' /\ (edits' = 0 => DiskOf(p)')
    BY <1>1, <1>2 DEF Good, Moved, Reapplied, Sparse, Tracked, DiskOf, others
<1> QED
    BY <1>3, <1>4, <1>5 DEF Good

\* The sparse rules taking paths back in.
LEMMA ReapplyPath ==
    ASSUME IInv, Reapply, Planned', NEW p \in Paths
    PROVE  Good(p)' /\ UNCHANGED <<call.snap, call.found, call.start>>
<1>1. /\ pc = "reapply" /\ UNCHANGED <<index, others>> /\ Good(p) /\ TypeOK
      /\ pc' \in {"mark", "hide"}
    BY Known DEF Reapply, SettleThrows, Over, Goto, Planned, IInv
<1>2. /\ p \notin call.written \cup call.removed
      /\ pc = "reapply" => ~Sparse /\ Entered = Changed
    BY <1>1 DEF Good, Moved, Reapplied, Sparse, Entered
<1>3. CASE pc' = "mark"
    <2>1. UNCHANGED <<disk, call>> /\ ~rules.file
        BY <1>1, <1>3 DEF Reapply, SettleThrows, Over, Goto
    <2>2. Changed' = Changed /\ (Conflicts' <=> Conflicts) /\ OnDisk(p)' = OnDisk(p)
        BY <2>1, SameMerge
    <2>3. Plan(p)'
        BY <1>1, <2>1, PlanKeeps DEF Good, others
    <2>4. IndexOf(p)'
        BY <1>1, <1>2, <1>3, <2>1, <2>2 DEF Good, IndexOf, Entered, Sparse, Tracked, others
    <2>5. Moved(p)' /\ (edits' = 0 => DiskOf(p)')
        BY <1>1, <1>2, <1>3, <2>1, <2>2 DEF Good, Moved, DiskOf, others
    <2> QED
        BY <2>1, <2>3, <2>4, <2>5 DEF Good
<1>4. CASE pc' = "hide"
    <2>1. PICK missing : /\ missing = {q \in Restored : disk[q] = Nothing}
                         /\ call' = [call EXCEPT !.written = missing]
                         /\ disk' = PutBack(disk, index, missing)
                         /\ rules.file
        BY <1>1, <1>4 DEF Reapply, SettleThrows, Over, Goto
    <2>2. /\ call'.written = missing
          /\ UNCHANGED <<call.head, call.result, call.keep, call.snap, call.found, call.outside,
                         call.todo, call.forced, call.gone, call.removed, call.start>>
        BY <1>1, <2>1 DEF TypeOK, Calls
    <2>3. Changed' = Changed /\ (Conflicts' <=> Conflicts) /\ OnDisk(p)' = OnDisk(p)
        BY <2>2, SameMerge
    <2>4. p \in missing => /\ p \in index.skip /\ Tracked(index.entry[p])
                           /\ p \in rules.cone /\ disk[p] = Nothing
        BY <2>1 DEF Restored, Tracked
    <2>5. call.keep = call.start.index.skip \ rules.cone
        BY <1>1, <2>1 DEF IInv, Preflight, Begun
    <2>6. p \in missing => p \notin Changed /\ p \in call.start.index.skip
        BY <1>1, <1>2, <2>1, <2>4, <2>5 DEF Good, IndexOf, Plan
    <2>7. disk'[p] = IF p \in missing THEN index.entry[p] ELSE disk[p]
        BY <2>1, <2>4 DEF PutBack, Merged, Nothing, Tracked
    <2>8. Plan(p)'
        BY <1>1, <2>2, <2>3 DEF Good, Plan, Tracked, others
    <2>9. IndexOf(p)'
        BY <1>1, <1>2, <1>4, <2>2, <2>3 DEF Good, IndexOf, Entered, Sparse, Tracked, others
    <2>10. Moved(p)'
        BY <1>1, <1>2, <1>4, <2>1, <2>2, <2>3, <2>4, <2>6 DEF Moved, Reapplied, others
    <2>11. edits' = 0 => DiskOf(p)'
        BY <1>1, <1>2, <1>4, <2>2, <2>3, <2>4, <2>6, <2>7 DEF Good, DiskOf, Plan, others
    <2> QED
        BY <2>2, <2>8, <2>9, <2>10, <2>11 DEF Good
<1> QED
    BY <1>1, <1>3, <1>4

\* And leaving paths out.
LEMMA HidePath ==
    ASSUME IInv, Hide, Planned', NEW p \in Paths
    PROVE  Good(p)' /\ UNCHANGED <<call.snap, call.found, call.start>>
<1>1. /\ pc = "hide" /\ UNCHANGED others /\ Good(p) /\ TypeOK
      /\ pc' \in {"hide", "mark"}
    BY Known DEF Hide, SettleThrows, Over, Goto, Planned, IInv
<1>2. /\ ~Sparse /\ Entered = Changed /\ Reapplied
    BY <1>1 DEF Reapplied, Sparse, Entered
<1>3. CASE pc' = "hide"
    <2>1. PICK q \in Hidden : /\ disk[q] = index.entry[q]
                              /\ disk' = [disk EXCEPT ![q] = Nothing]
                              /\ call' = [call EXCEPT !.removed = @ \cup {q}]
                              /\ UNCHANGED index
        BY <1>1, <1>3 DEF Hide, SettleThrows, Over, Goto
    <2>2. /\ call'.removed = call.removed \cup {q}
          /\ UNCHANGED <<call.head, call.result, call.keep, call.snap, call.found, call.outside,
                         call.todo, call.forced, call.gone, call.written, call.start>>
        BY <1>1, <2>1 DEF TypeOK, Calls
    <2>3. Changed' = Changed /\ (Conflicts' <=> Conflicts) /\ OnDisk(p)' = OnDisk(p)
        BY <2>2, SameMerge
    <2>4. rules.file
        BY <1>1 DEF IInv, Recorded
    <2>5. p = q => /\ Tracked(index.entry[p]) /\ p \notin rules.cone /\ p \notin index.skip
                   /\ p \notin Changed /\ index.entry[p] = call.head[p]
        BY <1>1, <1>2, <2>1, <2>4 DEF Hidden, Tracked, Good, IndexOf, Plan
    <2>6. p = q /\ p \notin call.removed /\ edits = 0 => call.start.disk[p] = call.head[p]
        BY <1>1, <1>2, <2>1, <2>5 DEF Good, DiskOf, Moved
    <2>7. Plan(p)'
        BY <1>1, <2>2, <2>3 DEF Good, Plan, Tracked, others
    <2>8. IndexOf(p)'
        BY <1>1, <1>2, <1>3, <2>1, <2>2, <2>3 DEF Good, IndexOf, Entered, Sparse, Tracked, others
    <2>9. Moved(p)'
        BY <1>1, <1>2, <1>3, <2>2, <2>3, <2>4, <2>5 DEF Good, Moved, Reapplied, Tracked, others
    <2>10. edits' = 0 => DiskOf(p)'
        BY <1>1, <1>2, <1>3, <2>1, <2>2, <2>3, <2>5, <2>6 DEF Good, DiskOf, Plan, others, TypeOK
    <2> QED
        BY <2>2, <2>7, <2>8, <2>9, <2>10 DEF Good
<1>4. CASE pc' = "mark"
    <2>1. /\ UNCHANGED <<disk, call>>
          /\ \A q \in Hidden : disk[q] # index.entry[q]
          /\ index' = [index EXCEPT !.skip = (@ \ Restored) \cup {q \in Hidden : disk[q] = Nothing}]
        BY <1>1, <1>4 DEF Hide, SettleThrows, Over, Goto
    <2>2. /\ index'.entry = index.entry
          /\ p \in index'.skip <=> \/ p \in index.skip /\ p \notin Restored
                                   \/ p \in Hidden /\ disk[p] = Nothing
        BY <1>1, <2>1 DEF TypeOK, Index
    <2>3. Changed' = Changed /\ (Conflicts' <=> Conflicts) /\ OnDisk(p)' = OnDisk(p)
        BY <2>1, SameMerge
    <2>4. rules.file
        BY <1>1 DEF IInv, Recorded
    <2>5. Plan(p)'
        BY <1>1, <2>1, PlanKeeps DEF Good, others
    <2>6. IndexOf(p)'
        BY <1>1, <1>2, <1>4, <2>1, <2>2, <2>3, <2>4
        DEF Good, IndexOf, Plan, Entered, Sparse, Tracked, others, Restored, Hidden
    <2>7. Moved(p)' /\ (edits' = 0 => DiskOf(p)')
        BY <1>1, <1>2, <1>4, <2>1, <2>3 DEF Good, Moved, Reapplied, Sparse, Tracked, DiskOf, others
    <2> QED
        BY <2>1, <2>5, <2>6, <2>7 DEF Good
<1> QED
    BY <1>1, <1>3, <1>4

\* The steps that leave the index, the work tree and the plan alone.
LEMMA QuietPath ==
    ASSUME IInv, Planned, Planned', UNCHANGED <<disk, index, call, rules, edits>>,
           \/ pc' = pc
           \/ pc = "commit" /\ pc' = "bits"
           \/ pc = "mark" /\ pc' = "head"
           \/ pc = "head" /\ pc' = "persist"
           \/ pc = "persist" /\ Conflicts /\ pc' = "bits",
           NEW p \in Paths
    PROVE  Good(p)'
<1>1. Good(p) /\ TypeOK
    BY Known DEF IInv
<1>2. Changed' = Changed /\ (Conflicts' <=> Conflicts) /\ OnDisk(p)' = OnDisk(p)
    BY SameMerge
<1>3. Plan(p)'
    BY <1>1, PlanKeeps DEF Good
<1>4. pc = "head" => ~Conflicts
    BY DEF IInv, Recorded
<1>5. IndexOf(p)'
    BY <1>1, <1>2, <1>4 DEF Good, IndexOf, Entered, Sparse, Tracked
<1>6. Moved(p)'
    BY <1>1, <1>2, <1>4 DEF Good, Moved, Reapplied, Sparse, Tracked
<1>7. edits' = 0 => DiskOf(p)'
    BY <1>1, <1>2 DEF Good, DiskOf
<1> QED
    BY <1>3, <1>5, <1>6, <1>7 DEF Good

\* An edit: nothing is claimed of the work tree any more but that what the
\* sparse rules leave out is hidden or the user's.
LEMMA EditPath ==
    ASSUME IInv, Planned, NEW q \in Paths, Edit(q), NEW p \in Paths
    PROVE  Good(p)' /\ edits' # 0
<1>1. /\ Good(p) /\ TypeOK /\ UNCHANGED <<index, call, rules, pc>>
      /\ disk' = [disk EXCEPT ![q] = "edit"] /\ edits' # 0
    BY Known DEF IInv, Edit, TypeOK
<1>2. Changed' = Changed /\ (Conflicts' <=> Conflicts) /\ OnDisk(p)' = OnDisk(p)
    BY <1>1, SameMerge
<1>3. Plan(p)'
    BY <1>1, PlanKeeps DEF Good
<1>4. IndexOf(p)'
    BY <1>1, <1>2 DEF Good, IndexOf, Entered, Sparse, Tracked, TypeOK, Nothing
<1>5. Moved(p)'
    BY <1>1, <1>2 DEF Good, Moved, Reapplied, Sparse, Tracked
<1> QED
    BY <1>1, <1>3, <1>4, <1>5 DEF Good

-----------------------------------------------------------------------------
(* The steps, and what the call knows of them                              *)

\* A step of the call that does not end it in a throw.
LEMMA CallStep ==
    ASSUME TypeOK, [Next]_vars
    PROVE  /\ UNCHANGED <<call.head, call.result, call.start, rules>>
           /\ pc # "idle" => call'.keep = call.keep
           /\ edits' = 0 => edits = 0
           /\ pc = "over" => pc' = "over"
<1> USE DEF others
<1>1. CASE UNCHANGED <<call, rules, edits>> /\ (pc = "over" => pc' = "over")
    BY <1>1
<1>2. CASE Begin
    BY <1>2 DEF Begin, TypeOK, Calls
<1>3. CASE Snapshot
    BY <1>3 DEF Snapshot, ThrowsNow, TypeOK, Calls
<1>4. CASE Reapply
    BY <1>4 DEF Reapply, SettleThrows, TypeOK, Calls
<1>5. CASE Hide
    BY <1>5 DEF Hide, SettleThrows, TypeOK, Calls
<1>6. CASE \E p \in Paths : Edit(p)
    BY <1>6 DEF Edit, TypeOK
<1>7. CASE RemoveOutside \/ RemoveOutsideThrows \/ StageOutside \/ CheckoutRefuses
           \/ Checkout \/ CheckoutThrows \/ ForcedCheckout \/ ForcedCheckoutThrows
           \/ IndexGone \/ CreateCommit \/ KeepBits
    BY <1>1, <1>7 DEF RemoveOutside, RemoveOutsideThrows, StageOutside, CheckoutRefuses, Checkout,
       CheckoutThrows, ForcedCheckout, ForcedCheckoutThrows, IndexGone, CreateCommit, KeepBits,
       Writes, Indexes, ThrowsBack, SettleThrows
<1>8. CASE Settled \/ MoveHead \/ MoveHeadThrows \/ Persist \/ PersistThrows
           \/ OthersMoveHead \/ OthersLockHead \/ UNCHANGED vars
    BY <1>1, <1>8 DEF Settled, MoveHead, MoveHeadThrows, Persist, PersistThrows, OthersMoveHead,
       OthersLockHead, vars
<1> QED
    BY <1>2, <1>3, <1>4, <1>5, <1>6, <1>7, <1>8 DEF Next

\* The preflight's findings stand.
LEMMA PreflightStep ==
    ASSUME IInv, [Next]_vars
    PROVE  Preflight'
<1>1. /\ UNCHANGED <<call.head, call.result, call.start, rules>>
      /\ pc # "idle" => call'.keep = call.keep
      /\ edits' = 0 => edits = 0
      /\ pc = "over" => pc' = "over"
      /\ TypeOK /\ Preflight
    BY CallStep DEF IInv
<1>2. Changed' = Changed
    BY <1>1, SameMerge
<1>3. ASSUME pc' \in {"idle", "snapshot"}
      PROVE  /\ index' = call'.start.index /\ (edits' = 0 => disk' = call'.start.disk)
             /\ call'.written = {} /\ call'.removed = {}
    <2>1. CASE Begin
        BY <1>1, <2>1 DEF Begin, Preflight, TypeOK, Calls, Over, Goto, others
    <2>2. CASE \E p \in Paths : Edit(p)
        BY <1>1, <1>3, <2>2 DEF Edit, Preflight, TypeOK
    <2>3. CASE OthersMoveHead \/ OthersLockHead \/ UNCHANGED vars
        BY <1>1, <1>3, <2>3 DEF OthersMoveHead, OthersLockHead, vars, Preflight
    <2>4. CASE Snapshot
        BY <1>3, <2>4 DEF Snapshot, ThrowsNow, Over, Goto
    <2>5. CASE RemoveOutside \/ RemoveOutsideThrows \/ StageOutside \/ CheckoutRefuses
               \/ Checkout \/ CheckoutThrows \/ ForcedCheckout \/ ForcedCheckoutThrows
               \/ IndexGone
        BY <1>3, <2>5 DEF RemoveOutside, RemoveOutsideThrows, StageOutside, CheckoutRefuses,
           Checkout, CheckoutThrows, ForcedCheckout, ForcedCheckoutThrows, IndexGone, Writes,
           Indexes, ThrowsBack, Over, Goto
    <2>6. CASE CreateCommit \/ KeepBits \/ Reapply \/ Hide \/ Settled \/ MoveHead
               \/ MoveHeadThrows \/ Persist \/ PersistThrows
        BY <1>3, <2>6 DEF CreateCommit, KeepBits, Reapply, Hide, Settled, MoveHead,
           MoveHeadThrows, Persist, PersistThrows, ThrowsBack, SettleThrows, Over, Goto
    <2> QED
        BY <2>1, <2>2, <2>3, <2>4, <2>5, <2>6 DEF Next
<1>4. ASSUME pc' \notin {"idle", "over"}
      PROVE  /\ call'.keep = call'.start.index.skip \ (IF rules'.file THEN rules'.cone ELSE {})
             /\ edits' = 0 => \A p \in Changed' :
                   call'.start.disk[p] \in {call'.head[p], Nothing}
    <2>1. CASE pc # "idle"
        BY <1>1, <1>2, <1>4, <2>1 DEF Preflight, Begun
    <2>2. CASE pc = "idle"
        <3>1. Begin
            BY <1>4, <2>2 DEF Next, Begin, Snapshot, RemoveOutside, RemoveOutsideThrows,
               StageOutside, CheckoutRefuses, Checkout, CheckoutThrows, ForcedCheckout,
               ForcedCheckoutThrows, IndexGone, CreateCommit, KeepBits, Reapply, Hide, Settled,
               MoveHead, MoveHeadThrows, Persist, PersistThrows, OthersMoveHead,
               OthersLockHead, Edit, vars
        <3>2. /\ index.entry = call.head /\ ~LocalChanges /\ index = call.start.index
              /\ call' = [call EXCEPT !.keep = IF rules.file THEN index.skip \ rules.cone
                                               ELSE index.skip]
              /\ UNCHANGED <<edits, rules>> /\ (edits = 0 => disk = call.start.disk)
            BY <1>1, <1>4, <2>2, <3>1 DEF Begin, Over, Goto, others, Preflight
        <3>3. call'.keep = call.start.index.skip \ (IF rules.file THEN rules.cone ELSE {})
            BY <1>1, <3>2 DEF TypeOK, Calls
        <3>4. edits = 0 => \A p \in Changed : call.start.disk[p] \in {call.head[p], Nothing}
            BY <3>2 DEF LocalChanges
        <3> QED
            BY <1>1, <1>2, <3>2, <3>3, <3>4
    <2> QED
        BY <2>1, <2>2
<1> QED
    BY <1>1, <1>3, <1>4 DEF Preflight, Begun

\* What is planned goes on as planned.
LEMMA ProgressStep ==
    ASSUME IInv, [Next]_vars
    PROVE  Progress'
<1> SUFFICES ASSUME Planned'
             PROVE  /\ call'.snap = call'.start.index
                    /\ edits' = 0 => call'.found = call'.start.disk
                    /\ \A p \in Paths : Good(p)'
    BY DEF Progress, Good
<1>1. /\ UNCHANGED <<call.start, rules>>
      /\ edits' = 0 => edits = 0
      /\ pc # "over"
    BY CallStep DEF IInv, Planned
<1>2. Planned => /\ call.snap = call.start.index
                 /\ edits = 0 => call.found = call.start.disk
    BY DEF IInv, Progress
<1>3. CASE Begin
    BY <1>3 DEF Begin, Planned, Over, Goto
<1>4. CASE Snapshot
    BY <1>4, SnapshotTaken, SnapshotPath
<1>5. CASE RemoveOutside \/ StageOutside \/ Checkout \/ ForcedCheckout \/ IndexGone \/ KeepBits
    <2>1. \A p \in Paths : Good(p)'
        BY <1>5, RemoveOutsidePath, StageOutsidePath, CheckoutPath, IndexGonePath, KeepBitsPath
    <2>2. Planned /\ UNCHANGED <<call.snap, call.found>>
        BY <1>5 DEF RemoveOutside, StageOutside, Checkout, ForcedCheckout, IndexGone, KeepBits,
           Writes, Indexes, ThrowsBack, SettleThrows, Planned
    <2> QED
        BY <1>1, <1>2, <2>1, <2>2
<1>6. CASE RemoveOutsideThrows \/ CheckoutRefuses \/ CheckoutThrows \/ ForcedCheckoutThrows
           \/ MoveHeadThrows \/ PersistThrows
    BY <1>6 DEF RemoveOutsideThrows, CheckoutRefuses, CheckoutThrows, ForcedCheckoutThrows,
       MoveHeadThrows, PersistThrows, ThrowsBack, Over, Planned
<1>7. CASE Reapply \/ Hide
    <2>1. \A p \in Paths : Good(p)' /\ UNCHANGED <<call.snap, call.found, call.start>>
        BY <1>7, ReapplyPath, HidePath
    <2>2. Planned /\ UNCHANGED <<call.snap, call.found>>
        <3>1. TypeOK
            BY DEF IInv
        <3> QED
            BY <1>7, <3>1 DEF Reapply, Hide, SettleThrows, Planned, TypeOK, Calls
    <2> QED
        BY <1>1, <1>2, <2>1, <2>2
<1>8. CASE CreateCommit \/ Settled \/ MoveHead \/ Persist
           \/ OthersMoveHead \/ OthersLockHead \/ UNCHANGED vars
    <2>1. CASE Planned
        <3>1. /\ UNCHANGED <<disk, index, call, rules, edits>>
              /\ \/ pc' = pc
                 \/ pc = "commit" /\ pc' = "bits"
                 \/ pc = "mark" /\ pc' = "head"
                 \/ pc = "head" /\ pc' = "persist"
                 \/ pc = "persist" /\ Conflicts /\ pc' = "bits"
            BY <1>8 DEF CreateCommit, Settled, MoveHead, Persist, OthersMoveHead, OthersLockHead,
               vars, others, ThrowsBack, Over, Goto, Planned
        <3> QED
            BY <1>1, <1>2, <2>1, <3>1, QuietPath
    <2>2. CASE ~Planned
        BY <1>1, <1>8, <2>2 DEF CreateCommit, Settled, MoveHead, Persist, OthersMoveHead,
           OthersLockHead, vars, Planned
    <2> QED
        BY <2>1, <2>2
<1>9. CASE \E q \in Paths : Edit(q)
    <2>1. PICK q \in Paths : Edit(q)
        BY <1>9
    <2>2. Planned /\ UNCHANGED call /\ edits' # 0
        BY <2>1 DEF Edit, Planned, IInv, TypeOK
    <2> QED
        BY <1>1, <1>2, <2>1, <2>2, EditPath
<1> QED
    BY <1>3, <1>4, <1>5, <1>6, <1>7, <1>8, <1>9 DEF Next

\* The state files, HEAD and the outcome go with the phase.
LEMMA RecordedStep ==
    ASSUME IInv, [Next]_vars
    PROVE  Recorded'
<1>1. Recorded /\ TypeOK /\ (Conflicts' <=> Conflicts)
    BY CallStep, SameMerge DEF IInv
<1> USE DEF Recorded, Begun, Over, Goto, others
<1>2. CASE Begin
    BY <1>1, <1>2 DEF Begin
<1>3. CASE Snapshot \/ RemoveOutside \/ StageOutside \/ Checkout \/ ForcedCheckout
    BY <1>1, <1>3 DEF Snapshot, ThrowsNow, RemoveOutside, StageOutside, ThrowsBack, Checkout,
       ForcedCheckout, Writes, Indexes
<1>4. CASE RemoveOutsideThrows \/ CheckoutRefuses \/ CheckoutThrows \/ ForcedCheckoutThrows
           \/ MoveHeadThrows \/ PersistThrows
    BY <1>1, <1>4 DEF RemoveOutsideThrows, CheckoutRefuses, CheckoutThrows, ForcedCheckoutThrows,
       MoveHeadThrows, PersistThrows, ThrowsBack
<1>5. CASE IndexGone \/ CreateCommit
    BY <1>1, <1>5 DEF IndexGone, CreateCommit, ThrowsBack
<1>6. CASE KeepBits \/ Reapply \/ Hide
    BY <1>1, <1>6 DEF KeepBits, Reapply, Hide, SettleThrows
<1>7. CASE Settled
    BY <1>1, <1>7 DEF Settled
<1>8. CASE MoveHead
    BY <1>1, <1>8 DEF MoveHead
<1>9. CASE Persist
    BY <1>1, <1>9 DEF Persist
<1>10. CASE OthersMoveHead \/ OthersLockHead \/ UNCHANGED vars \/ \E p \in Paths : Edit(p)
    BY <1>1, <1>10 DEF OthersMoveHead, OthersLockHead, vars, Edit
<1> QED
    BY <1>2, <1>3, <1>4, <1>5, <1>6, <1>7, <1>8, <1>9, <1>10 DEF Next

-----------------------------------------------------------------------------
(* What the call leaves                                                    *)

\* The five promises.
Results == /\ FailureChangesNothing /\ Concludable /\ MergeCheckedOut
           /\ LocalChangesSurvive /\ SparseAgain

\* A rollback puts the work tree back in what the merge changes; d is back
\* where it is back in the rest.
LEMMA BackRestores ==
    ASSUME IInv, Planned, edits = 0, NEW d \in [Paths -> Contents],
           \A p \in Paths \ Changed : d[p] = call.start.disk[p]
    PROVE  Back(d) = call.start.disk
<1>1. /\ TypeOK /\ call.start.index.entry = call.head
      /\ \A p \in Changed : call.start.disk[p] \in {call.head[p], Nothing}
      /\ call.snap = call.start.index /\ call.found = call.start.disk
    BY DEF IInv, Preflight, Progress, Planned, Begun
<1>2. call.start.disk \in [Paths -> Contents] /\ call.head \in [Paths -> {"ours", Nothing}]
    BY <1>1 DEF TypeOK, Calls
<1>3. Back(d) \in [Paths -> Contents]
    BY <1>1, BackType
<1>4. ASSUME NEW p \in Paths
      PROVE  Back(d)[p] = call.start.disk[p]
    BY <1>1, <1>2 DEF Back, PutBack, Merged, Changed, Nothing
<1> QED
    BY <1>2, <1>3, <1>4

\* The undo of the sparse rules takes back what they moved, and nothing of
\* what the merge changes.
LEMMA UndoneRestores ==
    ASSUME IInv, Planned, edits = 0, NEW d \in [Paths -> Contents], NEW i \in Index,
           NEW p \in Paths,
           p \notin Changed => d[p] = disk[p] /\ i.entry[p] = call.head[p]
    PROVE  Undone(d, i)[p] = IF p \in Changed THEN d[p] ELSE call.start.disk[p]
<1>1. Good(p)
    BY Known
<1>2. CASE p \in Changed
    BY <1>1, <1>2 DEF Good, Moved, Undone, PutBack
<1>3. CASE p \notin Changed
    BY <1>1, <1>3 DEF Good, Moved, DiskOf, Undone, PutBack, Tracked, Merged, Nothing
<1> QED
    BY <1>2, <1>3

\* Before the sparse rules move anything, what the merge does not change is
\* as it was found.
LEMMA Untouched ==
    ASSUME IInv, Planned, ~Reapplied, edits = 0, NEW p \in Paths, p \notin Changed
    PROVE  disk[p] = call.start.disk[p]
<1>1. Good(p)
    BY Known
<1> QED
    BY <1>1 DEF Good, Moved, DiskOf

\* While the call goes on nothing is promised.
LEMMA GoingOn ==
    ASSUME pc' # "over", Recorded'
    PROVE  Results'
BY DEF Recorded, Results, FailureChangesNothing, Concludable, MergeCheckedOut,
   LocalChangesSurvive, SparseAgain, Staged

\* A call that is over stays as it is.
LEMMA StaysOver ==
    ASSUME [Next]_vars, pc = "over"
    PROVE  UNCHANGED vars
BY DEF Next, Begin, Snapshot, RemoveOutside, RemoveOutsideThrows, StageOutside, CheckoutRefuses,
   Checkout, CheckoutThrows, ForcedCheckout, ForcedCheckoutThrows, IndexGone, CreateCommit,
   KeepBits, Reapply, Hide, Settled, MoveHead, MoveHeadThrows, Persist, PersistThrows,
   OthersMoveHead, OthersLockHead, Edit

\* A call that is taken back, or had nothing to take back, keeps its promises.
LEMMA TakenBack ==
    ASSUME IInv, pc # "over", UNCHANGED <<call, rules, head, edits>>, pc' = "over",
           outcome' \in {"refused", "thrown"}, outcome' = "thrown" => state' = {},
           index' = call.start.index, edits = 0 => disk' = call.start.disk
    PROVE  Results'
<1>1. head # "merge"
    BY DEF IInv, Recorded
<1>2. FailureChangesNothing'
    BY <1>1 DEF FailureChangesNothing
<1>3. Concludable' /\ MergeCheckedOut' /\ SparseAgain'
    BY DEF Concludable, MergeCheckedOut, SparseAgain, Staged
<1>4. LocalChangesSurvive'
    BY DEF LocalChangesSurvive
<1> QED
    BY <1>2, <1>3, <1>4 DEF Results

\* Once the checkout is through, the index is the merge.
LEMMA IndexIsMerge ==
    ASSUME IInv, Checked
    PROVE  index.entry = call.result
<1>1. TypeOK /\ Planned /\ Entered = Changed
    BY DEF IInv, Checked, Checking, Planned, Entered, TypeOK, Control
<1>2. index.entry \in [Paths -> Entries] /\ call.result \in [Paths -> Entries]
    BY <1>1 DEF TypeOK, Calls, Index
<1>3. ASSUME NEW p \in Paths
      PROVE  index.entry[p] = call.result[p]
    <2>1. IndexOf(p)
        BY <1>1, Known DEF Good
    <2> QED
        BY <1>1, <2>1 DEF IndexOf, Changed
<1> QED
    BY <1>2, <1>3

\* A throw after the conflicts were checked out leaves the merge to conclude.
LEMMA LeftToConclude ==
    ASSUME IInv, Checked, pc \in {"bits", "reapply", "hide"}, Conflicts,
           UNCHANGED <<index, state, call, rules, head, edits>>, pc' = "over",
           outcome' = "thrown",
           edits = 0 => \A p \in Paths : p \in Changed \/ disk'[p] = call.start.disk[p]
    PROVE  Results'
<1>1. /\ head # "merge" /\ state = Files /\ index.entry = call.result
      /\ call.start.index.entry = call.head
      /\ edits = 0 => \A p \in Changed : call.start.disk[p] \in {call.head[p], Nothing}
    BY IndexIsMerge DEF IInv, Recorded, Preflight, Begun
<1>2. (Conflicts' <=> Conflicts) /\ Changed' = Changed /\ Files # {}
    BY SameMerge DEF Files
<1>3. FailureChangesNothing' /\ MergeCheckedOut' /\ SparseAgain'
    BY <1>1, <1>2 DEF FailureChangesNothing, MergeCheckedOut, SparseAgain, Staged
<1>4. Concludable'
    BY <1>1, <1>2 DEF Concludable
<1>5. LocalChangesSurvive'
    BY <1>1, <1>2 DEF LocalChangesSurvive
<1> QED
    BY <1>3, <1>4, <1>5 DEF Results

\* A merge that is over without a throw is all there.
LEMMA AllThere ==
    ASSUME IInv, Sparse, UNCHANGED <<disk, index, call, rules, edits>>, pc' = "over",
           outcome' \in Staged \cup {"mergeCommit", "headUnreadable"},
           outcome' \in Staged => state' = Files /\ head' # "merge",
           outcome' \notin Staged => state' = {},
           outcome' = "mergeCommit" => head' = "merge"
    PROVE  Results'
<1>1. Checked /\ Planned /\ pc \notin {"reapply", "hide"}
    BY DEF Sparse, Checked, Checking, Planned
<1>2. /\ index.entry = call.result /\ call.start.index.entry = call.head
      /\ edits = 0 => \A p \in Changed : call.start.disk[p] \in {call.head[p], Nothing}
      /\ \A p \in Paths : Good(p)
    BY <1>1, IndexIsMerge, Known DEF IInv, Preflight, Begun, Planned
<1>3. /\ Changed' = Changed /\ (Conflicts' <=> Conflicts)
      /\ \A p \in Paths : OnDisk(p)' = OnDisk(p)
    BY SameMerge
<1>4. Entered = Changed
    BY <1>1 DEF Checked, Checking, Entered
<1>5. FailureChangesNothing'
    BY DEF FailureChangesNothing, Staged
<1>6. Concludable'
    BY <1>2, <1>3 DEF Concludable
<1>7. ASSUME NEW p \in Changed, edits = 0
      PROVE  disk[p] = OnDisk(p) \/ (disk[p] = Nothing /\ p \in index.skip \cup call.gone)
    <2>1. p \in Paths /\ Plan(p) /\ DiskOf(p) /\ IndexOf(p)
        BY <1>2, <1>7 DEF Good, Changed
    <2> QED
        BY <1>1, <1>4, <1>7, <2>1 DEF Plan, DiskOf, IndexOf, Checked, Checking
<1>8. MergeCheckedOut'
    BY <1>2, <1>3, <1>7 DEF MergeCheckedOut, Changed, Staged
<1>9. ASSUME NEW p \in Paths, edits = 0
      PROVE  \/ disk[p] = call.start.disk[p]
             \/ IF call.start.disk[p] = Nothing
                THEN p \in Changed \/ (rules.file /\ p \in call.start.index.skip \cap rules.cone)
                ELSE call.start.disk[p] = call.start.index.entry[p]
    <2>1. DiskOf(p) /\ Moved(p)
        BY <1>2, <1>9 DEF Good
    <2> QED
        BY <1>2, <1>9, <2>1 DEF DiskOf, Moved, Tracked, Nothing
<1>10. LocalChangesSurvive'
    BY <1>3, <1>9 DEF LocalChangesSurvive
<1>11. SparseAgain'
    <2>1. ASSUME NEW p \in Paths, index.entry[p] \in {"ours", "theirs"}
          PROVE  IF rules.file
                 THEN IF p \in rules.cone THEN p \notin index.skip
                      ELSE p \in index.skip \/ disk[p] \notin {index.entry[p], Nothing}
                 ELSE p \in call.start.index.skip => p \in index.skip
        BY <1>2, <2>1 DEF Good, IndexOf, Tracked
    <2> QED
        BY <2>1 DEF SparseAgain
<1> QED
    BY <1>5, <1>6, <1>8, <1>10, <1>11 DEF Results

\* A throw before the checkout is through.
LEMMA ThrownBack ==
    ASSUME IInv, Checking \/ pc = "commit", UNCHANGED <<state, call, rules, head, edits>>,
           pc' = "over", outcome' = "thrown", RollBack(disk)
    PROVE  Results'
<1>1. Planned /\ ~Reapplied /\ state = {} /\ TypeOK
    BY DEF Checking, Planned, Reapplied, Sparse, IInv, Recorded, Begun
<1>2. index' = call.start.index
    BY <1>1, Known DEF RollBack, IInv, Progress
<1>3. edits = 0 => disk' = call.start.disk
    BY <1>1, Untouched, BackRestores DEF RollBack, TypeOK
<1> QED
    BY <1>1, <1>2, <1>3, TakenBack DEF Planned

\* A throw of a step after the checkout, with the work tree back as d.
LEMMA ThrownLater ==
    ASSUME IInv, pc \in {"bits", "reapply", "hide"}, NEW d \in [Paths -> Contents],
           SettleThrows(d),
           edits = 0 => \A p \in Paths : p \in Changed \/ d[p] = call.start.disk[p]
    PROVE  Results'
<1>1. Planned /\ Checked /\ pc' = "over" /\ outcome' = "thrown"
      /\ UNCHANGED <<state, call, rules, head, edits>>
    BY DEF Planned, Checked, Checking, SettleThrows, Over, others
<1>2. CASE Conflicts
    BY <1>1, <1>2, LeftToConclude DEF SettleThrows
<1>3. CASE ~Conflicts
    <2>1. state = {} /\ index' = call.start.index
        BY <1>1, <1>3 DEF IInv, Recorded, Begun, SettleThrows, RollBack, Progress
    <2>2. edits = 0 => disk' = call.start.disk
        BY <1>1, <1>3, BackRestores DEF SettleThrows, RollBack
    <2> QED
        BY <1>1, <2>1, <2>2, TakenBack DEF Planned
<1> QED
    BY <1>2, <1>3

\* However a step ends the call, it keeps its promises.
LEMMA Ends ==
    ASSUME IInv, [Next]_vars, pc # "over", pc' = "over"
    PROVE  Results'
<1> USE DEF Over, Goto, others
<1>1. TypeOK /\ Recorded
    BY DEF IInv
<1>2. CASE Begin
    BY <1>1, <1>2, TakenBack DEF Begin, IInv, Preflight
<1>3. CASE Snapshot
    <2>1. pc = "snapshot" /\ ThrowsNow
        BY <1>3 DEF Snapshot
    <2> QED
        BY <1>1, <2>1, TakenBack DEF ThrowsNow, IInv, Preflight, Recorded, Begun
<1>4. CASE \/ RemoveOutside \/ RemoveOutsideThrows \/ StageOutside \/ CheckoutRefuses \/ Checkout
           \/ CheckoutThrows \/ ForcedCheckout \/ ForcedCheckoutThrows \/ IndexGone
           \/ CreateCommit
    <2>1. /\ Checking \/ pc = "commit"
          /\ outcome' = "thrown" /\ RollBack(disk) /\ UNCHANGED <<state, call, rules, head, edits>>
        BY <1>4 DEF RemoveOutside, RemoveOutsideThrows, StageOutside, CheckoutRefuses, Checkout,
           CheckoutThrows, ForcedCheckout, ForcedCheckoutThrows, IndexGone, CreateCommit, Writes,
           Indexes, ThrowsBack, Checking
    <2> QED
        BY <2>1, ThrownBack
<1>5. CASE KeepBits \/ Reapply
    <2>1. pc \in {"bits", "reapply"} /\ SettleThrows(disk)
        BY <1>5 DEF KeepBits, Reapply
    <2>2. edits = 0 => \A p \in Paths : p \in Changed \/ disk[p] = call.start.disk[p]
        BY <2>1, Untouched DEF Planned, Reapplied, Sparse
    <2> QED
        BY <1>1, <2>1, <2>2, ThrownLater DEF TypeOK
<1>6. CASE Hide
    <2>1. pc = "hide" /\ SettleThrows(Undone(disk, index)) /\ Planned
        BY <1>6 DEF Hide, Planned
    <2>2. Undone(disk, index) \in [Paths -> Contents]
        BY <1>1, UndoneType DEF TypeOK
    <2>3. \A p \in Paths : p \notin Changed => index.entry[p] = call.head[p]
        <3>1. Entered = Changed
            BY <2>1 DEF Entered
        <3> QED
            BY <2>1, <3>1, Known DEF Good, IndexOf
    <2>4. edits = 0 => \A p \in Paths : p \in Changed \/ Undone(disk, index)[p] = call.start.disk[p]
        BY <1>1, <2>1, <2>3, UndoneRestores DEF TypeOK
    <2> QED
        BY <2>1, <2>2, <2>4, ThrownLater
<1>7. CASE Settled
    <2>1. /\ pc = "mark" /\ Conflicts /\ outcome' = "conflicts"
          /\ UNCHANGED <<disk, index, state, call, rules, head, edits>>
        BY <1>7 DEF Settled
    <2> QED
        BY <1>1, <2>1, AllThere DEF Sparse, Staged, Recorded, Begun
<1>8. CASE MoveHead
    <2>1. /\ pc = "head" /\ outcome' = "mergeCommit" /\ head' = "merge"
          /\ UNCHANGED <<disk, index, state, call, rules, edits>>
        BY <1>8 DEF MoveHead
    <2> QED
        BY <1>1, <2>1, AllThere DEF Sparse, Staged, Recorded, Begun
<1>9. CASE MoveHeadThrows
    BY <1>1, <1>9, AllThere DEF MoveHeadThrows, Sparse, Staged, Recorded, Begun
<1>10. CASE Persist
    <2>1. /\ pc = "persist" /\ ~Conflicts /\ state = Files
          /\ UNCHANGED <<disk, index, state, call, rules, head, edits, outcome>>
        BY <1>10 DEF Persist
    <2>2. outcome \in Staged /\ head # "merge"
        BY <1>1, <2>1 DEF Recorded, Staged
    <2> QED
        BY <2>1, <2>2, AllThere DEF Sparse, Staged
<1>11. CASE PersistThrows
    <2>1. /\ pc = "persist" /\ outcome' = "thrown" /\ state' = {} /\ index' = call.snap
          /\ disk' = Undone(Back(disk), call.snap) /\ UNCHANGED <<call, rules, head, edits>>
          /\ Planned
        BY <1>11 DEF PersistThrows, Planned
    <2>2. call.snap = call.start.index /\ call.start.index.entry = call.head
        BY <2>1 DEF IInv, Progress, Preflight
    <2>3. /\ disk \in [Paths -> Contents] /\ Back(disk) \in [Paths -> Contents]
          /\ call.snap \in Index /\ call.start.disk \in [Paths -> Contents]
        BY <1>1, BackType DEF TypeOK, Calls
    <2>4. ASSUME edits = 0
          PROVE  disk' = call.start.disk
        <3> DEFINE d == [p \in Paths |-> IF p \in Changed THEN disk[p] ELSE call.start.disk[p]]
        <3>1. d \in [Paths -> Contents] /\ (\A p \in Paths \ Changed : d[p] = call.start.disk[p])
            BY <2>3
        <3>2. Back(d) = call.start.disk
            BY <2>1, <2>4, <3>1, BackRestores
        <3>3. ASSUME NEW p \in Paths
              PROVE  Back(disk)[p] = IF p \in Changed THEN call.start.disk[p] ELSE disk[p]
            <4>1. p \in Changed => Back(disk)[p] = Back(d)[p]
                BY <2>3, <3>1 DEF Back, PutBack
            <4>2. p \notin Changed => Back(disk)[p] = disk[p]
                BY DEF Back, PutBack
            <4> QED
                BY <3>2, <4>1, <4>2
        <3>4. ASSUME NEW p \in Paths
              PROVE  Undone(Back(disk), call.snap)[p] = call.start.disk[p]
            BY <2>1, <2>2, <2>3, <2>4, <3>3, UndoneRestores
        <3>5. Undone(Back(disk), call.snap) \in [Paths -> Contents]
            BY <1>1, <2>3, UndoneType
        <3> QED
            BY <2>1, <2>3, <3>4, <3>5
    <2> QED
        BY <2>1, <2>2, <2>4, TakenBack
<1>12. CASE OthersMoveHead \/ OthersLockHead \/ UNCHANGED vars \/ \E p \in Paths : Edit(p)
    BY <1>12 DEF OthersMoveHead, OthersLockHead, vars, Edit
<1> QED
    BY <1>2, <1>3, <1>4, <1>5, <1>6, <1>7, <1>8, <1>9, <1>10, <1>11, <1>12 DEF Next

-----------------------------------------------------------------------------
(* The invariant                                                           *)

\* The invariant holds when the call begins.
LEMMA InitInv == Init => IInv
<1> SUFFICES ASSUME Init
             PROVE  IInv
    OBVIOUS
<1>1. PICK mg \in Merges :
        /\ disk \in [Paths -> {"ours", "edit", Nothing}]
        /\ index \in [entry : {mg.head}, skip : SUBSET {p \in Paths : mg.head[p] # Nothing}]
        /\ call = [head |-> mg.head, result |-> mg.result, keep |-> {}, snap |-> index,
                   found |-> disk, outside |-> {}, todo |-> {}, forced |-> {}, gone |-> {},
                   written |-> {}, removed |-> {}, start |-> [disk |-> disk, index |-> index]]
    BY DEF Init
<1>2. /\ pc = "idle" /\ outcome = "none" /\ faults = 0 /\ edits = 0 /\ head = "start"
      /\ locked = FALSE /\ state \in SUBSET Files /\ (rules.file => rules.on)
      /\ rules \in [on : BOOLEAN, file : BOOLEAN, cone : SUBSET Paths]
    BY DEF Init, Files
<1>3. TypeOK
    <2>1. /\ mg.head \in [Paths -> {"ours", Nothing}] /\ mg.result \in [Paths -> Entries]
          /\ MaxFaults \in Nat /\ MaxEdits \in Nat
        BY OctopusAssumption DEF OctopusAssumption
    <2>2. disk \in [Paths -> Contents]
        BY <1>1 DEF Contents
    <2>3. index \in Index
        BY <1>1, <2>1 DEF Index, Entries, Merged
    <2>4. call \in Calls
        BY <1>1, <2>1, <2>2, <2>3 DEF Calls
    <2>5. locked \in BOOLEAN
        BY <1>2
    <2>6. pc \in Control /\ outcome \in Outcomes /\ faults \in 0..MaxFaults /\ edits \in 0..MaxEdits
        BY <1>2, <2>1 DEF Control, Outcomes
    <2> QED
        BY <1>2, <2>2, <2>3, <2>4, <2>5, <2>6 DEF TypeOK
<1>4. Preflight
    BY <1>1, <1>2 DEF Preflight, Begun
<1>5. Progress /\ Recorded
    BY <1>2 DEF Progress, Planned, Recorded, Begun
<1>6. Results
    BY <1>2 DEF Results, FailureChangesNothing, Concludable, MergeCheckedOut,
       LocalChangesSurvive, SparseAgain, Staged
<1> QED
    BY <1>3, <1>4, <1>5, <1>6 DEF IInv, Results

\* And every step keeps it.
LEMMA StepInv == IInv /\ [Next]_vars => IInv'
<1> SUFFICES ASSUME IInv, [Next]_vars
             PROVE  IInv'
    OBVIOUS
<1>1. TypeOK' /\ Preflight' /\ Progress' /\ Recorded'
    BY TypeStep, PreflightStep, ProgressStep, RecordedStep DEF IInv
<1>2. Results'
    <2>1. CASE pc' # "over"
        BY <1>1, <2>1, GoingOn
    <2>2. CASE pc = "over"
        BY <2>2, StaysOver DEF IInv, Results, vars, FailureChangesNothing, Concludable,
           MergeCheckedOut, LocalChangesSurvive, SparseAgain, Changed, Conflicts, OnDisk
    <2>3. CASE pc # "over" /\ pc' = "over"
        BY <2>3, Ends
    <2> QED
        BY <2>1, <2>2, <2>3
<1> QED
    BY <1>1, <1>2 DEF IInv, Results

-----------------------------------------------------------------------------

\* What each step of octopusMerge may count on, it may count on in every
\* call, with any steps throwing and anyone editing.
THEOREM Invariant == Spec => []IInv
BY InitInv, StepInv, PTL DEF Spec

\* A merge that fails changes nothing: the index and the work tree are as the
\* call found them, and HEAD has not moved to the merge.
THEOREM FailuresTakenBack == Spec => []FailureChangesNothing
<1>1. IInv => FailureChangesNothing
    BY DEF IInv
<1> QED
    BY <1>1, Invariant, PTL

\* The merge state the call leaves is one that `git commit` can conclude.
THEOREM MergesConcludable == Spec => []Concludable
<1>1. IInv => Concludable
    BY DEF IInv
<1> QED
    BY <1>1, Invariant, PTL

\* A merge made or left staged is in the index and the work tree.
THEOREM MergesCheckedOut == Spec => []MergeCheckedOut
<1>1. IInv => MergeCheckedOut
    BY DEF IInv
<1> QED
    BY <1>1, Invariant, PTL

\* What the user had in paths the merge does not touch is there in the end.
THEOREM ChangesSurvive == Spec => []LocalChangesSurvive
<1>1. IInv => LocalChangesSurvive
    BY DEF IInv
<1> QED
    BY <1>1, Invariant, PTL

\* The sparse checkout is whole again after a merge.
THEOREM SparseWhole == Spec => []SparseAgain
<1>1. IInv => SparseAgain
    BY DEF IInv
<1> QED
    BY <1>1, Invariant, PTL

-----------------------------------------------------------------------------
(* Numbers                                                                 *)

\* A set of numbers has a least one.
LEMMA Least ==
    ASSUME NEW S, S \subseteq Nat, S # {}
    PROVE  \E n \in S : \A m \in S : n <= m
<1> DEFINE Upto == {0..n : n \in S}
<1>1. Upto \subseteq FiniteSubsetsOf(Nat) /\ Upto # {}
    <2>1. ASSUME NEW n \in S
          PROVE  IsFiniteSet(0..n) /\ 0..n \subseteq Nat
        BY FS_Interval
    <2> QED
        BY <2>1 DEF FiniteSubsetsOf
<1>2. PICK x \in Upto : \A y \in Upto : ~ (<<y, x>> \in StrictSubsetOrdering(Nat))
    <2> HIDE DEF Upto
    <2> QED
        BY <1>1, WFMin, FS_StrictSubsetOrderingWellFounded
<1>3. PICK n \in S : x = 0..n
    BY <1>2
<1>4. ASSUME NEW m \in S, m < n
      PROVE  FALSE
    <2>1. 0..m \subseteq 0..n /\ n \in 0..n /\ n \notin 0..m
        BY <1>4
    <2>2. 0..m \in SUBSET Nat /\ 0..n \in SUBSET Nat
        OBVIOUS
    <2>3. <<0..m, 0..n>> \in StrictSubsetOrdering(Nat)
        BY <2>1, <2>2 DEF StrictSubsetOrdering
    <2> QED
        BY <1>2, <1>3, <2>3
<1> QED
    BY <1>4

-----------------------------------------------------------------------------
(* The reduction of the heads                                              *)

\* A set of commits has a last one.
LEMMA LastCommit ==
    ASSUME NEW S, S \subseteq Commits, S # {}
    PROVE  \E c \in S : \A d \in S : d <= c
<1> DEFINE T == {NCommits - c : c \in S}
<1>1. ASSUME NEW c \in S
      PROVE  c \in Nat /\ c <= NCommits /\ NCommits \in Nat
    BY HeadsAssumption DEF Commits
<1>2. T \subseteq Nat /\ T # {}
    BY <1>1
<1>3. PICK n \in T : \A m \in T : n <= m
    <2> HIDE DEF T
    <2> QED
        BY <1>2, Least
<1>4. PICK c \in S : n = NCommits - c
    BY <1>3
<1>5. ASSUME NEW d \in S
      PROVE  d <= c
    BY <1>1, <1>3, <1>4
<1> QED
    BY <1>5

\* A head that is given is mentioned a first time.
LEMMA FirstMention ==
    ASSUME given \in Seq(Commits), NEW c \in Range(given)
    PROVE  \E i \in DOMAIN given : given[i] = c /\ IsFirst(i)
<1> DEFINE S == {i \in DOMAIN given : given[i] = c}
<1>1. S \subseteq Nat /\ S # {}
    BY DEF Range
<1>2. PICK i \in S : \A j \in S : i <= j
    <2> HIDE DEF S
    <2> QED
        BY <1>1, Least
<1>3. ASSUME NEW j \in 1..(i - 1)
      PROVE  given[j] # given[i]
    BY <1>2
<1> QED
    BY <1>2, <1>3 DEF IsFirst

\* Parents that come before their children make an order of it.
LEMMA ReachableAncestry ==
    ASSUME NEW parents \in Histories
    PROVE  /\ Reachable(parents) \in [Commits -> SUBSET Commits]
           /\ \A c \in Commits :
                /\ c \in Reachable(parents)[c] /\ Reachable(parents)[c] \subseteq 1..c
                /\ \A d \in Reachable(parents)[c] :
                        Reachable(parents)[d] \subseteq Reachable(parents)[c]
<1> DEFINE Closed == {S \in SUBSET Commits : \A d \in S : parents[d] \subseteq S}
           R(c) == {d \in Commits : \A S \in Closed : c \in S => d \in S}
<1>1. Reachable(parents) = [c \in Commits |-> R(c)]
    BY DEF Reachable
<1>2. \A c \in Commits : R(c) \subseteq Commits
    OBVIOUS
<1>3. ASSUME NEW c \in Commits
      PROVE  c \in R(c)
    OBVIOUS
<1>4. ASSUME NEW c \in Commits
      PROVE  R(c) \subseteq 1..c
    <2>1. 1..c \subseteq Commits /\ c \in 1..c /\ c \in Nat
        BY HeadsAssumption DEF Commits
    <2>2. ASSUME NEW d \in 1..c
          PROVE  parents[d] \subseteq 1..c
        BY <2>1 DEF Histories, Commits
    <2>3. 1..c \in Closed
        BY <2>1, <2>2
    <2> QED
        BY <2>1, <2>3
<1>5. ASSUME NEW c \in Commits, NEW d \in R(c)
      PROVE  R(d) \subseteq R(c)
    OBVIOUS
<1> HIDE DEF R
<1> QED
    BY <1>1, <1>2, <1>3, <1>4, <1>5

\* The invariant holds at the start.
LEMMA HeadsInitInv == HeadsInit => HeadsInv
<1> SUFFICES ASSUME HeadsInit
             PROVE  HeadsInv
    OBVIOUS
<1>1. HeadsTypeOK /\ Ancestry
    <2>1. PICK parents \in Histories : reach = Reachable(parents)
        BY DEF HeadsInit
    <2>2. reach \in [Commits -> SUBSET Commits] /\ Ancestry
        BY <2>1, ReachableAncestry DEF Ancestry
    <2>3. reach[HEAD] \subseteq Commits
        BY <2>2 DEF HeadsInit
    <2>4. given \in Seq(Commits)
        <3>1. PICK n \in 1..MaxHeads : given \in [1..n -> Commits]
            BY DEF HeadsInit
        <3>2. n \in Nat
            BY <3>1, HeadsAssumption
        <3> QED
            BY <3>1, <3>2
    <2>5. << >> \in Seq(Commits)
        OBVIOUS
    <2> QED
        BY <2>2, <2>3, <2>4, <2>5 DEF HeadsInit, HeadsTypeOK
<1>2. NoneTaken /\ HeadsReduced /\ MergedSoFar /\ HistoryKept
    BY DEF HeadsInit, NoneTaken, HeadsReduced, MergedSoFar, HistoryKept
<1> QED
    BY <1>1, <1>2 DEF HeadsInv

-----------------------------------------------------------------------------
(* Steps                                                                   *)

\* The next head is one of those to be taken.
LEMMA NextHeadFound ==
    ASSUME HeadsTypeOK, todo # {}
    PROVE  NextHead \in todo /\ Oid \in Commits
<1>1. todo \subseteq Nat
    BY DEF HeadsTypeOK
<1>2. \E i \in todo : \A j \in todo : i <= j
    BY <1>1, Least
<1>3. NextHead \in todo
    BY <1>2 DEF NextHead
<1> QED
    BY <1>3 DEF Oid, HeadsTypeOK

\* The merge bases are reached from both sides.
LEMMA MergeBasesReached ==
    ASSUME HeadsTypeOK, NEW c \in Commits, NEW cs \in SUBSET Commits
    PROVE  MergeBases(c, cs) \subseteq reach[c] \cap ReachOf(cs)
BY DEF MergeBases, Maximal, ReachOf

\* The heads mergeHeads leaves reach what all of them reach.
LEMMA RemainingSuffice ==
    ASSUME HeadsTypeOK, Ancestry, NEW c \in Range(given)
    PROVE  c \in ReachOf({HEAD} \cup Given({i \in DOMAIN given : Remains(i)}))
<1> DEFINE S == {d \in Range(given) : c \in reach[d]}
<1>1. Range(given) \subseteq Commits
    BY DEF HeadsTypeOK, Range
<1>2. S \subseteq Commits /\ c \in S
    BY <1>1 DEF Ancestry
<1>3. PICK d \in S : \A e \in S : e <= d
    <2> HIDE DEF S
    <2> QED
        BY <1>2, LastCommit
<1>4. d \in Commits /\ c \in reach[d] /\ d \in Range(given)
    BY <1>2, <1>3
<1>5. PICK i \in DOMAIN given : given[i] = d /\ IsFirst(i)
    BY <1>4, FirstMention DEF HeadsTypeOK
<1>6. CASE ReachedByHead(i)
    <2>1. d \in reach[HEAD]
        BY <1>5, <1>6 DEF ReachedByHead, IsDescendant, Ancestry, HeadsTypeOK
    <2>2. c \in reach[HEAD]
        BY <1>4, <2>1 DEF Ancestry, HeadsTypeOK
    <2> QED
        BY <2>2 DEF ReachOf
<1>7. CASE ~ReachedByHead(i)
    <2>1. ASSUME NEW j \in DOMAIN given
          PROVE  ~IsDescendant(given[j], given[i])
        <3> SUFFICES ASSUME given[j] # d, d \in reach[given[j]]
                     PROVE  FALSE
            BY <1>5 DEF IsDescendant
        <3>1. given[j] \in Range(given) /\ given[j] \in Commits
            BY <1>1 DEF Range
        <3>2. c \in reach[given[j]]
            BY <1>4, <3>1 DEF Ancestry
        <3>3. given[j] <= d /\ d <= given[j]
            BY <1>3, <3>1, <3>2, <1>4 DEF Ancestry, Commits
        <3> QED
            BY <1>4, <3>1, <3>3 DEF Commits
    <2>2. d \in Given({k \in DOMAIN given : Remains(k)})
        BY <1>5, <1>7, <2>1 DEF Given, Remains
    <2> QED
        BY <1>4, <2>2 DEF ReachOf
<1> QED
    BY <1>6, <1>7

\* None of them is reached by HEAD or another one.
LEMMA RemainingNeeded ==
    ASSUME HeadsTypeOK, Ancestry, NEW i \in DOMAIN given, Remains(i)
    PROVE  given[i] \notin ReachOf({HEAD} \cup Given({j \in DOMAIN given : Remains(j)} \ {i}))
<1>1. given[i] \notin reach[HEAD]
    BY DEF Remains, ReachedByHead, IsDescendant
<1>2. ASSUME NEW j \in DOMAIN given, Remains(j), j # i
      PROVE  given[i] \notin reach[given[j]]
    <2>1. i \in Nat \ {0} /\ j \in Nat \ {0}
        BY DEF HeadsTypeOK
    <2>2. given[j] # given[i]
        <3>1. j \in 1..(i - 1) \/ i \in 1..(j - 1)
            BY <1>2, <2>1
        <3> QED
            BY <1>2, <3>1 DEF Remains, IsFirst
    <2> QED
        BY <2>2 DEF Remains, IsDescendant
<1> QED
    BY <1>1, <1>2 DEF ReachOf, Given

\* The reduction leaves the heads it needs.
LEMMA MergeHeadsStep ==
    ASSUME HeadsInv, MergeHeads
    PROVE  HeadsInv'
<1> USE DEF HeadsInv
<1>1. /\ left' = {i \in DOMAIN given : Remains(i)} /\ at' \in {"reduced", "between"}
      /\ UNCHANGED <<reach, HEAD, named, reducedBy, given, todo, conflicted>>
    BY DEF MergeHeads, asked, refs
<1>2. HeadsTypeOK' /\ Ancestry' /\ NoneTaken'
    <2>1. todo = {}
        BY DEF NoneTaken, MergeHeads
    <2> QED
        BY <1>1, <2>1 DEF MergeHeads, HeadsTypeOK, Ancestry, NoneTaken, asked, refs
<1>3. HeadsReduced'
    <2> DEFINE L == {i \in DOMAIN given : Remains(i)}
    <2>1. reducedBy' = HEAD /\ reach' = reach /\ given' = given /\ left' = L
        BY <1>1 DEF MergeHeads, NoneTaken
    <2>2. Range(given) \subseteq ReachOf({HEAD} \cup Given(L))
        BY RemainingSuffice
    <2>3. \A i \in L : given[i] \notin ReachOf({HEAD} \cup Given(L \ {i}))
        BY RemainingNeeded
    <2> HIDE DEF L
    <2>4. /\ \A cs : ReachOf(cs)' = ReachOf(cs)
          /\ \A hs : Given(hs)' = Given(hs)
        BY <2>1 DEF ReachOf, Given
    <2> QED
        BY <2>1, <2>2, <2>3 DEF HeadsReduced, ReachOf, Given, Range
<1>4. MergedSoFar' /\ HistoryKept'
    BY <1>1 DEF MergedSoFar, HistoryKept
<1> QED
    BY <1>2, <1>3, <1>4

\* What the reduction left stays as it is in every later step.
LEMMA StillReduced ==
    ASSUME HeadsReduced, at # "reduce", UNCHANGED <<reach, reducedBy, given, left>>
    PROVE  HeadsReduced'
BY DEF HeadsReduced, Given, ReachOf, Range

\* Others move a ref between the two calls.
LEMMA RefMovesStep ==
    ASSUME HeadsInv, RefMoves
    PROVE  HeadsInv'
<1> USE DEF HeadsInv
<1>1. /\ at = "between" /\ HEAD' \in Commits /\ named' \in [DOMAIN given -> Commits]
      /\ UNCHANGED <<reach, reducedBy, given, noFastForward, at, left, todo, mergedCommits,
                     mergedTree, nonFastForward, conflicted, recorded>>
    BY DEF RefMoves, HeadsTypeOK, asked
<1>2. HeadsTypeOK' /\ Ancestry' /\ NoneTaken'
    BY <1>1 DEF HeadsTypeOK, Ancestry, NoneTaken
<1>3. HeadsReduced'
    BY <1>1, StillReduced
<1>4. MergedSoFar' /\ HistoryKept'
    BY <1>1 DEF MergedSoFar, HistoryKept
<1> QED
    BY <1>2, <1>3, <1>4

\* octopusMerge reads the refs, with no head taken.
LEMMA OctopusMergeStep ==
    ASSUME HeadsInv, OctopusMerge
    PROVE  HeadsInv'
<1> USE DEF HeadsInv, OctopusMerge, asked, refs
<1>1. HeadsTypeOK' /\ Ancestry' /\ NoneTaken'
    BY DEF HeadsTypeOK, Ancestry, NoneTaken
<1>2. HeadsReduced'
    BY StillReduced
<1>3. MergedSoFar' /\ HistoryKept'
    BY DEF MergedSoFar, HistoryKept, ReachOf, Oids
<1> QED
    BY <1>1, <1>2, <1>3

\* A merge that fails says nothing more.
LEMMA GivesUpStep ==
    ASSUME HeadsInv, GivesUp
    PROVE  HeadsInv'
<1> USE DEF HeadsInv, GivesUp, Stepping, asked, refs
<1>1. HeadsTypeOK' /\ Ancestry' /\ NoneTaken'
    BY DEF HeadsTypeOK, Ancestry, NoneTaken
<1>2. HeadsReduced'
    BY StillReduced
<1>3. MergedSoFar' /\ HistoryKept'
    BY DEF MergedSoFar, HistoryKept
<1> QED
    BY <1>1, <1>2, <1>3

\* Taking the next head adds its commit to those taken.
LEMMA TakenAdds ==
    ASSUME HeadsTypeOK, todo # {}, TakeHead, UNCHANGED <<reach, HEAD, named, left>>
    PROVE  /\ todo' \subseteq left
           /\ ReachOf({HEAD} \cup Oids(left \ todo))'
                = ReachOf({HEAD} \cup Oids(left \ todo)) \cup reach[Oid]
<1>1. NextHead \in todo /\ todo \subseteq left /\ todo' = todo \ {NextHead}
    BY NextHeadFound DEF HeadsTypeOK, TakeHead
<1> DEFINE n == NextHead
           taken == left \ todo
<1>2. (left \ todo)' = taken \cup {n} /\ Oid = named[n]
    BY <1>1 DEF Oid
<1> HIDE DEF n, taken
<1>3. Oids(left \ todo)' = Oids(taken) \cup {named[n]}
    BY <1>2 DEF Oids
<1>4. ReachOf({HEAD} \cup Oids(left \ todo))' = ReachOf({HEAD} \cup (Oids(taken) \cup {named[n]}))
    BY <1>3 DEF ReachOf
<1>5. ReachOf({HEAD} \cup (Oids(taken) \cup {named[n]}))
        = ReachOf({HEAD} \cup Oids(taken)) \cup reach[named[n]]
    BY DEF ReachOf
<1> QED
    BY <1>1, <1>2, <1>4, <1>5 DEF taken

\* What is already merged adds nothing.
LEMMA AlreadyUpToDateStep ==
    ASSUME HeadsInv, AlreadyUpToDate
    PROVE  HeadsInv'
<1> USE DEF HeadsInv, AlreadyUpToDate, Stepping, asked, refs
<1>1. Oid \in Commits
    BY NextHeadFound
<1>2. /\ todo' \subseteq left
      /\ ReachOf({HEAD} \cup Oids(left \ todo))'
           = ReachOf({HEAD} \cup Oids(left \ todo)) \cup reach[Oid]
    BY TakenAdds
<1>3. HeadsTypeOK' /\ Ancestry' /\ NoneTaken' /\ HeadsReduced'
    BY <1>2, StillReduced DEF HeadsTypeOK, Ancestry, NoneTaken, TakeHead
<1>4. Oid \in ReachOf(mergedCommits)
    BY <1>1, MergeBasesReached DEF Bases, HeadsTypeOK
<1>5. reach[Oid] \subseteq ReachOf(mergedCommits)
    BY <1>4 DEF ReachOf, Ancestry, HeadsTypeOK
<1>6. MergedSoFar'
    <2>1. mergedTree = ReachOf({HEAD} \cup Oids(left \ todo)) /\ ReachOf(mergedCommits) = mergedTree
        BY DEF MergedSoFar
    <2>2. ReachOf(mergedCommits)' = ReachOf(mergedCommits)
        BY DEF ReachOf
    <2> QED
        BY <1>2, <1>5, <2>1, <2>2 DEF MergedSoFar
<1>7. HistoryKept'
    BY DEF HistoryKept, TakeHead
<1> QED
    BY <1>3, <1>6, <1>7

\* A fast-forward is to a head that has all that was merged.
LEMMA FastForwardsStep ==
    ASSUME HeadsInv, FastForwards
    PROVE  HeadsInv'
<1> USE DEF HeadsInv, FastForwards, Stepping, asked, refs
<1>1. Oid \in Commits
    BY NextHeadFound
<1>2. CASE at' = "failed" /\ UNCHANGED <<todo, mergedCommits, mergedTree>>
    BY <1>2, StillReduced DEF HeadsTypeOK, Ancestry, NoneTaken, MergedSoFar, HistoryKept
<1>3. CASE TakeHead /\ mergedCommits' = {Oid} /\ mergedTree' = reach[Oid]
    <2>1. /\ todo' \subseteq left
          /\ ReachOf({HEAD} \cup Oids(left \ todo))'
               = ReachOf({HEAD} \cup Oids(left \ todo)) \cup reach[Oid]
        BY <1>3, TakenAdds
    <2>2. HeadsTypeOK' /\ Ancestry' /\ NoneTaken' /\ HeadsReduced'
        BY <1>1, <1>3, <2>1, StillReduced DEF HeadsTypeOK, Ancestry, NoneTaken, TakeHead
    <2>3. mergedCommits \subseteq reach[Oid]
        BY <1>1, MergeBasesReached DEF CanFastForward, Bases, HeadsTypeOK
    <2>4. ReachOf(mergedCommits) \subseteq reach[Oid]
        BY <1>1, <2>3 DEF ReachOf, Ancestry, HeadsTypeOK
    <2>5. MergedSoFar'
        <3>1. mergedTree = ReachOf({HEAD} \cup Oids(left \ todo)) /\ ReachOf(mergedCommits) = mergedTree
            BY DEF MergedSoFar
        <3>2. ReachOf(mergedCommits)' = reach[Oid]
            BY <1>3 DEF ReachOf
        <3> QED
            BY <1>3, <2>1, <2>4, <3>1, <3>2 DEF MergedSoFar
    <2>6. HistoryKept'
        BY <1>3 DEF HistoryKept, TakeHead
    <2> QED
        BY <2>2, <2>5, <2>6
<1> QED
    BY <1>2, <1>3

\* A merge adds what its head has.
LEMMA MergesHeadStep ==
    ASSUME HeadsInv, MergesHead
    PROVE  HeadsInv'
<1> USE DEF HeadsInv, MergesHead, Stepping, asked, refs
<1>1. Oid \in Commits
    BY NextHeadFound
<1>2. CASE at' = "failed" /\ UNCHANGED <<todo, mergedCommits, mergedTree, conflicted>>
    BY <1>2, StillReduced DEF HeadsTypeOK, Ancestry, NoneTaken, MergedSoFar, HistoryKept
<1>3. CASE /\ TakeHead /\ mergedCommits' = mergedCommits \cup {Oid}
           /\ \/ mergedTree' = mergedTree \cup reach[Oid] /\ UNCHANGED conflicted
              \/ conflicted' = TRUE /\ UNCHANGED mergedTree
    <2>1. /\ todo' \subseteq left
          /\ ReachOf({HEAD} \cup Oids(left \ todo))'
               = ReachOf({HEAD} \cup Oids(left \ todo)) \cup reach[Oid]
        BY <1>3, TakenAdds
    <2>2. reach[Oid] \subseteq Commits
        BY <1>1 DEF HeadsTypeOK
    <2>3. HeadsTypeOK' /\ Ancestry' /\ NoneTaken' /\ HeadsReduced'
        BY <1>1, <1>3, <2>1, <2>2, StillReduced DEF HeadsTypeOK, Ancestry, NoneTaken, TakeHead
    <2>4. MergedSoFar'
        <3>1. mergedTree = ReachOf({HEAD} \cup Oids(left \ todo)) /\ ReachOf(mergedCommits) = mergedTree
            BY DEF MergedSoFar
        <3>2. ReachOf(mergedCommits)' = ReachOf(mergedCommits) \cup reach[Oid]
            BY <1>3 DEF ReachOf
        <3> QED
            BY <1>3, <2>1, <3>1, <3>2 DEF MergedSoFar
    <2>5. HistoryKept'
        BY <1>3 DEF HistoryKept, TakeHead
    <2> QED
        BY <2>3, <2>4, <2>5
<1> QED
    BY <1>2, <1>3

\* The parents of the merge commit are enough and none too many.
LEMMA ConcludeStep ==
    ASSUME HeadsInv, Conclude
    PROVE  HeadsInv'
<1> USE DEF HeadsInv, Conclude, asked, refs
<1> DEFINE O == Oids(left)
           P == Parents(O)
<1>1. O \subseteq Commits
    BY DEF Oids, HeadsTypeOK
<1>2. P \subseteq Commits /\ O \subseteq P /\ P \subseteq {HEAD} \cup O
    BY <1>1 DEF Parents, HeadsTypeOK
<1>3. HeadsTypeOK' /\ Ancestry' /\ NoneTaken'
    BY <1>2 DEF HeadsTypeOK, Ancestry, NoneTaken
<1>4. HeadsReduced'
    BY StillReduced
<1>5. MergedSoFar'
    BY DEF MergedSoFar
<1>6. ASSUME ~conflicted
      PROVE  HistoryKept'
    <2>1. /\ recorded' = P
          /\ UNCHANGED <<reach, HEAD, named, given, reducedBy, noFastForward, left, mergedTree>>
        BY <1>6
    <2>2. HEAD \in ReachOf(P)
        BY DEF Parents, IsDescendant, ReachOf, Ancestry, HeadsTypeOK
    <2>3. mergedTree = ReachOf(P)
        <3>1. left \ todo = left
            OBVIOUS
        <3>2. mergedTree = ReachOf({HEAD} \cup O)
            BY <1>6, <3>1 DEF MergedSoFar
        <3>3. reach[HEAD] \subseteq ReachOf(P)
            BY <1>1, <1>2, <2>2 DEF ReachOf, Ancestry
        <3> HIDE DEF P, O
        <3> QED
            BY <1>2, <3>2, <3>3 DEF ReachOf
    <2>4. noFastForward => HEAD \in P
        BY DEF Parents
    <2>5. Range(given) \subseteq ReachOf({reducedBy} \cup Given(MovedHeads) \cup P)
        <3>1. Range(given) \subseteq ReachOf({reducedBy} \cup Given(left))
            BY DEF HeadsReduced
        <3>2. Given(left) \subseteq Given(MovedHeads) \cup O
            BY DEF Given, MovedHeads, Oids
        <3> HIDE DEF P, O
        <3> QED
            BY <1>2, <3>1, <3>2 DEF ReachOf
    <2>6. ASSUME NEW i \in left \ MovedHeads
          PROVE  /\ named[i] \in reach[HEAD] => HEAD # reducedBy
                 /\ \A j \in left \ MovedHeads : i # j => named[i] \notin reach[named[j]]
        <3>1. given[i] \notin ReachOf({reducedBy} \cup Given(left \ {i}))
            BY DEF HeadsReduced
        <3>2. \A j \in left \ MovedHeads : named[j] = given[j]
            BY DEF MovedHeads
        <3> QED
            BY <3>1, <3>2 DEF ReachOf, Given
    <2>7. HEAD \in P \ O => noFastForward \/ HEAD \notin ReachOf(O)
        <3> SUFFICES ASSUME HEAD \in P \ O, ~noFastForward, NEW c \in O, HEAD \in reach[c]
                     PROVE  FALSE
            BY DEF ReachOf
        <3> QED
            BY DEF Parents, IsDescendant
    <2>8. /\ MovedHeads' = MovedHeads /\ Given(MovedHeads)' = Given(MovedHeads)
          /\ Oids(left)' = O /\ Range(given)' = Range(given)
        BY <2>1 DEF MovedHeads, Given, Oids, Range
    <2> HIDE DEF P, O, HeadsInv, Conclude
    <2>9. mergedTree' = ReachOf(recorded)' /\ HEAD' \in ReachOf(recorded)'
        BY <2>1, <2>2, <2>3 DEF ReachOf
    <2>10. Range(given)' \subseteq ReachOf({reducedBy} \cup Given(MovedHeads) \cup recorded)'
        <3> DEFINE G == Given(MovedHeads)
        <3>1. G' = G
            BY <2>8
        <3> HIDE DEF G
        <3> QED
            BY <2>1, <2>5, <2>8, <3>1 DEF ReachOf, G
    <2>11. \A i \in (left \ MovedHeads)' :
              /\ named'[i] \in reach'[HEAD'] => HEAD' # reducedBy'
              /\ \A j \in (left \ MovedHeads)' : i # j => named'[i] \notin reach'[named'[j]]
        BY <2>1, <2>6, <2>8
    <2>12. HEAD' \in recorded' \ Oids(left)' => noFastForward' \/ HEAD' \notin ReachOf(Oids(left))'
        <3>1. ReachOf(Oids(left))' = ReachOf(O)
            BY <2>1, <2>8 DEF ReachOf
        <3> QED
            BY <2>1, <2>7, <2>8, <3>1
    <2> QED
        BY <2>1, <2>4, <2>9, <2>10, <2>11, <2>12 DEF HistoryKept
<1>7. HistoryKept'
    BY <1>6 DEF HistoryKept
<1> QED
    BY <1>3, <1>4, <1>5, <1>7

\* Every step keeps the invariant.
LEMMA HeadsStepInv == HeadsInv /\ [HeadsNext]_headsVars => HeadsInv'
<1> SUFFICES ASSUME HeadsInv, [HeadsNext]_headsVars
             PROVE  HeadsInv'
    OBVIOUS
<1>1. CASE UNCHANGED headsVars
    <2> USE <1>1 DEF headsVars, HeadsInv
    <2>1. HeadsTypeOK' /\ Ancestry' /\ NoneTaken'
        BY DEF HeadsTypeOK, Ancestry, NoneTaken
    <2>2. HeadsReduced'
        BY DEF HeadsReduced, Given, ReachOf, Range
    <2>3. MergedSoFar' /\ HistoryKept'
        BY DEF MergedSoFar, HistoryKept, ReachOf, Oids, Given, MovedHeads, Range
    <2> QED
        BY <2>1, <2>2, <2>3
<1>2. CASE HeadsNext
    BY <1>2, MergeHeadsStep, RefMovesStep, OctopusMergeStep, GivesUpStep, AlreadyUpToDateStep,
       FastForwardsStep, MergesHeadStep, ConcludeStep DEF HeadsNext
<1> QED
    BY <1>1, <1>2

-----------------------------------------------------------------------------
(* Theorems                                                                *)

\* The invariant of the heads holds throughout.
THEOREM HeadsInvariant == HeadsSpec => []HeadsInv
BY HeadsInitInv, HeadsStepInv, PTL DEF HeadsSpec

\* mergeHeads leaves the heads it needs and no other (line 10).
THEOREM HeadsEnough == HeadsSpec => []HeadsReduced
<1>1. HeadsInv => HeadsReduced
    BY DEF HeadsInv
<1> QED
    BY <1>1, HeadsInvariant, PTL

\* After each head the tree is that of HEAD and the heads taken, and MRC
\* stands for it, whichever way each head was taken (line 120).
THEOREM MergedThroughout == HeadsSpec => []MergedSoFar
<1>1. HeadsInv => MergedSoFar
    BY DEF HeadsInv
<1> QED
    BY <1>1, HeadsInvariant, PTL

\* The merge commit loses no history and names no parent it needs not
\* (line 230), but for what a ref moved between the two calls takes away or
\* makes redundant.
THEOREM ParentsRight == HeadsSpec => []HistoryKept
<1>1. HeadsInv => HistoryKept
    BY DEF HeadsInv
<1> QED
    BY <1>1, HeadsInvariant, PTL
=============================================================================
