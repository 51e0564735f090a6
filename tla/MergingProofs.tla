---------------------------- MODULE MergingProofs ----------------------------
(***************************************************************************)
(* Proofs about Merging, for any processes, targets and worlds: what one   *)
(* process merges, picks and commits stays in effect and is recorded, and  *)
(* the branch goes forward only.                                           *)
(***************************************************************************)
EXTENDS Merging, FiniteSetTheorems, SequenceTheorems, TLAPS

\* The step of process p that is taken.
Step(p) ==
    \/ \E t \in world.targets :
          \/ UpToDate(p, t) \/ CherryPickStarts(p, t)
          \/ \E mode \in world.modes : MergeStarts(p, t, mode)
    \/ CheckOut(p) \/ CheckOutRefused(p) \/ ReadHead(p) \/ SetTarget(p)
    \/ ApplyRefused(p) \/ ApplyCleanly(p) \/ ApplyConflicting(p)
    \/ ReadParent(p) \/ Create(p) \/ CreateRefused(p) \/ CleanUp(p)
    \/ MergeContinue(p) \/ CherryPickContinue(p) \/ CannotContinue(p)
    \/ AbortReadsHead(p) \/ AbortResets(p)
    \/ Commits(p) \/ Stages(p) \/ Resolves(p) \/ Dies(p)

-----------------------------------------------------------------------------
(* What there is to work on                                                *)

\* The processes of a behaviour, and the commits they name.
LEMMA InWorld ==
    ASSUME TypeOK
    PROVE  /\ world.procs \subseteq Proc /\ world.targets \subseteq Targets
           /\ Targets \subseteq 3..5 /\ None \notin Targets
           /\ \A p \in Proc : p \in Nat \ (0..5) /\ p \in Changes /\ p \notin Diverged
BY MergingAssumption DEF MergingAssumption, TypeOK, None, Changes, Diverged

\* Where one process works alone there is no other.
LEMMA OnlyOne ==
    ASSUME TypeOK, Alone, NEW p \in world.procs, NEW q \in world.procs
    PROVE  p = q
<1>1. IsFiniteSet(world.procs)
    BY InWorld, MergingAssumption, FS_Subset DEF MergingAssumption
<1>2. PICK x : world.procs = {x}
    BY <1>1, FS_Singleton DEF Alone
<1> QED
    BY <1>2

\* What there is of a commit.
LEMMA CommitThere ==
    ASSUME TypeOK, NEW i \in 1..Len(commits)
    PROVE  commits[i] \in CommitSet /\ Tree(i) \in SUBSET Changes
<1>1. commits[i] \in CommitSet
    BY ElementOfSeq DEF TypeOK
<1> QED
    BY <1>1 DEF Tree, CommitSet

\* The commits a merge may name are the founding ones.
LEMMA TargetsThere ==
    ASSUME TypeOK, History
    PROVE  Targets \subseteq 1..Len(commits)
<1>1. Len(commits) \in Nat /\ 5 <= Len(commits) /\ Targets \subseteq 3..5
    BY InWorld, LenProperties DEF History, TypeOK
<1> QED
    BY <1>1

\* What the founding commits hold.
LEMMA Founded ==
    ASSUME History
    PROVE  /\ Tree(2) = {2} /\ Tree(3) = {3} /\ Tree(4) = {2, 4} /\ Tree(5) = {5}
           /\ Tree(1) = {}
           /\ commits[2].past = {1, 2} /\ commits[3].past = {1, 3}
           /\ commits[4].past = {1, 2, 4} /\ commits[5].past = {1, 5}
<1>1. \A i \in 1..5 : commits[i] = Founding[i]
    BY DEF History
<1> QED
    BY <1>1 DEF Founding, Tree

\* One parent, and two.
LEMMA OneOrTwo ==
    ASSUME NEW S, NEW a \in S, NEW b \in S
    PROVE  /\ <<a>> \o << >> = <<a>> /\ <<a>> \o <<b>> = <<a, b>>
           /\ <<a>> \in Seq(S) /\ <<a, b>> \in Seq(S)
<1>1. <<a>> \in Seq(S) /\ <<b>> \in Seq(S) /\ <<a, b>> \in Seq(S)
    OBVIOUS
<1>2. <<a>> \o << >> = <<a>>
    BY <1>1, ConcatEmptySeq
<1>3. <<a>> \o <<b>> = <<a, b>>
    <2>1. /\ <<a>> \o <<b>> \in Seq(S) /\ Len(<<a>> \o <<b>>) = 2
          /\ (<<a>> \o <<b>>)[1] = a /\ (<<a>> \o <<b>>)[2] = b
        BY <1>1, ConcatProperties
    <2>2. /\ Len(<<a, b>>) = 2 /\ <<a, b>>[1] = a /\ <<a, b>>[2] = b
        OBVIOUS
    <2>3. \A i \in 1..2 : (<<a>> \o <<b>>)[i] = <<a, b>>[i]
        BY <2>1, <2>2
    <2> QED
        BY <1>1, <2>1, <2>2, <2>3, SeqEqual
<1> QED
    BY <1>1, <1>2, <1>3

\* A commit made on the tip, alone or with another parent.
LEMMA RecordAdds ==
    ASSUME TypeOK, History, NEW tree \in SUBSET Changes, NEW heads \in Seq(Targets),
           heads = << >> \/ \E h \in Targets : heads = <<h>>,
           Record(tree, <<tip>> \o heads)
    PROVE  /\ tip' = Len(commits) + 1 /\ Len(commits') = Len(commits) + 1
           /\ \A i \in 1..Len(commits) : commits'[i] = commits[i]
           /\ commits'[tip'] = [tree |-> tree, parents |-> <<tip>> \o heads,
                  past |-> {tip'} \cup commits[tip].past \cup
                             (IF heads = << >> THEN {} ELSE commits[heads[1]].past)]
           /\ <<tip>> \o heads \in Seq(Nat)
           /\ commits'[tip'].past \in SUBSET Nat
           /\ commits' \in Seq(CommitSet)
<1> DEFINE n == Len(commits) + 1
           parents == <<tip>> \o heads
<1>1. /\ commits \in Seq(CommitSet)
      /\ tip \in 1..Len(commits) /\ Targets \subseteq 1..Len(commits)
      /\ commits' = Append(commits, Commit(tree, parents, n)) /\ tip' = n
    BY TargetsThere DEF TypeOK, History, Record
<1>2. /\ parents \in Seq(Nat)
      /\ \/ heads = << >> /\ parents = <<tip>>
         \/ \E h \in Targets : heads = <<h>> /\ parents = <<tip, h>>
    <2>1. Targets \subseteq Nat /\ tip \in Nat
        <3>1. Targets \subseteq 3..5
            BY InWorld
        <3>2. tip \in Nat
            BY DEF TypeOK
        <3> QED
            BY <3>1, <3>2
    <2>2. CASE heads = << >>
        BY <2>1, <2>2, OneOrTwo
    <2>3. ASSUME NEW h \in Targets, heads = <<h>>
          PROVE  parents \in Seq(Nat) /\ parents = <<tip, h>>
        BY <2>1, <2>3, OneOrTwo
    <2> QED
        BY <2>2, <2>3
<1>3. {parents[i] : i \in DOMAIN parents} = IF heads = << >> THEN {tip} ELSE {tip, heads[1]}
    <2>1. CASE heads = << >>
        <3>1. parents = <<tip>>
            BY <1>2, <2>1
        <3> QED
            BY <2>1, <3>1
    <2>2. CASE heads # << >>
        <3>1. PICK h \in Targets : heads = <<h>> /\ parents = <<tip, h>>
            BY <1>2, <2>2
        <3>2. DOMAIN parents = {1, 2} /\ parents[1] = tip /\ parents[2] = h /\ heads[1] = h
            BY <3>1
        <3> QED
            BY <2>2, <3>2
    <2> QED
        BY <2>1, <2>2
<1>4. Commit(tree, parents, n).past =
          {n} \cup commits[tip].past \cup (IF heads = << >> THEN {} ELSE commits[heads[1]].past)
    <2>1. UNION {commits[q].past : q \in {parents[i] : i \in DOMAIN parents}}
            = commits[tip].past \cup (IF heads = << >> THEN {} ELSE commits[heads[1]].past)
        BY <1>3
    <2> QED
        BY <2>1 DEF Commit
<1>5. heads # << >> => heads[1] \in 1..Len(commits)
    BY <1>1, <1>2
<1>6. Commit(tree, parents, n).past \in SUBSET Nat
    <2>1. \A i \in 1..Len(commits) : commits[i].past \in SUBSET Nat
        BY CommitThere DEF CommitSet
    <2>2. Len(commits) \in Nat
        BY <1>1, LenProperties
    <2> QED
        BY <1>1, <1>4, <1>5, <2>1, <2>2, Len(commits) + 1 \in Nat
<1>7. Commit(tree, parents, n) \in CommitSet
    BY <1>2, <1>6 DEF Commit, CommitSet
<1>8. /\ commits'[n] = Commit(tree, parents, n) /\ Len(commits') = n
      /\ \A i \in 1..Len(commits) : commits'[i] = commits[i]
      /\ commits' \in Seq(CommitSet)
    BY <1>1, <1>7, AppendProperties, LenProperties
<1>9. Commit(tree, parents, n) = [tree |-> tree, parents |-> parents,
        past |-> {n} \cup commits[tip].past \cup
                   (IF heads = << >> THEN {} ELSE commits[heads[1]].past)]
    BY <1>4 DEF Commit
<1> QED
    BY <1>1, <1>2, <1>6, <1>8, <1>9

-----------------------------------------------------------------------------
(* Types                                                                   *)

\* A process is idle with nothing to work on once its call has returned.
LEMMA ReturnTypes ==
    ASSUME TypeOK, NEW p \in Proc, NEW as, Return(p, as)
    PROVE  pc' \in [Proc -> Labels] /\ call' \in [Proc -> Jobs] /\ world' \in Worlds
<1>1. NoCall \in Jobs
    <2>1. << >> \in Seq(Targets)
        BY EmptySeq
    <2> QED
        BY <2>1 DEF NoCall, Jobs, None, TypeOK
<1> QED
    BY <1>1 DEF Return, TypeOK, Labels

\* Going on with a call.
LEMMA GoOnTypes ==
    ASSUME TypeOK, NEW p \in Proc, NEW l \in Labels, GoTo(p, l)
    PROVE  pc' \in [Proc -> Labels] /\ world' \in Worlds
BY DEF GoTo, TypeOK

\* The changes a merge or a pick brings, and the state file it writes.
LEMMA BringsType ==
    ASSUME IInv, NEW p \in world.procs, Applies(p)
    PROVE  /\ Brings(p) \in SUBSET Changes /\ call[p].of \in Targets
           /\ \A id \in {None, call[p].of} : StateFiles(p, id) =>
                mergeHead' \in {None} \cup Targets /\ pickHead' \in {None} \cup Targets
<1>1. TypeOK /\ History /\ Working(p) /\ p \in Proc
    BY InWorld DEF IInv
<1>2. call[p].of \in Targets
    BY <1>1 DEF Applies, At, Working
<1>3. Tree(call[p].of) \in SUBSET Changes
    BY <1>1, <1>2, TargetsThere, CommitThere
<1>4. Targets \subseteq 3..5
    BY <1>1, InWorld
<1>5. call[p].of \in Changes
    <2>1. call[p].of \in 3..5
        BY <1>2, <1>4
    <2> QED
        BY <2>1 DEF Changes
<1>6. Brings(p) \in SUBSET Changes
    BY <1>3, <1>5 DEF Brings
<1>7. \A id \in {None, call[p].of} : StateFiles(p, id) =>
        mergeHead' \in {None} \cup Targets /\ pickHead' \in {None} \cup Targets
    BY <1>1, <1>2 DEF StateFiles, TypeOK
<1> QED
    BY <1>2, <1>6, <1>7

\* Every variable keeps its type.
LEMMA TypeStep ==
    ASSUME IInv, NEW p \in world.procs, Step(p)
    PROVE  TypeOK'
<1>1. TypeOK /\ History /\ Working(p) /\ p \in Proc /\ p \in Changes
    BY InWorld DEF IInv
<1>2. /\ call[p] \in Jobs /\ Targets \subseteq 1..Len(commits) /\ Targets \subseteq 3..5
      /\ world.targets \subseteq Targets
    BY <1>1, TargetsThere, InWorld DEF TypeOK
<1>3. \A i \in 1..Len(commits) : Tree(i) \in SUBSET Changes
    BY <1>1, CommitThere
<1> USE DEF repository, bookkeeping
<1>4. ASSUME UNCHANGED <<repository, given>>, NEW as, Return(p, as)
      PROVE  TypeOK'
    BY <1>1, <1>4, ReturnTypes DEF TypeOK
<1>5. ASSUME UNCHANGED <<repository, given>>, NEW l \in Labels, GoTo(p, l),
             NEW job \in Jobs, Works(p, job)
      PROVE  TypeOK'
    <2>1. call' \in [Proc -> Jobs]
        BY <1>1, <1>5 DEF Works, TypeOK
    <2> QED
        BY <1>1, <1>5, <2>1, GoOnTypes DEF TypeOK
<1>6. ASSUME NEW t \in Targets, UpToDate(p, t)
      PROVE  TypeOK'
    BY <1>4, <1>6 DEF UpToDate
<1>7. ASSUME NEW t \in Targets
      PROVE  /\ [NoCall EXCEPT !.of = t] \in Jobs
             /\ [NoCall EXCEPT !.of = t, !.heads = <<t>>] \in Jobs
    <2>1. << >> \in Seq(Targets) /\ <<t>> \in Seq(Targets)
        BY EmptySeq
    <2> QED
        BY <2>1 DEF NoCall, Jobs, None
<1>8. ASSUME NEW t \in Targets, CherryPickStarts(p, t)
      PROVE  TypeOK'
    BY <1>5, <1>7, <1>8 DEF CherryPickStarts, Labels
<1>9. ASSUME NEW t \in Targets, NEW mode \in world.modes, MergeStarts(p, t, mode)
      PROVE  TypeOK'
    BY <1>4, <1>5, <1>7, <1>9 DEF MergeStarts, Labels, Forwarding
<1>10. CASE CheckOut(p)
    <2>1. Tree(call[p].of) \in SUBSET Changes
        BY <1>1, <1>2, <1>3, <1>10 DEF CheckOut, Working, At, Forwarding
    <2>2. index' \in [tree : SUBSET Changes, unmerged : SUBSET Changes]
        BY <1>1, <1>10, <2>1 DEF CheckOut, TypeOK
    <2>3. "readHead" \in Labels
        BY DEF Labels, Forwarding
    <2> QED
        BY <1>1, <1>10, <2>2, <2>3, GoOnTypes DEF CheckOut, TypeOK
<1>11. CASE CheckOutRefused(p) \/ CreateRefused(p) \/ CannotContinue(p) \/ Dies(p)
    BY <1>4, <1>11 DEF CheckOutRefused, CreateRefused, CannotContinue, Dies
<1>12. CASE ReadHead(p) \/ ReadParent(p)
    <2>1. [call[p] EXCEPT !.parent = tip] \in Jobs
        BY <1>1, <1>2 DEF Jobs, TypeOK
    <2> QED
        BY <1>5, <1>12, <2>1 DEF ReadHead, ReadParent, Labels, Forwarding, Concluding
<1>13. CASE SetTarget(p)
    <2>1. tip' \in Nat
        <3>1. call[p].of \in Targets
            BY <1>1, <1>13 DEF SetTarget, At, Working, Forwarding
        <3>2. call[p].of \in Nat /\ tip \in Nat
            <4>1. call[p].of \in 3..5
                BY <1>2, <3>1
            <4>2. tip \in Nat
                BY <1>1 DEF TypeOK
            <4> QED
                BY <4>1, <4>2
        <3> QED
            BY <1>13, <3>2 DEF SetTarget
    <2> QED
        BY <1>1, <1>13, <2>1, ReturnTypes DEF SetTarget, TypeOK
<1>14. CASE ApplyRefused(p)
    BY <1>1, <1>14, BringsType, ReturnTypes DEF ApplyRefused, TypeOK
<1>15. CASE ApplyCleanly(p)
    <2>1. index' \in [tree : SUBSET Changes, unmerged : SUBSET Changes]
        BY <1>1, <1>15, BringsType DEF ApplyCleanly, TypeOK
    <2>2. [call[p] EXCEPT !.tree = index'.tree] \in Jobs
        BY <1>2, <2>1 DEF Jobs
    <2>3. call' \in [Proc -> Jobs]
        BY <1>1, <1>15, <2>2 DEF ApplyCleanly, Works, TypeOK
    <2>4. "parent" \in Labels
        BY DEF Labels, Concluding
    <2> QED
        BY <1>1, <1>15, <2>1, <2>3, <2>4, BringsType, GoOnTypes DEF ApplyCleanly, TypeOK
<1>16. CASE ApplyConflicting(p)
    <2>1. index' \in [tree : SUBSET Changes, unmerged : SUBSET Changes]
        BY <1>1, <1>16, BringsType DEF ApplyConflicting, TypeOK
    <2> QED
        BY <1>1, <1>16, <2>1, BringsType, ReturnTypes DEF ApplyConflicting, TypeOK
<1>17. CASE Create(p)
    <2>1. /\ Record(call[p].tree, <<tip>> \o call[p].heads)
          /\ call[p].heads = << >> \/ \E h \in Targets : call[p].heads = <<h>>
        BY <1>1, <1>17 DEF Create, At, Working, Concluding
    <2>2. commits' \in Seq(CommitSet) /\ tip' \in Nat
        <3>1. Len(commits) \in Nat
            BY <1>1, LenProperties DEF TypeOK
        <3>2. call[p].tree \in SUBSET Changes /\ call[p].heads \in Seq(Targets)
            BY <1>2 DEF Jobs
        <3>3. commits' \in Seq(CommitSet) /\ tip' = Len(commits) + 1
            BY <1>1, <2>1, <3>2, RecordAdds
        <3> QED
            BY <3>1, <3>3
    <2>3. "cleanUp" \in Labels
        BY DEF Labels
    <2> QED
        BY <1>1, <1>17, <2>2, <2>3, GoOnTypes DEF Create, TypeOK
<1>18. CASE CleanUp(p)
    BY <1>1, <1>18, ReturnTypes DEF CleanUp, TypeOK
<1>19. CASE MergeContinue(p) \/ CherryPickContinue(p)
    <2>1. PICK head \in Targets : \E heads \in {<< >>, <<head>>} :
             \E operation \in {"mergeContinue", "cherryPickContinue"} : Resumes(p, operation, head, heads)
        BY <1>1, <1>19 DEF MergeContinue, CherryPickContinue, Resumes, TypeOK
    <2>a. PICK heads \in {<< >>, <<head>>}, operation \in {"mergeContinue", "cherryPickContinue"} :
             Resumes(p, operation, head, heads)
        BY <2>1
    <2>2. heads \in Seq(Targets)
        BY OneOrTwo, EmptySeq
    <2>3. [of |-> head, heads |-> heads, tree |-> index.tree, parent |-> None] \in Jobs
        BY <1>1, <2>1, <2>2 DEF Jobs, TypeOK, None
    <2> QED
        BY <1>5, <2>a, <2>3 DEF Resumes, Labels, Concluding
<1>20. CASE AbortReadsHead(p)
    <2>1. [NoCall EXCEPT !.parent = tip] \in Jobs
        BY <1>1, EmptySeq DEF NoCall, Jobs, None, TypeOK
    <2> QED
        BY <1>5, <1>20, <2>1 DEF AbortReadsHead, Labels
<1>21. CASE AbortResets(p)
    <2>1. call[p].parent \in 1..Len(commits)
        BY <1>1, <1>21 DEF AbortResets, At, Working
    <2>2. Tree(call[p].parent) \in SUBSET Changes /\ call[p].parent \in Nat
        BY <1>2, <1>3, <2>1 DEF Jobs
    <2> QED
        BY <1>1, <1>21, <2>2, ReturnTypes DEF AbortResets, TypeOK
<1>22. CASE Commits(p)
    <2>1. Record(index.tree, <<tip>> \o << >>) /\ << >> \in Seq(Targets)
        BY <1>1, <1>22, OneOrTwo, EmptySeq DEF Commits, TypeOK
    <2>2. commits' \in Seq(CommitSet) /\ tip' \in Nat
        <3>1. Len(commits) \in Nat /\ index.tree \in SUBSET Changes
            BY <1>1, LenProperties DEF TypeOK
        <3>2. commits' \in Seq(CommitSet) /\ tip' = Len(commits) + 1
            BY <1>1, <2>1, <3>1, RecordAdds
        <3> QED
            BY <3>1, <3>2
    <2> QED
        BY <1>1, <1>22, <2>2 DEF Commits, TypeOK
<1>23. CASE Stages(p)
    BY <1>1, <1>23 DEF Stages, TypeOK
<1>24. CASE Resolves(p)
    BY <1>1, <1>24 DEF Resolves, TypeOK
<1> QED
    BY <1>2, <1>6, <1>8, <1>9, <1>10, <1>11, <1>12, <1>13, <1>14, <1>15, <1>16, <1>17, <1>18,
       <1>19, <1>20, <1>21, <1>22, <1>23, <1>24 DEF Step

-----------------------------------------------------------------------------
(* The history, and what each call works on                                *)

\* A step is one process's.
LEMMA Frame ==
    ASSUME TypeOK, NEW p \in Proc, Step(p)
    PROVE  /\ world' = world
           /\ \A q \in Proc \ {p} : pc'[q] = pc[q] /\ call'[q] = call[q]
<1> USE DEF GoTo, Works, Return, TypeOK, repository, bookkeeping
<1>1. ASSUME NEW t \in Targets, UpToDate(p, t) \/ CherryPickStarts(p, t)
             \/ \E mode \in world.modes : MergeStarts(p, t, mode)
      PROVE  world' = world /\ \A q \in Proc \ {p} : pc'[q] = pc[q] /\ call'[q] = call[q]
    BY <1>1 DEF UpToDate, CherryPickStarts, MergeStarts
<1>2. CASE CheckOut(p) \/ CheckOutRefused(p) \/ ReadHead(p) \/ SetTarget(p)
    BY <1>2 DEF CheckOut, CheckOutRefused, ReadHead, SetTarget
<1>3. CASE ApplyRefused(p) \/ ApplyCleanly(p) \/ ApplyConflicting(p)
    BY <1>3 DEF ApplyRefused, ApplyCleanly, ApplyConflicting
<1>4. CASE ReadParent(p) \/ Create(p) \/ CreateRefused(p) \/ CleanUp(p)
    BY <1>4 DEF ReadParent, Create, CreateRefused, CleanUp
<1>5. CASE MergeContinue(p) \/ CherryPickContinue(p) \/ CannotContinue(p)
           \/ AbortReadsHead(p) \/ AbortResets(p)
    BY <1>5 DEF MergeContinue, CherryPickContinue, Resumes, CannotContinue, AbortReadsHead, AbortResets
<1>6. CASE Commits(p) \/ Stages(p) \/ Resolves(p) \/ Dies(p)
    BY <1>6 DEF Commits, Stages, Resolves, Dies
<1>7. world.targets \subseteq Targets
    BY InWorld
<1> QED
    BY <1>1, <1>2, <1>3, <1>4, <1>5, <1>6, <1>7 DEF Step

\* What becomes of the history when a commit is made on the tip.
Adds(tree, heads) ==
    /\ tip' = Len(commits) + 1 /\ Len(commits') = Len(commits) + 1
    /\ \A i \in 1..Len(commits) : commits'[i] = commits[i]
    /\ commits'[tip'] = [tree |-> tree, parents |-> <<tip>> \o heads,
           past |-> {tip'} \cup commits[tip].past \cup
                      (IF heads = << >> THEN {} ELSE commits[heads[1]].past)]

\* The end of a merge or a pick makes a commit of what the call works on.
LEMMA CreateAdds ==
    ASSUME IInv, NEW p \in world.procs, Create(p)
    PROVE  /\ Adds(call[p].tree, call[p].heads)
           /\ call[p].heads = << >> \/ \E h \in Targets : call[p].heads = <<h>>
<1>1. TypeOK /\ History /\ Working(p) /\ p \in Proc
    BY InWorld DEF IInv
<1>2. /\ Record(call[p].tree, <<tip>> \o call[p].heads)
      /\ call[p].heads = << >> \/ \E h \in Targets : call[p].heads = <<h>>
    BY <1>1 DEF Create, At, Working, Concluding
<1>3. call[p].tree \in SUBSET Changes /\ call[p].heads \in Seq(Targets)
    BY <1>1 DEF TypeOK, Jobs
<1> QED
    BY <1>1, <1>2, <1>3, RecordAdds DEF Adds

\* And a commit is of what is staged.
LEMMA CommitAdds ==
    ASSUME IInv, NEW p \in world.procs, Commits(p)
    PROVE  Adds(index.tree, << >>)
<1>1. TypeOK /\ History
    BY DEF IInv
<1>2. Record(index.tree, <<tip>> \o << >>) /\ << >> \in Seq(Targets)
    BY <1>1, OneOrTwo, EmptySeq DEF Commits, TypeOK
<1>3. index.tree \in SUBSET Changes
    BY <1>1 DEF TypeOK
<1> QED
    BY <1>1, <1>2, <1>3, RecordAdds DEF Adds

\* Other steps make no commit, and move HEAD only to one that is there.
LEMMA NoneAdded ==
    ASSUME IInv, NEW p \in world.procs, Step(p), ~Create(p), ~Commits(p)
    PROVE  commits' = commits /\ tip' \in 1..Len(commits)
<1> USE DEF repository, bookkeeping
<1>1. TypeOK /\ History /\ Working(p) /\ tip \in 1..Len(commits)
    BY DEF IInv, History
<1>2. Targets \subseteq 1..Len(commits) /\ world.targets \subseteq Targets
    BY <1>1, TargetsThere, InWorld
<1>3. ASSUME NEW t \in Targets, UpToDate(p, t) \/ CherryPickStarts(p, t)
             \/ \E mode \in world.modes : MergeStarts(p, t, mode)
      PROVE  UNCHANGED <<commits, tip>>
    BY <1>3 DEF UpToDate, CherryPickStarts, MergeStarts
<1>4. CASE CheckOut(p) \/ CheckOutRefused(p) \/ ReadHead(p)
           \/ ApplyRefused(p) \/ ApplyCleanly(p) \/ ApplyConflicting(p)
           \/ ReadParent(p) \/ CreateRefused(p) \/ CleanUp(p)
    BY <1>1, <1>4 DEF CheckOut, CheckOutRefused, ReadHead, ApplyRefused, ApplyCleanly,
       ApplyConflicting, ReadParent, CreateRefused, CleanUp
<1>5. CASE MergeContinue(p) \/ CherryPickContinue(p) \/ CannotContinue(p)
           \/ AbortReadsHead(p) \/ Stages(p) \/ Resolves(p) \/ Dies(p)
    BY <1>1, <1>5 DEF MergeContinue, CherryPickContinue, Resumes, CannotContinue, AbortReadsHead,
       Stages, Resolves, Dies
<1>6. CASE SetTarget(p)
    BY <1>1, <1>2, <1>6 DEF SetTarget, At, Working, Forwarding
<1>7. CASE AbortResets(p)
    BY <1>1, <1>7 DEF AbortResets, At, Working
<1> QED
    BY <1>1, <1>2, <1>3, <1>4, <1>5, <1>6, <1>7 DEF Step

\* The history goes back.
LEMMA HistoryStep ==
    ASSUME IInv, NEW p \in world.procs, Step(p)
    PROVE  /\ History' /\ Len(commits) <= Len(commits')
           /\ \A i \in 1..Len(commits) : commits'[i] = commits[i]
<1>1. TypeOK /\ History
    BY DEF IInv
<1>2. Len(commits) \in Nat /\ 5 <= Len(commits) /\ tip \in 1..Len(commits)
    BY <1>1, LenProperties DEF TypeOK, History
<1>3. ASSUME NEW tree, NEW heads, Adds(tree, heads),
             heads = << >> \/ \E h \in Targets : heads = <<h>>
      PROVE  /\ History' /\ Len(commits) <= Len(commits')
             /\ \A i \in 1..Len(commits) : commits'[i] = commits[i]
    <2>1. /\ Len(commits') = Len(commits) + 1 /\ tip' = Len(commits) + 1
          /\ \A i \in 1..Len(commits) : commits'[i] = commits[i]
          /\ commits'[tip'].parents = <<tip>> \o heads
          /\ commits'[tip'].past = {tip'} \cup commits[tip].past \cup
                                     (IF heads = << >> THEN {} ELSE commits[heads[1]].past)
        BY <1>3 DEF Adds
    <2>2. \A i \in 1..5 : commits'[i] = Founding[i]
        BY <1>1, <1>2, <2>1 DEF History
    <2>3. \A i \in 1..Len(commits) :
            /\ i \in commits'[i].past /\ commits'[i].past \subseteq 1..i
            /\ \A j \in DOMAIN commits'[i].parents : commits'[i].parents[j] \in 1..(i - 1)
        BY <1>1, <2>1 DEF History
    <2>4. Targets \subseteq 1..Len(commits)
        BY <1>1, TargetsThere
    <2>5. commits[tip].past \subseteq 1..Len(commits)
        BY <1>1, <1>2 DEF History
    <2>6. heads # << >> => commits[heads[1]].past \subseteq 1..Len(commits)
        <3>1. heads # << >> => heads[1] \in 1..Len(commits)
            BY <1>3, <2>4
        <3> QED
            BY <1>1, <1>2, <3>1 DEF History
    <2>7. commits'[tip'].past \subseteq 1..tip' /\ tip' \in commits'[tip'].past
        BY <1>2, <2>1, <2>5, <2>6
    <2>8. \A j \in DOMAIN commits'[tip'].parents : commits'[tip'].parents[j] \in 1..(tip' - 1)
        <3>1. CASE heads = << >>
            <4>1. <<tip>> \o << >> = <<tip>>
                BY <1>2, OneOrTwo
            <4>2. commits'[tip'].parents = <<tip>>
                BY <2>1, <3>1, <4>1
            <4>3. tip' - 1 = Len(commits) /\ DOMAIN <<tip>> = {1} /\ <<tip>>[1] = tip
                BY <1>2, <2>1
            <4> QED
                BY <1>2, <4>2, <4>3
        <3>2. ASSUME NEW h \in Targets, heads = <<h>>
              PROVE  \A j \in DOMAIN commits'[tip'].parents :
                        commits'[tip'].parents[j] \in 1..(tip' - 1)
            <4>1. h \in 1..Len(commits) /\ Len(commits) \in Nat
                BY <1>2, <2>4
            <4>2. h \in Nat /\ tip \in Nat
                BY <1>2, <4>1
            <4>3. commits'[tip'].parents = <<tip>> \o <<h>>
                BY <2>1, <3>2
            <4>4. <<tip>> \o <<h>> = <<tip, h>>
                BY <4>2, OneOrTwo
            <4>5. commits'[tip'].parents = <<tip, h>>
                BY <4>3, <4>4
            <4>6. \A j \in DOMAIN <<tip, h>> : <<tip, h>>[j] \in {tip, h}
                OBVIOUS
            <4>7. tip' - 1 = Len(commits)
                BY <1>2, <2>1
            <4> QED
                BY <1>2, <4>1, <4>5, <4>6, <4>7
        <3> QED
            BY <1>3, <3>1, <3>2
    <2>9. \A i \in 1..Len(commits') : i \in 1..Len(commits) \/ i = tip'
        BY <1>2, <2>1
    <2>10. 5 <= Len(commits') /\ tip' \in 1..Len(commits')
        BY <1>2, <2>1
    <2>11. \A i \in 1..Len(commits') :
            /\ i \in commits'[i].past /\ commits'[i].past \subseteq 1..i
            /\ \A j \in DOMAIN commits'[i].parents : commits'[i].parents[j] \in 1..(i - 1)
        BY <2>3, <2>7, <2>8, <2>9
    <2>12. Len(commits) <= Len(commits')
        BY <1>2, <2>1
    <2> QED
        BY <2>1, <2>2, <2>10, <2>11, <2>12 DEF History
<1>4. CASE Create(p)
    BY <1>3, <1>4, CreateAdds
<1>5. CASE Commits(p)
    BY <1>3, <1>5, CommitAdds
<1>6. CASE ~Create(p) /\ ~Commits(p)
    BY <1>1, <1>2, <1>6, NoneAdded DEF History
<1> QED
    BY <1>4, <1>5, <1>6

\* What a step makes of the call it belongs to.
LEMMA OwnCall ==
    ASSUME TypeOK, NEW p \in Proc, Step(p)
    PROVE  \/ pc'[p] = "idle"
           \/ pc'[p] = pc[p] /\ call'[p] = call[p]
           \/ /\ pc'[p] \in {"fastForward", "merge"}
              /\ \E t \in Targets, mode \in world.modes : MergeStarts(p, t, mode)
           \/ /\ pc'[p] = "pick"
              /\ \E t \in Targets : call'[p] = [NoCall EXCEPT !.of = t]
           \/ pc[p] = "fastForward" /\ pc'[p] = "readHead" /\ call'[p] = call[p]
           \/ /\ pc[p] = "readHead" /\ pc'[p] = "setTarget"
              /\ call'[p] = [call[p] EXCEPT !.parent = tip]
           \/ /\ pc[p] \in {"merge", "pick"} /\ pc'[p] = "parent"
              /\ call'[p] = [call[p] EXCEPT !.tree = index'.tree]
           \/ /\ pc[p] = "parent" /\ pc'[p] = "create"
              /\ call'[p] = [call[p] EXCEPT !.parent = tip]
           \/ pc[p] = "create" /\ pc'[p] = "cleanUp"
           \/ /\ pc'[p] = "parent"
              /\ \E h \in Targets : call'[p].heads \in {<< >>, <<h>>}
           \/ /\ pc'[p] = "reset" /\ Calls("cherryPickAbort")
              /\ call'[p] = [NoCall EXCEPT !.parent = tip]
<1> USE DEF TypeOK, repository, bookkeeping
<1>1. world.targets \subseteq Targets
    BY InWorld
<1>2. ASSUME NEW as, Return(p, as)
      PROVE  pc'[p] = "idle"
    BY <1>2 DEF Return
<1>3. ASSUME NEW t \in Targets, UpToDate(p, t)
      PROVE  pc'[p] = "idle"
    BY <1>2, <1>3 DEF UpToDate
<1>4. ASSUME NEW t \in Targets, CherryPickStarts(p, t)
      PROVE  pc'[p] = "pick" /\ call'[p] = [NoCall EXCEPT !.of = t]
    BY <1>4 DEF CherryPickStarts, GoTo, Works
<1>5. ASSUME NEW t \in Targets, NEW mode \in world.modes, MergeStarts(p, t, mode)
      PROVE  pc'[p] \in {"idle", "fastForward", "merge"}
    BY <1>2, <1>5 DEF MergeStarts, GoTo
<1>6. CASE CheckOutRefused(p) \/ ApplyRefused(p) \/ ApplyConflicting(p) \/ CreateRefused(p)
           \/ CleanUp(p) \/ CannotContinue(p) \/ AbortResets(p) \/ Dies(p)
    <2>1. pc'[p] = "idle"
        BY <1>2, <1>6 DEF CheckOutRefused, ApplyRefused, ApplyConflicting, CreateRefused,
           CleanUp, CannotContinue, AbortResets, Dies
    <2> QED
        BY <2>1
<1>7. CASE SetTarget(p)
    <2>1. pc'[p] = "idle"
        BY <1>2, <1>7 DEF SetTarget
    <2> QED
        BY <2>1
<1>8. CASE CheckOut(p)
    <2>1. pc[p] = "fastForward" /\ pc'[p] = "readHead" /\ call'[p] = call[p]
        BY <1>8 DEF CheckOut, At, GoTo
    <2> QED
        BY <2>1
<1>9. CASE ReadHead(p)
    <2>1. /\ pc[p] = "readHead" /\ pc'[p] = "setTarget"
          /\ call'[p] = [call[p] EXCEPT !.parent = tip]
        BY <1>9 DEF ReadHead, At, GoTo, Works
    <2> QED
        BY <2>1
<1>10. CASE ApplyCleanly(p)
    <2>1. /\ pc[p] \in {"merge", "pick"} /\ pc'[p] = "parent"
          /\ call'[p] = [call[p] EXCEPT !.tree = index'.tree]
        BY <1>10 DEF ApplyCleanly, Applies, At, GoTo, Works
    <2> QED
        BY <2>1
<1>11. CASE ReadParent(p)
    <2>1. /\ pc[p] = "parent" /\ pc'[p] = "create"
          /\ call'[p] = [call[p] EXCEPT !.parent = tip]
        BY <1>11 DEF ReadParent, At, GoTo, Works
    <2> QED
        BY <2>1
<1>12. CASE Create(p)
    <2>1. pc[p] = "create" /\ pc'[p] = "cleanUp"
        BY <1>12 DEF Create, At, GoTo
    <2> QED
        BY <2>1
<1>13. CASE MergeContinue(p) \/ CherryPickContinue(p)
    <2>1. PICK h \in Targets, o \in Operations : Resumes(p, o, h, << >>) \/ Resumes(p, o, h, <<h>>)
        <3>1. CASE MergeContinue(p)
            <4>1. mergeHead \in Targets
                BY <3>1 DEF MergeContinue, Resumes
            <4>2. "mergeContinue" \in Operations
                BY DEF Operations
            <4> QED
                BY <3>1, <4>1, <4>2 DEF MergeContinue
        <3>2. CASE CherryPickContinue(p)
            <4>1. pickHead \in Targets
                BY <3>2 DEF CherryPickContinue, Resumes
            <4>2. "cherryPickContinue" \in Operations
                BY DEF Operations
            <4> QED
                BY <3>2, <4>1, <4>2 DEF CherryPickContinue
        <3> QED
            BY <1>13, <3>1, <3>2
    <2>2. pc'[p] = "parent" /\ call'[p].heads \in {<< >>, <<h>>}
        BY <2>1 DEF Resumes, GoTo, Works
    <2> QED
        BY <2>1, <2>2
<1>14. CASE AbortReadsHead(p)
    <2>1. /\ pc'[p] = "reset" /\ Calls("cherryPickAbort")
          /\ call'[p] = [NoCall EXCEPT !.parent = tip]
        BY <1>14 DEF AbortReadsHead, Enter, GoTo, Works
    <2> QED
        BY <2>1
<1>15. CASE Commits(p) \/ Stages(p) \/ Resolves(p)
    <2>1. pc'[p] = pc[p] /\ call'[p] = call[p]
        BY <1>15 DEF Commits, Stages, Resolves
    <2> QED
        BY <2>1
<1>16. ASSUME NEW t \in world.targets,
              UpToDate(p, t) \/ CherryPickStarts(p, t)
              \/ \E mode \in world.modes : MergeStarts(p, t, mode)
       PROVE  \/ pc'[p] = "idle"
              \/ /\ pc'[p] \in {"fastForward", "merge"}
                 /\ \E s \in Targets, mode \in world.modes : MergeStarts(p, s, mode)
              \/ /\ pc'[p] = "pick"
                 /\ \E s \in Targets : call'[p] = [NoCall EXCEPT !.of = s]
    BY <1>1, <1>3, <1>4, <1>5, <1>16
<1> QED
    BY <1>6, <1>7, <1>8, <1>9, <1>10, <1>11, <1>12, <1>13, <1>14, <1>15, <1>16 DEF Step

\* Each call works on what it names, and on commits that are there.
LEMMA WorkingStep ==
    ASSUME IInv, NEW p \in world.procs, Step(p)
    PROVE  \A q \in world.procs : Working(q)'
<1>1. TypeOK /\ History /\ p \in Proc /\ world.procs \subseteq Proc
    BY InWorld DEF IInv
<1>2. /\ Len(commits) \in Nat /\ Len(commits') \in Nat /\ Len(commits) <= Len(commits')
      /\ tip \in 1..Len(commits)
    BY <1>1, TypeStep, HistoryStep, LenProperties DEF TypeOK, History
<1>3. 1..Len(commits) \subseteq 1..Len(commits')
    BY <1>2
<1>4. ASSUME NEW q \in world.procs, pc'[q] = pc[q], call'[q] = call[q]
      PROVE  Working(q)'
    BY <1>3, <1>4 DEF IInv, Working
<1>5. Working(p)'
    <2> USE DEF Working, Forwarding, Concluding
    <2>1. CASE pc'[p] = "idle"
        BY <2>1
    <2>2. CASE pc'[p] = pc[p] /\ call'[p] = call[p]
        BY <1>4, <2>2
    <2>3. ASSUME NEW t \in Targets, NEW mode \in world.modes, MergeStarts(p, t, mode),
                 pc'[p] # "idle"
          PROVE  Working(p)'
        <3>1. pc'[p] \in {"fastForward", "merge"} /\ call'[p].of = t
              /\ (pc'[p] = "merge" => call'[p].heads = <<t>>)
            <4>1. \A as : Return(p, as) => pc'[p] = "idle"
                BY <1>1 DEF Return, TypeOK
            <4>2. \/ /\ Works(p, [NoCall EXCEPT !.of = t])
                     /\ GoTo(p, "fastForward")
                  \/ /\ Works(p, [NoCall EXCEPT !.of = t, !.heads = <<t>>])
                     /\ GoTo(p, "merge")
                BY <2>3, <4>1 DEF MergeStarts
            <4>3. \A job : Works(p, job) => call'[p] = job
                BY <1>1 DEF Works, TypeOK
            <4>4. \A l : GoTo(p, l) => pc'[p] = l
                BY <1>1 DEF GoTo, TypeOK
            <4>5. /\ [NoCall EXCEPT !.of = t].of = t
                  /\ [NoCall EXCEPT !.of = t, !.heads = <<t>>].of = t
                  /\ [NoCall EXCEPT !.of = t, !.heads = <<t>>].heads = <<t>>
                BY DEF NoCall
            <4> QED
                BY <4>2, <4>3, <4>4, <4>5
        <3> QED
            BY <3>1
    <2>4. ASSUME NEW t \in Targets, pc'[p] = "pick", call'[p] = [NoCall EXCEPT !.of = t]
          PROVE  Working(p)'
        BY <2>4 DEF NoCall
    <2>5. CASE pc[p] = "fastForward" /\ pc'[p] = "readHead" /\ call'[p] = call[p]
        BY <2>5 DEF IInv
    <2>6. CASE /\ pc[p] = "readHead" /\ pc'[p] = "setTarget"
               /\ call'[p] = [call[p] EXCEPT !.parent = tip]
        <3>1. call[p] \in Jobs
            BY <1>1 DEF TypeOK
        <3>2. call'[p].of = call[p].of /\ call'[p].parent = tip
            BY <2>6, <3>1 DEF Jobs
        <3> QED
            BY <1>2, <1>3, <2>6, <3>2 DEF IInv
    <2>7. CASE /\ pc[p] \in {"merge", "pick"} /\ pc'[p] = "parent"
               /\ call'[p] = [call[p] EXCEPT !.tree = index'.tree]
        <3>1. call[p] \in Jobs
            BY <1>1 DEF TypeOK
        <3>2. call'[p].heads = call[p].heads
            BY <2>7, <3>1 DEF Jobs
        <3> QED
            BY <2>7, <3>2 DEF IInv
    <2>8. CASE /\ pc[p] = "parent" /\ pc'[p] = "create"
               /\ call'[p] = [call[p] EXCEPT !.parent = tip]
        <3>1. call[p] \in Jobs
            BY <1>1 DEF TypeOK
        <3>2. call'[p].heads = call[p].heads /\ call'[p].parent = tip
            BY <2>8, <3>1 DEF Jobs
        <3> QED
            BY <1>2, <1>3, <2>8, <3>2 DEF IInv
    <2>9. CASE pc'[p] = "cleanUp"
        BY <2>9
    <2>10. ASSUME NEW h \in Targets, pc'[p] = "parent", call'[p].heads \in {<< >>, <<h>>}
           PROVE  Working(p)'
        BY <2>10
    <2>11. CASE pc'[p] = "reset" /\ call'[p] = [NoCall EXCEPT !.parent = tip]
        BY <1>2, <1>3, <2>11 DEF NoCall
    <2> QED
        BY <1>1, <2>1, <2>2, <2>3, <2>4, <2>5, <2>6, <2>7, <2>8, <2>9, <2>10, <2>11, OwnCall
<1>6. ASSUME NEW q \in world.procs, q # p
      PROVE  pc'[q] = pc[q] /\ call'[q] = call[q]
    BY <1>1, <1>6, Frame
<1> QED
    BY <1>4, <1>5, <1>6

\* Without fast-forwards and aborts, no call is about to move HEAD back.
LEMMA OnlyRecordsStep ==
    ASSUME IInv, NEW p \in world.procs, Step(p)
    PROVE  OnlyRecords'
<1>1. TypeOK /\ p \in Proc /\ world.procs \subseteq Proc /\ world' = world
    BY InWorld, Frame DEF IInv
<1>2. SUFFICES ASSUME world.modes \subseteq {"never"}, ~Calls("cherryPickAbort"),
                      NEW q \in world.procs
               PROVE  pc'[q] \notin Forwarding \cup {"reset"}
    BY <1>1 DEF OnlyRecords, Calls
<1>3. \A r \in world.procs : pc[r] \notin Forwarding \cup {"reset"}
    BY <1>2 DEF IInv, OnlyRecords
<1>4. CASE q # p
    BY <1>1, <1>3, <1>4, Frame
<1>5. CASE q = p
    <2> USE DEF Forwarding
    <2>1. ASSUME NEW t \in Targets, NEW mode \in world.modes, MergeStarts(p, t, mode)
          PROVE  pc'[p] # "fastForward"
        <3>1. mode = "never"
            BY <1>2
        <3> QED
            BY <1>1, <2>1, <3>1 DEF MergeStarts, GoTo, Return, TypeOK
    <2> QED
        BY <1>1, <1>2, <1>3, <1>5, <2>1, OwnCall
<1> QED
    BY <1>4, <1>5

-----------------------------------------------------------------------------
(* One process alone                                                       *)

\* What returning, going on and working on something do to a call.
LEMMA Effects ==
    ASSUME TypeOK, NEW p \in Proc
    PROVE  /\ \A as : Return(p, as) => pc'[p] = "idle"
           /\ \A l : GoTo(p, l) => pc'[p] = l
           /\ \A job : Works(p, job) => call'[p] = job
BY DEF Return, GoTo, Works, TypeOK

\* What holds of the only process.
LEMMA OwnState ==
    ASSUME IInv, Alone, NEW p \in world.procs
    PROVE  /\ TypeOK /\ History /\ p \in Proc /\ call[p] \in Jobs
           /\ Working(p) /\ Held /\ Staged(p)
           /\ world.operations \subseteq Merges => Merged(p)
           /\ ~Calls("die") => Pending(p)
           /\ tip \in 1..Len(commits) /\ Len(commits) \in Nat
<1>1. TypeOK /\ History /\ p \in Proc
    BY InWorld DEF IInv
<1> QED
    BY <1>1, LenProperties DEF IInv, History, TypeOK

\* What may be merged or picked brings at most one change that diverged, its
\* own, and has what is behind it.
LEMMA OfTargets ==
    ASSUME TypeOK, History, NEW t \in Targets
    PROVE  /\ t \in 3..5 /\ t \in 1..Len(commits) /\ t # None
           /\ Tree(t) \cap Diverged \subseteq {t} /\ Tree(t) \subseteq {2, 3, 4, 5}
           /\ \A a \in commits[t].past : Tree(a) \subseteq Tree(t)
           /\ t \in commits[t].past
<1>1. t \in 3..5 /\ t \in 1..Len(commits)
    BY InWorld, TargetsThere
<1>2. t = 3 \/ t = 4 \/ t = 5
    BY <1>1
<1>3. t # None
    BY <1>2 DEF None
<1>4. CASE t = 3
    BY <1>1, <1>3, <1>4, Founded DEF Diverged
<1>5. CASE t = 4
    BY <1>1, <1>3, <1>5, Founded DEF Diverged
<1>6. CASE t = 5
    BY <1>1, <1>3, <1>6, Founded DEF Diverged
<1> QED
    BY <1>2, <1>4, <1>5, <1>6

\* The only fast-forward there is goes to 4.
LEMMA ForwardsTo4 ==
    ASSUME IInv, Alone, NEW p \in world.procs, pc[p] \in Forwarding
    PROVE  call[p].of = 4 /\ tip \in {2, 4} /\ Tree(tip) \subseteq {2, 4} /\ Tree(4) = {2, 4}
<1>1. /\ TypeOK /\ History /\ call[p].of \in Targets /\ tip \in commits[call[p].of].past
      /\ tip \in {2, 4} \cup 6..Len(commits) /\ Len(commits) \in Nat
    BY OwnState DEF Working, Staged, Held, Contains
<1>2. call[p].of \in 3..5
    BY <1>1, OfTargets
<1>3. call[p].of = 3 \/ call[p].of = 4 \/ call[p].of = 5
    BY <1>2
<1>4. tip # 1 /\ tip # 3 /\ tip # 5
    BY <1>1
<1>5. call[p].of = 4 /\ tip \in {2, 4}
    BY <1>1, <1>3, <1>4, Founded
<1> QED
    BY <1>1, <1>5, Founded

\* Where only the call goes on, what the index and HEAD hold stays.
LEMMA HeldStill ==
    ASSUME Held, UNCHANGED <<commits, tip, index, given>>, mergeHead' \in {mergeHead, None}
    PROVE  Held'
BY DEF Held, Tree

\* A commit of the index on the tip holds what both do.
LEMMA HeldByCommit ==
    ASSUME IInv, Alone, NEW p \in world.procs,
           NEW heads, heads = << >> \/ (mergeHead # None /\ heads = <<mergeHead>>),
           Adds(index.tree, heads), index.unmerged = {}, UNCHANGED <<index, mergeHead, given>>
    PROVE  Held'
<1>2. TypeOK /\ History /\ Held /\ tip \in 1..Len(commits) /\ Len(commits) \in Nat
    BY OwnState
<1>3. 5 <= Len(commits) /\ \A i \in 1..Len(commits) : commits[i].past \subseteq 1..i
    BY <1>2 DEF History
<1>4. /\ tip' = Len(commits) + 1 /\ Len(commits') = tip'
      /\ \A i \in 1..Len(commits) : commits'[i] = commits[i]
      /\ commits'[tip'].tree = index.tree
      /\ commits'[tip'].past = {tip'} \cup commits[tip].past \cup
                                 (IF heads = << >> THEN {} ELSE commits[heads[1]].past)
    BY DEF Adds
<1>5. mergeHead # None => mergeHead \in Targets
    BY <1>2 DEF TypeOK
<1>6. \A i \in 1..Len(commits) : Tree(i)' = Tree(i)
    BY <1>4 DEF Tree
<1>7. Tree(tip)' = index.tree
    BY <1>4 DEF Tree
<1>8. \A a \in commits[tip].past : a \in 1..Len(commits) /\ Tree(a) \subseteq index.tree \cup given
    BY <1>2, <1>3 DEF Held
<1>9. ASSUME heads # << >>, NEW a \in commits[heads[1]].past
      PROVE  a \in 1..Len(commits) /\ Tree(a) \subseteq index.tree \cup given
    <2>1. heads[1] = mergeHead /\ mergeHead \in Targets
        BY <1>5, <1>9
    <2>2. mergeHead \in 1..Len(commits) /\ Tree(a) \subseteq Tree(mergeHead)
        BY <1>2, <1>9, <2>1, OfTargets
    <2>3. Tree(mergeHead) \subseteq index.tree \cup given
        BY <1>2, <1>9 DEF Held
    <2> QED
        BY <1>2, <1>3, <1>9, <2>1, <2>2, <2>3
<1>10. \A a \in commits'[tip'].past : Tree(a)' \subseteq Tree(tip)' \cup given'
    BY <1>4, <1>6, <1>7, <1>8, <1>9
<1>11. mergeHead' # None =>
        Tree(mergeHead)' \subseteq index.tree' \cup index.unmerged' \cup given'
    <2>1. mergeHead # None => mergeHead \in 1..Len(commits)
        BY <1>2, <1>5, OfTargets
    <2>2. mergeHead # None => Tree(mergeHead)' = Tree(mergeHead)
        BY <1>6, <2>1 DEF Tree
    <2> QED
        BY <1>2, <2>2 DEF Held
<1>12. tip' \in 6..Len(commits')
    BY <1>2, <1>3, <1>4
<1> QED
    BY <1>7, <1>10, <1>11, <1>12 DEF Held

\* What the index and HEAD hold stays held.
LEMMA HeldStep ==
    ASSUME IInv, Alone, NEW p \in world.procs, Step(p)
    PROVE  Held'
<1>1. /\ TypeOK /\ History /\ p \in Proc /\ call[p] \in Jobs /\ Working(p) /\ Held /\ Staged(p)
      /\ tip \in 1..Len(commits) /\ Len(commits) \in Nat /\ world.targets \subseteq Targets
    BY OwnState, InWorld
<1>2. mergeHead # None => mergeHead \in Targets /\ mergeHead \in 1..Len(commits)
    BY <1>1, OfTargets DEF TypeOK
<1> USE DEF repository, bookkeeping
<1>3. ASSUME NEW t \in Targets, UpToDate(p, t) \/ CherryPickStarts(p, t)
             \/ \E mode \in world.modes : MergeStarts(p, t, mode)
      PROVE  Held'
    BY <1>1, <1>3, HeldStill DEF UpToDate, CherryPickStarts, MergeStarts
<1>4. CASE CheckOutRefused(p) \/ ReadHead(p) \/ ReadParent(p) \/ CreateRefused(p) \/ CleanUp(p)
    BY <1>1, <1>4, HeldStill DEF CheckOutRefused, ReadHead, ReadParent, CreateRefused, CleanUp
<1>5. CASE MergeContinue(p) \/ CherryPickContinue(p) \/ CannotContinue(p) \/ AbortReadsHead(p) \/ Dies(p)
    BY <1>1, <1>5, HeldStill DEF MergeContinue, CherryPickContinue, Resumes, CannotContinue, AbortReadsHead, Dies
<1>6. CASE ApplyRefused(p)
    BY <1>1, <1>6, HeldStill DEF ApplyRefused, StateFiles
<1>7. CASE CheckOut(p)
    <2>1. call[p].of = 4 /\ tip \in {2, 4} /\ Tree(tip) \subseteq {2, 4} /\ Tree(4) = {2, 4}
        BY <1>7, ForwardsTo4 DEF CheckOut, At, Forwarding
    <2>2. index'.tree = (index.tree \ Tree(tip)) \cup {2, 4} /\ index'.unmerged = index.unmerged
        BY <1>1, <1>7, <2>1 DEF CheckOut, TypeOK
    <2>3. index.tree \subseteq index'.tree
        BY <2>1, <2>2
    <2>4. UNCHANGED <<commits, tip, mergeHead, given>>
        BY <1>7 DEF CheckOut
    <2> QED
        BY <1>1, <2>2, <2>3, <2>4 DEF Held, Tree
<1>8. CASE SetTarget(p)
    <2>1. CASE tip' = tip
        BY <1>1, <1>8, <2>1, HeldStill DEF SetTarget
    <2>2. CASE tip' # tip
        <3>1. tip' = 4 /\ Tree(4) = {2, 4} /\ {2, 4} \subseteq index.tree
            <4>1. pc[p] = "setTarget" /\ tip' = call[p].of
                BY <1>8, <2>2 DEF SetTarget, At
            <4>2. call[p].of = 4 /\ Tree(4) = {2, 4}
                BY <4>1, ForwardsTo4 DEF Forwarding
            <4> QED
                BY <1>1, <4>1, <4>2 DEF Staged
        <3>2. UNCHANGED <<commits, index, mergeHead, given>>
            BY <1>8 DEF SetTarget
        <3>3. \A a \in commits[4].past : Tree(a) \subseteq {2, 4}
            BY <1>1, Founded
        <3> QED
            BY <1>1, <3>1, <3>2, <3>3 DEF Held, Tree
    <2> QED
        BY <2>1, <2>2
<1>9. ASSUME ApplyCleanly(p) \/ ApplyConflicting(p)
      PROVE  Held'
    <2>1. /\ Fits(p) /\ Applies(p) /\ StateFiles(p, call[p].of)
          /\ UNCHANGED <<commits, tip, given>>
        BY <1>9 DEF ApplyCleanly, ApplyConflicting
    <2>2. /\ index.tree \subseteq index'.tree
          /\ index.tree \cup Brings(p) \subseteq index'.tree \cup index'.unmerged
        <3>1. CASE ApplyCleanly(p)
            BY <1>1, <3>1 DEF ApplyCleanly, TypeOK
        <3>2. CASE ApplyConflicting(p)
            BY <1>1, <3>2 DEF ApplyConflicting, TypeOK
        <3> QED
            BY <1>9, <3>1, <3>2
    <2>3. index.unmerged = {} /\ Tree(tip) \subseteq index.tree
        BY <2>1 DEF Fits
    <2>4. mergeHead' # None => Tree(mergeHead') \subseteq index'.tree \cup index'.unmerged \cup given
        <3>1. CASE At(p, "merge")
            <4>1. mergeHead' = call[p].of /\ Brings(p) = Tree(call[p].of) \ Tree(tip)
                BY <2>1, <3>1 DEF StateFiles, Brings
            <4> QED
                BY <2>2, <2>3, <4>1
        <3>2. CASE ~At(p, "merge")
            <4>1. mergeHead' = mergeHead
                BY <2>1, <3>2 DEF StateFiles
            <4> QED
                BY <1>1, <2>2, <2>3, <4>1 DEF Held
        <3> QED
            BY <3>1, <3>2
    <2>5. \A i : Tree(i)' = commits[i].tree
        BY <2>1 DEF Tree
    <2> QED
        BY <1>1, <2>1, <2>2, <2>3, <2>4 DEF Held, Tree
<1>10. CASE Create(p)
    <2>1. /\ Adds(call[p].tree, call[p].heads) /\ UNCHANGED <<index, mergeHead, given>>
          /\ pc[p] = "create"
        BY <1>10, CreateAdds DEF Create, At
    <2>2. /\ call[p].tree = index.tree /\ index.unmerged = {}
          /\ call[p].heads = << >> \/ (mergeHead # None /\ call[p].heads = <<mergeHead>>)
        BY <1>1, <2>1 DEF Staged, Concluding
    <2> QED
        BY <2>1, <2>2, HeldByCommit
<1>11. CASE Commits(p)
    <2>1. Adds(index.tree, << >>) /\ UNCHANGED <<index, mergeHead, given>> /\ index.unmerged = {}
        BY <1>11, CommitAdds DEF Commits
    <2> QED
        BY <2>1, HeldByCommit
<1>12. CASE AbortResets(p)
    <2>1. call[p].parent = tip
        BY <1>1, <1>12 DEF AbortResets, At, Staged
    <2>2. /\ tip' = tip /\ index'.tree = Tree(tip) /\ mergeHead' = None
          /\ UNCHANGED <<commits, given>>
        BY <1>12, <2>1 DEF AbortResets
    <2> QED
        BY <1>1, <2>2 DEF Held, Tree
<1>13. CASE Stages(p) \/ Resolves(p)
    <2>1. /\ index.tree \subseteq index'.tree /\ given \subseteq given'
          /\ index.tree \cup index.unmerged \cup given
               \subseteq index'.tree \cup index'.unmerged \cup given'
          /\ UNCHANGED <<commits, tip, mergeHead>>
        <3>1. CASE Stages(p)
            BY <1>1, <3>1 DEF Stages, TypeOK
        <3>2. CASE Resolves(p)
            BY <1>1, <3>2 DEF Resolves, TypeOK
        <3> QED
            BY <1>13, <3>1, <3>2
    <2> QED
        BY <1>1, <2>1 DEF Held, Tree
<1> QED
    BY <1>1, <1>3, <1>4, <1>5, <1>6, <1>7, <1>8, <1>9, <1>10, <1>11, <1>12, <1>13 DEF Step

\* HEAD and the index stay what the only call read of them.
LEMMA StagedStep ==
    ASSUME IInv, Alone, NEW p \in world.procs, Step(p)
    PROVE  Staged(p)'
<1>1. /\ TypeOK /\ History /\ p \in Proc /\ call[p] \in Jobs /\ Working(p) /\ Held /\ Staged(p)
      /\ tip \in 1..Len(commits) /\ Len(commits) \in Nat /\ world.targets \subseteq Targets
    BY OwnState, InWorld
<1> USE DEF repository, bookkeeping
<1>2. ASSUME pc'[p] \in {"idle", "pick", "cleanUp"}
      PROVE  Staged(p)'
    BY <1>2 DEF Staged, Forwarding, Concluding
<1>3. CASE CheckOutRefused(p) \/ ApplyRefused(p) \/ ApplyConflicting(p) \/ CreateRefused(p)
           \/ CleanUp(p) \/ CannotContinue(p) \/ AbortResets(p) \/ Dies(p)
    <2>1. pc'[p] = "idle"
        BY <1>1, <1>3, Effects DEF CheckOutRefused, ApplyRefused, ApplyConflicting, CreateRefused,
           CleanUp, CannotContinue, AbortResets, Dies
    <2> QED
        BY <1>2, <2>1
<1>4. CASE SetTarget(p)
    <2>1. pc'[p] = "idle"
        BY <1>1, <1>4, Effects DEF SetTarget
    <2> QED
        BY <1>2, <2>1
<1>5. ASSUME NEW t \in Targets, UpToDate(p, t) \/ CherryPickStarts(p, t)
      PROVE  Staged(p)'
    <2>1. pc'[p] \in {"idle", "pick"}
        BY <1>1, <1>5, Effects DEF UpToDate, CherryPickStarts
    <2> QED
        BY <1>2, <2>1
<1>6. ASSUME NEW t \in Targets, NEW mode \in world.modes, MergeStarts(p, t, mode)
      PROVE  Staged(p)'
    <2>1. UNCHANGED <<commits, tip>> /\ ~Contains(tip, t)
        BY <1>6 DEF MergeStarts
    <2>2. /\ [NoCall EXCEPT !.of = t].of = t
          /\ [NoCall EXCEPT !.of = t, !.heads = <<t>>].of = t
        BY DEF NoCall
    <2>3. \/ pc'[p] = "idle"
          \/ pc'[p] = "fastForward" /\ CanFF(t) /\ call'[p].of = t
          \/ pc'[p] = "merge" /\ call'[p].of = t
        BY <1>1, <1>6, <2>2, Effects DEF MergeStarts
    <2>4. CASE pc'[p] = "fastForward" /\ CanFF(t) /\ call'[p].of = t
        BY <2>1, <2>4 DEF Staged, Forwarding, Concluding, CanFF, Contains
    <2>5. CASE pc'[p] = "merge" /\ call'[p].of = t
        BY <2>1, <2>5 DEF Staged, Forwarding, Concluding, Contains
    <2> QED
        BY <1>2, <2>3, <2>4, <2>5
<1>7. CASE CheckOut(p)
    <2>1. /\ pc[p] = "fastForward" /\ pc'[p] = "readHead" /\ UNCHANGED <<commits, tip, call>>
        BY <1>1, <1>7, Effects DEF CheckOut, At
    <2>2. Tree(call[p].of) \subseteq index'.tree
        BY <1>1, <1>7 DEF CheckOut, TypeOK
    <2> QED
        BY <1>1, <2>1, <2>2 DEF Staged, Forwarding, Concluding, Contains, Tree
<1>8. CASE ReadHead(p)
    <2>1. /\ pc[p] = "readHead" /\ pc'[p] = "setTarget" /\ UNCHANGED <<commits, tip, index>>
          /\ call'[p] = [call[p] EXCEPT !.parent = tip]
        BY <1>1, <1>8, Effects DEF ReadHead, At
    <2>2. call'[p].of = call[p].of /\ call'[p].parent = tip
        BY <1>1, <2>1 DEF Jobs
    <2> QED
        BY <1>1, <2>1, <2>2 DEF Staged, Forwarding, Concluding, Contains, Tree
<1>9. CASE ApplyCleanly(p)
    <2>1. /\ Applies(p) /\ Fits(p) /\ pc'[p] = "parent" /\ StateFiles(p, call[p].of)
          /\ call'[p] = [call[p] EXCEPT !.tree = index'.tree]
          /\ index' = [index EXCEPT !.tree = @ \cup Brings(p)]
        BY <1>1, <1>9, Effects DEF ApplyCleanly
    <2>2. call'[p].heads = call[p].heads /\ call'[p].tree = index'.tree
        BY <1>1, <2>1 DEF Jobs
    <2>3. index'.unmerged = {}
        BY <1>1, <2>1 DEF Fits, TypeOK
    <2>4. call'[p].heads = << >> \/ (mergeHead' # None /\ call'[p].heads = <<mergeHead'>>)
        <3>1. CASE pc[p] = "pick"
            BY <1>1, <2>2, <3>1 DEF Working
        <3>2. CASE pc[p] = "merge"
            <4>1. mergeHead' = call[p].of /\ call[p].of \in Targets /\ call[p].heads = <<call[p].of>>
                BY <1>1, <2>1, <3>2 DEF StateFiles, At, Working
            <4> QED
                BY <1>1, <2>2, <4>1, OfTargets
        <3> QED
            BY <2>1, <3>1, <3>2 DEF Applies, At
    <2> QED
        BY <2>1, <2>2, <2>3, <2>4 DEF Staged, Forwarding, Concluding
<1>10. CASE ReadParent(p)
    <2>1. /\ pc[p] = "parent" /\ pc'[p] = "create" /\ UNCHANGED <<tip, index, mergeHead>>
          /\ call'[p] = [call[p] EXCEPT !.parent = tip]
        BY <1>1, <1>10, Effects DEF ReadParent, At
    <2>2. /\ call'[p].heads = call[p].heads /\ call'[p].tree = call[p].tree
          /\ call'[p].parent = tip
        BY <1>1, <2>1 DEF Jobs
    <2> QED
        BY <1>1, <2>1, <2>2 DEF Staged, Forwarding, Concluding
<1>11. CASE Create(p)
    <2>1. pc'[p] = "cleanUp"
        BY <1>1, <1>11, Effects DEF Create
    <2> QED
        BY <1>2, <2>1
<1>12. CASE MergeContinue(p) \/ CherryPickContinue(p)
    <2>1. /\ pc'[p] = "parent" /\ UNCHANGED <<index, mergeHead>> /\ index.unmerged = {}
          /\ call'[p].tree = index.tree
          /\ call'[p].heads = << >> \/ (mergeHead # None /\ call'[p].heads = <<mergeHead>>)
        BY <1>1, <1>12, Effects DEF MergeContinue, CherryPickContinue, Resumes
    <2> QED
        BY <2>1 DEF Staged, Forwarding, Concluding
<1>13. CASE AbortReadsHead(p)
    <2>1. /\ pc'[p] = "reset" /\ tip' = tip /\ call'[p] = [NoCall EXCEPT !.parent = tip]
        BY <1>1, <1>13, Effects DEF AbortReadsHead
    <2> QED
        BY <2>1 DEF Staged, Forwarding, Concluding, NoCall
<1>14. CASE Commits(p) \/ Stages(p) \/ Resolves(p)
    <2>1. pc'[p] = "idle"
        BY <1>14 DEF Commits, Enter, Stages, Resolves, At
    <2> QED
        BY <1>2, <2>1
<1> QED
    BY <1>1, <1>3, <1>4, <1>5, <1>6, <1>7, <1>8, <1>9, <1>10, <1>11, <1>12, <1>13, <1>14 DEF Step

\* The founding commits that diverged are in no other's past.
LEMMA Beside ==
    ASSUME TypeOK, History, NEW i \in {2, 4}
    PROVE  Tree(i) \cap Diverged = {} /\ commits[i].past \cap Diverged = {}
BY Founded DEF Diverged

\* What diverged and is in HEAD or the index, where nothing but merges are
\* called, is of the merge in progress or behind HEAD.
LEMMA MergedStep ==
    ASSUME IInv, Alone, NEW p \in world.procs, Step(p), world.operations \subseteq Merges
    PROVE  Merged(p)'
<1>1. /\ TypeOK /\ History /\ p \in Proc /\ call[p] \in Jobs /\ Working(p) /\ Held /\ Staged(p)
      /\ tip \in 1..Len(commits) /\ Len(commits) \in Nat /\ world.targets \subseteq Targets
      /\ Merged(p)
    BY OwnState, InWorld
<1>2. /\ ~Calls("cherryPick") /\ ~Calls("cherryPickContinue") /\ ~Calls("cherryPickAbort")
      /\ ~Calls("commit")
    BY DEF Calls, Merges
<1>3. p \notin Diverged
    BY <1>1, InWorld
<1> USE DEF repository, bookkeeping
<1>4. ASSUME UNCHANGED <<commits, tip, index>>, mergeHead' \in {mergeHead, None},
             pc'[p] # "pick", pc'[p] \notin Concluding
      PROVE  Merged(p)'
    BY <1>1, <1>4 DEF Merged, Tree, Contains
<1>5. CASE CheckOutRefused(p) \/ ReadHead(p) \/ CreateRefused(p) \/ CleanUp(p) \/ Dies(p)
    <2>1. UNCHANGED <<commits, tip, index>> /\ mergeHead' \in {mergeHead, None}
        BY <1>5 DEF CheckOutRefused, ReadHead, CreateRefused, CleanUp, Dies
    <2>2. pc'[p] \in {"idle", "setTarget"}
        BY <1>1, <1>5, Effects DEF CheckOutRefused, ReadHead, CreateRefused, CleanUp, Dies
    <2> QED
        BY <1>4, <2>1, <2>2 DEF Concluding
<1>6. CASE CannotContinue(p)
    <2>1. UNCHANGED <<commits, tip, index, mergeHead>> /\ pc'[p] = "idle"
        BY <1>1, <1>6, Effects DEF CannotContinue
    <2> QED
        BY <1>4, <2>1 DEF Concluding
<1>7. CASE ApplyRefused(p)
    <2>1. /\ UNCHANGED <<commits, tip, index>> /\ mergeHead' \in {mergeHead, None}
          /\ pc'[p] = "idle"
        BY <1>1, <1>7, Effects DEF ApplyRefused, StateFiles
    <2> QED
        BY <1>4, <2>1 DEF Concluding
<1>8. ASSUME NEW t \in Targets, UpToDate(p, t)
      PROVE  Merged(p)'
    <2>1. UNCHANGED <<commits, tip, index, mergeHead>> /\ pc'[p] = "idle"
        BY <1>1, <1>8, Effects DEF UpToDate
    <2> QED
        BY <1>4, <2>1 DEF Concluding
<1>9. ASSUME NEW t \in Targets, CherryPickStarts(p, t)
      PROVE  FALSE
    BY <1>2, <1>9 DEF CherryPickStarts, Enter
<1>10. ASSUME NEW t \in Targets, NEW mode \in world.modes, MergeStarts(p, t, mode)
       PROVE  Merged(p)'
    <2>1. UNCHANGED <<commits, tip, index, mergeHead>>
        BY <1>10 DEF MergeStarts
    <2>2. pc'[p] \in {"idle", "fastForward", "merge"}
        BY <1>1, <1>10, Effects DEF MergeStarts
    <2> QED
        BY <1>4, <2>1, <2>2 DEF Concluding
<1>11. CASE CheckOut(p)
    <2>1. call[p].of = 4 /\ Tree(4) = {2, 4}
        BY <1>11, ForwardsTo4 DEF CheckOut, At, Forwarding
    <2>2. /\ index'.tree \subseteq index.tree \cup {2, 4} /\ index'.unmerged = index.unmerged
          /\ UNCHANGED <<commits, tip, mergeHead>> /\ pc'[p] = "readHead"
        BY <1>1, <1>11, <2>1, Effects DEF CheckOut, TypeOK
    <2>3. (index'.tree \cup index'.unmerged) \cap Diverged
            \subseteq (index.tree \cup index.unmerged) \cap Diverged
        BY <2>2 DEF Diverged
    <2> QED
        BY <1>1, <2>2, <2>3 DEF Merged, Tree, Contains, Concluding
<1>12. CASE SetTarget(p)
    <2>1. UNCHANGED <<commits, index, mergeHead>> /\ pc'[p] = "idle"
        BY <1>1, <1>12, Effects DEF SetTarget
    <2>2. CASE tip' = tip
        BY <1>4, <2>1, <2>2 DEF Concluding
    <2>3. CASE tip' # tip
        <3>1. pc[p] = "setTarget" /\ tip' = call[p].of
            BY <1>12, <2>3 DEF SetTarget, At
        <3>2. tip' = 4 /\ Tree(4) = {2, 4} /\ Tree(tip) \subseteq {2, 4}
            BY <3>1, ForwardsTo4 DEF Forwarding
        <3>3. mergeHead # None =>
                (index.tree \cup index.unmerged) \cap Diverged \subseteq Tree(4) \cup {mergeHead}
            BY <1>1, <3>2 DEF Merged, Diverged
        <3>4. \A t \in Diverged : t \notin Tree(4)
            BY <3>2 DEF Diverged
        <3>5. Tree(tip)' = Tree(4)
            BY <2>1, <3>2 DEF Tree
        <3> QED
            BY <2>1, <3>3, <3>4, <3>5 DEF Merged, Concluding
    <2> QED
        BY <2>2, <2>3
<1>13. CASE ApplyCleanly(p) \/ ApplyConflicting(p)
    <2>1. /\ Fits(p) /\ Applies(p) /\ StateFiles(p, call[p].of) /\ UNCHANGED <<commits, tip>>
        BY <1>13 DEF ApplyCleanly, ApplyConflicting
    <2>2. index'.tree \cup index'.unmerged \subseteq index.tree \cup Brings(p)
        <3>1. CASE ApplyCleanly(p)
            BY <1>1, <2>1, <3>1 DEF ApplyCleanly, TypeOK, Fits
        <3>2. CASE ApplyConflicting(p)
            BY <1>1, <3>2 DEF ApplyConflicting, TypeOK
        <3> QED
            BY <1>13, <3>1, <3>2
    <2>3. pc[p] = "merge"
        BY <1>1, <2>1 DEF Applies, At, Merged
    <2>4. /\ mergeHead' = call[p].of /\ call[p].of \in Targets /\ call[p].heads = <<call[p].of>>
          /\ Brings(p) = Tree(call[p].of) \ Tree(tip)
        BY <1>1, <2>1, <2>3 DEF StateFiles, At, Working, Brings
    <2>5. index.tree \subseteq Tree(tip) \cup Brings(p)
        BY <2>1 DEF Fits
    <2>6. Tree(call[p].of) \cap Diverged \subseteq {call[p].of}
        BY <1>1, <2>4, OfTargets
    <2>7. (index'.tree \cup index'.unmerged) \cap Diverged \subseteq Tree(tip) \cup {mergeHead'}
        BY <2>2, <2>4, <2>5, <2>6
    <2>8. pc'[p] # "pick" /\ (pc'[p] \in Concluding => call'[p].heads # << >>)
        <3>1. CASE ApplyCleanly(p)
            <4>1. pc'[p] = "parent" /\ call'[p] = [call[p] EXCEPT !.tree = index'.tree]
                BY <1>1, <3>1, Effects DEF ApplyCleanly
            <4>2. call'[p].heads = call[p].heads
                BY <1>1, <4>1 DEF Jobs
            <4>3. <<call[p].of>> # << >>
                OBVIOUS
            <4> QED
                BY <2>4, <4>1, <4>2, <4>3
        <3>2. CASE ApplyConflicting(p)
            <4>1. pc'[p] = "idle"
                BY <1>1, <3>2, Effects DEF ApplyConflicting
            <4> QED
                BY <4>1 DEF Concluding
        <3> QED
            BY <1>13, <3>1, <3>2
    <2> QED
        BY <1>1, <2>1, <2>7, <2>8 DEF Merged, Tree, Contains
<1>14. CASE ReadParent(p)
    <2>1. /\ pc[p] = "parent" /\ pc'[p] = "create" /\ UNCHANGED <<commits, tip, index, mergeHead>>
          /\ call'[p] = [call[p] EXCEPT !.parent = tip]
        BY <1>1, <1>14, Effects DEF ReadParent, At
    <2>2. call'[p].heads = call[p].heads
        BY <1>1, <2>1 DEF Jobs
    <2> QED
        BY <1>1, <2>1, <2>2 DEF Merged, Tree, Contains, Concluding
<1>15. CASE Create(p)
    <2>1. /\ pc[p] = "create" /\ pc'[p] = "cleanUp" /\ UNCHANGED <<index, mergeHead>>
          /\ Adds(call[p].tree, call[p].heads)
        BY <1>1, <1>15, Effects, CreateAdds DEF Create, At
    <2>2. /\ call[p].tree = index.tree /\ index.unmerged = {} /\ mergeHead # None
          /\ call[p].heads = <<mergeHead>>
        BY <1>1, <2>1 DEF Staged, Merged, Concluding
    <2>3. Tree(tip)' = index.tree
        BY <2>1, <2>2 DEF Adds, Tree
    <2>4. commits'[tip'].past = {tip'} \cup commits[tip].past \cup commits[mergeHead].past
        BY <2>1, <2>2 DEF Adds
    <2>5. mergeHead \in commits[mergeHead].past
        BY <1>1, <2>2, OfTargets DEF TypeOK
    <2>6. \A t \in Diverged : t \in index.tree => t \in commits'[tip'].past
        BY <1>1, <2>2, <2>4, <2>5 DEF Merged, Contains
    <2> QED
        BY <2>1, <2>2, <2>3, <2>6 DEF Merged, Contains, Concluding
<1>16. CASE MergeContinue(p)
    <2>1. /\ UNCHANGED <<commits, tip, index, mergeHead>> /\ pc'[p] = "parent"
          /\ call'[p].heads = <<mergeHead>>
        BY <1>1, <1>16, Effects DEF MergeContinue, Resumes
    <2> QED
        BY <1>1, <2>1 DEF Merged, Tree, Contains
<1>17. CASE CherryPickContinue(p) \/ AbortReadsHead(p) \/ Commits(p)
    BY <1>2, <1>17 DEF CherryPickContinue, Resumes, AbortReadsHead, Commits, Enter
<1>18. CASE AbortResets(p)
    <2>1. UNCHANGED commits /\ mergeHead' = None /\ pc'[p] = "idle"
        BY <1>1, <1>18, Effects DEF AbortResets
    <2>2. tip' = tip
        BY <1>1, <1>18 DEF AbortResets, At, Staged
    <2> QED
        BY <1>1, <2>1, <2>2 DEF Merged, Tree, Contains, Concluding
<1>19. CASE Stages(p) \/ Resolves(p)
    <2>1. /\ index'.tree \cup index'.unmerged \subseteq index.tree \cup index.unmerged \cup {p}
          /\ UNCHANGED <<commits, tip, mergeHead, pc, call>>
        <3>1. CASE Stages(p)
            BY <1>1, <3>1 DEF Stages, TypeOK
        <3>2. CASE Resolves(p)
            BY <1>1, <3>2 DEF Resolves, TypeOK
        <3> QED
            BY <1>19, <3>1, <3>2
    <2>2. (index'.tree \cup index'.unmerged) \cap Diverged
            \subseteq (index.tree \cup index.unmerged) \cap Diverged
        BY <1>3, <2>1
    <2> QED
        BY <1>1, <2>1, <2>2 DEF Merged, Tree, Contains
<1> QED
    BY <1>1, <1>5, <1>6, <1>7, <1>8, <1>9, <1>10, <1>11, <1>12, <1>13, <1>14, <1>15, <1>16,
       <1>17, <1>18, <1>19 DEF Step

\* The merge in progress is not behind HEAD, where nobody dies.
LEMMA PendingStep ==
    ASSUME IInv, Alone, NEW p \in world.procs, Step(p), ~Calls("die")
    PROVE  Pending(p)'
<1>1. /\ TypeOK /\ History /\ p \in Proc /\ call[p] \in Jobs /\ Working(p) /\ Held /\ Staged(p)
      /\ tip \in 1..Len(commits) /\ Len(commits) \in Nat /\ world.targets \subseteq Targets
      /\ Pending(p)
    BY OwnState, InWorld
<1> USE DEF repository, bookkeeping
<1>2. ASSUME UNCHANGED <<commits, tip>>, mergeHead' \in {mergeHead, None}, pc[p] # "cleanUp"
      PROVE  Pending(p)'
    BY <1>1, <1>2 DEF Pending, Contains, Diverged, None
<1>3. CASE CheckOut(p) \/ CheckOutRefused(p) \/ ReadHead(p) \/ ReadParent(p) \/ CreateRefused(p)
    BY <1>2, <1>3 DEF CheckOut, CheckOutRefused, ReadHead, ReadParent, CreateRefused, At
<1>4. CASE MergeContinue(p) \/ CherryPickContinue(p) \/ CannotContinue(p) \/ AbortReadsHead(p)
    BY <1>2, <1>4 DEF MergeContinue, CherryPickContinue, Resumes, CannotContinue, AbortReadsHead,
       Enter, At
<1>5. ASSUME NEW t \in Targets, UpToDate(p, t) \/ CherryPickStarts(p, t)
             \/ \E mode \in world.modes : MergeStarts(p, t, mode)
      PROVE  Pending(p)'
    BY <1>2, <1>5 DEF UpToDate, CherryPickStarts, MergeStarts, Enter, At
<1>6. CASE Stages(p) \/ Resolves(p)
    BY <1>2, <1>6 DEF Stages, Resolves, At
<1>7. CASE ApplyRefused(p)
    BY <1>2, <1>7 DEF ApplyRefused, Applies, StateFiles, At
<1>8. CASE ApplyCleanly(p) \/ ApplyConflicting(p)
    <2>1. Applies(p) /\ StateFiles(p, call[p].of) /\ UNCHANGED <<commits, tip>>
        BY <1>8 DEF ApplyCleanly, ApplyConflicting
    <2>2. CASE pc[p] = "merge"
        <3>1. mergeHead' = call[p].of
            BY <2>1, <2>2 DEF StateFiles, At
        <3>2. ~Contains(tip, call[p].of)
            BY <1>1, <2>2 DEF Staged
        <3> QED
            BY <2>1, <3>1, <3>2 DEF Pending, Contains
    <2>3. CASE pc[p] = "pick"
        <3>1. mergeHead' = mergeHead
            BY <2>1, <2>3 DEF StateFiles, At
        <3> QED
            BY <1>2, <2>1, <2>3, <3>1
    <2> QED
        BY <2>1, <2>2, <2>3 DEF Applies, At
<1>9. CASE SetTarget(p)
    <2>1. UNCHANGED <<commits, mergeHead>> /\ pc[p] = "setTarget"
        BY <1>9 DEF SetTarget, At
    <2>2. CASE tip' = tip
        BY <1>2, <2>1, <2>2
    <2>3. CASE tip' # tip
        <3>1. tip' = 4
            BY <1>9, <2>1, <2>3, ForwardsTo4 DEF SetTarget, Forwarding
        <3>2. commits[4].past \cap Diverged = {}
            BY <1>1, Beside
        <3> QED
            BY <2>1, <3>1, <3>2 DEF Pending, Contains
    <2> QED
        BY <2>2, <2>3
<1>10. CASE Create(p)
    <2>1. pc'[p] = "cleanUp"
        BY <1>1, <1>10, Effects DEF Create
    <2> QED
        BY <2>1 DEF Pending
<1>11. CASE CleanUp(p)
    <2>1. mergeHead' = None
        BY <1>11 DEF CleanUp
    <2> QED
        BY <2>1 DEF Pending, Diverged, None
<1>12. CASE AbortResets(p)
    <2>1. mergeHead' = None
        BY <1>12 DEF AbortResets
    <2> QED
        BY <2>1 DEF Pending, Diverged, None
<1>13. CASE Commits(p)
    <2>1. Adds(index.tree, << >>) /\ mergeHead' = mergeHead /\ pc[p] = "idle"
        BY <1>13, CommitAdds DEF Commits, Enter, At
    <2>2. commits'[tip'].past = {tip'} \cup commits[tip].past /\ tip' = Len(commits) + 1
        BY <2>1 DEF Adds
    <2>3. 5 <= Len(commits)
        BY <1>1 DEF History
    <2>4. tip' \notin Diverged
        BY <1>1, <2>2, <2>3 DEF Diverged
    <2> QED
        BY <1>1, <2>1, <2>2, <2>4 DEF Pending, Contains
<1>14. CASE Dies(p)
    BY <1>14 DEF Dies
<1> QED
    BY <1>1, <1>3, <1>4, <1>5, <1>6, <1>7, <1>8, <1>9, <1>10, <1>11, <1>12, <1>13, <1>14 DEF Step

\* No merge is concluded whose commit is behind HEAD, where nobody dies.
LEMMA ConcludedOnceStep ==
    ASSUME IInv, NEW p \in world.procs, Step(p)
    PROVE  ConcludedOnce'
<1>1. TypeOK /\ History /\ p \in Proc
    BY InWorld DEF IInv
<1>2. Len(commits) \in Nat /\ 5 <= Len(commits) /\ tip \in 1..Len(commits)
    BY <1>1, LenProperties DEF TypeOK, History
<1>3. \A i \in 1..Len(commits) : commits'[i] = commits[i]
    BY HistoryStep
<1>4. SUFFICES ASSUME Alone, ~Calls("die"), NEW i \in 6..Len(commits'),
                      Len(commits'[i].parents) = 2, commits'[i].parents[2] \in Diverged
               PROVE  commits'[i].parents[2] \notin commits'[commits'[i].parents[1]].past
    <2>1. world' = world
        BY <1>1, Frame
    <2> QED
        BY <2>1 DEF ConcludedOnce, Alone, Calls, Contains
<1>5. CASE i \in 1..Len(commits)
    <2>1. commits'[i] = commits[i]
        BY <1>3, <1>5
    <2>2. commits[i].parents \in Seq(Nat)
        BY <1>1, <1>5, CommitThere DEF CommitSet
    <2>3. 1 \in DOMAIN commits[i].parents
        BY <1>4, <2>1, <2>2
    <2>4. commits[i].parents[1] \in 1..(i - 1)
        BY <1>1, <1>5, <2>3 DEF History
    <2>5. commits[i].parents[1] \in 1..Len(commits)
        BY <1>2, <1>5, <2>4
    <2>6. i \in 6..Len(commits)
        BY <1>2, <1>4, <1>5
    <2>7. ~Contains(commits[i].parents[1], commits[i].parents[2])
        BY <1>4, <2>1, <2>6 DEF IInv, ConcludedOnce
    <2> QED
        BY <1>3, <2>1, <2>5, <2>7 DEF Contains
<1>6. CASE i \notin 1..Len(commits)
    <2>1. Create(p) \/ Commits(p)
        <3>1. SUFFICES ASSUME ~Create(p), ~Commits(p) PROVE FALSE
            OBVIOUS
        <3>2. commits' = commits
            BY <3>1, NoneAdded
        <3> QED
            BY <1>2, <1>4, <1>6, <3>2
    <2>2. CASE Commits(p)
        <3>1. /\ Len(commits') = Len(commits) + 1 /\ tip' = Len(commits) + 1
              /\ commits'[tip'].parents = <<tip>> \o << >>
            BY <2>2, CommitAdds DEF Adds
        <3>2. i = tip'
            BY <1>2, <1>4, <1>6, <3>1
        <3>3. <<tip>> \o << >> = <<tip>>
            BY <1>2, OneOrTwo
        <3> QED
            BY <1>4, <3>1, <3>2, <3>3
    <2>3. CASE Create(p)
        <3>1. /\ Len(commits') = Len(commits) + 1 /\ tip' = Len(commits) + 1
              /\ commits'[tip'].parents = <<tip>> \o call[p].heads
              /\ pc[p] = "create"
            <4>1. Adds(call[p].tree, call[p].heads)
                BY <2>3, CreateAdds
            <4>2. pc[p] = "create"
                BY <2>3 DEF Create, At
            <4> QED
                BY <4>1, <4>2 DEF Adds
        <3>2. i = tip'
            BY <1>2, <1>4, <1>6, <3>1
        <3>3. Staged(p) /\ Pending(p)
            BY <1>4, OwnState
        <3>4. call[p].heads = << >> \/ (mergeHead # None /\ call[p].heads = <<mergeHead>>)
            BY <3>1, <3>3 DEF Staged, Concluding
        <3>5. <<tip>> \o << >> = <<tip>>
            BY <1>2, OneOrTwo
        <3>6. call[p].heads = <<mergeHead>> /\ mergeHead \in Targets
            BY <1>1, <1>4, <3>1, <3>2, <3>4, <3>5 DEF TypeOK
        <3>7. <<tip>> \o <<mergeHead>> = <<tip, mergeHead>>
            <4>1. mergeHead \in 3..5
                BY <1>1, <3>6, OfTargets
            <4>2. mergeHead \in Nat /\ tip \in Nat
                BY <1>2, <4>1
            <4> QED
                BY <4>2, OneOrTwo
        <3>8. commits'[i].parents[1] = tip /\ commits'[i].parents[2] = mergeHead
            BY <3>1, <3>2, <3>6, <3>7
        <3>9. ~Contains(tip, mergeHead)
            BY <1>4, <3>1, <3>3, <3>8 DEF Pending
        <3> QED
            BY <1>2, <1>3, <3>8, <3>9 DEF Contains
    <2> QED
        BY <2>1, <2>2, <2>3
<1> QED
    BY <1>5, <1>6

-----------------------------------------------------------------------------
(* The theorems                                                            *)

\* It holds at first.
LEMMA InitInv == Init => IInv
<1>1. SUFFICES ASSUME Init PROVE IInv
    OBVIOUS
<1>2. world \in Worlds /\ world.procs \subseteq Proc
    BY <1>1, MergingAssumption DEF Init, MergingAssumption
<1>3. commits = Founding /\ tip = 2 /\ mergeHead = None
    BY <1>1 DEF Init
<1>4. /\ Len(Founding) = 5
      /\ Founding[1] = [tree |-> {},     parents |-> << >>,  past |-> {1}]
      /\ Founding[2] = [tree |-> {2},    parents |-> <<1>>,  past |-> {1, 2}]
      /\ Founding[3] = [tree |-> {3},    parents |-> <<1>>,  past |-> {1, 3}]
      /\ Founding[4] = [tree |-> {2, 4}, parents |-> <<2>>,  past |-> {1, 2, 4}]
      /\ Founding[5] = [tree |-> {5},    parents |-> <<1>>,  past |-> {1, 5}]
    BY DEF Founding
<1>5. TypeOK
    <2>1. /\ {} \in SUBSET Changes /\ {2} \in SUBSET Changes /\ {3} \in SUBSET Changes
          /\ {2, 4} \in SUBSET Changes /\ {5} \in SUBSET Changes
        BY DEF Changes
    <2>2. << >> \in Seq(Nat) /\ <<1>> \in Seq(Nat) /\ <<2>> \in Seq(Nat)
        OBVIOUS
    <2>3. Founding \in Seq(CommitSet)
        <3>1. Founding[1] \in CommitSet
            BY <1>4, <2>1, <2>2 DEF CommitSet
        <3>2. Founding[2] \in CommitSet
            BY <1>4, <2>1, <2>2 DEF CommitSet
        <3>3. Founding[3] \in CommitSet
            BY <1>4, <2>1, <2>2 DEF CommitSet
        <3>4. Founding[4] \in CommitSet
            BY <1>4, <2>1, <2>2 DEF CommitSet
        <3>5. Founding[5] \in CommitSet
            BY <1>4, <2>1, <2>2 DEF CommitSet
        <3>6. Founding = <<Founding[1], Founding[2], Founding[3], Founding[4], Founding[5]>>
            BY <1>4 DEF Founding
        <3>7. \A a, b, c, d, e \in CommitSet : <<a, b, c, d, e>> \in Seq(CommitSet)
            OBVIOUS
        <3>8. <<Founding[1], Founding[2], Founding[3], Founding[4], Founding[5]>> \in Seq(CommitSet)
            BY <3>1, <3>2, <3>3, <3>4, <3>5, <3>7
        <3> QED
            BY <3>6, <3>8, Zenon
    <2>4. NoCall \in Jobs
        BY EmptySeq DEF NoCall, Jobs, None
    <2>5. call \in [Proc -> Jobs] /\ pc \in [Proc -> Labels]
        BY <1>1, <2>4 DEF Init, Labels
    <2>6. index \in [tree : SUBSET Changes, unmerged : SUBSET Changes] /\ given \subseteq Changes
        BY <1>1, <2>1 DEF Init
    <2>7. mergeHead \in {None} \cup Targets /\ pickHead \in {None} \cup Targets
        BY <1>1 DEF Init
    <2> QED
        BY <1>2, <1>3, <2>3, <2>5, <2>6, <2>7 DEF TypeOK
<1>6. \A i \in 1..5 : i = 1 \/ i = 2 \/ i = 3 \/ i = 4 \/ i = 5
    OBVIOUS
<1>7. History
    <2>1. \A i \in 1..5 : i \in Founding[i].past /\ Founding[i].past \subseteq 1..i
        BY <1>4, <1>6
    <2>2. \A i \in 1..5 : \A j \in DOMAIN Founding[i].parents :
             Founding[i].parents[j] \in 1..(i - 1)
        BY <1>4, <1>6
    <2> QED
        BY <1>3, <1>4, <2>1, <2>2 DEF History
<1>8. \A p \in Proc : pc[p] = "idle"
    BY <1>1 DEF Init
<1>9. OnlyRecords /\ \A p \in world.procs : Working(p) /\ Staged(p)
    BY <1>2, <1>8 DEF OnlyRecords, Working, Staged, Forwarding, Concluding
<1>10. ConcludedOnce
    BY <1>3, <1>4 DEF ConcludedOnce
<1>11. Tree(1) = {} /\ Tree(2) = {2} /\ commits[2].past = {1, 2}
    BY <1>3, <1>4 DEF Tree
<1>12. Held
    BY <1>1, <1>3, <1>11 DEF Init, Held
<1>13. \A p \in world.procs : Merged(p) /\ Pending(p)
    BY <1>2, <1>3, <1>8, <1>11 DEF Merged, Pending, Concluding, Diverged, None
<1> QED
    BY <1>5, <1>7, <1>9, <1>10, <1>12, <1>13 DEF IInv

\* No step breaks it.
LEMMA StepInv == IInv /\ [Next]_vars => IInv'
<1>1. ASSUME IInv, Next
      PROVE  IInv'
    <2>1. PICK p \in world.procs : Step(p)
        BY <1>1 DEF Next, Step
    <2>2. TypeOK /\ p \in Proc
        BY <1>1, InWorld DEF IInv
    <2>3. world' = world
        BY <2>1, <2>2, Frame
    <2>4. TypeOK' /\ History' /\ OnlyRecords' /\ ConcludedOnce'
        BY <1>1, <2>1, TypeStep, HistoryStep, OnlyRecordsStep, ConcludedOnceStep
    <2>5. \A q \in world.procs : Working(q)'
        BY <1>1, <2>1, WorkingStep
    <2>6. ASSUME Alone, NEW q \in world.procs
          PROVE  /\ Held' /\ Staged(q)'
                 /\ world.operations \subseteq Merges => Merged(q)'
                 /\ ~Calls("die") => Pending(q)'
        <3>1. q = p
            BY <2>2, <2>6, OnlyOne
        <3> QED
            BY <1>1, <2>1, <2>6, <3>1, HeldStep, StagedStep, MergedStep, PendingStep
    <2> QED
        BY <2>3, <2>4, <2>5, <2>6 DEF IInv, Alone, Calls
<1>2. ASSUME IInv, UNCHANGED vars
      PROVE  IInv'
    <2> USE DEF vars
    <2>1. TypeOK' /\ History'
        BY <1>2 DEF IInv, TypeOK, History
    <2>2. OnlyRecords' /\ ConcludedOnce'
        BY <1>2 DEF IInv, OnlyRecords, ConcludedOnce, Alone, Calls, Contains
    <2>3. \A p \in world.procs : Working(p)'
        BY <1>2 DEF IInv, Working
    <2>4. Held => Held'
        BY <1>2 DEF Held, Tree
    <2>5. \A p \in world.procs : (Staged(p) => Staged(p)') /\ (Pending(p) => Pending(p)')
        BY <1>2 DEF Staged, Pending, Contains, Tree
    <2>6. \A p \in world.procs : Merged(p) => Merged(p)'
        BY <1>2 DEF Merged, Contains, Tree
    <2> QED
        BY <1>2, <2>1, <2>2, <2>3, <2>4, <2>5, <2>6 DEF IInv, Alone, Calls
<1> QED
    BY <1>1, <1>2

\* The inductive invariant holds of the specification.
THEOREM Invariant == Spec => []IInv
BY InitInv, StepInv, PTL DEF Spec

\* TypeOK: every variable keeps its type.
THEOREM TypeCorrect == Spec => []TypeOK
<1>1. IInv => TypeOK
    BY DEF IInv
<1> QED
    BY <1>1, Invariant, PTL

\* A world of one process has that process.
LEMMA SomeOne ==
    ASSUME Alone
    PROVE  \E p : p \in world.procs
<1>1. Cardinality({}) = 0
    BY FS_EmptySet
<1> QED
    BY <1>1 DEF Alone

\* NothingReverted: what one process commits, merges or picks, alone, stays in
\* effect: no later operation's tree lacks it, unless a resolution left it out.
THEOREM NothingTakenBack == Spec => []NothingReverted
<1>1. IInv => NothingReverted
    BY SomeOne DEF IInv, Held, NothingReverted
<1> QED
    BY <1>1, Invariant, PTL

\* MergeRecorded: where one process calls nothing but merges, a change of a
\* branch that diverged is in HEAD's tree only once that branch is behind HEAD.
THEOREM MergesRecorded == Spec => []MergeRecorded
<1>1. IInv => MergeRecorded
    BY SomeOne DEF IInv, Merged, MergeRecorded
<1> QED
    BY <1>1, Invariant, PTL

\* ConcludedOnce: a process that works alone and does not die records no merge
\* twice.
THEOREM MergesConcludedOnce == Spec => []ConcludedOnce
<1>1. IInv => ConcludedOnce
    BY DEF IInv
<1> QED
    BY <1>1, Invariant, PTL

\* What each step does to the branch, in a world that cannot move HEAD back.
LEMMA GrowsStep ==
    ASSUME Steady, IInv, NEW p \in world.procs, Step(p)
    PROVE  tip \in commits'[tip'].past
<1>1. TypeOK /\ History /\ p \in Proc /\ tip \in 1..Len(commits) /\ world \in Worlds
    BY InWorld DEF IInv, History, TypeOK
<1>2. tip \in commits[tip].past
    BY <1>1 DEF History
<1>3. CASE Create(p) \/ Commits(p)
    <2>1. PICK tree, heads : Adds(tree, heads)
        BY <1>3, CreateAdds, CommitAdds
    <2> QED
        BY <1>2, <2>1 DEF Adds
<1>4. CASE ~Create(p) /\ ~Commits(p)
    <2>1. commits' = commits
        BY <1>4, NoneAdded
    <2>2. CASE tip' = tip
        BY <1>2, <2>1, <2>2
    <2>3. CASE tip' # tip
        <3>1. SetTarget(p) \/ AbortResets(p)
            <4> USE DEF repository, bookkeeping
            <4>1. ASSUME NEW t \in world.targets,
                         UpToDate(p, t) \/ CherryPickStarts(p, t)
                         \/ \E mode \in world.modes : MergeStarts(p, t, mode)
                  PROVE  FALSE
                BY <2>3, <4>1 DEF UpToDate, CherryPickStarts, MergeStarts
            <4>2. ~CheckOut(p) /\ ~CheckOutRefused(p) /\ ~ReadHead(p)
                BY <2>3 DEF CheckOut, CheckOutRefused, ReadHead
            <4>3. ~ApplyRefused(p) /\ ~ApplyCleanly(p) /\ ~ApplyConflicting(p)
                BY <2>3 DEF ApplyRefused, ApplyCleanly, ApplyConflicting
            <4>4. ~ReadParent(p) /\ ~CreateRefused(p) /\ ~CleanUp(p)
                BY <2>3 DEF ReadParent, CreateRefused, CleanUp
            <4>5. ~MergeContinue(p) /\ ~CherryPickContinue(p) /\ ~CannotContinue(p)
                  /\ ~AbortReadsHead(p)
                BY <2>3 DEF MergeContinue, CherryPickContinue, Resumes, CannotContinue,
                   AbortReadsHead
            <4>6. ~Stages(p) /\ ~Resolves(p) /\ ~Dies(p)
                BY <2>3 DEF Stages, Resolves, Dies
            <4> QED
                BY <1>4, <4>1, <4>2, <4>3, <4>4, <4>5, <4>6 DEF Step
        <3>2. pc[p] \in {"setTarget", "reset"}
            BY <3>1 DEF SetTarget, AbortResets, At
        <3>3. Alone
            <4>1. Alone \/ (world.modes \subseteq {"never"} /\ ~Calls("cherryPickAbort"))
                BY <1>1 DEF Steady, Alone, Calls
            <4>2. world.modes \subseteq {"never"} /\ ~Calls("cherryPickAbort") =>
                    pc[p] \notin {"setTarget", "reset"}
                BY DEF IInv, OnlyRecords, Forwarding
            <4> QED
                BY <3>2, <4>1, <4>2
        <3>4. CASE SetTarget(p)
            <4>1. pc[p] = "setTarget" /\ tip' = call[p].of
                BY <2>3, <3>4 DEF SetTarget, At
            <4>2. Contains(call[p].of, tip)
                BY <3>3, <4>1, OwnState DEF Staged, Forwarding
            <4> QED
                BY <2>1, <4>1, <4>2 DEF Contains
        <3>5. CASE AbortResets(p)
            <4>1. call[p].parent = tip
                BY <3>3, <3>5, OwnState DEF AbortResets, At, Staged
            <4> QED
                BY <2>3, <3>5, <4>1 DEF AbortResets
        <3> QED
            BY <3>1, <3>4, <3>5
    <2> QED
        BY <2>2, <2>3
<1> QED
    BY <1>3, <1>4

\* TipGrows: the branch only goes forward, where one process works alone, or
\* several that neither fast-forward nor abort.
THEOREM BranchGrows == Steady => (Spec => TipGrows)
<1>1. ASSUME Steady
      PROVE  IInv /\ [Next]_vars => [(tip \in commits'[tip'].past)]_vars
    <2>1. ASSUME IInv, Next
          PROVE  tip \in commits'[tip'].past
        <3>1. PICK p \in world.procs : Step(p)
            BY <2>1 DEF Next, Step
        <3> QED
            BY <1>1, <2>1, <3>1, GrowsStep
    <2> QED
        BY <2>1
<1>2. SUFFICES ASSUME Steady PROVE Spec => TipGrows
    OBVIOUS
<1>3. IInv /\ [Next]_vars => [(tip \in commits'[tip'].past)]_vars
    BY <1>1, <1>2
<1> QED
    BY <1>3, Invariant, PTL DEF Spec, TipGrows

=============================================================================
