---------------------------- MODULE RebaseProofs ----------------------------
(***************************************************************************)
(* Proofs about Rebase, for a branch and an upstream of any size and any   *)
(* number of calls: the commits are replayed in order behind upstream, the *)
(* branch moves once, and where nothing else is staged while an operation  *)
(* is refused or a process dies, no change is lost.                        *)
(***************************************************************************)
EXTENDS Rebase, SequenceTheorems, TLAPS

-----------------------------------------------------------------------------
(* Histories                                                               *)

\* A prefix, entry by entry.
LEMMA PrefixEntries ==
    ASSUME NEW S, NEW s \in Seq(S), NEW t \in Seq(S)
    PROVE  IsPrefix(s, t) <=>
              Len(s) <= Len(t) /\ \A i \in 1..Len(s) : s[i] = t[i]
<1>1. Len(s) \in Nat /\ Len(t) \in Nat
    BY LenProperties
<1>2. ASSUME Len(s) <= Len(t)
      PROVE  /\ SubSeq(s, 1, Len(s)) \in Seq(S) /\ SubSeq(t, 1, Len(s)) \in Seq(S)
             /\ Len(SubSeq(s, 1, Len(s))) = Len(s)
             /\ Len(SubSeq(t, 1, Len(s))) = Len(s)
             /\ \A i \in 1..Len(s) : SubSeq(s, 1, Len(s))[i] = s[i]
             /\ \A i \in 1..Len(s) : SubSeq(t, 1, Len(s))[i] = t[i]
    <2>1. (\A i \in 1..Len(s) : s[i] \in S) /\ \A i \in 1..Len(s) : t[i] \in S
        BY <1>1, <1>2, ElementOfSeq
    <2>2. Len(s) \in Int /\ 1 \in Int /\ Len(s) - 1 + 1 = Len(s)
        BY <1>1
    <2>3. /\ SubSeq(s, 1, Len(s)) \in Seq(S)
          /\ Len(SubSeq(s, 1, Len(s))) = IF 1 <= Len(s) THEN Len(s) - 1 + 1 ELSE 0
          /\ \A i \in 1 .. Len(s) - 1 + 1 : SubSeq(s, 1, Len(s))[i] = s[1 + i - 1]
        BY <2>1, <2>2, SubSeqProperties
    <2>4. /\ SubSeq(t, 1, Len(s)) \in Seq(S)
          /\ Len(SubSeq(t, 1, Len(s))) = IF 1 <= Len(s) THEN Len(s) - 1 + 1 ELSE 0
          /\ \A i \in 1 .. Len(s) - 1 + 1 : SubSeq(t, 1, Len(s))[i] = t[1 + i - 1]
        BY <2>1, <2>2, SubSeqProperties
    <2> QED
        BY <1>1, <2>3, <2>4
<1>3. ASSUME Len(s) <= Len(t)
      PROVE  SubSeq(s, 1, Len(s)) = SubSeq(t, 1, Len(s)) <=>
                \A i \in 1..Len(s) : s[i] = t[i]
    <2>1. ASSUME \A i \in 1..Len(s) : s[i] = t[i]
          PROVE  SubSeq(s, 1, Len(s)) = SubSeq(t, 1, Len(s))
        BY <1>2, <1>3, <2>1, SeqEqual
    <2> QED
        BY <1>2, <1>3, <2>1
<1> QED
    BY <1>3 DEF IsPrefix

\* A history is a prefix of itself, and of itself with a commit more.
LEMMA PrefixGrows ==
    ASSUME NEW S, NEW s \in Seq(S), NEW t \in Seq(S), NEW e \in S
    PROVE  /\ IsPrefix(s, s)
           /\ Append(t, e) \in Seq(S)
           /\ IsPrefix(s, t) => IsPrefix(s, Append(t, e))
           /\ IsPrefix(t, Append(t, e))
<1>1. Len(s) \in Nat /\ Len(t) \in Nat
    BY LenProperties
<1>2. /\ Append(t, e) \in Seq(S) /\ Len(Append(t, e)) = Len(t) + 1
      /\ \A i \in 1..Len(t) : Append(t, e)[i] = t[i]
    BY AppendProperties
<1>3. IsPrefix(s, s)
    BY <1>1, PrefixEntries
<1>4. IsPrefix(t, Append(t, e))
    <2>1. Len(t) <= Len(Append(t, e)) /\ \A i \in 1..Len(t) : t[i] = Append(t, e)[i]
        BY <1>1, <1>2
    <2> QED
        BY <1>2, <2>1, PrefixEntries
<1>5. ASSUME IsPrefix(s, t) PROVE IsPrefix(s, Append(t, e))
    <2>1. Len(s) <= Len(t) /\ \A i \in 1..Len(s) : s[i] = t[i]
        BY <1>5, PrefixEntries
    <2>2. Len(s) <= Len(Append(t, e)) /\ \A i \in 1..Len(s) : s[i] = Append(t, e)[i]
        BY <1>1, <1>2, <2>1
    <2> QED
        BY <1>2, <2>2, PrefixEntries
<1> QED
    BY <1>2, <1>3, <1>4, <1>5

\* A prefix of a prefix is one of the whole.
LEMMA PrefixOfPrefix ==
    ASSUME NEW S, NEW s \in Seq(S), NEW t \in Seq(S), NEW u \in Seq(S),
           IsPrefix(s, t), IsPrefix(t, u)
    PROVE  IsPrefix(s, u)
<1>1. Len(s) \in Nat /\ Len(t) \in Nat /\ Len(u) \in Nat
    BY LenProperties
<1>2. /\ Len(s) <= Len(t) /\ Len(t) <= Len(u)
      /\ \A i \in 1..Len(s) : s[i] = t[i]
      /\ \A i \in 1..Len(t) : t[i] = u[i]
    BY PrefixEntries
<1>3. Len(s) <= Len(u) /\ \A i \in 1..Len(s) : s[i] = u[i]
    BY <1>1, <1>2
<1> QED
    BY <1>3, PrefixEntries

\* What a tree has: a change is in it by some commit of the history.
LEMMA InTree ==
    ASSUME NEW history \in Seq(Commits)
    PROVE  /\ \A x : x \in Tree(history) <=>
                        \E i \in 1..Len(history) : x \in history[i].brings
           /\ Tree(history) \subseteq Work
           /\ \A i \in 1..Len(history) : /\ history[i] \in Commits
                                         /\ history[i].brings \subseteq Tree(history)
<1>1. DOMAIN history = 1..Len(history)
    BY LenProperties
<1>2. \A x : x \in Tree(history) <=> \E i \in 1..Len(history) : x \in history[i].brings
    BY <1>1 DEF Tree
<1>3. \A i \in 1..Len(history) : history[i] \in Commits
    BY ElementOfSeq
<1>4. \A i \in 1..Len(history) : history[i].brings \subseteq Work
    BY <1>3 DEF Commits
<1> QED
    BY <1>2, <1>3, <1>4

\* The tree of a history with a commit more.
LEMMA TreeGrows ==
    ASSUME NEW history \in Seq(Commits), NEW c \in Commits
    PROVE  /\ Append(history, c) \in Seq(Commits)
           /\ Tree(Append(history, c)) = Tree(history) \cup c.brings
<1> DEFINE longer == Append(history, c)
<1>1. /\ longer \in Seq(Commits) /\ Len(longer) = Len(history) + 1
      /\ \A i \in 1..Len(history) : longer[i] = history[i]
      /\ longer[Len(history) + 1] = c
    BY AppendProperties
<1>2. Len(history) \in Nat
    BY LenProperties
<1> HIDE DEF longer
<1>3. ASSUME NEW x
      PROVE  x \in Tree(longer) <=> x \in Tree(history) \cup c.brings
    <2>1. x \in Tree(longer) <=> \E i \in 1..Len(longer) : x \in longer[i].brings
        BY <1>1, InTree
    <2>2. x \in Tree(history) <=> \E i \in 1..Len(history) : x \in history[i].brings
        BY InTree
    <2>3. 1..Len(longer) = 1..Len(history) \cup {Len(history) + 1}
        BY <1>1, <1>2
    <2> QED
        BY <1>1, <2>1, <2>2, <2>3
<1> QED
    BY <1>1, <1>3 DEF longer

\* The tree of a prefix is part of the whole.
LEMMA TreeOfPrefix ==
    ASSUME NEW s \in Seq(Commits), NEW t \in Seq(Commits), IsPrefix(s, t)
    PROVE  Tree(s) \subseteq Tree(t)
<1>1. Len(s) <= Len(t) /\ \A i \in 1..Len(s) : s[i] = t[i]
    BY PrefixEntries
<1>2. Len(s) \in Nat /\ Len(t) \in Nat
    BY LenProperties
<1> QED
    BY <1>1, <1>2, InTree

\* Upstream's own commit, where it has gained anything.
LEMMA UpstreamThere ==
    /\ UpstreamHistory \in Seq(Commits) /\ Tree(UpstreamHistory) = Upstream
    /\ Len(UpstreamHistory) \in {0, 1}
    /\ \A i \in 1..Len(UpstreamHistory) :
          UpstreamHistory[i] = [of |-> 0, brings |-> Upstream]
<1> DEFINE c == [of |-> 0, brings |-> Upstream]
<1>1. c \in Commits
    BY RebaseAssumption DEF RebaseAssumption, Commits, Work, Theirs
<1>2. CASE Upstream = {}
    <2>1. UpstreamHistory = << >>
        BY <1>2 DEF UpstreamHistory
    <2>2. << >> \in Seq(Commits) /\ Len(<< >>) = 0
        BY EmptySeq
    <2>3. Tree(<< >>) = {}
        BY DEF Tree
    <2> QED
        BY <1>2, <2>1, <2>2, <2>3
<1>3. CASE Upstream # {}
    <2> HIDE DEF c
    <2>1. UpstreamHistory = << c >>
        BY <1>3 DEF UpstreamHistory, c
    <2>2. << c >> \in Seq(Commits) /\ Len(<< c >>) = 1 /\ << c >>[1] = c
        BY <1>1
    <2>3. Tree(<< c >>) = c.brings
        <3>1. DOMAIN << c >> = {1}
            OBVIOUS
        <3> QED
            BY <2>2, <3>1 DEF Tree
    <2> QED
        BY <2>1, <2>2, <2>3 DEF c
<1> QED
    BY <1>2, <1>3

\* What is to be replayed is the end of the history, behind what it shares
\* with upstream.
LEMMA Replayed ==
    ASSUME NEW history \in Seq(Commits)
    PROVE  \E n \in 0..Len(history) :
              /\ ToReplay(history) \in Seq(Commits)
              /\ Len(ToReplay(history)) = Len(history) - n
              /\ \A i \in 1 .. Len(history) - n : ToReplay(history)[i] = history[n + i]
              /\ \A i \in 1..n : history[i].brings \subseteq Upstream
<1> DEFINE both == {history, UpstreamHistory}
           longest == LongestCommonPrefix(both)
           n == Len(longest)
<1>1. /\ Len(history) \in Nat /\ UpstreamHistory \in Seq(Commits)
      /\ Len(UpstreamHistory) \in {0, 1}
      /\ \A i \in 1..Len(UpstreamHistory) : UpstreamHistory[i].brings = Upstream
    BY LenProperties, UpstreamThere
<1>2. \A p \in CommonPrefixes(both) :
          /\ p \in Seq(Commits) /\ IsPrefix(p, history) /\ IsPrefix(p, UpstreamHistory)
          /\ Len(p) \in {0, 1}
    <2> SUFFICES ASSUME NEW p \in CommonPrefixes(both)
                 PROVE  /\ p \in Seq(Commits) /\ IsPrefix(p, history)
                        /\ IsPrefix(p, UpstreamHistory) /\ Len(p) \in {0, 1}
        OBVIOUS
    <2>1. IsPrefix(p, history) /\ IsPrefix(p, UpstreamHistory)
        BY DEF CommonPrefixes
    <2>0. PICK s \in both : \E l \in 0..Len(s) : p = SubSeq(s, 1, l)
        BY DEF CommonPrefixes, Prefixes
    <2>2. PICK l \in 0..Len(s) : p = SubSeq(s, 1, l)
        BY <2>0
    <2>3. s \in Seq(Commits) /\ Len(s) \in Nat
        BY <1>1, LenProperties
    <2>4. \A i \in 1..l : s[i] \in Commits
        BY <2>2, <2>3, ElementOfSeq
    <2>5. p \in Seq(Commits)
        BY <2>2, <2>3, <2>4, SubSeqProperties
    <2>6. Len(p) \in Nat /\ Len(p) <= Len(UpstreamHistory)
        BY <1>1, <2>1, <2>5, PrefixEntries, LenProperties
    <2> QED
        BY <1>1, <2>1, <2>5, <2>6
<1>3. << >> \in CommonPrefixes(both) /\ Len(<< >>) = 0
    <2>1. << >> \in Seq(Commits) /\ Len(<< >>) = 0
        BY EmptySeq
    <2>2. IsPrefix(<< >>, history) /\ IsPrefix(<< >>, UpstreamHistory)
        <3>1. ASSUME NEW t \in Seq(Commits)
              PROVE  IsPrefix(<< >>, t)
            <4>1. Len(<< >>) <= Len(t) /\ \A i \in 1..Len(<< >>) : << >>[i] = t[i]
                BY <2>1, LenProperties
            <4> QED
                BY <2>1, <4>1, PrefixEntries
        <3> QED
            BY <1>1, <3>1
    <2>3. SubSeq(history, 1, 0) = << >>
        BY SubSeqEmpty
    <2>4. << >> \in Prefixes(history)
        BY <1>1, <2>3 DEF Prefixes
    <2> QED
        BY <2>1, <2>2, <2>4 DEF CommonPrefixes
<1> HIDE DEF both
<1>4. \E p \in CommonPrefixes(both) : \A q \in CommonPrefixes(both) : Len(q) <= Len(p)
    <2> DEFINE Common == CommonPrefixes(both)
    <2>0. \A q \in Common : Len(q) \in {0, 1}
        BY <1>2
    <2> HIDE DEF Common
    <2>1. CASE \E p \in Common : Len(p) = 1
        <3>1. PICK p \in Common : Len(p) = 1
            BY <2>1
        <3>2. ASSUME NEW q \in Common PROVE Len(q) <= Len(p)
            <4>1. Len(q) = 0 \/ Len(q) = 1
                BY <2>0
            <4> QED
                BY <3>1, <4>1
        <3> QED
            BY <3>2 DEF Common
    <2>2. CASE \A p \in Common : Len(p) # 1
        <3>1. \A q \in Common : Len(q) <= Len(<< >>)
            BY <1>3, <2>0, <2>2
        <3> QED
            BY <1>3, <3>1 DEF Common
    <2> QED
        BY <2>1, <2>2
<1>5. longest \in CommonPrefixes(both)
    BY <1>4 DEF LongestCommonPrefix
<1>6. /\ longest \in Seq(Commits) /\ IsPrefix(longest, history)
      /\ IsPrefix(longest, UpstreamHistory) /\ n \in {0, 1}
    BY <1>2, <1>5
<1>7. /\ n <= Len(history) /\ n <= Len(UpstreamHistory)
      /\ \A i \in 1..n : longest[i] = history[i] /\ longest[i] = UpstreamHistory[i]
    <2>1. /\ Len(longest) <= Len(history)
          /\ \A i \in 1..Len(longest) : longest[i] = history[i]
        BY <1>6, PrefixEntries
    <2>2. /\ Len(longest) <= Len(UpstreamHistory)
          /\ \A i \in 1..Len(longest) : longest[i] = UpstreamHistory[i]
        BY <1>1, <1>6, PrefixEntries
    <2> QED
        BY <2>1, <2>2
<1>8. \A i \in 1..n : history[i].brings \subseteq Upstream
    BY <1>1, <1>6, <1>7
<1>9. ToReplay(history) = SubSeq(history, n + 1, Len(history))
    BY DEF ToReplay, both
<1> HIDE DEF longest
<1>10. /\ n + 1 \in Int /\ Len(history) \in Int
       /\ \A i \in n + 1 .. Len(history) : history[i] \in Commits
    BY <1>1, <1>6, ElementOfSeq
<1>11. /\ SubSeq(history, n + 1, Len(history)) \in Seq(Commits)
       /\ Len(SubSeq(history, n + 1, Len(history))) =
             IF n + 1 <= Len(history) THEN Len(history) - (n + 1) + 1 ELSE 0
       /\ \A i \in 1 .. Len(history) - (n + 1) + 1 :
             SubSeq(history, n + 1, Len(history))[i] = history[(n + 1) + i - 1]
    BY <1>10, SubSeqProperties
<1>12. /\ ToReplay(history) \in Seq(Commits)
       /\ Len(ToReplay(history)) = Len(history) - n
       /\ \A i \in 1 .. Len(history) - n : ToReplay(history)[i] = history[n + i]
    BY <1>1, <1>6, <1>7, <1>9, <1>11
<1> QED
    BY <1>1, <1>6, <1>7, <1>8, <1>12

\* Its trees: each change of the history is upstream's or to be replayed, and
\* what is to be replayed is in the history, in its order.
LEMMA ReplayedTree ==
    ASSUME NEW history \in Seq(Commits)
    PROVE  /\ ToReplay(history) \in Seq(Commits)
           /\ Tree(history) \subseteq Upstream \cup Tree(ToReplay(history))
           /\ Tree(ToReplay(history)) \subseteq Tree(history)
           /\ Ordered(history) => Ordered(ToReplay(history))
<1>1. PICK n \in 0..Len(history) :
          /\ ToReplay(history) \in Seq(Commits)
          /\ Len(ToReplay(history)) = Len(history) - n
          /\ \A i \in 1 .. Len(history) - n : ToReplay(history)[i] = history[n + i]
          /\ \A i \in 1..n : history[i].brings \subseteq Upstream
    BY Replayed
<1>2. /\ Len(history) \in Nat /\ n \in Nat /\ n <= Len(history)
      /\ DOMAIN history = 1..Len(history)
      /\ DOMAIN ToReplay(history) = 1 .. Len(history) - n
    BY <1>1, LenProperties
<1>3. ASSUME NEW x \in Tree(history) PROVE x \in Upstream \cup Tree(ToReplay(history))
    <2>1. PICK i \in 1..Len(history) : x \in history[i].brings
        BY InTree
    <2>2. CASE i <= n
        BY <1>1, <1>2, <2>1, <2>2
    <2>3. CASE i > n
        <3>1. i - n \in 1 .. Len(history) - n /\ n + (i - n) = i
            BY <1>2, <2>3
        <3>2. ToReplay(history)[i - n] = history[i]
            BY <1>1, <3>1
        <3> QED
            BY <1>1, <2>1, <3>1, <3>2, InTree
    <2> QED
        BY <1>2, <2>2, <2>3
<1>4. ASSUME NEW x \in Tree(ToReplay(history)) PROVE x \in Tree(history)
    <2>1. PICK i \in 1..Len(ToReplay(history)) : x \in ToReplay(history)[i].brings
        BY <1>1, InTree
    <2>2. n + i \in 1..Len(history) /\ ToReplay(history)[i] = history[n + i]
        BY <1>1, <1>2, <2>1
    <2> QED
        BY <2>1, <2>2, InTree
<1>5. ASSUME Ordered(history) PROVE Ordered(ToReplay(history))
    <2> SUFFICES ASSUME NEW i \in 1 .. Len(history) - n, NEW j \in 1 .. Len(history) - n, i < j,
                        {ToReplay(history)[i].of, ToReplay(history)[j].of} \subseteq 1..Count
                 PROVE  ToReplay(history)[i].of <= ToReplay(history)[j].of
        BY <1>2 DEF Ordered
    <2>1. /\ n + i \in 1..Len(history) /\ n + j \in 1..Len(history) /\ n + i < n + j
          /\ ToReplay(history)[i] = history[n + i] /\ ToReplay(history)[j] = history[n + j]
        BY <1>1, <1>2
    <2> QED
        BY <1>2, <1>5, <2>1 DEF Ordered
<1> QED
    BY <1>1, <1>3, <1>4, <1>5

\* A history stays in order when a commit comes behind it that is none of the
\* branch's, or whose number none before exceeds.
LEMMA OrderGrows ==
    ASSUME NEW history \in Seq(Commits), NEW c \in Commits, Ordered(history),
           \A i \in 1..Len(history) :
              {history[i].of, c.of} \subseteq 1..Count => history[i].of <= c.of
    PROVE  Ordered(Append(history, c))
<1> DEFINE longer == Append(history, c)
<1>1. /\ longer \in Seq(Commits) /\ Len(longer) = Len(history) + 1
      /\ \A i \in 1..Len(history) : longer[i] = history[i]
      /\ longer[Len(history) + 1] = c
    BY AppendProperties
<1>2. Len(history) \in Nat /\ DOMAIN history = 1..Len(history)
    BY LenProperties
<1>3. DOMAIN longer = 1 .. Len(history) + 1
    BY <1>1, LenProperties
<1> HIDE DEF longer
<1>4. Ordered(longer)
    <2> SUFFICES ASSUME NEW i \in 1 .. Len(history) + 1, NEW j \in 1 .. Len(history) + 1,
                        i < j, {longer[i].of, longer[j].of} \subseteq 1..Count
                 PROVE  longer[i].of <= longer[j].of
        BY <1>3 DEF Ordered
    <2>1. i \in 1..Len(history) /\ longer[i] = history[i]
        BY <1>1, <1>2
    <2>2. CASE j = Len(history) + 1
        BY <1>1, <2>1, <2>2
    <2>3. CASE j # Len(history) + 1
        <3>1. j \in 1..Len(history) /\ longer[j] = history[j]
            BY <1>1, <1>2, <2>3
        <3> QED
            BY <1>2, <2>1, <3>1 DEF Ordered
    <2> QED
        BY <2>2, <2>3
<1> QED
    BY <1>4 DEF longer

-----------------------------------------------------------------------------
(* What the steps do                                                       *)

\* The steps that leave the repository as it is.
QuietStep ==
    \/ RebaseRefused \/ RebaseContinue \/ NoRebaseInProgress \/ LoopEnds
    \/ Unsigned \/ CommitUnmerged \/ CommitAlreadyApplied \/ FinishRefused \/ Die

\* Every step is one of these.
LEMMA NextSteps ==
    ASSUME Next
    PROVE  \/ QuietStep
           \/ RebaseStarts \/ NothingToReplay \/ RebaseSkip \/ RebaseAbort
           \/ AppliesCleanly \/ AppliesWithConflicts \/ NextRefused
           \/ CommitCurrent \/ Finish
           \/ \E keep \in BOOLEAN : Resolve(keep)
           \/ Stage \/ Commit \/ CherryPick \/ Reset \/ Elsewhere
BY DEF Next, Loop, QuietStep

\* No step changes the world.
LEMMA WorldStays ==
    ASSUME [Next]_vars
    PROVE  UNCHANGED world
<1>1. CASE UNCHANGED vars
    BY <1>1 DEF vars
<1>2. CASE QuietStep
    BY <1>2 DEF QuietStep, RebaseRefused, RebaseContinue, NoRebaseInProgress, LoopEnds,
       Unsigned, CommitUnmerged, CommitAlreadyApplied, CommitRefused, FinishRefused, Die,
       Return, GoTo
<1>3. CASE RebaseStarts \/ NothingToReplay \/ RebaseSkip \/ RebaseAbort
    BY <1>3 DEF RebaseStarts, NothingToReplay, RebaseSkip, RebaseAbort, Return, GoTo
<1>4. CASE AppliesCleanly \/ AppliesWithConflicts \/ NextRefused \/ CommitCurrent \/ Finish
    BY <1>4 DEF AppliesCleanly, AppliesWithConflicts, NextRefused, CommitCurrent, Finish,
       Return, GoTo
<1>5. CASE \E keep \in BOOLEAN : Resolve(keep)
    BY <1>5 DEF Resolve, Between
<1>6. CASE Stage \/ Commit \/ CherryPick \/ Reset \/ Elsewhere
    BY <1>6 DEF Stage, Commit, CherryPick, Reset, Elsewhere, Between
<1> QED
    BY <1>1, <1>2, <1>3, <1>4, <1>5, <1>6, NextSteps

\* What there is of a history and of an operation.
LEMMA Facts ==
    ASSUME TypeOK
    PROVE  /\ HEAD \in Seq(Commits) /\ rebase.orig \in Seq(Commits)
           /\ rebase.ops \in Seq(Commits)
           /\ Tree(HEAD) \subseteq Work /\ Tree(branch) \subseteq Work
           /\ Tree(rebase.orig) \subseteq Work /\ Tree(rebase.ops) \subseteq Work
           /\ Len(rebase.ops) \in Nat /\ rebase.msgnum \in Nat
           /\ rebase.msgnum <= Len(rebase.ops)
           /\ DOMAIN rebase.ops = 1..Len(rebase.ops)
           /\ \A i \in 1..Len(rebase.ops) :
                 rebase.ops[i] \in Commits /\ rebase.ops[i].brings \subseteq Tree(rebase.ops)
           /\ rebase.msgnum # 0 =>
                 /\ rebase.msgnum \in 1..Len(rebase.ops)
                 /\ Operation \in Commits /\ Operation.of \in Work
                 /\ Operation.brings \subseteq Tree(rebase.ops)
           /\ 1..Count \subseteq Work /\ Mine \in Work /\ Theirs \in Work
           /\ Mine \notin 0..Count /\ Theirs \notin 0..Count /\ Mine # Theirs
<1>1. /\ branch \in Seq(Commits) /\ at \in Seq(Commits)
      /\ rebase.orig \in Seq(Commits) /\ rebase.ops \in Seq(Commits)
      /\ rebase.msgnum \in 0..Len(rebase.ops)
    BY DEF TypeOK
<1>2. HEAD \in Seq(Commits)
    BY <1>1 DEF HEAD
<1>3. Len(rebase.ops) \in Nat /\ DOMAIN rebase.ops = 1..Len(rebase.ops)
    BY <1>1, LenProperties
<1>4. /\ Tree(HEAD) \subseteq Work /\ Tree(branch) \subseteq Work
      /\ Tree(rebase.orig) \subseteq Work /\ Tree(rebase.ops) \subseteq Work
      /\ \A i \in 1..Len(rebase.ops) :
            rebase.ops[i] \in Commits /\ rebase.ops[i].brings \subseteq Tree(rebase.ops)
    BY <1>1, <1>2, InTree
<1>5. rebase.msgnum \in Nat /\ rebase.msgnum <= Len(rebase.ops)
    BY <1>1, <1>3
<1>6. ASSUME rebase.msgnum # 0
      PROVE  /\ rebase.msgnum \in 1..Len(rebase.ops)
             /\ Operation \in Commits /\ Operation.of \in Work
             /\ Operation.brings \subseteq Tree(rebase.ops)
    <2>1. rebase.msgnum \in 1..Len(rebase.ops)
        BY <1>3, <1>5, <1>6
    <2>2. Operation \in Commits /\ Operation.brings \subseteq Tree(rebase.ops)
        BY <1>4, <2>1 DEF Operation
    <2> QED
        BY <2>1, <2>2 DEF Commits
<1>7. /\ 1..Count \subseteq Work /\ Mine \in Work /\ Theirs \in Work
      /\ Mine \notin 0..Count /\ Theirs \notin 0..Count /\ Mine # Theirs
    BY RebaseAssumption DEF RebaseAssumption, Work, Mine, Theirs
<1> QED
    BY <1>1, <1>2, <1>3, <1>4, <1>5, <1>6, <1>7

\* What HEAD is after a commit on it.
LEMMA Moves ==
    ASSUME TypeOK, NEW c \in Commits, MoveHead(Append(HEAD, c))
    PROVE  /\ attached' = attached
           /\ HEAD' = Append(HEAD, c) /\ HEAD' \in Seq(Commits)
           /\ Tree(HEAD') = Tree(HEAD) \cup c.brings
           /\ branch' \in Seq(Commits) /\ at' \in Seq(Commits)
           /\ attached => branch' = HEAD' /\ at' = at
           /\ ~attached => branch' = branch /\ at' = HEAD'
           /\ IsPrefix(branch, branch') /\ IsPrefix(at, at')
<1>1. Append(HEAD, c) \in Seq(Commits) /\ Tree(Append(HEAD, c)) = Tree(HEAD) \cup c.brings
    BY Facts, TreeGrows
<1>2. /\ branch \in Seq(Commits) /\ at \in Seq(Commits) /\ attached \in BOOLEAN
    BY DEF TypeOK
<1>3. /\ attached' = attached /\ HEAD' = Append(HEAD, c)
      /\ attached => branch' = HEAD' /\ at' = at
      /\ ~attached => branch' = branch /\ at' = HEAD'
    BY DEF MoveHead, HEAD
<1>4. IsPrefix(branch, branch') /\ IsPrefix(at, at')
    <2>1. /\ IsPrefix(branch, branch) /\ IsPrefix(at, at)
          /\ IsPrefix(branch, Append(branch, c)) /\ IsPrefix(at, Append(at, c))
        BY <1>2, PrefixGrows
    <2> QED
        BY <1>2, <1>3, <2>1 DEF HEAD
<1>5. branch' \in Seq(Commits) /\ at' \in Seq(Commits)
    BY <1>1, <1>2, <1>3
<1> QED
    BY <1>1, <1>3, <1>4, <1>5

\* The commit that a replay, a commit of the caller and a cherry-pick make.
LEMMA Committed ==
    ASSUME TypeOK, NEW of \in Work, NEW tree \in SUBSET Work,
           Tree(HEAD) \subseteq tree,
           MoveHead(Append(HEAD, [of |-> of, brings |-> tree \ Tree(HEAD)]))
    PROVE  /\ [of |-> of, brings |-> tree \ Tree(HEAD)] \in Commits
           /\ Tree(HEAD') = tree
<1>1. [of |-> of, brings |-> tree \ Tree(HEAD)] \in Commits
    BY DEF Commits
<1> QED
    BY <1>1, Moves

\* The effects of an abort, by git_rebase_abort.
LEMMA Origin ==
    ASSUME TypeOK, BackToOrigin(rebase.orig, rebase.named)
    PROVE  /\ HEAD' = rebase.orig /\ index' = Clean(rebase.orig)
           /\ branch' \in Seq(Commits) /\ at' \in Seq(Commits) /\ attached' \in BOOLEAN
           /\ branch' = IF rebase.named THEN rebase.orig ELSE branch
           /\ given' = given \ Tree(rebase.orig)
BY DEF BackToOrigin, HEAD, TypeOK

\* What a commit elsewhere does.
LEMMA ElsewhereGrows ==
    ASSUME TypeOK, Elsewhere
    PROVE  /\ branch' \in Seq(Commits) /\ HEAD' = HEAD
           /\ branch' = Append(branch, [of |-> Theirs, brings |-> {Theirs}])
           /\ [of |-> Theirs, brings |-> {Theirs}] \in Commits
           /\ Tree(branch') = Tree(branch) \cup {Theirs}
           /\ IsPrefix(branch, branch')
           /\ rebase.orig \in Seq(Commits) =>
                 (IsPrefix(rebase.orig, branch) => IsPrefix(rebase.orig, branch'))
<1>1. [of |-> Theirs, brings |-> {Theirs}] \in Commits
    BY Facts DEF Commits
<1>2. branch \in Seq(Commits)
    BY DEF TypeOK
<1>3. branch' = Append(branch, [of |-> Theirs, brings |-> {Theirs}]) /\ HEAD' = HEAD
    BY DEF Elsewhere, HEAD
<1>4. branch' \in Seq(Commits) /\ Tree(branch') = Tree(branch) \cup {Theirs}
    BY <1>1, <1>2, <1>3, TreeGrows
<1>5. IsPrefix(branch, branch')
    BY <1>1, <1>2, <1>3, PrefixGrows
<1>6. ASSUME rebase.orig \in Seq(Commits), IsPrefix(rebase.orig, branch)
      PROVE  IsPrefix(rebase.orig, branch')
    BY <1>1, <1>2, <1>3, <1>6, PrefixGrows
<1> QED
    BY <1>1, <1>3, <1>4, <1>5, <1>6

\* What those that leave the repository alone do: a call stops, goes on where
\* it was paused, or comes to the end of the loop.
Stops == pc' = "idle" /\ (pc \in {"undo", "next"} => "die" \in world)
GoesOn == /\ pc = "idle" /\ InProgress
          /\ pc' = IF rebase.msgnum # 0 THEN "resume" ELSE "next"
Ends == pc = "next" /\ pc' = "finish" /\ rebase.msgnum = Len(rebase.ops)

\* That is all they do.
LEMMA QuietEffects ==
    ASSUME QuietStep
    PROVE  /\ UNCHANGED <<repository, given>> /\ HEAD' = HEAD
           /\ told'.as # "completed"
           /\ Stops \/ GoesOn \/ Ends
<1> USE DEF Stops, GoesOn, Ends, Return, GoTo, Enter, repository, HEAD, Nothing
<1>1. CASE RebaseRefused
    BY <1>1 DEF RebaseRefused
<1>2. CASE RebaseContinue
    BY <1>2 DEF RebaseContinue
<1>3. CASE NoRebaseInProgress
    BY <1>3 DEF NoRebaseInProgress
<1>4. CASE LoopEnds
    BY <1>4 DEF LoopEnds
<1>5. CASE Unsigned
    BY <1>5 DEF Unsigned
<1>6. CASE CommitUnmerged \/ CommitAlreadyApplied
    BY <1>6 DEF CommitUnmerged, CommitAlreadyApplied, CommitRefused
<1>7. CASE FinishRefused
    BY <1>7 DEF FinishRefused
<1>8. CASE Die
    BY <1>8 DEF Die
<1> QED
    BY <1>1, <1>2, <1>3, <1>4, <1>5, <1>6, <1>7, <1>8 DEF QuietStep

\* The calls are counted, up to their bound.
LEMMA CallsCounted ==
    ASSUME TypeOK, [Next]_vars
    PROVE  calls' \in 0..MaxCalls
<1> USE RebaseAssumption DEF RebaseAssumption, TypeOK, Enter
<1>1. CASE UNCHANGED vars
    BY <1>1 DEF vars
<1>2. CASE QuietStep
    BY <1>2 DEF QuietStep, RebaseRefused, RebaseContinue, NoRebaseInProgress, LoopEnds,
       Unsigned, CommitUnmerged, CommitAlreadyApplied, CommitRefused, FinishRefused, Die
<1>3. CASE RebaseStarts \/ NothingToReplay \/ RebaseSkip \/ RebaseAbort
    BY <1>3 DEF RebaseStarts, NothingToReplay, RebaseSkip, RebaseAbort
<1>4. CASE AppliesCleanly \/ AppliesWithConflicts \/ NextRefused \/ CommitCurrent \/ Finish
    BY <1>4 DEF AppliesCleanly, AppliesWithConflicts, NextRefused, CommitCurrent, Finish
<1>5. CASE \E keep \in BOOLEAN : Resolve(keep)
    BY <1>5 DEF Resolve, Between
<1>6. CASE Stage \/ Commit \/ CherryPick \/ Reset \/ Elsewhere
    BY <1>6 DEF Stage, Commit, CherryPick, Reset, Elsewhere, Between
<1> QED
    BY <1>1, <1>2, <1>3, <1>4, <1>5, <1>6, NextSteps

-----------------------------------------------------------------------------
(* Types                                                                   *)

Indexes == [tree : SUBSET Work, unresolved : BOOLEAN]
Rebases == [there : BOOLEAN, ops : Seq(Commits), msgnum : Nat,
            orig : Seq(Commits), named : BOOLEAN]

\* The index of a clean checkout.
LEMMA CleanIndex ==
    ASSUME NEW history \in Seq(Commits)
    PROVE  /\ Clean(history) \in Indexes
           /\ Clean(history).tree = Tree(history) /\ ~Clean(history).unresolved
BY InTree DEF Clean, Indexes

\* The rebase that is none, and one that has counted an operation.
LEMMA RebaseTypes ==
    ASSUME TypeOK
    PROVE  /\ NoRebase \in Rebases /\ NoRebase.msgnum \in 0..Len(NoRebase.ops)
           /\ Step /\ CountOn =>
                 /\ rebase' \in Rebases
                 /\ rebase'.msgnum = rebase.msgnum + 1 /\ rebase'.ops = rebase.ops
                 /\ rebase'.there = rebase.there /\ rebase'.orig = rebase.orig
                 /\ rebase'.named = rebase.named
                 /\ rebase'.msgnum \in 0..Len(rebase'.ops) /\ rebase'.msgnum # 0
                 /\ Operation' = Upcoming /\ Upcoming \in Commits
                 /\ Upcoming.brings \subseteq Tree(rebase.ops)
<1>1. << >> \in Seq(Commits) /\ Len(<< >>) = 0
    BY EmptySeq
<1>2. NoRebase \in Rebases /\ NoRebase.msgnum \in 0..Len(NoRebase.ops)
    BY <1>1 DEF NoRebase, Rebases
<1>3. ASSUME Step, CountOn
      PROVE  /\ rebase' \in Rebases
             /\ rebase'.msgnum = rebase.msgnum + 1 /\ rebase'.ops = rebase.ops
             /\ rebase'.there = rebase.there /\ rebase'.orig = rebase.orig
             /\ rebase'.named = rebase.named
    <2>1. rebase \in Rebases /\ rebase.msgnum + 1 \in Nat
        BY Facts DEF TypeOK, Rebases
    <2>2. rebase' = [rebase EXCEPT !.msgnum = rebase.msgnum + 1]
        BY <1>3 DEF CountOn
    <2> QED
        BY <2>1, <2>2 DEF Rebases
<1>4. ASSUME Step, CountOn
      PROVE  /\ rebase'.msgnum \in 0..Len(rebase'.ops) /\ rebase'.msgnum # 0
             /\ rebase.msgnum + 1 \in 1..Len(rebase.ops)
    BY <1>3, <1>4, Facts DEF Step
<1>5. ASSUME Step, CountOn
      PROVE  /\ Operation' = Upcoming /\ Upcoming \in Commits
             /\ Upcoming.brings \subseteq Tree(rebase.ops)
    BY <1>3, <1>4, <1>5, Facts DEF Operation, Upcoming
<1> QED
    BY <1>2, <1>3, <1>4, <1>5

\* The types, from those of the parts.
LEMMA TypesTogether ==
    ASSUME TypeOK, [Next]_vars,
           branch' \in Seq(Commits), at' \in Seq(Commits), attached' \in BOOLEAN,
           index' \in Indexes, rebase' \in Rebases,
           rebase'.msgnum \in 0..Len(rebase'.ops), given' \subseteq Work,
           pc' \in {"idle", "undo", "next", "replay", "resume", "finish"},
           pc' # "idle" => rebase'.there /\ ~attached',
           index'.unresolved => rebase'.there /\ rebase'.msgnum # 0,
           pc' \in {"replay", "resume"} => rebase'.msgnum # 0
    PROVE  TypeOK'
BY CallsCounted, WorldStays DEF TypeOK, InProgress, Indexes, Rebases

\* The steps keep the types.
LEMMA TypeStep ==
    ASSUME TypeOK, Staged, Replaying, Next
    PROVE  TypeOK'
<1>0. /\ branch \in Seq(Commits) /\ at \in Seq(Commits) /\ attached \in BOOLEAN
      /\ index \in Indexes /\ rebase \in Rebases /\ rebase.msgnum \in 0..Len(rebase.ops)
      /\ given \subseteq Work
      /\ pc \in {"idle", "undo", "next", "replay", "resume", "finish"}
      /\ pc # "idle" => rebase.there /\ ~attached
      /\ index.unresolved => rebase.there /\ rebase.msgnum # 0
      /\ pc \in {"replay", "resume"} => rebase.msgnum # 0
      /\ rebase.there => ~attached
    BY DEF TypeOK, InProgress, Indexes, Rebases, Replaying
<1>1. CASE QuietStep
    <2>1. /\ UNCHANGED <<branch, attached, at, index, rebase, given>>
          /\ Stops \/ GoesOn \/ Ends
        BY <1>1, QuietEffects DEF repository
    <2>2. /\ pc' \in {"idle", "undo", "next", "replay", "resume", "finish"}
          /\ pc' # "idle" => rebase.there /\ ~attached
          /\ pc' \in {"replay", "resume"} => rebase.msgnum # 0
        BY <1>0, <2>1 DEF Stops, GoesOn, Ends, InProgress
    <2> QED
        BY <1>0, <2>1, <2>2, TypesTogether
<1>2. CASE RebaseStarts
    <2>1. /\ rebase' = [there |-> TRUE, ops |-> ToReplay(HEAD), msgnum |-> 0,
                        orig |-> HEAD, named |-> attached]
          /\ attached' = FALSE /\ at' = UpstreamHistory /\ index' = Clean(UpstreamHistory)
          /\ pc' \in {"undo", "next"} /\ UNCHANGED <<branch, given>>
        BY <1>2 DEF RebaseStarts, GoTo
    <2>2. /\ ToReplay(HEAD) \in Seq(Commits) /\ UpstreamHistory \in Seq(Commits)
          /\ Len(ToReplay(HEAD)) \in Nat /\ HEAD \in Seq(Commits)
        BY Facts, ReplayedTree, UpstreamThere, LenProperties
    <2>3. index' \in Indexes /\ ~index'.unresolved
        BY <2>1, <2>2, CleanIndex
    <2>4. rebase' \in Rebases /\ rebase'.msgnum \in 0..Len(rebase'.ops) /\ rebase'.there
        BY <1>0, <2>1, <2>2 DEF Rebases
    <2> QED
        BY <1>0, <2>1, <2>2, <2>3, <2>4, TypesTogether
<1>3. CASE NothingToReplay \/ RebaseAbort
    <2>1. BackToOrigin(rebase.orig, rebase.named) /\ rebase' = NoRebase /\ pc' = "idle"
        BY <1>3 DEF NothingToReplay, RebaseAbort, Return
    <2>2. /\ index' = Clean(rebase.orig) /\ given' = given \ Tree(rebase.orig)
          /\ branch' \in Seq(Commits) /\ at' \in Seq(Commits) /\ attached' \in BOOLEAN
        BY <2>1, Origin
    <2>3. index' \in Indexes /\ ~index'.unresolved
        BY <2>2, Facts, CleanIndex
    <2> QED
        BY <1>0, <2>1, <2>2, <2>3, RebaseTypes, TypesTogether
<1>4. CASE RebaseSkip
    <2>1. /\ index' = Clean(HEAD) /\ pc' = "next" /\ rebase.there
          /\ given' = given \cup IF rebase.msgnum # 0 THEN Operation.brings ELSE {}
          /\ UNCHANGED <<branch, attached, at, rebase>>
        BY <1>4 DEF RebaseSkip, GoTo, InProgress
    <2>2. index' \in Indexes /\ ~index'.unresolved
        BY <2>1, Facts, CleanIndex
    <2>3. given' \subseteq Work
        BY <1>0, <2>1, Facts
    <2> QED
        BY <1>0, <2>1, <2>2, <2>3, TypesTogether
<1>5. CASE AppliesCleanly \/ AppliesWithConflicts \/ NextRefused
    <2>1. /\ Step /\ CountOn /\ UNCHANGED <<branch, attached, at, given>>
          /\ \/ index' = [tree |-> Tree(HEAD) \cup Upcoming.brings, unresolved |-> FALSE]
             \/ index' = [tree |-> Tree(HEAD), unresolved |-> TRUE]
             \/ index' = index
          /\ pc' \in {"idle", "replay"} /\ pc = "next"
        BY <1>5 DEF AppliesCleanly, AppliesWithConflicts, NextRefused, GoTo, Return, Step
    <2>2. index' \in Indexes
        <3>1. Upcoming.brings \subseteq Work /\ Tree(HEAD) \subseteq Work
            BY <2>1, Facts, RebaseTypes
        <3>2. /\ [tree |-> Tree(HEAD) \cup Upcoming.brings, unresolved |-> FALSE] \in Indexes
              /\ [tree |-> Tree(HEAD), unresolved |-> TRUE] \in Indexes
            BY <3>1 DEF Indexes
        <3> QED
            BY <1>0, <2>1, <3>2
    <2> QED
        BY <1>0, <2>1, <2>2, RebaseTypes, TypesTogether
<1>6. CASE CommitCurrent
    <2>1. /\ MoveHead(Append(HEAD, [of |-> Operation.of, brings |-> index.tree \ Tree(HEAD)]))
          /\ pc \in {"replay", "resume"} /\ pc' = "next" /\ UNCHANGED <<index, rebase, given>>
        BY <1>6 DEF CommitCurrent, GoTo
    <2>2. Operation.of \in Work
        BY <1>0, <2>1, Facts
    <2>3. /\ index.tree \in SUBSET Work /\ Tree(HEAD) \subseteq index.tree
        BY <1>0 DEF Indexes, Staged
    <2>4. [of |-> Operation.of, brings |-> index.tree \ Tree(HEAD)] \in Commits
        BY <2>1, <2>2, <2>3, Committed
    <2>5. attached' = attached /\ branch' \in Seq(Commits) /\ at' \in Seq(Commits)
        BY <2>1, <2>4, Moves
    <2> QED
        BY <1>0, <2>1, <2>5, TypesTogether
<1>7. CASE Finish
    <2>1. /\ branch' = IF rebase.named THEN HEAD ELSE branch
          /\ attached' = rebase.named /\ rebase' = NoRebase /\ pc' = "idle"
          /\ UNCHANGED <<at, index, given>> /\ pc = "finish"
        BY <1>7 DEF Finish, Return
    <2>2. ~index.unresolved /\ rebase.named \in BOOLEAN /\ branch' \in Seq(Commits)
        BY <1>0, <2>1, Facts DEF Staged, Rebases
    <2> QED
        BY <1>0, <2>1, <2>2, RebaseTypes, TypesTogether
<1>8. ASSUME NEW keep \in BOOLEAN, Resolve(keep)
      PROVE  TypeOK'
    <2>1. /\ index' = [tree |-> index.tree \cup IF keep THEN Operation.brings ELSE {},
                       unresolved |-> FALSE]
          /\ given' = IF keep THEN given ELSE given \cup Operation.brings
          /\ index.unresolved /\ UNCHANGED <<branch, attached, at, rebase, pc>>
        BY <1>8 DEF Resolve, Between
    <2>2. Operation.brings \subseteq Work
        BY <1>0, <2>1, Facts
    <2>3. index' \in Indexes /\ ~index'.unresolved /\ given' \subseteq Work
        BY <1>0, <2>1, <2>2 DEF Indexes
    <2> QED
        BY <1>0, <2>1, <2>3, TypesTogether
<1>9. CASE Stage
    <2>1. /\ index' = [index EXCEPT !.tree = @ \cup {Mine}]
          /\ UNCHANGED <<branch, attached, at, rebase, given, pc>>
        BY <1>9 DEF Stage, Between
    <2>2. index' \in Indexes /\ index'.unresolved = index.unresolved
        BY <1>0, <2>1, Facts DEF Indexes
    <2> QED
        BY <1>0, <2>1, <2>2, TypesTogether
<1>10. CASE Commit
    <2>1. /\ MoveHead(Append(HEAD, [of |-> Mine, brings |-> index.tree \ Tree(HEAD)]))
          /\ UNCHANGED <<index, rebase, given, pc>>
        BY <1>10 DEF Commit, Between
    <2>2. /\ index.tree \in SUBSET Work /\ Tree(HEAD) \subseteq index.tree
        BY <1>0 DEF Indexes, Staged
    <2>3. [of |-> Mine, brings |-> index.tree \ Tree(HEAD)] \in Commits
        BY <2>1, <2>2, Committed, Facts
    <2>4. attached' = attached /\ branch' \in Seq(Commits) /\ at' \in Seq(Commits)
        BY <2>1, <2>3, Moves
    <2> QED
        BY <1>0, <2>1, <2>4, TypesTogether
<1>11. CASE CherryPick
    <2>1. /\ index' = [index EXCEPT !.tree = @ \cup {Mine}]
          /\ MoveHead(Append(HEAD, [of |-> Mine, brings |-> index'.tree \ Tree(HEAD)]))
          /\ rebase' = NoRebase /\ UNCHANGED <<given, pc>> /\ pc = "idle"
          /\ ~index.unresolved
        BY <1>11 DEF CherryPick, Between, Fits
    <2>2. /\ index' \in Indexes /\ index'.tree \in SUBSET Work
          /\ ~index'.unresolved /\ Tree(HEAD) \subseteq index'.tree
        BY <1>0, <2>1, Facts DEF Indexes, Staged
    <2>3. [of |-> Mine, brings |-> index'.tree \ Tree(HEAD)] \in Commits
        BY <2>1, <2>2, Committed, Facts
    <2>4. attached' = attached /\ branch' \in Seq(Commits) /\ at' \in Seq(Commits)
        BY <2>1, <2>3, Moves
    <2> QED
        BY <1>0, <2>1, <2>2, <2>4, RebaseTypes, TypesTogether
<1>12. CASE Reset
    <2>1. /\ index' = Clean(HEAD) /\ rebase' = NoRebase /\ pc = "idle"
          /\ UNCHANGED <<branch, attached, at, given, pc>>
        BY <1>12 DEF Reset, Between
    <2>2. index' \in Indexes /\ ~index'.unresolved
        BY <2>1, Facts, CleanIndex
    <2> QED
        BY <1>0, <2>1, <2>2, RebaseTypes, TypesTogether
<1>13. CASE Elsewhere
    <2>1. UNCHANGED <<attached, at, index, rebase, pc, given>>
        BY <1>13 DEF Elsewhere
    <2>2. branch' \in Seq(Commits)
        BY <1>13, ElsewhereGrows
    <2> QED
        BY <1>0, <2>1, <2>2, TypesTogether
<1> QED
    BY <1>1, <1>2, <1>3, <1>4, <1>5, <1>6, <1>7, <1>8, <1>9, <1>10, <1>11, <1>12, <1>13,
       NextSteps

-----------------------------------------------------------------------------
(* What each step comes to                                                 *)

\* What hangs together with the rebase's state stays with it.
LEMMA RebaseStays ==
    ASSUME UNCHANGED rebase
    PROVE  InProgress' = InProgress /\ Operation' = Operation /\ Brought' = Brought
BY DEF InProgress, Operation, Brought

\* Without a rebase there is nothing in progress and nothing brought.
LEMMA RebaseGone ==
    ASSUME rebase' = NoRebase
    PROVE  ~InProgress' /\ Brought' = {}
BY DEF InProgress, Brought, NoRebase

\* A rebase that starts: HEAD is detached at upstream, with nothing staged.
LEMMA Starts ==
    ASSUME TypeOK, RebaseStarts
    PROVE  /\ pc = "idle" /\ ~InProgress /\ index.tree = Tree(HEAD)
           /\ UNCHANGED <<branch, given>> /\ ~attached' /\ at' = UpstreamHistory
           /\ HEAD' = UpstreamHistory /\ Tree(HEAD') = Upstream
           /\ index'.tree = Upstream /\ ~index'.unresolved
           /\ InProgress' /\ Brought' = {}
           /\ rebase'.ops = ToReplay(HEAD) /\ rebase'.msgnum = 0
           /\ rebase'.orig = HEAD /\ rebase'.named = attached
           /\ pc' = IF rebase'.ops = << >> THEN "undo" ELSE "next"
           /\ told'.as # "completed"
<1>1. index' = Clean(UpstreamHistory) /\ index = Clean(HEAD)
    BY DEF RebaseStarts, MayRebase
<1>2. /\ Clean(UpstreamHistory).tree = Upstream /\ ~Clean(UpstreamHistory).unresolved
      /\ Clean(HEAD).tree = Tree(HEAD) /\ Tree(UpstreamHistory) = Upstream
    BY Facts, UpstreamThere, CleanIndex
<1>3. /\ pc = "idle" /\ ~InProgress /\ UNCHANGED <<branch, given>> /\ ~attached'
      /\ at' = UpstreamHistory
      /\ rebase' = [there |-> TRUE, ops |-> ToReplay(HEAD), msgnum |-> 0,
                    orig |-> HEAD, named |-> attached]
      /\ pc' = IF rebase'.ops = << >> THEN "undo" ELSE "next"
      /\ told'.as # "completed"
    BY DEF RebaseStarts, Enter, MayRebase, GoTo, Nothing
<1>4. HEAD' = UpstreamHistory
    BY <1>3 DEF HEAD
<1>5. InProgress' /\ Brought' = {}
    BY <1>3 DEF InProgress, Brought
<1> QED
    BY <1>1, <1>2, <1>3, <1>4, <1>5

\* An abort: HEAD, its tree and its branch are what the rebase found.
LEMMA Aborts ==
    ASSUME TypeOK, NothingToReplay \/ RebaseAbort
    PROVE  /\ InProgress /\ ~InProgress' /\ Brought' = {} /\ pc' = "idle"
           /\ HEAD' = rebase.orig /\ Tree(HEAD') = Tree(rebase.orig)
           /\ branch' = IF rebase.named THEN rebase.orig ELSE branch
           /\ index'.tree = Tree(rebase.orig) /\ ~index'.unresolved
           /\ given' = given \ Tree(rebase.orig)
           /\ told'.as \in {"aborted", "alreadyUpToDate"}
<1>1. /\ BackToOrigin(rebase.orig, rebase.named) /\ rebase' = NoRebase /\ pc' = "idle"
      /\ InProgress /\ told'.as \in {"aborted", "alreadyUpToDate"}
    BY DEF NothingToReplay, RebaseAbort, Return, TypeOK
<1>2. index' = Clean(rebase.orig) /\ rebase.orig \in Seq(Commits)
    BY <1>1, Origin, Facts
<1> QED
    BY <1>1, <1>2, Origin, CleanIndex, RebaseGone

\* A skip: HEAD is checked out again and the operation given up.
LEMMA Skips ==
    ASSUME TypeOK, RebaseSkip
    PROVE  /\ pc = "idle" /\ pc' = "next" /\ InProgress
           /\ UNCHANGED <<branch, attached, at, rebase>> /\ HEAD' = HEAD
           /\ index'.tree = Tree(HEAD) /\ ~index'.unresolved
           /\ given' = given \cup IF rebase.msgnum # 0 THEN Operation.brings ELSE {}
           /\ told'.as # "completed"
<1>1. /\ pc = "idle" /\ pc' = "next" /\ InProgress
      /\ UNCHANGED <<branch, attached, at, rebase>> /\ index' = Clean(HEAD)
      /\ given' = given \cup IF rebase.msgnum # 0 THEN Operation.brings ELSE {}
      /\ told'.as # "completed"
    BY DEF RebaseSkip, Enter, GoTo, Nothing
<1>2. HEAD' = HEAD
    BY <1>1 DEF HEAD
<1> QED
    BY <1>1, <1>2, Facts, CleanIndex

\* git_rebase_next: msgnum goes on, and the operation is applied, is in
\* conflict, or is refused.
LEMMA Counts ==
    ASSUME TypeOK, AppliesCleanly \/ AppliesWithConflicts \/ NextRefused
    PROVE  /\ pc = "next" /\ InProgress /\ InProgress' /\ HEAD' = HEAD
           /\ UNCHANGED <<branch, attached, at, given>>
           /\ rebase'.msgnum = rebase.msgnum + 1 /\ rebase'.ops = rebase.ops
           /\ rebase'.orig = rebase.orig /\ rebase'.named = rebase.named
           /\ Operation' = Upcoming /\ Brought' = Upcoming.brings
           /\ told'.as # "completed"
           /\ \/ /\ pc' = "replay" /\ ~index'.unresolved
                 /\ index'.tree = Tree(HEAD) \cup Upcoming.brings
              \/ pc' = "idle" /\ index'.tree = Tree(HEAD) /\ index'.unresolved
              \/ /\ pc' = "idle" /\ index' = index
                 /\ Fits(Tree(HEAD) \cup Upcoming.brings) => "refuse" \in world
<1>1. /\ Step /\ CountOn /\ UNCHANGED <<branch, attached, at, given>>
      /\ told'.as # "completed"
      /\ \/ /\ pc' = "replay" /\ ~index'.unresolved
            /\ index'.tree = Tree(HEAD) \cup Upcoming.brings
         \/ pc' = "idle" /\ index'.tree = Tree(HEAD) /\ index'.unresolved
         \/ /\ pc' = "idle" /\ index' = index
            /\ Fits(Tree(HEAD) \cup Upcoming.brings) => "refuse" \in world
    BY DEF AppliesCleanly, AppliesWithConflicts, NextRefused, GoTo, Return, Nothing
<1>2. /\ rebase'.msgnum = rebase.msgnum + 1 /\ rebase'.ops = rebase.ops
      /\ rebase'.there = rebase.there /\ rebase'.orig = rebase.orig
      /\ rebase'.named = rebase.named
      /\ rebase'.msgnum # 0 /\ Operation' = Upcoming
    BY <1>1, RebaseTypes
<1>3. pc = "next" /\ InProgress
    BY <1>1 DEF Step, TypeOK
<1>4. HEAD' = HEAD
    BY <1>1 DEF HEAD
<1>5. InProgress' /\ Brought' = Upcoming.brings
    BY <1>2, <1>3 DEF InProgress, Brought
<1> QED
    BY <1>1, <1>2, <1>3, <1>4, <1>5

\* A commit: HEAD has one more, of the operation or of the caller, and the
\* whole of the index.
LEMMA Adds ==
    ASSUME TypeOK, Staged, CommitCurrent \/ Commit \/ CherryPick
    PROVE  \E c \in Commits :
           /\ HEAD' = Append(HEAD, c) /\ attached' = attached
           /\ c.of # Mine => /\ c.of = Operation.of /\ rebase.msgnum # 0
                             /\ InProgress /\ CommitCurrent
           /\ Tree(HEAD') = index'.tree /\ Tree(HEAD) \subseteq Tree(HEAD')
           /\ attached => branch' = HEAD' /\ at' = at
           /\ ~attached => branch' = branch /\ at' = HEAD'
           /\ IsPrefix(branch, branch') /\ IsPrefix(at, at')
           /\ branch' \in Seq(Commits) /\ at' \in Seq(Commits)
           /\ given' = given /\ ~index.unresolved /\ ~index'.unresolved
           /\ \/ /\ CommitCurrent /\ pc \in {"replay", "resume"} /\ pc' = "next"
                 /\ UNCHANGED <<index, rebase>> /\ told'.as # "completed"
                 /\ index.tree # Tree(HEAD)
              \/ /\ Commit /\ pc = "idle" /\ UNCHANGED <<pc, index, rebase, told>>
                 /\ index.tree # Tree(HEAD)
              \/ /\ CherryPick /\ pc = "idle" /\ UNCHANGED <<pc, told>> /\ rebase' = NoRebase
                 /\ index'.tree = index.tree \cup {Mine}
<1>0. /\ index.tree \in SUBSET Work /\ Tree(HEAD) \subseteq index.tree
      /\ index \in [tree : SUBSET Work, unresolved : BOOLEAN]
    BY DEF TypeOK, Staged
<1>1. CASE CommitCurrent
    <2> DEFINE c == [of |-> Operation.of, brings |-> index.tree \ Tree(HEAD)]
    <2>1. /\ MoveHead(Append(HEAD, c)) /\ pc \in {"replay", "resume"} /\ pc' = "next"
          /\ UNCHANGED <<index, rebase, given>> /\ ~index.unresolved
          /\ told'.as # "completed" /\ index.tree # Tree(HEAD)
        BY <1>1 DEF CommitCurrent, GoTo, Nothing
    <2>2. rebase.msgnum # 0 /\ InProgress
        BY <2>1 DEF TypeOK
    <2>3. Operation.of \in Work
        BY <2>2, Facts
    <2>4. c \in Commits /\ Tree(HEAD') = index.tree /\ c.of = Operation.of
        BY <1>0, <2>1, <2>3, Committed
    <2> HIDE DEF c
    <2> QED
        BY <1>0, <1>1, <2>1, <2>2, <2>4, Moves
<1>2. CASE Commit
    <2> DEFINE c == [of |-> Mine, brings |-> index.tree \ Tree(HEAD)]
    <2>1. /\ MoveHead(Append(HEAD, c)) /\ pc = "idle"
          /\ UNCHANGED <<pc, index, rebase, told, given>> /\ ~index.unresolved
          /\ index.tree # Tree(HEAD)
        BY <1>2 DEF Commit, Between
    <2>2. c \in Commits /\ Tree(HEAD') = index.tree /\ c.of = Mine
        BY <1>0, <2>1, Facts, Committed
    <2> HIDE DEF c
    <2> QED
        BY <1>0, <1>2, <2>1, <2>2, Moves
<1>3. CASE CherryPick
    <2> DEFINE c == [of |-> Mine, brings |-> index'.tree \ Tree(HEAD)]
    <2>1. /\ MoveHead(Append(HEAD, c)) /\ pc = "idle"
          /\ UNCHANGED <<pc, told, given>> /\ rebase' = NoRebase /\ ~index.unresolved
          /\ index' = [index EXCEPT !.tree = @ \cup {Mine}]
        BY <1>3 DEF CherryPick, Between, Fits
    <2>2. /\ index'.tree = index.tree \cup {Mine} /\ ~index'.unresolved
          /\ index'.tree \in SUBSET Work /\ Tree(HEAD) \subseteq index'.tree
        BY <1>0, <2>1, Facts
    <2>3. c \in Commits /\ Tree(HEAD') = index'.tree /\ c.of = Mine
        BY <2>1, <2>2, Facts, Committed
    <2> HIDE DEF c
    <2> QED
        BY <1>3, <2>1, <2>2, <2>3, Moves
<1> QED
    BY <1>1, <1>2, <1>3

\* The end of a rebase: the branch, if it is where it was found, is at HEAD.
LEMMA Finishes ==
    ASSUME TypeOK, Replaying, Finish
    PROVE  /\ pc = "finish" /\ pc' = "idle" /\ InProgress /\ ~InProgress' /\ Brought' = {}
           /\ HEAD = at /\ HEAD' = HEAD /\ UNCHANGED <<index, given>>
           /\ rebase.named => branch = rebase.orig /\ branch' = HEAD
           /\ ~rebase.named => branch' = branch
           /\ told'.as = "completed" /\ told'.ops = rebase.ops
<1>1. /\ pc = "finish" /\ pc' = "idle" /\ rebase' = NoRebase /\ attached' = rebase.named
      /\ UNCHANGED <<at, index, given>>
      /\ rebase.named => branch = rebase.orig /\ branch' = HEAD
      /\ ~rebase.named => branch' = branch
      /\ told'.as = "completed" /\ told'.ops = rebase.ops
    BY DEF Finish, BranchAsFound, Return
<1>2. InProgress /\ ~attached
    BY <1>1 DEF TypeOK
<1>3. HEAD = at /\ HEAD' = HEAD
    BY <1>1, <1>2 DEF HEAD
<1> QED
    BY <1>1, <1>2, <1>3, RebaseGone

\* A resolution: what the operation brings is staged or given up.
LEMMA Resolves ==
    ASSUME TypeOK, NEW keep \in BOOLEAN, Resolve(keep)
    PROVE  /\ UNCHANGED <<branch, attached, at, rebase, pc, told>> /\ HEAD' = HEAD
           /\ index.unresolved /\ ~index'.unresolved /\ pc = "idle"
           /\ InProgress /\ rebase.msgnum # 0 /\ Brought = Operation.brings
           /\ index.tree \subseteq index'.tree
           /\ index'.tree \subseteq index.tree \cup Operation.brings
           /\ given \subseteq given' /\ Operation.brings \subseteq index'.tree \cup given'
<1>1. /\ UNCHANGED <<branch, attached, at, rebase, pc, told>> /\ pc = "idle"
      /\ index.unresolved
      /\ index' = [tree |-> index.tree \cup IF keep THEN Operation.brings ELSE {},
                   unresolved |-> FALSE]
      /\ given' = IF keep THEN given ELSE given \cup Operation.brings
    BY DEF Resolve, Between
<1>2. HEAD' = HEAD
    BY <1>1 DEF HEAD
<1>3. InProgress /\ rebase.msgnum # 0
    BY <1>1 DEF TypeOK
<1> QED
    BY <1>1, <1>2, <1>3 DEF Brought

\* The caller's change is staged, whatever else is.
LEMMA Stages ==
    ASSUME TypeOK, Stage
    PROVE  /\ UNCHANGED <<branch, attached, at, rebase, pc, told, given>> /\ HEAD' = HEAD
           /\ "stage" \in world /\ pc = "idle"
           /\ index'.tree = index.tree \cup {Mine} /\ index'.unresolved = index.unresolved
BY DEF Stage, Between, TypeOK, HEAD

\* A hard reset: HEAD is checked out again and the rebase gone.
LEMMA Resets ==
    ASSUME TypeOK, Reset
    PROVE  /\ UNCHANGED <<branch, attached, at, pc, told, given>> /\ HEAD' = HEAD
           /\ pc = "idle" /\ ~InProgress' /\ Brought' = {}
           /\ index'.tree = Tree(HEAD) /\ ~index'.unresolved
<1>1. /\ UNCHANGED <<branch, attached, at, pc, told, given>> /\ pc = "idle"
      /\ index' = Clean(HEAD) /\ rebase' = NoRebase
    BY DEF Reset, Between
<1>2. HEAD' = HEAD
    BY <1>1 DEF HEAD
<1> QED
    BY <1>1, <1>2, Facts, CleanIndex, RebaseGone

\* A commit elsewhere: HEAD, the index and the rebase stay.
LEMMA Others ==
    ASSUME TypeOK, Elsewhere
    PROVE  /\ UNCHANGED <<attached, at, index, rebase, pc, told, given>> /\ ~attached
           /\ HEAD' = HEAD /\ HEAD = at
BY ElsewhereGrows DEF Elsewhere, HEAD

\* Upstream's changes are in the history a rebase replays on.
LEMMA UpstreamIn ==
    ASSUME TypeOK, Replaying, InProgress
    PROVE  HEAD = at /\ IsPrefix(UpstreamHistory, HEAD) /\ Upstream \subseteq Tree(HEAD)
<1>1. ~attached /\ IsPrefix(UpstreamHistory, at) /\ at \in Seq(Commits)
    BY DEF Replaying, TypeOK
<1>2. HEAD = at
    BY <1>1 DEF HEAD
<1>3. Tree(UpstreamHistory) \subseteq Tree(at)
    BY <1>1, UpstreamThere, TreeOfPrefix
<1> QED
    BY <1>1, <1>2, <1>3, UpstreamThere

-----------------------------------------------------------------------------
(* What is staged, and the rebase in progress                              *)

\* The steps keep what may be staged.
LEMMA StagedStep ==
    ASSUME TypeOK, Staged, Replaying, Next
    PROVE  Staged'
<1>0. /\ Tree(HEAD) \subseteq index.tree
      /\ index.tree \subseteq Tree(HEAD) \cup Brought \cup {Mine}
      /\ pc \in {"undo", "next", "finish"} =>
            index.tree \subseteq Tree(HEAD) \cup {Mine} /\ ~index.unresolved
      /\ index.unresolved => rebase.msgnum # 0
    BY DEF Staged, TypeOK
<1>1. CASE QuietStep
    <2>1. /\ UNCHANGED <<index, rebase>> /\ HEAD' = HEAD
          /\ Stops \/ GoesOn \/ Ends
        BY <1>1, QuietEffects DEF repository
    <2>2. Brought' = Brought
        BY <2>1, RebaseStays
    <2>3. pc' \in {"undo", "next", "finish"} => pc = "next" \/ rebase.msgnum = 0
        BY <2>1 DEF Stops, GoesOn, Ends
    <2>4. rebase.msgnum = 0 => Brought = {}
        BY DEF Brought
    <2> QED
        BY <1>0, <2>1, <2>2, <2>3, <2>4 DEF Staged
<1>2. CASE RebaseStarts
    BY <1>2, Starts DEF Staged
<1>3. CASE NothingToReplay \/ RebaseAbort
    BY <1>3, Aborts DEF Staged
<1>4. CASE RebaseSkip
    BY <1>4, Skips DEF Staged
<1>5. CASE AppliesCleanly \/ AppliesWithConflicts \/ NextRefused
    <2>1. /\ pc = "next" /\ HEAD' = HEAD /\ Brought' = Upcoming.brings
          /\ pc' \notin {"undo", "next", "finish"}
          /\ \/ index'.tree = Tree(HEAD) \cup Upcoming.brings
             \/ index'.tree = Tree(HEAD)
             \/ index' = index
        BY <1>5, Counts
    <2> QED
        BY <1>0, <2>1 DEF Staged
<1>6. CASE CommitCurrent \/ Commit \/ CherryPick
    BY <1>6, Adds DEF Staged
<1>7. CASE Finish
    BY <1>0, <1>7, Finishes DEF Staged
<1>8. ASSUME NEW keep \in BOOLEAN, Resolve(keep)
      PROVE  Staged'
    BY <1>0, <1>8, Resolves, RebaseStays DEF Staged
<1>9. CASE Stage
    BY <1>0, <1>9, Stages, RebaseStays DEF Staged
<1>10. CASE Reset
    BY <1>10, Resets DEF Staged
<1>11. CASE Elsewhere
    BY <1>0, <1>11, Others, RebaseStays DEF Staged
<1> QED
    BY <1>1, <1>2, <1>3, <1>4, <1>5, <1>6, <1>7, <1>8, <1>9, <1>10, <1>11, NextSteps

\* The history a rebase replays on only grows while it is in progress.
LEMMA ReplayingStep ==
    ASSUME TypeOK, Staged, Replaying, Next
    PROVE  Replaying'
<1>0. /\ branch \in Seq(Commits) /\ at \in Seq(Commits)
      /\ UpstreamHistory \in Seq(Commits)
    BY UpstreamThere DEF TypeOK
<1>1. CASE QuietStep
    <2>1. /\ UNCHANGED <<branch, attached, at, rebase>> /\ InProgress' = InProgress
          /\ Stops \/ GoesOn \/ Ends
        BY <1>1, QuietEffects, RebaseStays DEF repository
    <2>2. /\ pc' # "undo"
          /\ pc' = "finish" => rebase.msgnum = Len(rebase.ops)
        BY <2>1 DEF Stops, GoesOn, Ends
    <2> QED
        BY <2>1, <2>2 DEF Replaying
<1>2. CASE RebaseStarts
    <2>1. /\ ~attached' /\ at' = UpstreamHistory /\ branch' = branch
          /\ rebase'.ops = ToReplay(HEAD) /\ rebase'.orig = HEAD /\ rebase'.named = attached
          /\ pc' = IF rebase'.ops = << >> THEN "undo" ELSE "next"
        BY <1>2, Starts
    <2>2. Tree(HEAD) \subseteq Upstream \cup Tree(ToReplay(HEAD))
        BY Facts, ReplayedTree
    <2>3. IsPrefix(UpstreamHistory, UpstreamHistory) /\ IsPrefix(branch, branch)
        BY <1>0, PrefixEntries, LenProperties
    <2>4. attached => HEAD = branch
        BY DEF HEAD
    <2> QED
        BY <2>1, <2>2, <2>3, <2>4 DEF Replaying
<1>3. CASE NothingToReplay \/ RebaseAbort
    BY <1>3, Aborts DEF Replaying
<1>4. CASE RebaseSkip
    BY <1>4, Skips, RebaseStays DEF Replaying
<1>5. CASE AppliesCleanly \/ AppliesWithConflicts \/ NextRefused
    <2>1. /\ InProgress /\ UNCHANGED <<branch, attached, at>>
          /\ rebase'.ops = rebase.ops /\ rebase'.orig = rebase.orig
          /\ rebase'.named = rebase.named /\ pc' \in {"replay", "idle"}
        BY <1>5, Counts
    <2> QED
        BY <2>1 DEF Replaying
<1>6. CASE CommitCurrent \/ Commit \/ CherryPick
    <2>1. /\ attached' = attached
          /\ ~attached => branch' = branch
          /\ IsPrefix(at, at') /\ at' \in Seq(Commits)
          /\ rebase' = rebase \/ rebase' = NoRebase
          /\ pc' \in {"idle", "next"}
        BY <1>6, Adds
    <2>2. IsPrefix(UpstreamHistory, at) => IsPrefix(UpstreamHistory, at')
        BY <1>0, <2>1, PrefixOfPrefix
    <2>3. CASE rebase' = rebase
        BY <2>1, <2>2, <2>3, RebaseStays DEF Replaying
    <2>4. CASE rebase' = NoRebase
        BY <2>4, RebaseGone DEF Replaying
    <2> QED
        BY <2>1, <2>3, <2>4
<1>7. CASE Finish
    BY <1>7, Finishes DEF Replaying
<1>8. ASSUME NEW keep \in BOOLEAN, Resolve(keep)
      PROVE  Replaying'
    BY <1>8, Resolves, RebaseStays DEF Replaying
<1>9. CASE Stage
    BY <1>9, Stages, RebaseStays DEF Replaying
<1>10. CASE Reset
    BY <1>10, Resets DEF Replaying
<1>11. CASE Elsewhere
    <2>1. /\ UNCHANGED <<attached, at, rebase, pc>> /\ InProgress' = InProgress
          /\ Tree(branch') = Tree(branch) \cup {Theirs}
          /\ IsPrefix(rebase.orig, branch) => IsPrefix(rebase.orig, branch')
        BY <1>11, Others, ElsewhereGrows, Facts, RebaseStays
    <2> QED
        BY <2>1 DEF Replaying
<1> QED
    BY <1>1, <1>2, <1>3, <1>4, <1>5, <1>6, <1>7, <1>8, <1>9, <1>10, <1>11, NextSteps

\* Nothing that is gone comes back.
LEMMA StaysGoneStep ==
    ASSUME TypeOK, Staged, Replaying, StaysGone, Next
    PROVE  StaysGone'
<1>0. /\ Gone \cap Upstream = {} /\ Gone \cap Tree(HEAD) = {}
      /\ InProgress => Gone \cap Tree(rebase.orig) = {} /\ Gone \cap Tree(rebase.ops) = {}
    BY DEF StaysGone
<1>1. CASE QuietStep
    <2>1. UNCHANGED <<branch, rebase>> /\ HEAD' = HEAD /\ InProgress' = InProgress
        BY <1>1, QuietEffects, RebaseStays DEF repository
    <2> QED
        BY <2>1 DEF StaysGone, Gone
<1>2. CASE RebaseStarts
    <2>1. /\ branch' = branch /\ Tree(HEAD') = Upstream
          /\ rebase'.ops = ToReplay(HEAD) /\ rebase'.orig = HEAD
        BY <1>2, Starts
    <2>2. Tree(ToReplay(HEAD)) \subseteq Tree(HEAD)
        BY Facts, ReplayedTree
    <2>3. Gone' = Gone
        BY <2>1 DEF Gone
    <2> QED
        BY <1>0, <2>1, <2>2, <2>3 DEF StaysGone
<1>3. CASE NothingToReplay \/ RebaseAbort
    <2>1. /\ InProgress /\ ~InProgress' /\ Tree(HEAD') = Tree(rebase.orig)
          /\ branch' = IF rebase.named THEN rebase.orig ELSE branch
        BY <1>3, Aborts
    <2>2. rebase.named => Tree(branch) \subseteq Tree(rebase.orig) \cup {Theirs}
        BY <2>1 DEF Replaying
    <2>3. Theirs \notin 1..Count
        BY Facts, RebaseAssumption DEF RebaseAssumption
    <2>4. Theirs \notin Upstream /\ Theirs \notin Tree(rebase.orig)
        BY <1>0, <2>1 DEF Gone
    <2>5. rebase.named => Gone' = ((1..Count) \ Tree(rebase.orig)) \cup {Theirs}
        BY <2>1 DEF Gone
    <2>6. rebase.named => ((1..Count) \ Tree(rebase.orig)) \subseteq Gone
        BY <2>2, <2>3 DEF Gone
    <2>7. ~rebase.named => Gone' = Gone
        BY <2>1 DEF Gone
    <2>8. Gone' \cap Upstream = {} /\ Gone' \cap Tree(rebase.orig) = {}
        BY <1>0, <2>1, <2>4, <2>5, <2>6, <2>7
    <2> QED
        BY <2>1, <2>8 DEF StaysGone
<1>4. CASE RebaseSkip
    BY <1>4, Skips, RebaseStays DEF StaysGone, Gone
<1>5. CASE AppliesCleanly \/ AppliesWithConflicts \/ NextRefused
    BY <1>5, Counts DEF StaysGone, Gone
<1>6. CASE CommitCurrent \/ Commit \/ CherryPick
    <2>1. /\ Tree(HEAD') = index'.tree /\ Tree(HEAD) \subseteq Tree(HEAD')
          /\ attached => branch' = HEAD'
          /\ ~attached => branch' = branch
          /\ index' = index \/ index'.tree = index.tree \cup {Mine}
          /\ rebase' = rebase \/ rebase' = NoRebase
        BY <1>6, Adds
    <2>2. index.tree \subseteq Tree(HEAD) \cup Brought \cup {Mine}
        BY DEF Staged
    <2>3. Gone' \subseteq Gone
        BY <2>1 DEF Gone, HEAD
    <2>4. Mine \notin Gone
        BY Facts, RebaseAssumption DEF Gone, RebaseAssumption
    <2>5. Gone \cap Brought = {}
        <3>1. CASE InProgress /\ rebase.msgnum # 0
            BY <1>0, <3>1, Facts DEF Brought
        <3>2. CASE ~(InProgress /\ rebase.msgnum # 0)
            BY <3>2 DEF Brought
        <3> QED
            BY <3>1, <3>2
    <2>6. Gone' \cap Tree(HEAD') = {}
        BY <1>0, <2>1, <2>2, <2>3, <2>4, <2>5
    <2>7. InProgress' => Gone' \cap Tree(rebase'.orig) = {} /\ Gone' \cap Tree(rebase'.ops) = {}
        BY <1>0, <2>1, <2>3, RebaseStays, RebaseGone
    <2>8. Gone' \cap Upstream = {}
        BY <1>0, <2>3
    <2> QED
        BY <2>6, <2>7, <2>8 DEF StaysGone
<1>7. CASE Finish
    <2>1. /\ InProgress /\ ~InProgress' /\ HEAD = at /\ HEAD' = HEAD
          /\ rebase.named => branch' = HEAD
          /\ ~rebase.named => branch' = branch
        BY <1>7, Finishes
    <2>2. Upstream \subseteq Tree(HEAD)
        BY <2>1, UpstreamIn
    <2>3. rebase.named => Gone' = ((1..Count) \ Tree(HEAD)) \cup {Theirs}
        BY <2>1 DEF Gone
    <2>4. ~rebase.named => Gone' = Gone
        BY <2>1 DEF Gone
    <2>5. Theirs \notin Tree(HEAD) /\ Theirs \notin Upstream
        BY <1>0 DEF Gone
    <2>6. Gone' \cap Upstream = {} /\ Gone' \cap Tree(HEAD) = {}
        BY <1>0, <2>2, <2>3, <2>4, <2>5
    <2> QED
        BY <2>1, <2>6 DEF StaysGone
<1>8. ASSUME NEW keep \in BOOLEAN, Resolve(keep)
      PROVE  StaysGone'
    BY <1>8, Resolves, RebaseStays DEF StaysGone, Gone
<1>9. CASE Stage
    BY <1>9, Stages, RebaseStays DEF StaysGone, Gone
<1>10. CASE Reset
    BY <1>10, Resets, RebaseStays DEF StaysGone, Gone
<1>11. CASE Elsewhere
    <2>1. /\ UNCHANGED <<rebase>> /\ HEAD' = HEAD /\ InProgress' = InProgress
          /\ Tree(branch') = Tree(branch) \cup {Theirs}
        BY <1>11, Others, ElsewhereGrows, RebaseStays
    <2>2. Gone' \subseteq Gone
        BY <2>1 DEF Gone
    <2> QED
        BY <1>0, <2>1, <2>2 DEF StaysGone
<1> QED
    BY <1>1, <1>2, <1>3, <1>4, <1>5, <1>6, <1>7, <1>8, <1>9, <1>10, <1>11, NextSteps

-----------------------------------------------------------------------------
(* The order                                                               *)

\* A commit of somebody else's, or of the operation that is due, keeps a
\* history in order and not later than what is to come.
LEMMA DueNext ==
    ASSUME NEW history \in Seq(Commits), NEW ops \in Seq(Commits), NEW n \in 1..Len(ops),
           NEW c \in Commits, c.of = ops[n].of \/ c.of \notin 1..Count,
           Ordered(history), Ordered(ops), NotLater(history, ops, n)
    PROVE  Ordered(Append(history, c)) /\ NotLater(Append(history, c), ops, n)
<1> DEFINE longer == Append(history, c)
<1>1. /\ longer \in Seq(Commits) /\ Len(longer) = Len(history) + 1
      /\ \A i \in 1..Len(history) : longer[i] = history[i]
      /\ longer[Len(history) + 1] = c
    BY AppendProperties
<1>2. /\ Len(history) \in Nat /\ DOMAIN history = 1..Len(history)
      /\ Len(ops) \in Nat /\ DOMAIN ops = 1..Len(ops)
    BY LenProperties
<1>3. DOMAIN longer = 1 .. Len(history) + 1
    BY <1>1, LenProperties
<1>4. ASSUME NEW i \in 1..Len(history), {history[i].of, c.of} \subseteq 1..Count
      PROVE  history[i].of <= c.of
    <2>1. c.of = ops[n].of
        BY <1>4
    <2> QED
        BY <1>2, <1>4, <2>1 DEF NotLater
<1>5. Ordered(longer)
    BY <1>4, OrderGrows
<1> HIDE DEF longer
<1>6. NotLater(longer, ops, n)
    <2> SUFFICES ASSUME NEW i \in 1 .. Len(history) + 1, NEW j \in 1..Len(ops), j >= n,
                        {longer[i].of, ops[j].of} \subseteq 1..Count
                 PROVE  longer[i].of <= ops[j].of
        BY <1>2, <1>3 DEF NotLater
    <2>1. CASE i # Len(history) + 1
        <3>1. i \in 1..Len(history) /\ longer[i] = history[i]
            BY <1>1, <1>2, <2>1
        <3> QED
            BY <1>2, <3>1 DEF NotLater
    <2>2. CASE i = Len(history) + 1
        <3>1. longer[i].of = ops[n].of
            BY <1>1, <2>2
        <3>2. CASE j = n
            BY <3>1, <3>2
        <3>3. CASE j # n
            BY <1>2, <3>1, <3>3 DEF Ordered
        <3> QED
            BY <3>2, <3>3
    <2> QED
        BY <2>1, <2>2
<1> QED
    BY <1>5, <1>6 DEF longer

\* Somebody else's commit keeps a history in order, whatever is to come.
LEMMA ForeignCommit ==
    ASSUME NEW history \in Seq(Commits), NEW c \in Commits, c.of \notin 1..Count
    PROVE  /\ Ordered(history) => Ordered(Append(history, c))
           /\ \A ops, n : NotLater(history, ops, n) => NotLater(Append(history, c), ops, n)
<1> DEFINE longer == Append(history, c)
<1>1. /\ longer \in Seq(Commits) /\ Len(longer) = Len(history) + 1
      /\ \A i \in 1..Len(history) : longer[i] = history[i]
      /\ longer[Len(history) + 1] = c
    BY AppendProperties
<1>2. Len(history) \in Nat /\ DOMAIN history = 1..Len(history)
    BY LenProperties
<1>3. DOMAIN longer = 1 .. Len(history) + 1
    BY <1>1, LenProperties
<1>4. Ordered(history) => Ordered(longer)
    BY OrderGrows
<1> HIDE DEF longer
<1>5. ASSUME NEW ops, NEW n, NotLater(history, ops, n)
      PROVE  NotLater(longer, ops, n)
    <2> SUFFICES ASSUME NEW i \in 1 .. Len(history) + 1, NEW j \in DOMAIN ops, j >= n,
                        {longer[i].of, ops[j].of} \subseteq 1..Count
                 PROVE  longer[i].of <= ops[j].of
        BY <1>3 DEF NotLater
    <2>1. i \in 1..Len(history) /\ longer[i] = history[i]
        BY <1>1, <1>2
    <2> QED
        BY <1>2, <1>5, <2>1 DEF NotLater
<1> QED
    BY <1>4, <1>5 DEF longer

\* The steps keep the order.
LEMMA InOrderStep ==
    ASSUME TypeOK, Staged, Replaying, InOrder, Next
    PROVE  InOrder'
<1>0. /\ branch \in Seq(Commits) /\ at \in Seq(Commits) /\ rebase.ops \in Seq(Commits)
      /\ Ordered(branch) /\ Ordered(HEAD)
      /\ InProgress => /\ Ordered(rebase.orig) /\ Ordered(rebase.ops)
                       /\ NotLater(at, rebase.ops, rebase.msgnum)
    BY DEF InOrder, TypeOK
<1>1. CASE QuietStep
    <2>1. UNCHANGED <<branch, at, rebase>> /\ HEAD' = HEAD /\ InProgress' = InProgress
        BY <1>1, QuietEffects, RebaseStays DEF repository
    <2> QED
        BY <1>0, <2>1 DEF InOrder
<1>2. CASE RebaseStarts
    <2>1. /\ branch' = branch /\ HEAD' = UpstreamHistory /\ at' = UpstreamHistory
          /\ rebase'.ops = ToReplay(HEAD) /\ rebase'.orig = HEAD /\ rebase'.msgnum = 0
        BY <1>2, Starts
    <2>2. Ordered(ToReplay(HEAD))
        BY <1>0, Facts, ReplayedTree
    <2>3. \A i \in DOMAIN UpstreamHistory : UpstreamHistory[i].of \notin 1..Count
        BY UpstreamThere, LenProperties
    <2>4. Ordered(UpstreamHistory) /\ NotLater(UpstreamHistory, ToReplay(HEAD), 0)
        BY <2>3 DEF Ordered, NotLater
    <2> QED
        BY <1>0, <2>1, <2>2, <2>4 DEF InOrder
<1>3. CASE NothingToReplay \/ RebaseAbort
    <2>1. /\ InProgress /\ ~InProgress' /\ HEAD' = rebase.orig
          /\ branch' = IF rebase.named THEN rebase.orig ELSE branch
        BY <1>3, Aborts
    <2> QED
        BY <1>0, <2>1 DEF InOrder
<1>4. CASE RebaseSkip
    BY <1>0, <1>4, Skips, RebaseStays DEF InOrder
<1>5. CASE AppliesCleanly \/ AppliesWithConflicts \/ NextRefused
    <2>1. /\ InProgress /\ HEAD' = HEAD /\ UNCHANGED <<branch, at>>
          /\ rebase'.msgnum = rebase.msgnum + 1 /\ rebase'.ops = rebase.ops
          /\ rebase'.orig = rebase.orig
        BY <1>5, Counts
    <2>2. NotLater(at, rebase.ops, rebase.msgnum + 1)
        BY <1>0, <2>1, Facts DEF NotLater
    <2> QED
        BY <1>0, <2>1, <2>2 DEF InOrder
<1>6. CASE CommitCurrent \/ Commit \/ CherryPick
    <2>1. PICK c \in Commits :
              /\ HEAD' = Append(HEAD, c) /\ attached' = attached
              /\ c.of # Mine => /\ c.of = Operation.of /\ rebase.msgnum # 0
                                /\ InProgress /\ CommitCurrent
              /\ attached => branch' = HEAD' /\ at' = at
              /\ ~attached => branch' = branch /\ at' = HEAD'
              /\ rebase' = rebase \/ rebase' = NoRebase
        BY <1>6, Adds
    <2>2. HEAD \in Seq(Commits)
        BY Facts
    <2>3. CASE c.of = Mine
        <3>1. c.of \notin 1..Count
            BY <2>3, Facts, RebaseAssumption DEF RebaseAssumption
        <3>2. /\ Ordered(HEAD')
              /\ NotLater(HEAD, rebase.ops, rebase.msgnum) =>
                    NotLater(HEAD', rebase.ops, rebase.msgnum)
            BY <1>0, <2>1, <2>2, <3>1, ForeignCommit
        <3>3. Ordered(branch')
            BY <1>0, <2>1, <3>2 DEF TypeOK
        <3>4. CASE rebase' = rebase
            <4>1. InProgress' = InProgress
                BY <3>4, RebaseStays
            <4>2. InProgress => HEAD = at /\ at' = HEAD'
                BY <2>1, UpstreamIn DEF Replaying
            <4> QED
                BY <1>0, <3>2, <3>3, <3>4, <4>1, <4>2 DEF InOrder
        <3>5. CASE rebase' = NoRebase
            BY <3>2, <3>3, <3>5, RebaseGone DEF InOrder
        <3> QED
            BY <2>1, <3>4, <3>5
    <2>4. CASE c.of # Mine
        <3>1. /\ c.of = Operation.of /\ rebase.msgnum \in 1..Len(rebase.ops) /\ InProgress
              /\ rebase' = rebase
            BY <2>1, <2>4, Facts DEF CommitCurrent
        <3>2. HEAD = at /\ ~attached
            BY <3>1, UpstreamIn DEF Replaying
        <3>3. Ordered(HEAD') /\ NotLater(HEAD', rebase.ops, rebase.msgnum)
            BY <1>0, <2>1, <2>2, <3>1, <3>2, DueNext DEF Operation
        <3>4. InProgress' = InProgress /\ at' = HEAD' /\ branch' = branch
            BY <2>1, <3>1, <3>2, RebaseStays
        <3> QED
            BY <1>0, <3>1, <3>3, <3>4 DEF InOrder
    <2> QED
        BY <2>3, <2>4
<1>7. CASE Finish
    <2>1. /\ ~InProgress' /\ HEAD' = HEAD
          /\ rebase.named => branch' = HEAD
          /\ ~rebase.named => branch' = branch
        BY <1>7, Finishes
    <2> QED
        BY <1>0, <2>1 DEF InOrder
<1>8. ASSUME NEW keep \in BOOLEAN, Resolve(keep)
      PROVE  InOrder'
    BY <1>0, <1>8, Resolves, RebaseStays DEF InOrder
<1>9. CASE Stage
    BY <1>0, <1>9, Stages, RebaseStays DEF InOrder
<1>10. CASE Reset
    BY <1>0, <1>10, Resets DEF InOrder
<1>11. CASE Elsewhere
    <2>1. /\ UNCHANGED <<at, rebase>> /\ HEAD' = HEAD /\ InProgress' = InProgress
          /\ branch' = Append(branch, [of |-> Theirs, brings |-> {Theirs}])
          /\ [of |-> Theirs, brings |-> {Theirs}] \in Commits
        BY <1>11, Others, ElsewhereGrows, RebaseStays
    <2>2. Theirs \notin 1..Count
        BY Facts, RebaseAssumption DEF RebaseAssumption
    <2>3. Ordered(branch')
        BY <1>0, <2>1, <2>2, ForeignCommit
    <2> QED
        BY <1>0, <2>1, <2>3 DEF InOrder
<1> QED
    BY <1>1, <1>2, <1>3, <1>4, <1>5, <1>6, <1>7, <1>8, <1>9, <1>10, <1>11, NextSteps

-----------------------------------------------------------------------------
(* Where nothing else is staged when an operation is refused or a process  *)
(* dies                                                                    *)

\* A rebase that has counted an operation has one.
LEMMA Counted ==
    ASSUME TypeOK, rebase.msgnum # 0
    PROVE  rebase.ops # << >>
<1>1. Len(rebase.ops) # 0
    BY Facts
<1> QED
    BY <1>1, EmptySeq

\* Nothing is staged when an operation is applied.
LEMMA TidiedStep ==
    ASSUME TypeOK, Staged, Replaying, Tidy(world), Tidied, Next
    PROVE  Tidied'
<1>0. /\ world' = world
      /\ Tree(HEAD) \subseteq index.tree
      /\ pc \in {"undo", "next", "finish"} => index.tree = Tree(HEAD)
      /\ "stage" \notin world => index.tree \subseteq Tree(HEAD) \cup Brought
      /\ "stage" \in world => "die" \notin world
      /\ "stage" \in world /\ InProgress =>
            /\ pc = "idle" => rebase.msgnum # 0
            /\ pc \in {"next", "finish"} => rebase.ops # << >>
    BY WorldStays DEF Staged, Tidied, Tidy
<1>1. CASE QuietStep
    <2>1. /\ UNCHANGED <<index, rebase>> /\ HEAD' = HEAD
          /\ InProgress' = InProgress /\ Brought' = Brought
          /\ Stops \/ GoesOn \/ Ends
        BY <1>1, QuietEffects, RebaseStays DEF repository
    <2>2. CASE Stops
        <3>1. "stage" \in world /\ InProgress => rebase.msgnum # 0
            <4> SUFFICES ASSUME "stage" \in world, InProgress
                         PROVE  rebase.msgnum # 0
                OBVIOUS
            <4>1. pc \notin {"undo", "next"}
                BY <1>0, <2>2 DEF Stops
            <4>2. CASE pc = "finish"
                <5>1. rebase.msgnum = Len(rebase.ops) /\ rebase.ops # << >>
                    BY <1>0, <4>2 DEF Replaying
                <5> QED
                    BY <5>1, EmptySeq DEF TypeOK
            <4>3. CASE pc \in {"idle", "replay", "resume"}
                BY <1>0, <4>3 DEF TypeOK
            <4> QED
                BY <4>1, <4>2, <4>3 DEF TypeOK
        <3> QED
            BY <1>0, <2>1, <2>2, <3>1 DEF Tidied, Stops
    <2>3. CASE GoesOn
        <3>1. /\ pc = "idle" /\ InProgress
              /\ pc' = IF rebase.msgnum # 0 THEN "resume" ELSE "next"
            BY <2>3 DEF GoesOn
        <3>2. CASE rebase.msgnum # 0
            BY <1>0, <2>1, <3>1, <3>2 DEF Tidied
        <3>3. CASE rebase.msgnum = 0
            <4>1. "stage" \notin world /\ Brought = {}
                BY <1>0, <3>1, <3>3 DEF Brought
            <4>2. index.tree = Tree(HEAD)
                BY <1>0, <4>1
            <4> QED
                BY <1>0, <2>1, <4>1, <4>2 DEF Tidied
        <3> QED
            BY <3>2, <3>3
    <2>4. CASE Ends
        BY <1>0, <2>1, <2>4 DEF Tidied, Ends
    <2> QED
        BY <2>1, <2>2, <2>3, <2>4
<1>2. CASE RebaseStarts
    BY <1>2, Starts DEF Tidied
<1>3. CASE NothingToReplay \/ RebaseAbort
    BY <1>3, Aborts DEF Tidied
<1>4. CASE RebaseSkip
    BY <1>0, <1>4, Skips, RebaseStays, Counted DEF Tidied
<1>5. CASE AppliesCleanly \/ AppliesWithConflicts \/ NextRefused
    <2>1. /\ pc = "next" /\ HEAD' = HEAD /\ Brought' = Upcoming.brings
          /\ rebase'.msgnum = rebase.msgnum + 1 /\ pc' \in {"idle", "replay"}
          /\ \/ index'.tree = Tree(HEAD) \cup Upcoming.brings
             \/ index'.tree = Tree(HEAD)
             \/ index' = index
        BY <1>5, Counts
    <2>2. rebase'.msgnum # 0
        BY <2>1, Facts
    <2> QED
        BY <1>0, <2>1, <2>2 DEF Tidied
<1>6. CASE CommitCurrent \/ Commit \/ CherryPick
    <2>1. Tree(HEAD') = index'.tree
        BY <1>6, Adds
    <2>2. CASE CommitCurrent
        <3>1. pc \in {"replay", "resume"} /\ pc' = "next" /\ UNCHANGED rebase
            BY <2>2 DEF CommitCurrent, GoTo
        <3>2. rebase.ops # << >>
            BY <3>1, Counted DEF TypeOK
        <3> QED
            BY <2>1, <3>1, <3>2 DEF Tidied
    <2>3. CASE Commit
        <3>1. pc = "idle" /\ UNCHANGED <<pc, rebase>>
            BY <2>3 DEF Commit, Between
        <3> QED
            BY <1>0, <2>1, <3>1, RebaseStays DEF Tidied
    <2>4. CASE CherryPick
        <3>1. rebase' = NoRebase
            BY <2>4 DEF CherryPick
        <3> QED
            BY <2>1, <3>1, RebaseGone DEF Tidied
    <2> QED
        BY <1>6, <2>2, <2>3, <2>4
<1>7. CASE Finish
    BY <1>0, <1>7, Finishes DEF Tidied
<1>8. ASSUME NEW keep \in BOOLEAN, Resolve(keep)
      PROVE  Tidied'
    BY <1>0, <1>8, Resolves, RebaseStays DEF Tidied
<1>9. CASE Stage
    BY <1>0, <1>9, Stages, RebaseStays DEF Tidied
<1>10. CASE Reset
    BY <1>0, <1>10, Resets DEF Tidied
<1>11. CASE Elsewhere
    BY <1>0, <1>11, Others, RebaseStays DEF Tidied
<1> QED
    BY <1>1, <1>2, <1>3, <1>4, <1>5, <1>6, <1>7, <1>8, <1>9, <1>10, <1>11, NextSteps

\* What was paused at is in conflict, staged or not applied.
LEMMA PausedStep ==
    ASSUME TypeOK, Staged, Replaying, Tidy(world), Tidied, Applied, Paused, Next
    PROVE  Paused'
<1> DEFINE Held == \/ index.unresolved
                   \/ Operation.brings \subseteq index.tree \cup given
                   \/ "stage" \notin world /\ index.tree = Tree(HEAD)
<1>0. /\ world' = world
      /\ InProgress /\ rebase.msgnum # 0 /\ pc \in {"idle", "replay", "resume"} => Held
      /\ Tree(HEAD) \subseteq index.tree
    BY WorldStays DEF Paused, Staged
<1>1. CASE QuietStep
    <2>1. /\ UNCHANGED <<index, rebase, given>> /\ HEAD' = HEAD
          /\ InProgress' = InProgress /\ Operation' = Operation
          /\ Stops \/ GoesOn \/ Ends
        BY <1>1, QuietEffects, RebaseStays DEF repository
    <2>2. ASSUME InProgress, rebase.msgnum # 0, pc' \in {"idle", "replay", "resume"}
          PROVE  Held
        <3>1. CASE pc \in {"idle", "replay", "resume"}
            BY <1>0, <2>2, <3>1
        <3>2. CASE pc = "undo"
            <4>1. rebase.ops = << >>
                BY <2>2, <3>2 DEF Replaying
            <4> QED
                BY <2>2, <4>1, Counted
        <3>3. CASE pc \in {"next", "finish"}
            <4>1. rebase.msgnum \in 1..Behind
                BY <2>2, <3>3, Facts DEF Behind
            <4>2. Operation.brings \subseteq Tree(HEAD) \cup given
                BY <2>2, <4>1 DEF Applied, Operation
            <4> QED
                BY <1>0, <4>2
        <3> QED
            BY <3>1, <3>2, <3>3 DEF TypeOK
    <2> QED
        BY <1>0, <2>1, <2>2 DEF Paused
<1>2. CASE RebaseStarts
    BY <1>2, Starts DEF Paused
<1>3. CASE NothingToReplay \/ RebaseAbort
    BY <1>3, Aborts DEF Paused
<1>4. CASE RebaseSkip
    BY <1>4, Skips DEF Paused
<1>5. CASE AppliesCleanly \/ AppliesWithConflicts \/ NextRefused
    <2>1. /\ pc = "next" /\ HEAD' = HEAD /\ Operation' = Upcoming
          /\ \/ index'.tree = Tree(HEAD) \cup Upcoming.brings
             \/ index'.unresolved
             \/ index' = index /\ (Fits(Tree(HEAD) \cup Upcoming.brings) => "refuse" \in world)
        BY <1>5, Counts
    <2>2. index.tree = Tree(HEAD) /\ ~index.unresolved
        BY <2>1 DEF Tidied, Staged
    <2>3. Fits(Tree(HEAD) \cup Upcoming.brings)
        BY <2>2 DEF Fits
    <2>4. "refuse" \in world => "stage" \notin world
        BY DEF Tidy
    <2> QED
        BY <1>0, <2>1, <2>2, <2>3, <2>4 DEF Paused
<1>6. CASE CommitCurrent \/ Commit \/ CherryPick
    <2>1. CASE CommitCurrent
        BY <2>1 DEF CommitCurrent, GoTo, Paused
    <2>2. CASE Commit
        <3>1. /\ UNCHANGED <<pc, index, rebase, given>> /\ pc = "idle"
              /\ ~index.unresolved /\ index.tree # Tree(HEAD)
            BY <2>2 DEF Commit, Between
        <3> QED
            BY <1>0, <3>1, RebaseStays DEF Paused
    <2>3. CASE CherryPick
        <3>1. rebase' = NoRebase
            BY <2>3 DEF CherryPick
        <3> QED
            BY <3>1, RebaseGone DEF Paused
    <2> QED
        BY <1>6, <2>1, <2>2, <2>3
<1>7. CASE Finish
    BY <1>7, Finishes DEF Paused
<1>8. ASSUME NEW keep \in BOOLEAN, Resolve(keep)
      PROVE  Paused'
    BY <1>8, Resolves, RebaseStays DEF Paused
<1>9. CASE Stage
    BY <1>0, <1>9, Stages, RebaseStays DEF Paused
<1>10. CASE Reset
    BY <1>10, Resets DEF Paused
<1>11. CASE Elsewhere
    BY <1>0, <1>11, Others, RebaseStays DEF Paused
<1> QED
    BY <1>1, <1>2, <1>3, <1>4, <1>5, <1>6, <1>7, <1>8, <1>9, <1>10, <1>11, NextSteps

\* What the operations so far bring stays in HEAD or given up.
LEMMA AppliedStep ==
    ASSUME TypeOK, Staged, Replaying, Tidy(world), Tidied, Applied, Paused, Next
    PROVE  Applied'
<1> DEFINE Kept == Tree(HEAD) \cup given
<1>0. /\ InProgress => \A i \in 1..Behind : rebase.ops[i].brings \subseteq Kept
      /\ told.as = "completed" => \A i \in DOMAIN told.ops : told.ops[i].brings \subseteq Kept
      /\ rebase.msgnum \in Nat
      /\ Behind = IF pc \in {"next", "finish"} THEN rebase.msgnum ELSE rebase.msgnum - 1
      /\ Behind' = IF pc' \in {"next", "finish"} THEN rebase'.msgnum ELSE rebase'.msgnum - 1
    BY Facts DEF Applied, Behind
<1>1. CASE QuietStep
    <2>1. /\ UNCHANGED <<rebase, given>> /\ HEAD' = HEAD /\ told'.as # "completed"
          /\ InProgress' = InProgress
          /\ Stops \/ GoesOn \/ Ends
        BY <1>1, QuietEffects, RebaseStays DEF repository
    <2>2. Behind' <= Behind \/ Behind' = 0
        BY <1>0, <2>1 DEF Stops, GoesOn, Ends
    <2>3. 1..Behind' \subseteq 1..Behind
        BY <1>0, <2>1, <2>2
    <2> QED
        BY <1>0, <2>1, <2>3 DEF Applied
<1>2. CASE RebaseStarts
    <2>1. rebase'.msgnum = 0 /\ told'.as # "completed"
        BY <1>2, Starts
    <2>2. 1..Behind' = {}
        BY <1>0, <2>1
    <2> QED
        BY <2>1, <2>2 DEF Applied
<1>3. CASE NothingToReplay \/ RebaseAbort
    BY <1>3, Aborts DEF Applied
<1>4. CASE RebaseSkip
    <2>1. /\ pc = "idle" /\ pc' = "next" /\ InProgress /\ InProgress'
          /\ rebase' = rebase /\ HEAD' = HEAD
          /\ given' = given \cup IF rebase.msgnum # 0 THEN Operation.brings ELSE {}
          /\ told'.as # "completed"
        BY <1>4, Skips, RebaseStays
    <2>2. ASSUME NEW i \in 1..Behind'
          PROVE  rebase.ops[i].brings \subseteq Tree(HEAD) \cup given'
        <3>1. CASE i = rebase.msgnum
            <4>1. rebase.msgnum # 0
                BY <1>0, <3>1
            <4> QED
                BY <2>1, <3>1, <4>1 DEF Operation
        <3>2. CASE i # rebase.msgnum
            <4>1. i \in 1..Behind
                BY <1>0, <2>1, <3>2
            <4> QED
                BY <1>0, <2>1, <4>1
        <3> QED
            BY <3>1, <3>2
    <2> QED
        BY <2>1, <2>2 DEF Applied
<1>5. CASE AppliesCleanly \/ AppliesWithConflicts \/ NextRefused
    <2>1. /\ pc = "next" /\ pc' \in {"idle", "replay"} /\ InProgress /\ HEAD' = HEAD
          /\ given' = given /\ rebase'.msgnum = rebase.msgnum + 1 /\ rebase'.ops = rebase.ops
          /\ told'.as # "completed"
        BY <1>5, Counts
    <2>2. Behind' = Behind
        BY <1>0, <2>1
    <2> QED
        BY <1>0, <2>1, <2>2 DEF Applied
<1>6. CASE CommitCurrent \/ Commit \/ CherryPick
    <2>1. /\ Tree(HEAD') = index'.tree /\ Tree(HEAD) \subseteq Tree(HEAD')
          /\ given' = given
        BY <1>6, Adds
    <2>2. CASE CommitCurrent
        <3>1. /\ pc \in {"replay", "resume"} /\ pc' = "next" /\ UNCHANGED <<index, rebase>>
              /\ told'.as # "completed" /\ index.tree # Tree(HEAD) /\ ~index.unresolved
            BY <2>2 DEF CommitCurrent, GoTo, Nothing
        <3>2. InProgress /\ InProgress' /\ rebase.msgnum # 0
            BY <3>1, RebaseStays DEF TypeOK
        <3>3. Operation.brings \subseteq index.tree \cup given
            BY <3>1, <3>2 DEF Paused
        <3>4. ASSUME NEW i \in 1..Behind'
              PROVE  rebase.ops[i].brings \subseteq Tree(HEAD') \cup given
            <4>1. CASE i = rebase.msgnum
                BY <2>1, <3>1, <3>3, <4>1 DEF Operation
            <4>2. CASE i # rebase.msgnum
                <5>1. i \in 1..Behind
                    BY <1>0, <3>1, <4>2
                <5> QED
                    BY <1>0, <2>1, <3>2, <5>1
            <4> QED
                BY <4>1, <4>2
        <3> QED
            BY <2>1, <3>1, <3>2, <3>4 DEF Applied
    <2>3. CASE Commit
        <3>1. UNCHANGED <<pc, rebase, told>>
            BY <2>3 DEF Commit, Between
        <3>2. Behind' = Behind /\ InProgress' = InProgress
            BY <1>0, <3>1, RebaseStays
        <3> QED
            BY <1>0, <2>1, <3>1, <3>2 DEF Applied
    <2>4. CASE CherryPick
        <3>1. told' = told /\ ~InProgress'
            BY <2>4, RebaseGone DEF CherryPick, Between
        <3> QED
            BY <1>0, <2>1, <3>1 DEF Applied
    <2> QED
        BY <1>6, <2>2, <2>3, <2>4
<1>7. CASE Finish
    <2>1. /\ pc = "finish" /\ InProgress /\ ~InProgress' /\ HEAD' = HEAD /\ given' = given
          /\ told'.ops = rebase.ops
        BY <1>7, Finishes
    <2>2. Behind = Len(rebase.ops) /\ DOMAIN rebase.ops = 1..Len(rebase.ops)
        BY <1>0, <2>1, Facts DEF Replaying
    <2> QED
        BY <1>0, <2>1, <2>2 DEF Applied
<1>8. ASSUME NEW keep \in BOOLEAN, Resolve(keep)
      PROVE  Applied'
    <2>1. /\ UNCHANGED <<rebase, pc, told>> /\ HEAD' = HEAD /\ given \subseteq given'
          /\ InProgress' = InProgress
        BY <1>8, Resolves, RebaseStays
    <2>2. Behind' = Behind
        BY <1>0, <2>1
    <2> QED
        BY <1>0, <2>1, <2>2 DEF Applied
<1>9. CASE Stage
    <2>1. /\ UNCHANGED <<rebase, pc, told, given>> /\ HEAD' = HEAD
          /\ InProgress' = InProgress
        BY <1>9, Stages, RebaseStays
    <2>2. Behind' = Behind
        BY <1>0, <2>1
    <2> QED
        BY <1>0, <2>1, <2>2 DEF Applied
<1>10. CASE Reset
    BY <1>0, <1>10, Resets DEF Applied
<1>11. CASE Elsewhere
    <2>1. /\ UNCHANGED <<rebase, pc, told, given>> /\ HEAD' = HEAD
          /\ InProgress' = InProgress
        BY <1>11, Others, RebaseStays
    <2>2. Behind' = Behind
        BY <1>0, <2>1
    <2> QED
        BY <1>0, <2>1, <2>2 DEF Applied
<1> QED
    BY <1>1, <1>2, <1>3, <1>4, <1>5, <1>6, <1>7, <1>8, <1>9, <1>10, <1>11, NextSteps

\* No change of the branch is lost.
LEMMA WorkKeptStep ==
    ASSUME TypeOK, Staged, Replaying, StaysGone, Applied, WorkKept, Next
    PROVE  WorkKept'
<1>0. 1..Count \subseteq Tree(branch) \cup given
    BY DEF WorkKept
<1>1. CASE QuietStep \/ RebaseSkip \/ AppliesCleanly \/ AppliesWithConflicts \/ NextRefused
    <2>1. branch' = branch /\ given \subseteq given'
        BY <1>1, QuietEffects, Skips, Counts DEF repository
    <2> QED
        BY <1>0, <2>1 DEF WorkKept
<1>2. CASE RebaseStarts \/ Stage \/ Reset
    BY <1>0, <1>2, Starts, Stages, Resets DEF WorkKept
<1>3. CASE NothingToReplay \/ RebaseAbort
    <2>1. /\ InProgress /\ given' = given \ Tree(rebase.orig)
          /\ branch' = IF rebase.named THEN rebase.orig ELSE branch
        BY <1>3, Aborts
    <2>2. rebase.named => Tree(branch) \subseteq Tree(rebase.orig) \cup {Theirs}
        BY <2>1 DEF Replaying
    <2>3. ((1..Count) \ Tree(branch)) \cap Tree(rebase.orig) = {}
        BY <2>1 DEF StaysGone, Gone
    <2>4. Theirs \notin 1..Count
        BY Facts, RebaseAssumption DEF RebaseAssumption
    <2>5. ASSUME NEW x \in 1..Count, x \notin Tree(branch')
          PROVE  x \in given'
        <3>1. CASE rebase.named
            BY <1>0, <2>1, <2>2, <2>4, <2>5, <3>1
        <3>2. CASE ~rebase.named
            BY <1>0, <2>1, <2>3, <2>5, <3>2
        <3> QED
            BY <3>1, <3>2
    <2> QED
        BY <2>5 DEF WorkKept
<1>4. CASE CommitCurrent \/ Commit \/ CherryPick
    <2>1. given' = given /\ IsPrefix(branch, branch') /\ branch' \in Seq(Commits)
        BY <1>4, Adds
    <2>2. Tree(branch) \subseteq Tree(branch')
        BY <2>1, TreeOfPrefix DEF TypeOK
    <2> QED
        BY <1>0, <2>1, <2>2 DEF WorkKept
<1>5. CASE Finish
    <2>1. /\ pc = "finish" /\ InProgress /\ given' = given
          /\ rebase.named => branch = rebase.orig /\ branch' = HEAD
          /\ ~rebase.named => branch' = branch
        BY <1>5, Finishes
    <2>2. CASE ~rebase.named
        BY <1>0, <2>1, <2>2 DEF WorkKept
    <2>3. CASE rebase.named
        <3>1. Tree(branch) \subseteq Upstream \cup Tree(rebase.ops)
            BY <2>1, <2>3 DEF Replaying
        <3>2. Upstream \subseteq Tree(HEAD)
            BY <2>1, UpstreamIn
        <3>3. Behind = Len(rebase.ops)
            BY <2>1 DEF Behind, Replaying
        <3>4. \A i \in 1..Len(rebase.ops) : rebase.ops[i].brings \subseteq Tree(HEAD) \cup given
            BY <2>1, <3>3 DEF Applied
        <3>5. Tree(rebase.ops) \subseteq Tree(HEAD) \cup given
            BY <3>4, Facts, InTree
        <3> QED
            BY <1>0, <2>1, <2>3, <3>1, <3>2, <3>5 DEF WorkKept
    <2> QED
        BY <2>2, <2>3
<1>6. ASSUME NEW keep \in BOOLEAN, Resolve(keep)
      PROVE  WorkKept'
    BY <1>0, <1>6, Resolves DEF WorkKept
<1>7. CASE Elsewhere
    BY <1>0, <1>7, Others, ElsewhereGrows DEF WorkKept
<1> QED
    BY <1>1, <1>2, <1>3, <1>4, <1>5, <1>6, <1>7, NextSteps

-----------------------------------------------------------------------------
(* The invariant, and what follows                                         *)

\* The branch before any rebase: in order, and with all of its changes.
LEMMA OwnThere ==
    /\ OwnHistory \in Seq(Commits) /\ Tree(OwnHistory) = 1..Count
    /\ Ordered(OwnHistory)
<1>1. Count \in Nat /\ \A i \in 1..Count : [of |-> i, brings |-> {i}] \in Commits
    BY RebaseAssumption DEF RebaseAssumption, Commits, Work, Theirs
<1>2. OwnHistory \in Seq(Commits)
    BY <1>1 DEF OwnHistory
<1>3. /\ DOMAIN OwnHistory = 1..Count
      /\ \A i \in 1..Count : OwnHistory[i] = [of |-> i, brings |-> {i}]
    BY DEF OwnHistory
<1>4. Tree(OwnHistory) = 1..Count
    BY <1>3 DEF Tree
<1>5. Ordered(OwnHistory)
    <2> SUFFICES ASSUME NEW i \in 1..Count, NEW j \in 1..Count, i < j
                 PROVE  OwnHistory[i].of <= OwnHistory[j].of
        BY <1>3 DEF Ordered
    <2>1. OwnHistory[i].of = i /\ OwnHistory[j].of = j
        BY <1>3
    <2> QED
        BY <2>1
<1> QED
    BY <1>2, <1>4, <1>5

\* It holds at the start.
LEMMA InitInv ==
    ASSUME Init
    PROVE  IInv
<1>1. /\ branch = OwnHistory /\ attached = TRUE /\ at = << >> /\ index = Clean(OwnHistory)
      /\ rebase = NoRebase /\ pc = "idle" /\ told = Nothing /\ calls = 0 /\ given = {}
      /\ world \in Worlds
    BY DEF Init
<1>2. /\ OwnHistory \in Seq(Commits) /\ Tree(OwnHistory) = 1..Count /\ Ordered(OwnHistory)
      /\ << >> \in Seq(Commits) /\ Len(<< >>) = 0
    BY OwnThere, EmptySeq
<1>3. /\ index \in Indexes /\ index.tree = 1..Count /\ ~index.unresolved
      /\ HEAD = OwnHistory /\ ~InProgress
    BY <1>1, <1>2, CleanIndex DEF HEAD, InProgress, NoRebase
<1>4. TypeOK
    BY <1>1, <1>2, <1>3, RebaseAssumption
    DEF TypeOK, Indexes, NoRebase, RebaseAssumption
<1>5. Staged /\ Replaying /\ InOrder
    BY <1>1, <1>2, <1>3 DEF Staged, Replaying, InOrder
<1>6. StaysGone
    <2>1. Gone = {Theirs}
        BY <1>1, <1>2 DEF Gone
    <2>2. Theirs \notin Upstream /\ Theirs \notin 1..Count
        BY RebaseAssumption DEF RebaseAssumption, Theirs
    <2> QED
        BY <1>2, <1>3, <2>1, <2>2 DEF StaysGone
<1>7. WorkKept /\ Applied /\ Paused /\ Tidied
    BY <1>1, <1>2, <1>3 DEF WorkKept, Applied, Paused, Tidied, Nothing
<1> QED
    BY <1>4, <1>5, <1>6, <1>7 DEF IInv

\* Nothing of it changes while nothing changes.
LEMMA Stutters ==
    ASSUME IInv, UNCHANGED vars
    PROVE  IInv'
<1> USE DEF vars
<1>1. TypeOK'
    BY CallsCounted, WorldStays DEF IInv, TypeOK, InProgress
<1>2. Staged' /\ Replaying'
    BY DEF IInv, Staged, Replaying, HEAD, Brought, Operation, InProgress
<1>3. InOrder' /\ StaysGone'
    BY DEF IInv, InOrder, StaysGone, Gone, HEAD, InProgress
<1>4. ASSUME Tidy(world)
      PROVE  WorkKept' /\ Applied' /\ Paused' /\ Tidied'
    BY <1>4 DEF IInv, WorkKept, Applied, Paused, Tidied, HEAD, Brought, Operation,
       InProgress, Behind
<1> QED
    BY <1>1, <1>2, <1>3, <1>4 DEF IInv

\* Every step keeps it.
LEMMA StepInv ==
    ASSUME IInv, [Next]_vars
    PROVE  IInv'
<1>1. CASE UNCHANGED vars
    BY <1>1, Stutters
<1>2. CASE Next
    <2>1. TypeOK /\ Staged /\ Replaying /\ InOrder /\ StaysGone
        BY DEF IInv
    <2>2. TypeOK' /\ Staged' /\ Replaying' /\ InOrder' /\ StaysGone'
        BY <1>2, <2>1, TypeStep, StagedStep, ReplayingStep, InOrderStep, StaysGoneStep
    <2>3. world' = world
        BY <1>2, WorldStays
    <2>4. ASSUME Tidy(world)
          PROVE  WorkKept' /\ Applied' /\ Paused' /\ Tidied'
        <3>1. WorkKept /\ Applied /\ Paused /\ Tidied
            BY <2>4 DEF IInv
        <3> QED
            BY <1>2, <2>1, <2>4, <3>1, WorkKeptStep, AppliedStep, PausedStep, TidiedStep
    <2>5. Tidy(world') => WorkKept' /\ Applied' /\ Paused' /\ Tidied'
        BY <2>3, <2>4
    <2> QED
        BY <2>2, <2>5 DEF IInv
<1> QED
    BY <1>1, <1>2

\* The invariant holds throughout.
THEOREM Invariant == Spec => []IInv
<1>1. Init => IInv
    BY InitInv
<1>2. IInv /\ [Next]_vars => IInv'
    BY StepInv
<1> QED
    BY <1>1, <1>2, PTL DEF Spec

\* Whatever calls are made, in whatever order and with whatever happens
\* between them and in them, the commits are replayed in the order they were
\* made, behind the whole of upstream.
THEOREM InOrderThroughout == Spec => []ReplayedInOrder
<1>1. IInv => ReplayedInOrder
    <2> SUFFICES ASSUME IInv, InProgress
                 PROVE  IsPrefix(UpstreamHistory, HEAD) /\ Ordered(HEAD)
        BY DEF ReplayedInOrder, Ordered
    <2> QED
        BY UpstreamIn DEF IInv, InOrder
<1> QED
    BY <1>1, Invariant, PTL

\* The branch moves once: to the whole of the replayed history when the
\* rebase finishes, or back to where it was.
THEOREM MovesOnce == Spec => BranchMovesOnce
<1> DEFINE Once == branch' # branch =>
                      \/ IsPrefix(branch, branch')
                      \/ InProgress /\ ~InProgress' /\ branch' \in {rebase.orig, HEAD}
<1>1. IInv /\ [Next]_vars => [Once]_vars
    <2> SUFFICES ASSUME IInv, Next
                 PROVE  Once
        OBVIOUS
    <2> USE DEF IInv
    <2>1. CASE QuietStep \/ RebaseSkip \/ AppliesCleanly \/ AppliesWithConflicts \/ NextRefused
        BY <2>1, QuietEffects, Skips, Counts DEF repository
    <2>2. CASE RebaseStarts \/ Stage \/ Reset
        BY <2>2, Starts, Stages, Resets
    <2>3. CASE NothingToReplay \/ RebaseAbort
        BY <2>3, Aborts
    <2>4. CASE CommitCurrent \/ Commit \/ CherryPick
        BY <2>4, Adds
    <2>5. CASE Finish
        BY <2>5, Finishes
    <2>6. ASSUME NEW keep \in BOOLEAN, Resolve(keep)
          PROVE  Once
        BY <2>6, Resolves
    <2>7. CASE Elsewhere
        BY <2>7, ElsewhereGrows
    <2> QED
        BY <2>1, <2>2, <2>3, <2>4, <2>5, <2>6, <2>7, NextSteps
<1> QED
    BY <1>1, Invariant, PTL DEF Spec, BranchMovesOnce

\* What others commit to the branch while it is being rebased is dropped by
\* an abort only, never by a rebase that finishes.
THEOREM OthersKept == Spec => ElsewhereKept
<1> DEFINE Keeps == (Theirs \in Tree(branch) \ Tree(branch')) =>
                        told'.as \in {"aborted", "alreadyUpToDate"}
<1>1. IInv /\ [Next]_vars => [Keeps]_vars
    <2> SUFFICES ASSUME IInv, Next
                 PROVE  Keeps
        OBVIOUS
    <2> USE DEF IInv
    <2>1. CASE QuietStep \/ RebaseSkip \/ AppliesCleanly \/ AppliesWithConflicts \/ NextRefused
        BY <2>1, QuietEffects, Skips, Counts DEF repository
    <2>2. CASE RebaseStarts \/ Stage \/ Reset
        BY <2>2, Starts, Stages, Resets
    <2>3. CASE NothingToReplay \/ RebaseAbort
        BY <2>3, Aborts
    <2>4. CASE CommitCurrent \/ Commit \/ CherryPick
        <3>1. IsPrefix(branch, branch') /\ branch' \in Seq(Commits)
            BY <2>4, Adds
        <3> QED
            BY <3>1, TreeOfPrefix DEF TypeOK
    <2>5. CASE Finish
        <3>1. /\ InProgress
              /\ rebase.named => branch = rebase.orig
              /\ ~rebase.named => branch' = branch
            BY <2>5, Finishes
        <3>2. Theirs \notin Tree(rebase.orig)
            BY <3>1 DEF StaysGone, Gone
        <3> QED
            BY <3>1, <3>2
    <2>6. ASSUME NEW keep \in BOOLEAN, Resolve(keep)
          PROVE  Keeps
        BY <2>6, Resolves
    <2>7. CASE Elsewhere
        BY <2>7, ElsewhereGrows
    <2> QED
        BY <2>1, <2>2, <2>3, <2>4, <2>5, <2>6, <2>7, NextSteps
<1> QED
    BY <1>1, Invariant, PTL DEF Spec, ElsewhereKept

\* Where nothing else is staged when an operation is refused or a process
\* dies, no change of the branch is ever lost: it is in the branch, or its
\* caller gave it up.
THEOREM WorkStays == Spec => [](Tidy(world) => WorkKept)
<1>1. IInv => (Tidy(world) => WorkKept)
    BY DEF IInv
<1> QED
    BY <1>1, Invariant, PTL

\* There a rebase that reports it completed has applied every operation its
\* caller did not give up.
THEOREM AllApplied == Spec => [](Tidy(world) => EveryOperationApplied)
<1>1. IInv => (Tidy(world) => EveryOperationApplied)
    BY DEF IInv, Applied, EveryOperationApplied
<1> QED
    BY <1>1, Invariant, PTL
=============================================================================
