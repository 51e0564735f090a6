-------------------------- MODULE ProcessReapProofs --------------------------
(***************************************************************************)
(* Proofs about ProcessReap, for any threads, connections, numbers and     *)
(* grace periods, whatever the host and the children do: no child is left  *)
(* once its connection is closed, and where nobody but the reap waits for  *)
(* children a signal reaches the thread's own.  Behind them, proofs about  *)
(* the transport a program supplies instead, SSHTransport.                 *)
(***************************************************************************)
EXTENDS ProcessReap, SSHTransport, FiniteSetTheorems, SequenceTheorems,
        WellFoundedInduction, TLAPS

\* The step of a thread or of the kernel that is taken.
ThreadStep(t) ==
    Start(t) \/ Close(t) \/ gitkit_process_reap(t) \/ Interrupted(t)

\* What becomes of t's children, of its git_process and of where it is, is
\* all the invariant is about.
Sound(t) ==
    /\ Own(t) \subseteq {process[t]}
    /\ At(t, "idle") \/ At(t, "reaped") => Own(t) = {}

\* No thread is Nobody.
LEMMA Someone ==
    ASSUME NEW t \in Threads
    PROVE  t # Nobody
BY ReapAssumption DEF ReapAssumption

\* A signal and an end change what they change of a child, and not whose it is.
LEMMA ChildChanges ==
    ASSUME NEW c \in Children, NEW s \in {"none", "term", "kill"}
    PROVE  /\ [c EXCEPT !.signal = s] \in Children
           /\ [c EXCEPT !.signal = s].of = c.of
           /\ [c EXCEPT !.state = "zombie"] \in Children
           /\ [c EXCEPT !.state = "zombie"].of = c.of
BY DEF Children

\* A signal keeps the table a table, and every child whose it was.
LEMMA SignalKeeps ==
    ASSUME OwnInvariant, NEW p, NEW s \in {"none", "term", "kill"},
           child' = [child EXCEPT ![p].signal = s]
    PROVE  /\ child' \in [{NoPid} \cup Pids -> Children]
           /\ \A n \in Pids : child'[n].of = child[n].of
BY ChildChanges DEF OwnInvariant

\* So does the end of a child.
LEMMA EndKeeps ==
    ASSUME OwnInvariant, NEW p, child' = [child EXCEPT ![p].state = "zombie"]
    PROVE  /\ child' \in [{NoPid} \cup Pids -> Children]
           /\ \A n \in Pids : child'[n].of = child[n].of
BY ChildChanges DEF OwnInvariant

\* What Terminate and Kill do to the table.
LEMMA StruckKeeps ==
    ASSUME OwnInvariant, NEW t \in Threads, Terminate(t) \/ Kill(t)
    PROVE  /\ child' \in [{NoPid} \cup Pids -> Children]
           /\ \A n \in Pids : child'[n].of = child[n].of
<1>1. CASE child' = child
  BY <1>1 DEF OwnInvariant
<1>2. CASE child' = [child EXCEPT ![process[t]].signal = "term"]
  BY <1>2, SignalKeeps
<1>3. CASE child' = [child EXCEPT ![process[t]].signal = "kill"]
  BY <1>3, SignalKeeps
<1> QED
  BY <1>1, <1>2, <1>3 DEF Terminate, Kill, Signalled

\* A step keeps the table, the threads and their git_processes functions of
\* what they are.
LEMMA DomainsStep ==
    ASSUME OwnInvariant, [Next]_vars
    PROVE  /\ child' \in [{NoPid} \cup Pids -> Children]
           /\ DOMAIN pc' = Threads /\ DOMAIN process' = Threads
<1>1. DOMAIN pc' = Threads /\ DOMAIN process' = Threads
  BY DEF OwnInvariant, Next, vars, Start, Close, EnterReap, GoTo,
     gitkit_process_reap, Polled, Sleep, Terminate, Kill, Waited, Reaped,
     Interrupted, Ends, HostReaps, Elsewhere
<1>2. child' \in [{NoPid} \cup Pids -> Children]
  <2>1. CASE UNCHANGED child
    BY <2>1 DEF OwnInvariant
  <2>2. ASSUME NEW t \in Threads, Start(t)
        PROVE  child' \in [{NoPid} \cup Pids -> Children]
    BY <2>2 DEF Start, OwnInvariant, Children
  <2>3. ASSUME NEW t \in Threads, Polled(t) \/ Waited(t)
        PROVE  child' \in [{NoPid} \cup Pids -> Children]
    BY <2>3 DEF Polled, Waited, OwnInvariant, Children, Gone
  <2>4. ASSUME NEW t \in Threads, Terminate(t) \/ Kill(t)
        PROVE  child' \in [{NoPid} \cup Pids -> Children]
    BY <2>4, StruckKeeps
  <2>5. ASSUME NEW t \in Threads,
               Close(t) \/ Sleep(t) \/ Reaped(t) \/ Interrupted(t)
        PROVE  UNCHANGED child
    BY <2>5 DEF Close, Sleep, Reaped, Interrupted
  <2>6. ASSUME NEW n \in Pids, Ends(n)
        PROVE  child' \in [{NoPid} \cup Pids -> Children]
    BY <2>6, EndKeeps DEF Ends
  <2>7. ASSUME NEW n \in Pids, HostReaps(n)
        PROVE  child' \in [{NoPid} \cup Pids -> Children]
    BY <2>7 DEF HostReaps, OwnInvariant, Children, Gone
  <2>8. CASE UNCHANGED vars
    BY <2>1, <2>8 DEF vars
  <2>9. CASE Elsewhere
    BY <2>1, <2>9 DEF Elsewhere
  <2> QED
    BY <2>1, <2>2, <2>3, <2>4, <2>5, <2>6, <2>7, <2>8, <2>9
    DEF Next, gitkit_process_reap
<1> QED
  BY <1>1, <1>2

\* A step of one thread never makes a child of another's.
LEMMA OthersKeep ==
    ASSUME OwnInvariant, NEW t \in Threads, ThreadStep(t),
           NEW u \in Threads \ {t}
    PROVE  Sound(u)'
<1> USE DEF OwnInvariant, GoTo, At
<1>1. process'[u] = process[u] /\ pc'[u] = pc[u]
  BY DEF ThreadStep, Start, Close, EnterReap, gitkit_process_reap, Polled,
     Sleep, Terminate, Kill, Waited, Reaped, Interrupted
<1>2. ASSUME NEW n \in Pids, child'[n].of = u
      PROVE  child[n].of = u
  <2>1. CASE Start(t)
    BY <1>2, <2>1 DEF Start
  <2>2. CASE Terminate(t) \/ Kill(t)
    BY <1>2, <2>2, StruckKeeps
  <2>3. CASE Polled(t) \/ Waited(t)
    BY <1>2, <2>3, Someone DEF Polled, Waited, Gone
  <2>4. CASE Close(t) \/ Sleep(t) \/ Reaped(t) \/ Interrupted(t)
    BY <1>2, <2>4 DEF Close, Sleep, Reaped, Interrupted
  <2> QED
    BY <2>1, <2>2, <2>3, <2>4 DEF ThreadStep, gitkit_process_reap
<1> QED
  BY <1>1, <1>2 DEF Sound, Own

\* Nor does what the children and the host do.
LEMMA KernelKeeps ==
    ASSUME OwnInvariant, NEW n \in Pids, Ends(n) \/ HostReaps(n),
           NEW u \in Threads
    PROVE  Sound(u)'
<1>1. UNCHANGED <<process, pc>>
  BY DEF Ends, HostReaps
<1>2. ASSUME NEW m \in Pids, child'[m].of = u
      PROVE  child[m].of = u
  <2>1. CASE Ends(n)
    BY <1>2, <2>1, EndKeeps DEF Ends
  <2>2. CASE HostReaps(n)
    BY <1>2, <2>2, Someone DEF HostReaps, Gone, OwnInvariant
  <2> QED
    BY <2>1, <2>2
<1> QED
  BY <1>1, <1>2 DEF Sound, Own, OwnInvariant, At

\* A thread's own step starts the one child there is, waits for it, or leaves
\* it where the reap goes on.
LEMMA OwnKeeps ==
    ASSUME OwnInvariant, NEW t \in Threads, ThreadStep(t)
    PROVE  Sound(t)'
<1> USE DEF OwnInvariant, GoTo, At
<1>1. CASE Start(t)
  <2>1. Own(t) = {} /\ pc'[t] = "open"
    BY <1>1 DEF Start
  <2>2. CASE UNCHANGED <<child, process>>
    BY <2>1, <2>2 DEF Sound, Own
  <2>3. CASE /\ child' = [child EXCEPT ![NextPid] =
                             [state |-> "running", of |-> t, signal |-> "none"]]
             /\ process' = [process EXCEPT ![t] = NextPid]
    BY <2>1, <2>3 DEF Sound, Own
  <2> QED
    BY <1>1, <2>2, <2>3 DEF Start
<1>2. CASE Polled(t) \/ Waited(t)
  <2>1. /\ process' = process
        /\ child' = [child EXCEPT ![process[t]] = Gone]
    BY <1>2 DEF Polled, Waited
  <2>2. Own(t)' = {}
    BY <2>1, Someone DEF Own, Gone
  <2> QED
    BY <2>2 DEF Sound
<1>3. CASE Terminate(t) \/ Kill(t)
  <2>1. process' = process /\ pc'[t] \in {"pollAgain", "wait"}
    BY <1>3 DEF Terminate, Kill
  <2>2. \A n \in Pids : child'[n].of = child[n].of
    BY <1>3, StruckKeeps
  <2> QED
    BY <2>1, <2>2 DEF Sound, Own
<1>4. CASE Close(t)
  <2>1. UNCHANGED <<child, process>>
    BY <1>4 DEF Close
  <2>2. CASE process[t] = NoPid
    <3>1. Own(t) = {}
      BY <2>2 DEF Own, Pids, NoPid
    <3> QED
      BY <2>1, <3>1 DEF Sound, Own
  <2>3. CASE process[t] # NoPid
    <3>1. pc'[t] = "poll"
      BY <1>4, <2>3 DEF Close, EnterReap
    <3> QED
      BY <2>1, <3>1 DEF Sound, Own
  <2> QED
    BY <2>2, <2>3
<1>5. CASE Sleep(t) \/ Interrupted(t)
  <2>1. /\ UNCHANGED <<child, process>>
        /\ pc'[t] \in {"poll", "pollAgain", "term", "kill", "wait"}
    BY <1>5 DEF Sleep, Interrupted, Polling
  <2> QED
    BY <2>1 DEF Sound, Own
<1>6. CASE Reaped(t)
  <2>1. Own(t) = {} /\ child' = child
    BY <1>6 DEF Reaped
  <2> QED
    BY <2>1 DEF Sound, Own
<1> QED
  BY <1>1, <1>2, <1>3, <1>4, <1>5, <1>6 DEF ThreadStep, gitkit_process_reap

\* Every step keeps the invariant.
LEMMA InvariantStep ==
    ASSUME OwnInvariant, [Next]_vars
    PROVE  OwnInvariant'
<1> SUFFICES ASSUME NEW u \in Threads
             PROVE  Sound(u)'
  BY DomainsStep DEF OwnInvariant, Sound
<1>1. ASSUME NEW t \in Threads, ThreadStep(t)
      PROVE  Sound(u)'
  BY <1>1, OwnKeeps, OthersKeep
<1>2. ASSUME NEW n \in Pids, Ends(n) \/ HostReaps(n)
      PROVE  Sound(u)'
  BY <1>2, KernelKeeps
<1>3. CASE UNCHANGED <<child, process, pc>>
  BY <1>3 DEF OwnInvariant, Sound, Own, At
<1>4. CASE Elsewhere \/ UNCHANGED vars
  BY <1>3, <1>4 DEF Elsewhere, vars
<1> QED
  BY <1>1, <1>2, <1>4 DEF Next, ThreadStep

\* The invariant holds: a thread has at most the child its git_process names.
THEOREM Invariance == Spec => []OwnInvariant
<1>1. Init => OwnInvariant
  BY Someone DEF Init, OwnInvariant, Own, Gone, At, Children
<1> QED
  BY <1>1, InvariantStep, PTL DEF Spec

\* Once a connection has been closed and freed the kernel holds no child of
\* it, running or zombie (gitkit_process_reap.h): the reap leaves its loop
\* only when the child is gone, and the second one, with the pid that was
\* left set, reaps nothing of the thread's.
THEOREM ChildrenGone == Spec => []NoChildLeft
<1>1. OwnInvariant => NoChildLeft
  BY DEF OwnInvariant, NoChildLeft
<1> QED
  BY <1>1, Invariance, PTL

-----------------------------------------------------------------------------
(***************************************************************************)
(* Whom a signal reaches.                                                  *)
(***************************************************************************)

\* The remainder in Turn is taken of less than twice PidMax.
LEMMA Remainder ==
    ASSUME NEW P \in Nat \ {0}, NEW l \in 0..P, NEW m \in 1..P
    PROVE  /\ (m + P - l - 1) % P = IF m <= l THEN m + P - l - 1 ELSE m - l - 1
           /\ (m + P - l - 1) % P \in 0..(P - 1)
<1>1. CASE m <= l
  <2>1. m + P - l - 1 \in 0..(P - 1)
    BY <1>1
  <2> QED
    BY <1>1, <2>1
<1>2. CASE ~(m <= l)
  <2>1. m - l - 1 \in 0..(P - 1) /\ m + P - l - 1 = (m - l - 1) + P
    BY <1>2
  <2>2. \A a \in 0..(P - 1) : (a + P) % P = a
    OBVIOUS
  <2> QED
    BY <1>2, <2>1, <2>2
<1> QED
  BY <1>1, <1>2

\* How far a number is from its turn, without the remainder.
LEMMA TurnForm ==
    ASSUME last \in {NoPid} \cup Pids, NEW n \in Pids
    PROVE  /\ Turn(n) = IF n <= last THEN n + PidMax - last - 1
                                     ELSE n - last - 1
           /\ Turn(n) \in 0..(PidMax - 1)
<1>1. PidMax \in Nat \ {0} /\ last \in 0..PidMax /\ n \in 1..PidMax
  BY ReapAssumption DEF ReapAssumption, Pids, NoPid
<1> QED
  BY <1>1, Remainder DEF Turn

\* The same after a step.
LEMMA TurnFormNext ==
    ASSUME last' \in {NoPid} \cup Pids, NEW n \in Pids
    PROVE  /\ Turn(n)' = IF n <= last' THEN n + PidMax - last' - 1
                                       ELSE n - last' - 1
           /\ Turn(n)' \in 0..(PidMax - 1)
<1>1. PidMax \in Nat \ {0} /\ last' \in 0..PidMax /\ n \in 1..PidMax
  BY ReapAssumption DEF ReapAssumption, Pids, NoPid
<1> QED
  BY <1>1, Remainder DEF Turn

\* Among numbers that have turns one comes first.
LEMMA FirstInTurn ==
    ASSUME last \in {NoPid} \cup Pids, NEW S, S \subseteq Pids, S # {}
    PROVE  \E n \in S : \A m \in S : Turn(n) <= Turn(m)
<1> DEFINE Upto == {0..Turn(n) : n \in S}
<1>1. \A n \in S : Turn(n) \in Nat
  BY TurnForm
<1>2. Upto \subseteq FiniteSubsetsOf(Nat)
  <2>1. \A n \in S : IsFiniteSet(0..Turn(n)) /\ 0..Turn(n) \subseteq Nat
    <3>1. ASSUME NEW k \in Nat PROVE IsFiniteSet(0..k) /\ 0..k \subseteq Nat
      BY FS_Interval
    <3> QED
      BY <1>1, <3>1
  <2> QED
    BY <2>1 DEF FiniteSubsetsOf
<1>3. PICK x \in Upto :
         \A y \in Upto : ~ (<<y, x>> \in StrictSubsetOrdering(Nat))
  <2>1. Upto # {}
    OBVIOUS
  <2> HIDE DEF Upto
  <2> QED
    BY <1>2, <2>1, WFMin, FS_StrictSubsetOrderingWellFounded
<1>4. PICK n \in S : x = 0..Turn(n)
  BY <1>3
<1>5. ASSUME NEW m \in S PROVE Turn(n) <= Turn(m)
  <2>1. ASSUME NEW a \in Nat, NEW b \in Nat,
               ~ (<<0..a, 0..b>> \in StrictSubsetOrdering(Nat))
        PROVE  b <= a
    <3> SUFFICES ASSUME a < b PROVE FALSE
      OBVIOUS
    <3>1. 0..a \subseteq 0..b /\ b \in 0..b /\ b \notin 0..a
      OBVIOUS
    <3>2. 0..a \in SUBSET Nat /\ 0..b \in SUBSET Nat
      OBVIOUS
    <3> QED
      BY <2>1, <3>1, <3>2 DEF StrictSubsetOrdering
  <2>2. ~ (<<0..Turn(m), 0..Turn(n)>> \in StrictSubsetOrdering(Nat))
    BY <1>3, <1>4
  <2> QED
    BY <1>1, <2>1, <2>2
<1> QED
  BY <1>5

\* The number handed out is a free one, and the first of them in turn.
LEMMA NextIsFirst ==
    ASSUME last \in {NoPid} \cup Pids, Free # {}
    PROVE  /\ NextPid \in Free
           /\ \A m \in Free : Turn(NextPid) <= Turn(m)
<1>1. \E n \in Free : \A m \in Free : Turn(n) <= Turn(m)
  BY FirstInTurn DEF Free
<1> QED
  BY <1>1 DEF NextPid

\* Once a free number has been handed out the turns are counted from it.
LEMMA TurnPasses ==
    ASSUME last \in {NoPid} \cup Pids, NEW q \in Pids, last' = q, NEW n \in Pids
    PROVE  Turn(n)' = IF Turn(n) > Turn(q) THEN Turn(n) - Turn(q) - 1
                      ELSE Turn(n) + PidMax - Turn(q) - 1
<1>1. PidMax \in Nat \ {0} /\ last \in 0..PidMax /\ n \in 1..PidMax /\ q \in 1..PidMax
  BY ReapAssumption DEF ReapAssumption, Pids, NoPid
<1>2. Turn(n) = IF n <= last THEN n + PidMax - last - 1 ELSE n - last - 1
  BY TurnForm
<1>3. Turn(q) = IF q <= last THEN q + PidMax - last - 1 ELSE q - last - 1
  BY TurnForm
<1>4. Turn(n)' = IF n <= q THEN n + PidMax - q - 1 ELSE n - q - 1
  BY TurnFormNext
<1>5. ASSUME NEW P \in Nat, NEW l \in 0..P, NEW a \in 1..P, NEW b \in 1..P,
             NEW A, NEW B, NEW C,
             A = IF a <= l THEN a + P - l - 1 ELSE a - l - 1,
             B = IF b <= l THEN b + P - l - 1 ELSE b - l - 1,
             C = IF a <= b THEN a + P - b - 1 ELSE a - b - 1
      PROVE  C = IF A > B THEN A - B - 1 ELSE A + P - B - 1
  BY <1>5
<1> QED
  BY <1>1, <1>2, <1>3, <1>4, <1>5

\* No two numbers have the same turn.
LEMMA TurnsDiffer ==
    ASSUME last \in {NoPid} \cup Pids, NEW n \in Pids, NEW m \in Pids,
           Turn(n) = Turn(m)
    PROVE  n = m
<1>1. PidMax \in Nat \ {0} /\ last \in 0..PidMax /\ n \in 1..PidMax /\ m \in 1..PidMax
  BY ReapAssumption DEF ReapAssumption, Pids, NoPid
<1>2. Turn(n) = IF n <= last THEN n + PidMax - last - 1 ELSE n - last - 1
  BY TurnForm
<1>3. Turn(m) = IF m <= last THEN m + PidMax - last - 1 ELSE m - last - 1
  BY TurnForm
<1>4. ASSUME NEW P \in Nat, NEW l \in 0..P, NEW a \in 1..P, NEW b \in 1..P,
             (IF a <= l THEN a + P - l - 1 ELSE a - l - 1) =
             (IF b <= l THEN b + P - l - 1 ELSE b - l - 1)
      PROVE  a = b
  BY <1>4
<1> QED
  BY <1>1, <1>2, <1>3, <1>4

\* What a thread's connection has to reckon with can be counted: the numbers,
\* and the other threads.
LEMMA Countable ==
    ASSUME NEW t \in Threads
    PROVE  /\ IsFiniteSet(Pids) /\ Cardinality(Pids) = PidMax
           /\ \A S \in SUBSET Pids : IsFiniteSet(S) /\ Cardinality(S) \in Nat
           /\ Cardinality(Threads) \in Nat
           /\ IsFiniteSet(Threads \ {t})
           /\ Cardinality(Threads \ {t}) = Cardinality(Threads) - 1
<1>1. PidMax \in Nat \ {0} /\ IsFiniteSet(Threads)
  BY ReapAssumption DEF ReapAssumption
<1>2. IsFiniteSet(Pids) /\ Cardinality(Pids) = PidMax
  BY <1>1, FS_Interval DEF Pids
<1>3. \A S \in SUBSET Pids : IsFiniteSet(S) /\ Cardinality(S) \in Nat
  BY <1>2, FS_Subset, FS_CardinalityType
<1>4. Cardinality(Threads) \in Nat
  BY <1>1, FS_CardinalityType
<1>5. /\ IsFiniteSet(Threads \ {t})
      /\ Cardinality(Threads \ {t}) = Cardinality(Threads) - 1
  BY <1>1, FS_RemoveElement
<1> QED
  BY <1>2, <1>3, <1>4, <1>5

\* Until the numbers come round, the number a connection has is not another's
\* and most numbers are to be had before its turn.
Kept(t) ==
    /\ child[process[t]].of \in {t, Nobody}
    /\ Cardinality(Taken(t)) + 1 <= passed[t] + Cardinality(Threads)

\* What is held of each thread: the numbers it relies on are not handed out
\* anew, and what it is about to strike is its own.
Held(t) ==
    /\ At(t, "idle") => process[t] = NoPid
    /\ ~round /\ process[t] # NoPid => Kept(t)
    /\ ~round /\ "hostReaps" \notin world /\ (At(t, "term") \/ At(t, "kill")) =>
          child[process[t]].of = t

\* A child that is there is some thread's, whose git_process names it.
LEMMA Holder ==
    ASSUME OwnInvariant, StrikeInvariant,
           NEW n \in {NoPid} \cup Pids, child[n] # Gone
    PROVE  /\ n \in Pids /\ child[n].of \in Threads
           /\ process[child[n].of] = n
BY DEF StrikeInvariant, OwnInvariant, Own

\* A running child is there.
LEMMA RunningIsThere ==
    ASSUME NEW n, Running(n)
    PROVE  child[n] # Gone
BY DEF Running, Gone

\* A step that hands no number out costs nobody one.
LEMMA Quiet ==
    ASSUME StrikeInvariant, NEW t \in Threads, ~round,
           UNCHANGED <<last, passed>>, process'[t] \in {process[t], NoPid},
           \A n \in Pids : child'[n].of \in {child[n].of, Nobody}
    PROVE  process'[t] # NoPid => Kept(t)'
<1> SUFFICES ASSUME process'[t] # NoPid
             PROVE  Kept(t)'
  OBVIOUS
<1>1. process'[t] = process[t] /\ process[t] \in Pids /\ process[t] # NoPid
  BY DEF StrikeInvariant
<1>2. child'[process'[t]].of \in {t, Nobody}
  BY <1>1 DEF StrikeInvariant
<1>3. \A n \in Pids : Turn(n)' = Turn(n)
  BY DEF Turn
<1>4. Turn(process[t])' = Turn(process[t])
  BY <1>1 DEF Turn
<1>5. Taken(t)' \subseteq Taken(t)
  BY <1>1, <1>3, <1>4, Someone DEF Taken
<1>6. Taken(t) \in SUBSET Pids
  BY DEF Taken
<1>7. IsFiniteSet(Taken(t)) /\ Cardinality(Taken(t)) \in Nat
  BY <1>6, Countable
<1>8. Cardinality(Taken(t)') <= Cardinality(Taken(t)) /\ Cardinality(Taken(t)') \in Nat
  BY <1>5, <1>7, FS_Subset, FS_CardinalityType
<1>9. Cardinality(Taken(t)) + 1 <= passed[t] + Cardinality(Threads)
  BY <1>1 DEF StrikeInvariant
<1>10. passed[t] \in Nat /\ passed'[t] = passed[t] /\ Cardinality(Threads) \in Nat
  BY Countable DEF StrikeInvariant
<1>11. Cardinality(Taken(t)') + 1 <= passed'[t] + Cardinality(Threads)
  BY <1>7, <1>8, <1>9, <1>10
<1> QED
  BY <1>2, <1>11 DEF Kept

\* What Start does when the fork goes through.
Forked(u) ==
    /\ HandOut
    /\ child' = [child EXCEPT ![NextPid] =
                    [state |-> "running", of |-> u, signal |-> "none"]]
    /\ process' = [process EXCEPT ![u] = NextPid]

\* What is handed out is a free number, next in turn, and counts as passed in
\* every connection there is.
LEMMA HandedOut ==
    ASSUME StrikeInvariant, HandOut
    PROVE  /\ NextPid \in Pids /\ NextPid # NoPid /\ child[NextPid] = Gone
           /\ \A m \in Free : Turn(NextPid) <= Turn(m)
           /\ last' = NextPid
           /\ passed' \in [Threads -> Nat]
           /\ ~round' => ~round
           /\ \A t \in Threads : process[t] = NoPid => passed'[t] = 0
           /\ ~round' => \A t \in Threads : process[t] # NoPid =>
                 /\ passed'[t] = passed[t] + 1
                 /\ passed[t] + Cardinality(Threads) < PidMax
<1>1. NextPid \in Free /\ \A m \in Free : Turn(NextPid) <= Turn(m)
  BY NextIsFirst DEF HandOut, StrikeInvariant
<1> HIDE DEF NextPid
<1>2. NextPid \in Pids /\ NextPid # NoPid /\ child[NextPid] = Gone
  BY <1>1 DEF Free, Pids, NoPid
<1>3. \A t \in Threads : passed[t] \in Nat /\ passed[t] + 1 \in Nat
  BY DEF StrikeInvariant
<1>4. passed' \in [Threads -> Nat]
  BY <1>3 DEF HandOut
<1>5. \A t \in Threads : process[t] = NoPid => passed'[t] = 0
  BY DEF HandOut
<1>6. ASSUME ~round', NEW t \in Threads, process[t] # NoPid
      PROVE  /\ passed'[t] = passed[t] + 1
             /\ passed[t] + Cardinality(Threads) < PidMax
  <2>1. ~ (passed[t] + Cardinality(Threads) >= PidMax)
    BY <1>6 DEF HandOut
  <2>2. PidMax \in Nat /\ Cardinality(Threads) \in Nat
    BY Countable, ReapAssumption DEF ReapAssumption
  <2>3. passed'[t] = passed[t] + 1
    BY <1>6 DEF HandOut
  <2> QED
    BY <1>3, <2>1, <2>2, <2>3
<1>7. ~round' => ~round
  BY DEF HandOut
<1> QED
  BY <1>1, <1>2, <1>4, <1>5, <1>6, <1>7 DEF HandOut

\* A thread that has been given a number has lost none to the others but those
\* of their children, of which each has one at the most.
LEMMA OwnStart ==
    ASSUME OwnInvariant, StrikeInvariant, NEW t \in Threads, At(t, "idle"), Forked(t)
    PROVE  Kept(t)' /\ process'[t] # NoPid
<1>1. process[t] = NoPid /\ passed'[t] = 0
  BY HandedOut DEF StrikeInvariant, Forked
<1>2. PICK q : q = NextPid
  OBVIOUS
<1>3. q \in Pids /\ child[q] = Gone /\ q # NoPid /\ last' = q
  BY <1>2, HandedOut DEF Forked
<1>4. /\ process'[t] = q
      /\ child' = [child EXCEPT ![q] =
                      [state |-> "running", of |-> t, signal |-> "none"]]
  BY <1>2 DEF Forked, StrikeInvariant
<1>5. child'[q].of = t /\ \A n \in Pids \ {q} : child'[n] = child[n]
  BY <1>3, <1>4 DEF OwnInvariant
<1>6. Turn(process[t])' = PidMax - 1
  <2>1. Turn(q)' = IF q <= q THEN q + PidMax - q - 1 ELSE q - q - 1
    BY <1>3, TurnFormNext
  <2>2. Turn(process[t])' = Turn(q)'
    BY <1>4 DEF Turn
  <2> QED
    BY <1>3, <2>1, <2>2, ReapAssumption DEF ReapAssumption, Pids
<1>7. \A n \in Pids : ~ (Turn(n)' > Turn(process[t])')
  <2>1. \A n \in Pids : Turn(n)' \in 0..(PidMax - 1)
    BY <1>3, TurnFormNext
  <2> QED
    BY <1>6, <2>1, ReapAssumption DEF ReapAssumption
<1>8. Taken(t)' \subseteq {n \in Pids : child[n].of \in Threads \ {t}}
  BY <1>5, <1>7 DEF Taken
<1>9. \A n \in Taken(t)' : \E u \in Threads \ {t} : process[u] = n
  <2> TAKE n \in Taken(t)'
  <2>1. n \in Pids /\ child[n].of \in Threads \ {t}
    BY <1>8
  <2>2. PICK u \in Threads \ {t} : u = child[n].of
    BY <2>1
  <2>3. process[u] = n
    BY <2>1, <2>2 DEF OwnInvariant, Own
  <2> QED
    BY <2>3
<1>10. /\ Cardinality(Taken(t)') \in Nat
       /\ Cardinality(Taken(t)') <= Cardinality(Threads) - 1
  <2> DEFINE C == {u \in Threads \ {t} : process[u] \in Taken(t)'}
             f == [u \in C |-> process[u]]
  <2>1. f \in Surjection(C, Taken(t)')
    BY <1>9 DEF Surjection
  <2>2. /\ IsFiniteSet(C) /\ Cardinality(C) \in Nat
        /\ Cardinality(C) <= Cardinality(Threads) - 1
    <3>1. C \in SUBSET (Threads \ {t})
      OBVIOUS
    <3>2. /\ IsFiniteSet(Threads \ {t}) /\ Cardinality(Threads) \in Nat
          /\ Cardinality(Threads \ {t}) = Cardinality(Threads) - 1
      BY Countable
    <3> HIDE DEF C
    <3>3. IsFiniteSet(C) /\ Cardinality(C) <= Cardinality(Threads \ {t})
      BY <3>1, <3>2, FS_Subset
    <3> QED
      BY <3>2, <3>3, FS_CardinalityType
  <2> HIDE DEF C, f
  <2>3. IsFiniteSet(Taken(t)') /\ Cardinality(Taken(t)') <= Cardinality(C)
    BY <2>1, <2>2, FS_Surjection
  <2>4. Cardinality(Taken(t)') \in Nat /\ Cardinality(Threads) \in Nat
    BY <2>3, Countable, FS_CardinalityType
  <2> QED
    BY <2>2, <2>3, <2>4
<1>11. Cardinality(Threads) \in Nat
  BY Countable
<1>12. Cardinality(Taken(t)') + 1 <= passed'[t] + Cardinality(Threads)
  BY <1>1, <1>10, <1>11
<1> QED
  BY <1>3, <1>4, <1>5, <1>12 DEF Kept

\* A number that is still named by its git_process is not the next to be
\* handed out: by the time the turn came round to it every other number would
\* be taken, by more than have been handed out in the connection's time.
LEMMA NotYetItsTurn ==
    ASSUME OwnInvariant, StrikeInvariant, HandOut, ~round',
           NEW t \in Threads, process[t] # NoPid
    PROVE  Turn(process[t]) > Turn(NextPid)
<1> SUFFICES ASSUME ~ (Turn(process[t]) > Turn(NextPid))
             PROVE  FALSE
  OBVIOUS
<1>1. PICK p : p = process[t]
  OBVIOUS
<1>2. PICK q : q = NextPid
  OBVIOUS
<1>3. p \in Pids /\ last \in {NoPid} \cup Pids
  BY <1>1 DEF StrikeInvariant
<1>4. q \in Pids /\ \A m \in Free : Turn(q) <= Turn(m)
  BY <1>2, HandedOut
<1>5. \A n \in Pids : Turn(n) \in Nat
  <2>1. \A n \in Pids : Turn(n) \in 0..(PidMax - 1)
    BY <1>3, TurnForm
  <2> QED
    BY <2>1, ReapAssumption DEF ReapAssumption
<1>6. Turn(p) <= Turn(q)
  BY <1>1, <1>2, <1>3, <1>4, <1>5
<1>7. Pids \ {p} \subseteq Taken(t)
  <2> SUFFICES ASSUME NEW n \in Pids \ {p}
               PROVE  n \in Taken(t)
    OBVIOUS
  <2>1. CASE Turn(n) > Turn(p)
    BY <1>1, <2>1 DEF Taken
  <2>2. CASE ~ (Turn(n) > Turn(p))
    <3>1. Turn(n) # Turn(p)
      BY <1>3, TurnsDiffer
    <3>2. Turn(n) < Turn(q)
      BY <1>3, <1>4, <1>5, <1>6, <2>2, <3>1
    <3>3. n \notin Free
      BY <1>4, <1>5, <3>2
    <3>4. child[n] # Gone
      BY <3>3 DEF Free
    <3>5. child[n].of \in Threads /\ process[child[n].of] = n
      BY <3>4, Holder
    <3>6. child[n].of # t
      BY <1>1, <3>5
    <3> QED
      BY <3>5, <3>6 DEF Taken
  <2> QED
    BY <2>1, <2>2
<1>8. Taken(t) \in SUBSET Pids
  BY DEF Taken
<1>9. IsFiniteSet(Taken(t)) /\ Cardinality(Taken(t)) \in Nat
  BY <1>8, Countable
<1>10. Cardinality(Pids \ {p}) = PidMax - 1
  BY <1>3, Countable, FS_RemoveElement
<1>11. PidMax - 1 <= Cardinality(Taken(t))
  BY <1>7, <1>9, <1>10, FS_Subset
<1>12. Cardinality(Taken(t)) + 1 <= passed[t] + Cardinality(Threads)
  BY HandedOut DEF StrikeInvariant
<1>13. passed[t] + Cardinality(Threads) < PidMax
  BY HandedOut
<1>14. passed[t] \in Nat /\ Cardinality(Threads) \in Nat /\ PidMax \in Nat
  BY Countable, ReapAssumption DEF ReapAssumption, StrikeInvariant
<1> QED
  BY <1>9, <1>11, <1>12, <1>13, <1>14

\* A number that is handed out to somebody else is one more taken, at the most.
LEMMA OthersStart ==
    ASSUME OwnInvariant, StrikeInvariant, HandOut, ~round',
           NEW t \in Threads, process[t] # NoPid, process'[t] = process[t],
           \A n \in Pids : n # NextPid => child'[n] = child[n]
    PROVE  Kept(t)' /\ child'[process[t]] = child[process[t]]
<1>1. IsFiniteSet(Taken(t)) /\ Cardinality(Taken(t)) \in Nat
  <2>1. Taken(t) \in SUBSET Pids
    BY DEF Taken
  <2> QED
    BY <2>1, Countable
<1>2. PICK q : q = NextPid
  OBVIOUS
<1>3. /\ q \in Pids /\ child[q] = Gone /\ q # NoPid /\ last' = q
      /\ \A m \in Free : Turn(q) <= Turn(m)
  BY <1>2, HandedOut
<1>4. PICK p : p = process[t]
  OBVIOUS
<1>5. p \in Pids /\ last \in {NoPid} \cup Pids
  BY <1>4 DEF StrikeInvariant
<1>6. Turn(p) > Turn(q)
  BY <1>2, <1>4, NotYetItsTurn
<1>7. \A n \in Pids : Turn(n) \in 0..(PidMax - 1)
  BY <1>5, TurnForm
<1>8. PidMax \in Nat \ {0} /\ Cardinality(Threads) \in Nat /\ passed[t] \in Nat
  BY Countable, ReapAssumption DEF ReapAssumption, StrikeInvariant
<1>9. p # q
  BY <1>3, <1>5, <1>6, <1>7, <1>8
<1>10. child'[p] = child[p]
  BY <1>2, <1>5, <1>9
<1>11. \A n \in Pids :
          Turn(n)' = IF Turn(n) > Turn(q) THEN Turn(n) - Turn(q) - 1
                     ELSE Turn(n) + PidMax - Turn(q) - 1
  BY <1>3, <1>5, TurnPasses
<1>12. Turn(process[t])' = Turn(p)'
  BY <1>4 DEF Turn
<1>13. Taken(t)' \subseteq Taken(t) \cup {q}
  <2> SUFFICES ASSUME NEW n \in Taken(t)', n # q
               PROVE  n \in Taken(t)
    OBVIOUS
  <2>1. n \in Pids /\ child'[n] = child[n]
    BY <1>2 DEF Taken
  <2>2. CASE child'[n].of \in Threads \ {t}
    BY <2>1, <2>2 DEF Taken
  <2>3. CASE Turn(n)' > Turn(p)'
    <3>1. CASE Turn(n) > Turn(q)
      <4>1. Turn(n)' = Turn(n) - Turn(q) - 1 /\ Turn(p)' = Turn(p) - Turn(q) - 1
        BY <1>5, <1>6, <1>11, <2>1, <3>1
      <4>2. Turn(n) > Turn(p)
        BY <1>3, <1>5, <1>7, <1>8, <2>1, <2>3, <4>1
      <4> QED
        BY <1>4, <2>1, <4>2 DEF Taken
    <3>2. CASE ~ (Turn(n) > Turn(q))
      <4>1. Turn(n) # Turn(q)
        BY <1>3, <1>5, <2>1, TurnsDiffer
      <4>2. ~ (Turn(q) <= Turn(n))
        BY <1>3, <1>7, <1>8, <2>1, <3>2, <4>1
      <4>3. child[n] # Gone
        BY <1>3, <2>1, <4>2 DEF Free
      <4>4. child[n].of \in Threads /\ process[child[n].of] = n
        BY <2>1, <4>3, Holder
      <4>5. n # p
        BY <1>6, <3>2
      <4>6. child[n].of # t
        BY <1>4, <4>4, <4>5
      <4> QED
        BY <2>1, <4>4, <4>6 DEF Taken
    <3> QED
      BY <3>1, <3>2
  <2> QED
    BY <1>12, <2>2, <2>3 DEF Taken
<1>14. /\ Cardinality(Taken(t)') <= Cardinality(Taken(t)) + 1
       /\ Cardinality(Taken(t)') \in Nat
  <2>1. /\ IsFiniteSet(Taken(t) \cup {q})
        /\ Cardinality(Taken(t) \cup {q}) =
              IF q \in Taken(t) THEN Cardinality(Taken(t))
                                ELSE Cardinality(Taken(t)) + 1
    BY <1>1, FS_AddElement
  <2>2. /\ Cardinality(Taken(t) \cup {q}) <= Cardinality(Taken(t)) + 1
        /\ Cardinality(Taken(t) \cup {q}) \in Nat
    <3>1. CASE q \in Taken(t)
      BY <1>1, <2>1, <3>1
    <3>2. CASE q \notin Taken(t)
      BY <1>1, <2>1, <3>2
    <3> QED
      BY <3>1, <3>2
  <2>3. /\ IsFiniteSet(Taken(t)')
        /\ Cardinality(Taken(t)') <= Cardinality(Taken(t) \cup {q})
    BY <1>13, <2>1, FS_Subset
  <2>4. Cardinality(Taken(t)') \in Nat
    BY <2>3, FS_CardinalityType
  <2> QED
    BY <1>1, <2>2, <2>3, <2>4
<1>15. Cardinality(Taken(t)) + 1 <= passed[t] + Cardinality(Threads)
  BY HandedOut DEF StrikeInvariant
<1>16. passed'[t] = passed[t] + 1
  BY HandedOut
<1>17. Cardinality(Taken(t)') + 1 <= passed'[t] + Cardinality(Threads)
  BY <1>1, <1>8, <1>14, <1>15, <1>16
<1>18. child'[process'[t]].of \in {t, Nobody}
  BY <1>4, <1>10, HandedOut DEF StrikeInvariant
<1> QED
  BY <1>4, <1>10, <1>17, <1>18 DEF Kept

\* What else a step leaves in the kernel's table: a child that is there is
\* still the same thread's, or it is reaped.
LEMMA TableStep ==
    ASSUME OwnInvariant, StrikeInvariant, [Next]_vars,
           ~ Elsewhere, \A u \in Threads : ~ Start(u)
    PROVE  /\ UNCHANGED <<last, passed, round>>
           /\ child'[NoPid] = Gone
           /\ \A n \in Pids : \/ child'[n] = Gone
                              \/ child[n] # Gone /\ child'[n].of = child[n].of
<1>1. child[NoPid] = Gone
  BY DEF StrikeInvariant, Pids, NoPid
<1>2. CASE UNCHANGED <<child, last, passed, round>>
  BY <1>1, <1>2
<1>3. ASSUME NEW t \in Threads, Close(t) \/ Sleep(t) \/ Reaped(t) \/ Interrupted(t)
      PROVE  UNCHANGED <<child, last, passed, round>>
  BY <1>3 DEF Close, Sleep, Reaped, Interrupted
<1>4. ASSUME NEW t \in Threads, Polled(t) \/ Waited(t)
      PROVE  /\ UNCHANGED <<last, passed, round>>
             /\ child' = [child EXCEPT ![process[t]] = Gone]
  BY <1>4 DEF Polled, Waited
<1>5. ASSUME NEW t \in Threads, Terminate(t) \/ Kill(t)
      PROVE  /\ UNCHANGED <<last, passed, round>>
             /\ child'[NoPid] = Gone
             /\ \A n \in Pids : \/ child'[n] = Gone
                                \/ child[n] # Gone /\ child'[n].of = child[n].of
  <2>1. UNCHANGED <<last, passed, round>>
    BY <1>5 DEF Terminate, Kill
  <2>2. \A n \in Pids : child'[n].of = child[n].of
    BY <1>5, StruckKeeps
  <2>3. CASE child' = child
    BY <1>1, <2>1, <2>3
  <2>4. CASE /\ Running(process[t])
             /\ \/ child' = [child EXCEPT ![process[t]].signal = "term"]
                \/ child' = [child EXCEPT ![process[t]].signal = "kill"]
    <3>1. child[process[t]] # Gone
      BY <2>4, RunningIsThere
    <3>2. process[t] # NoPid
      BY <1>1, <3>1
    <3>3. \A n \in {NoPid} \cup Pids : n # process[t] => child'[n] = child[n]
      BY <2>4 DEF OwnInvariant
    <3> QED
      BY <1>1, <2>1, <2>2, <3>1, <3>2, <3>3
  <2> QED
    BY <1>5, <2>3, <2>4 DEF Terminate, Kill, Signalled
<1>6. ASSUME NEW m \in Pids, Ends(m)
      PROVE  /\ UNCHANGED <<last, passed, round>>
             /\ child'[NoPid] = Gone
             /\ \A n \in Pids : \/ child'[n] = Gone
                                \/ child[n] # Gone /\ child'[n].of = child[n].of
  <2>1. /\ UNCHANGED <<last, passed, round>> /\ Running(m)
        /\ child' = [child EXCEPT ![m].state = "zombie"]
    BY <1>6 DEF Ends
  <2>2. \A n \in Pids : child'[n].of = child[n].of
    BY <2>1, EndKeeps
  <2>3. child[m] # Gone
    BY <2>1, RunningIsThere
  <2>4. \A n \in {NoPid} \cup Pids : n # m => child'[n] = child[n]
    BY <2>1 DEF OwnInvariant
  <2>5. m # NoPid
    BY DEF Pids, NoPid
  <2> QED
    BY <1>1, <2>1, <2>2, <2>3, <2>4, <2>5
<1>7. ASSUME NEW m \in Pids, HostReaps(m)
      PROVE  /\ UNCHANGED <<last, passed, round>>
             /\ child' = [child EXCEPT ![m] = Gone]
  BY <1>7 DEF HostReaps
<1>8. ASSUME NEW m \in {NoPid} \cup Pids, child' = [child EXCEPT ![m] = Gone]
      PROVE  /\ child'[NoPid] = Gone
             /\ \A n \in Pids : \/ child'[n] = Gone
                                \/ child[n] # Gone /\ child'[n].of = child[n].of
  BY <1>1, <1>8 DEF OwnInvariant
<1>9. \A t \in Threads : process[t] \in {NoPid} \cup Pids
  BY DEF StrikeInvariant
<1>10. ASSUME NEW t \in Threads, gitkit_process_reap(t)
       PROVE  /\ UNCHANGED <<last, passed, round>>
              /\ child'[NoPid] = Gone
              /\ \A n \in Pids : \/ child'[n] = Gone
                                 \/ child[n] # Gone /\ child'[n].of = child[n].of
  BY <1>2, <1>3, <1>4, <1>5, <1>8, <1>9, <1>10 DEF gitkit_process_reap
<1>11. ASSUME NEW t \in Threads, Close(t) \/ Interrupted(t)
       PROVE  UNCHANGED <<child, last, passed, round>>
  BY <1>3, <1>11
<1>12. CASE UNCHANGED vars
  BY <1>2, <1>12 DEF vars
<1>13. CASE \E t \in Threads : Close(t) \/ Interrupted(t)
  BY <1>2, <1>11, <1>13
<1>14. CASE \E m \in Pids : Ends(m) \/ HostReaps(m)
  BY <1>6, <1>7, <1>8, <1>14
<1> QED
  BY <1>10, <1>12, <1>13, <1>14 DEF Next

\* What such a step does to the threads: where it comes to a signal the poll
\* has found the child running.
LEMMA ThreadsStep ==
    ASSUME OwnInvariant, StrikeInvariant, [Next]_vars,
           ~ Elsewhere, \A u \in Threads : ~ Start(u)
    PROVE  /\ UNCHANGED world
           /\ process' \in [Threads -> {NoPid} \cup Pids]
           /\ \A t \in Threads :
                 /\ process'[t] \in {process[t], NoPid}
                 /\ At(t, "idle")' => process'[t] = NoPid
                 /\ At(t, "term")' \/ At(t, "kill")' =>
                       /\ process'[t] = process[t]
                       /\ At(t, "term") \/ At(t, "kill") \/ Running(process[t])
<1> USE DEF At, GoTo
<1>1. UNCHANGED world
  BY DEF Next, vars, Close, gitkit_process_reap, Polled, Sleep, Terminate,
     Kill, Waited, Reaped, Interrupted, Ends, HostReaps
<1>2. DOMAIN pc = Threads /\ process \in [Threads -> {NoPid} \cup Pids]
  BY DEF OwnInvariant, StrikeInvariant
<1>3. \A t \in Threads : pc[t] = "idle" => process[t] = NoPid
  BY DEF StrikeInvariant
<1>4. CASE UNCHANGED <<process, pc>>
  BY <1>1, <1>2, <1>3, <1>4
<1>5. ASSUME NEW u \in Threads,
             Close(u) \/ Polled(u) \/ Terminate(u) \/ Kill(u) \/ Waited(u)
                \/ Interrupted(u)
      PROVE  /\ process' = process
             /\ \E l \in {"open", "poll", "pollAgain", "wait", "reaped"} :
                   pc' = [pc EXCEPT ![u] = l]
  BY <1>5 DEF Close, EnterReap, Polled, Terminate, Kill, Waited, Interrupted
<1>6. ASSUME NEW u \in Threads, Sleep(u)
      PROVE  /\ process' = process /\ Running(process[u])
             /\ \/ pc' = pc
                \/ \E l \in {"term", "kill"} : pc' = [pc EXCEPT ![u] = l]
  BY <1>6 DEF Sleep, Answers
<1>7. ASSUME NEW u \in Threads, Reaped(u)
      PROVE  \/ /\ process' = process
                /\ \E l \in {"poll", "reaped"} : pc' = [pc EXCEPT ![u] = l]
             \/ /\ process' = [process EXCEPT ![u] = NoPid]
                /\ pc' = [pc EXCEPT ![u] = "idle"]
  BY <1>7 DEF Reaped, EnterReap
<1>8. ASSUME NEW u \in Threads, process' = process,
             \E l \in {"open", "poll", "pollAgain", "wait", "reaped"} :
                pc' = [pc EXCEPT ![u] = l]
      PROVE  /\ process' \in [Threads -> {NoPid} \cup Pids]
             /\ \A t \in Threads :
                   /\ process'[t] \in {process[t], NoPid}
                   /\ pc'[t] = "idle" => process'[t] = NoPid
                   /\ pc'[t] = "term" \/ pc'[t] = "kill" =>
                         /\ process'[t] = process[t]
                         /\ pc[t] = "term" \/ pc[t] = "kill" \/ Running(process[t])
  BY <1>2, <1>3, <1>8
<1>9. ASSUME NEW u \in Threads, process' = process, Running(process[u]),
             \E l \in {"term", "kill"} : pc' = [pc EXCEPT ![u] = l]
      PROVE  /\ process' \in [Threads -> {NoPid} \cup Pids]
             /\ \A t \in Threads :
                   /\ process'[t] \in {process[t], NoPid}
                   /\ pc'[t] = "idle" => process'[t] = NoPid
                   /\ pc'[t] = "term" \/ pc'[t] = "kill" =>
                         /\ process'[t] = process[t]
                         /\ pc[t] = "term" \/ pc[t] = "kill" \/ Running(process[t])
  BY <1>2, <1>3, <1>9
<1>10. ASSUME NEW u \in Threads, process' = [process EXCEPT ![u] = NoPid],
              pc' = [pc EXCEPT ![u] = "idle"]
      PROVE  /\ process' \in [Threads -> {NoPid} \cup Pids]
             /\ \A t \in Threads :
                   /\ process'[t] \in {process[t], NoPid}
                   /\ pc'[t] = "idle" => process'[t] = NoPid
                   /\ pc'[t] = "term" \/ pc'[t] = "kill" =>
                         /\ process'[t] = process[t]
                         /\ pc[t] = "term" \/ pc[t] = "kill" \/ Running(process[t])
  BY <1>2, <1>3, <1>10
<1>11. CASE \E u \in Threads :
               Close(u) \/ Polled(u) \/ Terminate(u) \/ Kill(u) \/ Waited(u)
                  \/ Interrupted(u)
  BY <1>1, <1>5, <1>8, <1>11
<1>12. CASE \E u \in Threads : Sleep(u)
  BY <1>1, <1>4, <1>6, <1>9, <1>12
<1>13. CASE \E u \in Threads : Reaped(u)
  BY <1>1, <1>7, <1>8, <1>10, <1>13
<1>14. CASE \E n \in Pids : Ends(n) \/ HostReaps(n)
  BY <1>4, <1>14 DEF Ends, HostReaps
<1>15. CASE UNCHANGED vars
  BY <1>4, <1>15 DEF vars
<1> QED
  BY <1>11, <1>12, <1>13, <1>14, <1>15 DEF Next, gitkit_process_reap


\* The child a thread is about to strike is waited for by nobody else.
LEMMA StillThere ==
    ASSUME OwnInvariant, StrikeInvariant, [Next]_vars,
           ~ Elsewhere, \A u \in Threads : ~ Start(u), ~round, "hostReaps" \notin world,
           NEW t \in Threads, At(t, "term")' \/ At(t, "kill")',
           child[process[t]].of = t
    PROVE  child'[process[t]].of = t
<1>1. process[t] \in Pids /\ process[t] # NoPid
  BY Someone DEF StrikeInvariant, Gone, Pids, NoPid
<1>2. CASE UNCHANGED child
  BY <1>2
<1>3. ASSUME NEW u \in Threads, Polled(u) \/ Waited(u)
      PROVE  child'[process[t]].of = t
  <2>1. child' = [child EXCEPT ![process[u]] = Gone] /\ pc' = [pc EXCEPT ![u] = "reaped"]
    BY <1>3 DEF Polled, Waited, GoTo
  <2>2. u # t
    BY <2>1 DEF At, OwnInvariant
  <2>3. process[u] # process[t]
    BY <1>1, <2>2, Someone DEF StrikeInvariant
  <2> QED
    BY <1>1, <2>1, <2>3 DEF OwnInvariant
<1>4. ASSUME NEW u \in Threads, Terminate(u) \/ Kill(u)
      PROVE  child'[process[t]].of = t
  BY <1>1, <1>4, StruckKeeps
<1>5. ASSUME NEW u \in Threads, Close(u) \/ Sleep(u) \/ Reaped(u) \/ Interrupted(u)
      PROVE  UNCHANGED child
  BY <1>5 DEF Close, Sleep, Reaped, Interrupted
<1>6. ASSUME NEW n \in Pids, Ends(n)
      PROVE  child'[process[t]].of = t
  BY <1>1, <1>6, EndKeeps DEF Ends
<1>7. ASSUME NEW n \in Pids, HostReaps(n)
      PROVE  FALSE
  BY <1>7 DEF HostReaps
<1>8. CASE UNCHANGED vars
  BY <1>2, <1>8 DEF vars
<1> QED
  BY <1>2, <1>3, <1>4, <1>5, <1>6, <1>7, <1>8 DEF Next, gitkit_process_reap

\* A step that hands no number out keeps the invariant.
LEMMA QuietStep ==
    ASSUME OwnInvariant, StrikeInvariant, [Next]_vars,
           ~ Elsewhere, \A u \in Threads : ~ Start(u)
    PROVE  StrikeInvariant'
<1>1. /\ UNCHANGED <<last, passed, round, world>> /\ child'[NoPid] = Gone
      /\ process' \in [Threads -> {NoPid} \cup Pids]
  BY TableStep, ThreadsStep
<1>2. \A n \in Pids : \/ child'[n] = Gone
                      \/ child[n] # Gone /\ child'[n].of = child[n].of
  BY TableStep
<1>3. \A n \in Pids : child'[n].of \in {child[n].of, Nobody}
  BY <1>2 DEF Gone
<1>4. \A n \in {NoPid} \cup Pids :
         child'[n] = Gone \/ (n \in Pids /\ child'[n].of \in Threads)
  BY <1>1, <1>2 DEF StrikeInvariant
<1>5. ASSUME NEW t \in Threads
      PROVE  Held(t)'
  <2>1. /\ process'[t] \in {process[t], NoPid}
        /\ At(t, "idle")' => process'[t] = NoPid
        /\ At(t, "term")' \/ At(t, "kill")' =>
              /\ process'[t] = process[t]
              /\ At(t, "term") \/ At(t, "kill") \/ Running(process[t])
    BY ThreadsStep
  <2>2. ~round' /\ process'[t] # NoPid => Kept(t)'
    BY <1>1, <1>3, <2>1, Quiet
  <2>3. ASSUME ~round', "hostReaps" \notin world', At(t, "term")' \/ At(t, "kill")'
        PROVE  child'[process'[t]].of = t
    <3>1. child[process[t]].of = t
      <4>1. CASE At(t, "term") \/ At(t, "kill")
        BY <1>1, <2>3, <4>1 DEF StrikeInvariant
      <4>2. CASE Running(process[t])
        <5>1. process[t] \in {NoPid} \cup Pids /\ child[process[t]] # Gone
          BY <4>2, RunningIsThere DEF StrikeInvariant
        <5>2. process[t] # NoPid /\ child[process[t]].of \in Threads
          BY <5>1, Holder DEF Pids, NoPid
        <5> QED
          BY <1>1, <2>3, <5>2, Someone DEF StrikeInvariant
      <4> QED
        BY <2>1, <2>3, <4>1, <4>2
    <3> QED
      BY <1>1, <2>1, <2>3, <3>1, StillThere
  <2> QED
    BY <2>1, <2>2, <2>3 DEF Held
<1> QED
  BY <1>1, <1>4, <1>5 DEF StrikeInvariant, Held, Kept

\* A number handed out elsewhere keeps it.
LEMMA ElsewhereStep ==
    ASSUME OwnInvariant, StrikeInvariant, Elsewhere
    PROVE  StrikeInvariant'
<1>1. HandOut /\ UNCHANGED <<child, process, pc, world>>
  BY DEF Elsewhere
<1>2. last' \in {NoPid} \cup Pids /\ passed' \in [Threads -> Nat]
  BY <1>1, HandedOut
<1>3. ASSUME NEW t \in Threads
      PROVE  Held(t)'
  <2>1. ASSUME ~round', process'[t] # NoPid
        PROVE  Kept(t)'
    BY <1>1, <2>1, OthersStart
  <2>2. ~round' => ~round
    BY <1>1, HandedOut
  <2> QED
    BY <1>1, <2>1, <2>2 DEF Held, StrikeInvariant, At
<1> QED
  BY <1>1, <1>2, <1>3 DEF StrikeInvariant, Held, Kept

\* So does a start.
LEMMA StartStep ==
    ASSUME OwnInvariant, StrikeInvariant, NEW u \in Threads, Start(u)
    PROVE  StrikeInvariant'
<1>1. At(u, "idle") /\ process[u] = NoPid /\ UNCHANGED world
  BY DEF Start, StrikeInvariant
<1>2. /\ pc'[u] = "open"
      /\ \A t \in Threads \ {u} : pc'[t] = pc[t]
  BY DEF Start, GoTo, OwnInvariant
<1>3. CASE UNCHANGED <<child, last, passed, round, process>>
  <2>1. \A t \in Threads : Held(t)'
    <3> TAKE t \in Threads
    <3>1. CASE t = u
      BY <1>1, <1>2, <1>3, <3>1 DEF Held, At
    <3>2. CASE t # u
      <4>1. Taken(t)' = Taken(t)
        BY <1>3 DEF Taken, Turn
      <4> QED
        BY <1>1, <1>2, <1>3, <3>2, <4>1 DEF Held, Kept, At, StrikeInvariant
    <3> QED
      BY <3>1, <3>2
  <2> QED
    BY <1>3, <2>1 DEF StrikeInvariant, Held, Kept
<1>4. CASE Forked(u)
  <2>1. NextPid \in Pids /\ last' = NextPid /\ passed' \in [Threads -> Nat]
    BY <1>4, HandedOut DEF Forked
  <2> HIDE DEF NextPid
  <2>2. child'[NextPid].of = u
    BY <1>4, <2>1 DEF Forked, OwnInvariant
  <2>3. \A n \in {NoPid} \cup Pids : n # NextPid => child'[n] = child[n]
    BY <1>4 DEF Forked, OwnInvariant
  <2>4. /\ process' \in [Threads -> {NoPid} \cup Pids]
        /\ \A t \in Threads \ {u} : process'[t] = process[t]
    BY <1>4, <2>1 DEF Forked, StrikeInvariant
  <2>5. \A n \in {NoPid} \cup Pids :
           child'[n] = Gone \/ (n \in Pids /\ child'[n].of \in Threads)
    BY <2>1, <2>2, <2>3 DEF StrikeInvariant
  <2>6. Held(u)'
    BY <1>1, <1>2, <1>4, OwnStart DEF Held, At
  <2>7. ASSUME NEW t \in Threads \ {u}
        PROVE  Held(t)'
    <3>1. HandOut /\ \A n \in Pids : n # NextPid => child'[n] = child[n]
      BY <1>4, <2>3 DEF Forked
    <3>2. ~round' => ~round
      BY <3>1, HandedOut
    <3>3. CASE process[t] = NoPid
      <4>1. child[NoPid] = Gone /\ t # Nobody
        BY Someone DEF StrikeInvariant, Pids, NoPid
      <4>2. ~ (~round /\ "hostReaps" \notin world /\ (At(t, "term") \/ At(t, "kill")))
        BY <3>3, <4>1 DEF StrikeInvariant, Gone
      <4> QED
        BY <1>1, <1>2, <2>4, <3>2, <3>3, <4>2 DEF Held, At
    <3>4. CASE process[t] # NoPid
      <4>1. ~round' => Kept(t)' /\ child'[process[t]] = child[process[t]]
        BY <2>4, <3>1, <3>4, OthersStart
      <4>2. At(t, "idle")' => process'[t] = NoPid
        BY <1>2, <2>4 DEF At, StrikeInvariant
      <4>3. ~round' /\ "hostReaps" \notin world' /\ (At(t, "term")' \/ At(t, "kill")') =>
               child'[process'[t]].of = t
        BY <1>1, <1>2, <2>4, <3>2, <4>1 DEF At, StrikeInvariant
      <4> QED
        BY <4>1, <4>2, <4>3 DEF Held
    <3> QED
      BY <3>3, <3>4
  <2> QED
    BY <2>1, <2>4, <2>5, <2>6, <2>7 DEF StrikeInvariant, Held, Kept
<1> QED
  BY <1>3, <1>4 DEF Start, Forked

\* The invariant holds: until the numbers come round in the time of one
\* connection, a thread's own is not handed out anew while its git_process
\* names it, for the numbers are handed out in turn.
THEOREM StrikesHeld == Spec => [](OwnInvariant /\ StrikeInvariant)
<1>1. Init => OwnInvariant /\ StrikeInvariant
  <2>1. Init => OwnInvariant
    BY Someone DEF Init, OwnInvariant, Own, Gone, At, Children
  <2>2. Init => StrikeInvariant
    <3> SUFFICES ASSUME Init
                 PROVE  StrikeInvariant
      OBVIOUS
    <3>1. /\ passed \in [Threads -> Nat]
          /\ process \in [Threads -> {NoPid} \cup Pids]
      BY DEF Init
    <3>2. \A t \in Threads :
             process[t] = NoPid /\ ~ (At(t, "term") \/ At(t, "kill"))
      BY DEF Init, At
    <3> QED
      BY <3>1, <3>2 DEF Init, StrikeInvariant
  <2> QED
    BY <2>1, <2>2
<1>2. OwnInvariant /\ StrikeInvariant /\ [Next]_vars =>
         (OwnInvariant /\ StrikeInvariant)'
  <2> SUFFICES ASSUME OwnInvariant, StrikeInvariant, [Next]_vars
               PROVE  OwnInvariant' /\ StrikeInvariant'
    OBVIOUS
  <2>1. OwnInvariant'
    BY InvariantStep
  <2>2. StrikeInvariant'
    BY QuietStep, ElsewhereStep, StartStep
  <2> QED
    BY <2>1, <2>2
<1> QED
  BY <1>1, <1>2, PTL DEF Spec

\* SIGTERM and SIGKILL reach the child of the thread's own connection, and it
\* is there to take them (gitkit_process_reap.h): however the other threads'
\* connections and other programs' processes come and go, the number polled is
\* not another's yet, where nobody but the reap waits for children and until
\* the numbers have come round in the time of one connection.
THEOREM SignalsOwn == Spec => OwnChildStruck
<1>1. OwnInvariant /\ StrikeInvariant /\ [Next]_vars =>
         [\A t \in Threads :
             "hostReaps" \notin world /\ ~round /\ Strikes(t) => Child(t).of = t]_vars
  BY DEF StrikeInvariant, Strikes, Child
<1> QED
  BY <1>1, StrikesHeld, PTL DEF Spec, OwnChildStruck

-----------------------------------------------------------------------------
(***************************************************************************)
(* The connections of a transport the program supplies: SSHTransport, for  *)
(* any threads, any addresses and any number of channels.  Every stream    *)
(* reaches its own connection's channel, every open channel has a          *)
(* connection, and the schemes are taken all or none.                      *)
(***************************************************************************)

\* A step is one of the registration, which leaves the operations alone, or
\* of one thread's operation, which leaves the registration alone.
RegistrationStep ==
    \/ RegisterStarts \/ RegisterTakes \/ RegisterFails \/ RegisterEnds
    \/ Unregister \/ HostTransport

CallbackStep(t) ==
    \/ Allocate(t) \/ Create(t) \/ Reset(t)
    \/ FreeBegins(t) \/ FreeEnds(t)
    \/ \E service \in Services : List(t, service) \/ Serve(t, service)

\* No thread is Absent.
LEMMA AbsentElse ==
    ASSUME NEW t \in Callers
    PROVE  t # Absent
BY SSHAssumption DEF SSHAssumption

\* Every step is one of these.
LEMMA NextSteps ==
    ASSUME SSHNext
    PROVE  RegistrationStep \/ \E t \in Callers : CallbackStep(t)
BY DEF SSHNext, RegistrationStep, CallbackStep

\* The registration leaves every operation as it is.
LEMMA RegistrationFrame ==
    ASSUME RegistrationStep
    PROVE  UNCHANGED operation
BY DEF RegistrationStep, RegisterStarts, RegisterTakes, RegisterFails,
   RegisterEnds, Unregister, HostTransport

\* An operation leaves the registration as it is.
LEMMA OperationFrame ==
    ASSUME NEW t \in Callers, CallbackStep(t)
    PROVE  UNCHANGED registration
BY DEF CallbackStep, Allocate, Create, Reset, FreeBegins, FreeEnds, List, Serve

-----------------------------------------------------------------------------
(***************************************************************************)
(* The schemes.                                                            *)
(***************************************************************************)
\* The three schemes.
LEMMA ThreeSchemes ==
    /\ Len(Schemes) = 3 /\ DOMAIN Schemes = 1..3
    /\ Schemes[1] = "ssh" /\ Schemes[2] = "ssh+git" /\ Schemes[3] = "git+ssh"
    /\ ToSet(Schemes) = {"ssh", "ssh+git", "git+ssh"}
BY DEF ToSet, Schemes

\* Every step of the registration keeps its types, and the schemes taken are
\* ours and no others.
LEMMA SchemesStep ==
    ASSUME SSHTypeOK, SchemesTaken, RegistrationStep
    PROVE  /\ transports' \in [ToSet(Schemes) -> {"builtin", "host", "gitkit"}]
           /\ state' \in BOOLEAN
           /\ SchemesTaken'
<1> USE ThreeSchemes DEF SSHTypeOK, SchemesTaken, Ours
<1>1. CASE RegisterStarts
  BY <1>1 DEF RegisterStarts
<1>2. CASE RegisterTakes
  BY <1>2 DEF RegisterTakes, NextScheme
<1>3. CASE RegisterFails
  BY <1>3 DEF RegisterFails, GivesBack
<1>4. CASE RegisterEnds
  BY <1>4 DEF RegisterEnds
<1>5. CASE Unregister
  <2>1. registering = 0 /\ registering' = 0 /\ state' = FALSE
    BY <1>5 DEF Unregister
  <2>2. transports' = [s \in ToSet(Schemes) |-> "builtin"]
    BY <1>5 DEF Unregister, GivesBack
  <2>3. \A i \in DOMAIN Schemes : transports'[Schemes[i]] = "builtin"
    BY <2>2
  <2>4. transports' \in [ToSet(Schemes) -> {"builtin", "host", "gitkit"}]
    BY <2>2
  <2>5. \A i \in DOMAIN Schemes : ~Ours(Schemes[i])' /\ ~(i <= registering')
    BY <2>1, <2>3
  <2>6. registering' \in 0..Len(Schemes)
    BY <2>1
  <2> QED
    BY <2>1, <2>4, <2>5, <2>6
<1>6. CASE HostTransport
  BY <1>6 DEF HostTransport
<1> QED
  BY <1>1, <1>2, <1>3, <1>4, <1>5, <1>6 DEF RegistrationStep

-----------------------------------------------------------------------------
(***************************************************************************)
(* Types and addresses.                                                    *)
(***************************************************************************)
Contexts ==
    [Addresses -> [of : Callers \cup {Absent}, channel : Nat,
                   stream : BOOLEAN, action : Services \cup {Absent}]]
Records == [of : Callers, service : Services, open : BOOLEAN]
Channels == Seq(Records)

\* A fresh context is a context, and can stand under any address.
LEMMA FreshContexts ==
    ASSUME SSHTypeOK, NEW a \in Addresses, NEW t \in Callers \cup {Absent}
    PROVE  [contexts EXCEPT ![a] = Fresh(t)] \in Contexts
BY DEF SSHTypeOK, Contexts, Fresh

\* To close a channel is to change that one's record.
LEMMA Closing ==
    ASSUME SSHTypeOK, NEW c \in DOMAIN channels,
           channels' = [channels EXCEPT ![c].open = FALSE]
    PROVE  /\ channels' \in Channels
           /\ DOMAIN channels' = DOMAIN channels
           /\ \A d \in DOMAIN channels : d # c => channels'[d] = channels[d]
           /\ ~channels'[c].open
<1> DEFINE closed == [channels[c] EXCEPT !.open = FALSE]
<1>1. channels \in Seq(Records) /\ c \in 1..Len(channels)
  BY LenProperties DEF SSHTypeOK, Records
<1>2. channels[c] \in Records
  BY <1>1, ElementOfSeq
<1>3. closed \in Records /\ ~closed.open
  BY <1>2 DEF Records
<1>4. channels' = [channels EXCEPT ![c] = closed]
  OBVIOUS
<1> HIDE DEF closed
<1>5. /\ [channels EXCEPT ![c] = closed] \in Seq(Records)
      /\ Len([channels EXCEPT ![c] = closed]) = Len(channels)
      /\ \A d \in 1..Len(channels) :
            [channels EXCEPT ![c] = closed][d] =
                IF d = c THEN closed ELSE channels[d]
  BY <1>1, <1>3, ExceptSeq
<1>6. DOMAIN channels' = DOMAIN channels
  BY <1>4
<1> QED
  BY <1>1, <1>3, <1>4, <1>5, <1>6, LenProperties DEF Channels

\* What a reset does to the channels: none, or the thread's own is closed.
LEMMA ResetCloses ==
    ASSUME SSHTypeOK, AddressesOwned, ContextsOwned, NEW t \in Callers, Reset(t)
    PROVE  /\ address[t] \in Addresses /\ Context(t).of = t
           /\ contexts' = [contexts EXCEPT ![address[t]] = Fresh(t)]
           /\ doing[t] = "made" => channels' = channels
           /\ doing[t] = "connected" =>
                 /\ Context(t).channel \in DOMAIN channels
                 /\ channels[Context(t).channel].of = t
                 /\ channels' =
                       [channels EXCEPT ![Context(t).channel].open = FALSE]
<1>1. address[t] \in Addresses /\ (doing[t] = "made" \/ doing[t] = "connected")
  BY DEF Reset, Doing, AddressesOwned, SSHTypeOK
<1>h. Holds(t)
  BY DEF ContextsOwned
<1>2. Context(t).of = t
  BY <1>1, <1>h DEF Holds, Context, Fresh
<1>3. Found(t)
  BY <1>2, AbsentElse DEF Found, Context, NoContext, Fresh
<1>4. /\ channels' = CloseChannel(Context(t))
      /\ contexts' = [contexts EXCEPT ![address[t]] = Fresh(t)]
  BY <1>2, <1>3 DEF Reset, Sets
<1>5. doing[t] = "made" => channels' = channels
  BY <1>4, <1>h DEF Holds, Context, Fresh, CloseChannel
<1>6. ASSUME doing[t] = "connected"
      PROVE  /\ Context(t).channel \in DOMAIN channels
             /\ Context(t).channel # 0
             /\ channels[Context(t).channel].of = t
  <2>1. Context(t).channel \in DOMAIN channels
    BY <1>6, <1>h DEF Holds, Context
  <2>2. channels[Context(t).channel].of = t
    BY <1>6, <1>h DEF Holds, Context
  <2>3. DOMAIN channels = 1..Len(channels)
    BY LenProperties DEF SSHTypeOK
  <2> QED
    BY <2>1, <2>2, <2>3
<1> QED
  BY <1>1, <1>2, <1>4, <1>5, <1>6 DEF CloseChannel

\* To serve is to go on with what the listing has.
LEMMA ServeKeeps ==
    ASSUME SSHTypeOK, AddressesOwned, ContextsOwned, NEW t \in Callers,
           NEW service \in Services, Serve(t, service)
    PROVE  UNCHANGED operation
<1>1. address[t] \in Addresses /\ doing[t] = "connected"
  BY DEF Serve, Doing, AddressesOwned, SSHTypeOK
<1>2. Context(t).action = service /\ asked[t] = service
  BY <1>1 DEF Serve, Follows, ContextsOwned, Holds, Context
<1>3. asked' = asked
  BY <1>2 DEF Serve, SSHTypeOK
<1>4. [Context(t) EXCEPT !.action = service] = Context(t)
  BY <1>1, <1>2 DEF SSHTypeOK, Context
<1>5. contexts' = contexts
  BY <1>1, <1>4 DEF Serve, Sets, Context, SSHTypeOK
<1> QED
  BY <1>3, <1>5 DEF Serve, operation

\* A step of a thread keeps the types.
LEMMA TypeThread ==
    ASSUME SSHTypeOK, AddressesOwned, ContextsOwned, NEW t \in Callers,
           CallbackStep(t)
    PROVE  SSHTypeOK'
<1>0. UNCHANGED registration
  BY OperationFrame
<1> USE <1>0 DEF SSHTypeOK, registration, Doing, GoesOn, Labels
<1>1. CASE Allocate(t)
  BY <1>1 DEF Allocate
<1>2. CASE Create(t)
  <2>1. contexts' \in Contexts
    BY <1>2, FreshContexts DEF Create, AddressesOwned
  <2> QED
    BY <1>2, <2>1 DEF Create, Contexts
<1>3. CASE Reset(t)
  <2>0. /\ address[t] \in Addresses
        /\ contexts' = [contexts EXCEPT ![address[t]] = Fresh(t)]
    BY <1>3, ResetCloses
  <2>1. contexts' \in Contexts
    BY <2>0, FreshContexts
  <2>2. channels' \in Channels
    <3>1. CASE doing[t] = "made"
      BY <1>3, <3>1, ResetCloses DEF Channels, Records
    <3>2. CASE doing[t] = "connected"
      BY <1>3, <3>2, ResetCloses, Closing DEF Channels, Records
    <3> QED
      BY <1>3, <3>1, <3>2 DEF Reset
  <2> QED
    BY <1>3, <2>1, <2>2 DEF Reset, Contexts, Channels, Records
<1>4. CASE FreeBegins(t)
  <2>1. contexts' = [contexts EXCEPT ![address[t]] = Fresh(Absent)]
    BY <1>4 DEF FreeBegins, FreePart, FreeParts, NoContext
  <2>2. contexts' \in Contexts
    BY <1>4, <2>1, FreshContexts DEF FreeBegins, AddressesOwned
  <2>3. used' = used
    BY <1>4 DEF FreeBegins, FreePart, FreeParts
  <2> QED
    BY <1>4, <2>2, <2>3 DEF FreeBegins, Contexts
<1>5. CASE FreeEnds(t)
  BY <1>5 DEF FreeEnds, FreePart, FreeParts
<1>6. ASSUME NEW service \in Services, List(t, service)
      PROVE  SSHTypeOK'
  <2>1. channels' \in Channels
    BY <1>6 DEF List, Channels, Records
  <2>2. contexts' \in Contexts
    BY <1>6, <2>1
    DEF List, Sets, Context, AddressesOwned, Contexts, Channels, Records
  <2> QED
    BY <1>6, <2>1, <2>2 DEF List, Contexts, Channels, Records
<1>7. ASSUME NEW service \in Services, Serve(t, service)
      PROVE  SSHTypeOK'
  BY <1>7, ServeKeeps DEF operation
<1> QED
  BY <1>1, <1>2, <1>3, <1>4, <1>5, <1>6, <1>7 DEF CallbackStep

\* So does every step.
LEMMA TypeStep ==
    ASSUME SSHTypeOK, AddressesOwned, ContextsOwned, SchemesTaken, [SSHNext]_sshVars
    PROVE  SSHTypeOK'
<1>1. CASE RegistrationStep
  BY <1>1, RegistrationFrame, SchemesStep DEF operation, SSHTypeOK
<1>2. CASE UNCHANGED sshVars
  BY <1>2 DEF sshVars, registration, operation, SSHTypeOK
<1> QED
  BY <1>1, <1>2, NextSteps, TypeThread

\* Only what a thread has itself changes when it steps.
LEMMA ThreadFrame ==
    ASSUME SSHTypeOK, AddressesOwned, NEW t \in Callers, CallbackStep(t),
           NEW u \in Callers \ {t}
    PROVE  /\ doing'[u] = doing[u] /\ address'[u] = address[u]
           /\ asked'[u] = asked[u]
           /\ doing[u] # "idle" => contexts'[address[u]] = contexts[address[u]]
<1> USE DEF SSHTypeOK, Doing, GoesOn
<1>1. doing'[u] = doing[u] /\ address'[u] = address[u] /\ asked'[u] = asked[u]
  BY DEF CallbackStep, Allocate, Create, Reset, FreeBegins, FreeEnds, List, Serve
<1>2. ASSUME doing[t] # "idle", doing[u] # "idle"
      PROVE  contexts'[address[u]] = contexts[address[u]]
  <2>1. address[u] # address[t] /\ address[u] \in Addresses
    BY <1>2 DEF AddressesOwned
  <2> QED
    BY <2>1 DEF CallbackStep, Allocate, Create, Reset, FreeBegins, FreeEnds, List,
       Serve, Sets, FreePart, FreeParts
<1>3. CASE doing[t] = "idle"
  BY <1>3 DEF CallbackStep, Allocate, Create, Reset, FreeBegins, FreeEnds, List,
     Serve
<1> QED
  BY <1>1, <1>2, <1>3

\* The allocator gives out what nobody has.
LEMMA AddressesStep ==
    ASSUME SSHTypeOK, AddressesOwned, [SSHNext]_sshVars
    PROVE  AddressesOwned'
<1>1. ASSUME NEW t \in Callers, CallbackStep(t)
      PROVE  AddressesOwned'
  <2> USE DEF SSHTypeOK, Doing, GoesOn
  <2>1. CASE Allocate(t)
    BY <2>1 DEF Allocate, AddressesOwned
  <2>2. CASE FreeEnds(t)
    BY <2>2 DEF FreeEnds, FreePart, FreeParts, AddressesOwned
  <2>3. CASE ~Allocate(t) /\ ~FreeEnds(t)
    <3>1. UNCHANGED <<used, address>> /\ doing[t] # "idle"
      BY <1>1, <2>3 DEF CallbackStep, Create, Reset, FreeBegins, FreePart,
         FreeParts, List, Serve
    <3> QED
      BY <1>1, <3>1, ThreadFrame DEF AddressesOwned
  <2> QED
    BY <2>1, <2>2, <2>3
<1>2. CASE UNCHANGED operation
  BY <1>2 DEF operation, AddressesOwned
<1> QED
  BY <1>1, <1>2, NextSteps, RegistrationFrame DEF sshVars, operation, registration

-----------------------------------------------------------------------------
(***************************************************************************)
(* Contexts and channels.                                                  *)
(***************************************************************************)
\* A step of t leaves the channels of other threads as they are, and only t
\* opens or closes one.
LEMMA ChannelsFrame ==
    ASSUME SSHTypeOK, AddressesOwned, ContextsOwned, NEW t \in Callers,
           CallbackStep(t)
    PROVE  /\ DOMAIN channels \subseteq DOMAIN channels'
           /\ \A c \in DOMAIN channels :
                 channels[c].of # t => channels'[c] = channels[c]
<1> USE DEF SSHTypeOK, Doing, GoesOn
<1>1. CASE Reset(t)
  <2>1. CASE doing[t] = "made"
    BY <1>1, <2>1, ResetCloses
  <2>2. CASE doing[t] = "connected"
    <3> DEFINE d == Context(t).channel
    <3>1. /\ d \in DOMAIN channels /\ channels[d].of = t
          /\ channels' = [channels EXCEPT ![d].open = FALSE]
      BY <1>1, <2>2, ResetCloses
    <3> HIDE DEF d
    <3>2. /\ DOMAIN channels' = DOMAIN channels
          /\ \A c \in DOMAIN channels : c # d => channels'[c] = channels[c]
      BY <3>1, Closing
    <3> QED
      BY <3>1, <3>2
  <2> QED
    BY <1>1, <2>1, <2>2 DEF Reset
<1>2. ASSUME NEW service \in Services, List(t, service)
      PROVE  /\ DOMAIN channels \subseteq DOMAIN channels'
             /\ \A c \in DOMAIN channels : channels'[c] = channels[c]
  BY <1>2 DEF List
<1>3. CASE UNCHANGED channels
  BY <1>3
<1> QED
  BY <1>1, <1>2, <1>3 DEF CallbackStep, Allocate, Create, FreeBegins, FreeEnds,
     Serve

\* What a thread that steps holds afterwards.
LEMMA OwnHolds ==
    ASSUME SSHTypeOK, AddressesOwned, ContextsOwned, NEW t \in Callers,
           CallbackStep(t)
    PROVE  Holds(t)'
<1> USE AbsentElse DEF SSHTypeOK, Doing, GoesOn
<1>1. CASE Allocate(t) \/ FreeBegins(t) \/ FreeEnds(t)
  BY <1>1 DEF Allocate, FreeBegins, FreeEnds, Holds
<1>2. CASE Create(t)
  <2>1. address[t] \in Addresses
    BY <1>2 DEF Create, AddressesOwned
  <2> QED
    BY <1>2, <2>1 DEF Create, Holds
<1>3. CASE Reset(t)
  <2>1. /\ address[t] \in Addresses /\ address' = address
        /\ contexts' = [contexts EXCEPT ![address[t]] = Fresh(t)]
    BY <1>3, ResetCloses DEF Reset
  <2>2. doing'[t] \in {"made", "free"}
    BY <1>3 DEF Reset
  <2> QED
    BY <2>1, <2>2 DEF Holds
<1>4. ASSUME NEW service \in Services, List(t, service)
      PROVE  Holds(t)'
  <2>1. address[t] \in Addresses /\ Context(t).of = t
    <3>1. Holds(t) /\ doing[t] = "made"
      BY <1>4 DEF List, ContextsOwned
    <3> QED
      BY <3>1 DEF AddressesOwned, Holds, Context, Fresh
  <2>2. /\ Len(channels') = Len(channels) + 1
        /\ Len(channels') \in DOMAIN channels'
        /\ channels'[Len(channels')] =
              [of |-> t, service |-> service, open |-> TRUE]
    BY <1>4 DEF List
  <2>3. contexts'[address'[t]] =
            [of |-> t, channel |-> Len(channels'), stream |-> TRUE,
             action |-> service]
    BY <1>4, <2>1 DEF List, Sets
  <2>4. doing'[t] = "connected" /\ asked'[t] = service
    BY <1>4 DEF List
  <2> QED
    BY <2>2, <2>3, <2>4 DEF Holds
<1>5. ASSUME NEW service \in Services, Serve(t, service)
      PROVE  Holds(t)'
  BY <1>5, ServeKeeps DEF operation, ContextsOwned, Holds
<1> QED
  BY <1>1, <1>2, <1>3, <1>4, <1>5 DEF CallbackStep

\* Every thread goes on holding what it has.
LEMMA ContextsStep ==
    ASSUME SSHTypeOK, AddressesOwned, ContextsOwned, [SSHNext]_sshVars
    PROVE  ContextsOwned'
<1> SUFFICES ASSUME NEW u \in Callers
             PROVE  Holds(u)'
  BY DEF ContextsOwned
<1>1. Holds(u)
  BY DEF ContextsOwned
<1>2. ASSUME NEW t \in Callers, CallbackStep(t), u # t
      PROVE  Holds(u)'
  <2>1. CASE doing[u] = "connected"
    <3> DEFINE c == contexts[address[u]].channel
    <3>1. /\ doing'[u] = doing[u] /\ address'[u] = address[u]
          /\ asked'[u] = asked[u]
          /\ contexts'[address[u]] = contexts[address[u]]
      BY <1>2, <2>1, ThreadFrame
    <3>2. c \in DOMAIN channels /\ channels[c].of = u
      BY <1>1, <2>1 DEF Holds
    <3> HIDE DEF c
    <3>3. c \in DOMAIN channels' /\ channels'[c] = channels[c]
      BY <1>2, <3>2, ChannelsFrame
    <3> QED
      BY <1>1, <2>1, <3>1, <3>3 DEF Holds, c
  <2>2. CASE doing[u] # "connected"
    BY <1>1, <1>2, <2>2, ThreadFrame DEF Holds
  <2> QED
    BY <2>1, <2>2
<1>3. CASE UNCHANGED operation
  BY <1>1, <1>3 DEF operation, Holds
<1> QED
  BY <1>2, <1>3, NextSteps, RegistrationFrame, OwnHolds
  DEF sshVars, operation, registration

\* An open channel goes on having its connection: another thread's step
\* leaves both, and a reset closes what it lets go of.
LEMMA ChannelsStep ==
    ASSUME SSHTypeOK, AddressesOwned, ContextsOwned, ChannelsHeld, [SSHNext]_sshVars
    PROVE  ChannelsHeld'
<1>1. ASSUME NEW t \in Callers, CallbackStep(t)
      PROVE  ChannelsHeld'
  <2> SUFFICES ASSUME NEW c \in DOMAIN channels', channels'[c].open
               PROVE  \E u \in Callers : Connected(u, c)'
    BY DEF ChannelsHeld
  <2> USE AbsentElse DEF SSHTypeOK, Doing, GoesOn
  <2>1. ASSUME NEW u \in Callers, Connected(u, c), u # t
        PROVE  Connected(u, c)'
    BY <1>1, <2>1, ThreadFrame DEF Connected
  <2>2. ASSUME c \in DOMAIN channels, channels[c].open
        PROVE  \E u \in Callers : Connected(u, c)
    BY <2>2 DEF ChannelsHeld
  <2>3. CASE Reset(t)
    <3>1. CASE doing[t] = "made"
      BY <2>1, <2>2, <2>3, <3>1, ResetCloses DEF Connected
    <3>2. CASE doing[t] = "connected"
      <4> DEFINE d == Context(t).channel
      <4>1. /\ d \in DOMAIN channels
            /\ channels' = [channels EXCEPT ![d].open = FALSE]
        BY <2>3, <3>2, ResetCloses
      <4> HIDE DEF d
      <4>2. /\ c \in DOMAIN channels /\ c # d
            /\ channels'[c] = channels[c]
        BY <4>1, Closing
      <4> QED
        BY <2>1, <2>2, <4>2 DEF Connected, Context, d
    <3> QED
      BY <2>3, <3>1, <3>2 DEF Reset
  <2>4. ASSUME NEW service \in Services, List(t, service)
        PROVE  \E u \in Callers : Connected(u, c)'
    <3>1. address[t] \in Addresses
      BY <2>4 DEF List, AddressesOwned
    <3>2. CASE c = Len(channels')
      BY <2>4, <3>1, <3>2 DEF List, Sets, Connected
    <3>3. CASE c # Len(channels')
      <4>1. c \in DOMAIN channels /\ channels[c].open
        BY <2>4, <3>3 DEF List
      <4>2. ~Connected(t, c)
        BY <2>4 DEF List, Connected
      <4> QED
        BY <2>1, <2>2, <4>1, <4>2
    <3> QED
      BY <3>2, <3>3
  <2>5. ASSUME NEW service \in Services, Serve(t, service)
        PROVE  \E u \in Callers : Connected(u, c)'
    BY <2>2, <2>5, ServeKeeps DEF operation, Connected
  <2>6. CASE Allocate(t) \/ Create(t) \/ FreeBegins(t) \/ FreeEnds(t)
    <3>1. UNCHANGED channels /\ doing[t] # "connected"
      BY <2>6 DEF Allocate, Create, FreeBegins, FreeEnds
    <3> QED
      BY <2>1, <2>2, <3>1 DEF Connected
  <2> QED
    BY <1>1, <2>3, <2>4, <2>5, <2>6 DEF CallbackStep
<1>2. CASE UNCHANGED operation
  BY <1>2 DEF operation, ChannelsHeld, Connected
<1> QED
  BY <1>1, <1>2, NextSteps, RegistrationFrame DEF sshVars, operation, registration

-----------------------------------------------------------------------------
(***************************************************************************)
(* The invariant, and what follows from it.                                *)
(***************************************************************************)
\* Addresses, contexts and channels are always whose they should be, and the
\* schemes taken are the registration's.
THEOREM SSHInvariance == SSHSpec => []SSHInv
<1>1. SSHInit => SSHInv
  <2>1. SSHInit => SchemesTaken
    BY ThreeSchemes DEF SSHInit, SchemesTaken, Ours
  <2>2. ASSUME SSHInit
        PROVE  SSHTypeOK
    <3>1. contexts \in Contexts
      BY <2>2 DEF SSHInit, Contexts, NoContext, Fresh
    <3>2. channels \in Channels
      BY <2>2 DEF SSHInit, Channels, Records
    <3> QED
      BY <2>2, <3>1, <3>2 DEF SSHInit, SSHTypeOK, Labels, Contexts, Channels, Records
  <2>3. SSHInit => AddressesOwned /\ ContextsOwned /\ ChannelsHeld
    BY DEF SSHInit, AddressesOwned, ContextsOwned, Holds, ChannelsHeld
  <2> QED
    BY <2>1, <2>2, <2>3 DEF SSHInv
<1>2. SSHInv /\ [SSHNext]_sshVars => SSHInv'
  <2> SUFFICES ASSUME SSHInv, [SSHNext]_sshVars
               PROVE  SSHInv'
    OBVIOUS
  <2>1. SSHTypeOK' /\ AddressesOwned' /\ ContextsOwned' /\ ChannelsHeld'
    BY TypeStep, AddressesStep, ContextsStep, ChannelsStep DEF SSHInv
  <2>2. SchemesTaken'
    <3>1. CASE RegistrationStep
      BY <3>1, SchemesStep DEF SSHInv
    <3>2. CASE UNCHANGED registration
      BY <3>2 DEF SSHInv, registration, SchemesTaken, Ours
    <3> QED
      BY <3>1, <3>2, NextSteps, OperationFrame DEF sshVars
  <2> QED
    BY <2>1, <2>2 DEF SSHInv
<1> QED
  BY <1>1, <1>2, PTL DEF SSHSpec

\* libgit2's callbacks find the context of their own connection under the
\* address they are called with, although addresses come back into use
\* between the removal of a context and the end of its free.
THEOREM OwnChannelReached == SSHSpec => []ReachesOwnChannel
<1>1. ASSUME SSHInv, NEW t \in Callers, Doing(t, "connected")
      PROVE  /\ Found(t) /\ Context(t).of = t /\ Context(t).channel # 0
             /\ channels[Context(t).channel] =
                   [of |-> t, service |-> asked[t], open |-> TRUE]
  <2>1. /\ Context(t).of = t /\ Context(t).channel \in DOMAIN channels
        /\ channels[Context(t).channel] =
              [of |-> t, service |-> asked[t], open |-> TRUE]
    BY <1>1 DEF SSHInv, ContextsOwned, Holds, Doing, Context
  <2>2. Context(t).channel # 0
    BY <1>1, <2>1 DEF SSHInv, SSHTypeOK
  <2>3. Found(t)
    BY <2>1, AbsentElse DEF Found, Context, NoContext, Fresh
  <2> QED
    BY <2>1, <2>2, <2>3
<1>2. SSHInv => ReachesOwnChannel
  BY <1>1 DEF ReachesOwnChannel
<1> QED
  BY <1>2, SSHInvariance, PTL

\* No channel stays open after its connection was reset.
THEOREM ChannelsClosed == SSHSpec => []NoChannelLeftOpen
<1>1. SSHInv => NoChannelLeftOpen
  BY AbsentElse DEF SSHInv, SSHTypeOK, ContextsOwned, Holds, ChannelsHeld,
     Connected, NoChannelLeftOpen, Doing, Found, Context, NoContext, Fresh
<1> QED
  BY <1>1, SSHInvariance, PTL

\* A registration that fails half way gives back what it took.
THEOREM SchemesAllOrNone == SSHSpec => []SchemesWhole
<1>1. SSHInv => SchemesWhole
  BY ThreeSchemes DEF SSHInv, SchemesTaken, SchemesWhole
<1> QED
  BY <1>1, SSHInvariance, PTL
=============================================================================
