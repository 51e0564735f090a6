------------------------ MODULE IncludePoliciesProofs ------------------------
(***************************************************************************)
(* Proofs about IncludePolicies.                                           *)
(***************************************************************************)
EXTENDS IncludePolicies, FiniteSetTheorems, SequenceTheorems, WellFoundedInduction, TLAPS

\* What the constants are assumed to be, in the words the proofs use.
LEMMA Assumptions ==
    /\ Default \notin Repos /\ NoMutex \notin Threads
    /\ MaxBoxes \in Nat
    /\ NoBox \in Boxed /\ NoBox \notin Boxes /\ Boxes \subseteq Boxed /\ Boxed \subseteq Nat
BY IncludeAssumption DEF IncludeAssumption, Boxed, Boxes, NoBox

-----------------------------------------------------------------------------
(* The stack of a thread                                                   *)

\* Only t's stack changes, from position k on, and it has n calls then.
Changes(t, k, n) ==
    /\ stack' \in [Threads -> Seq(Calls)]
    /\ \A u \in Threads \ {t} : stack'[u] = stack[u]
    /\ k \in Nat \ {0} /\ n \in Nat /\ k <= Len(stack[t]) + 1 /\ k <= n + 1
    /\ Len(stack'[t]) = n
    /\ \A i \in 1..k - 1 : stack'[t][i] = stack[t][i]

\* Front drops the last element.
LEMMA FrontIs ==
    ASSUME NEW S, NEW s \in Seq(S), s # << >>
    PROVE  /\ Len(s) \in Nat \ {0}
           /\ Front(s) \in Seq(S) /\ Len(Front(s)) = Len(s) - 1
           /\ \A i \in 1..Len(s) - 1 : Front(s)[i] = s[i]
           /\ Front(s) = << >> <=> Len(s) = 1
<1>1. Len(s) \in Nat \ {0}
    BY EmptySeq
<1>2. Front(s) \in Seq(S) /\ Len(Front(s)) = Len(s) - 1
    <2>1. \A j \in 1..Len(s) - 1 : s[j] \in S
        BY <1>1
    <2>2. /\ SubSeq(s, 1, Len(s) - 1) \in Seq(S)
          /\ Len(SubSeq(s, 1, Len(s) - 1)) = IF 1 <= Len(s) - 1 THEN Len(s) - 1 - 1 + 1 ELSE 0
        BY <1>1, <2>1, SubSeqProperties
    <2>3. /\ 1 <= Len(s) - 1 => Len(s) - 1 - 1 + 1 = Len(s) - 1
          /\ ~(1 <= Len(s) - 1) => Len(s) - 1 = 0
        <3> DEFINE n == Len(s)
        <3>1. n \in Nat /\ n # 0
            BY <1>1
        <3> HIDE DEF n
        <3>2. /\ 1 <= n - 1 => n - 1 - 1 + 1 = n - 1
              /\ ~(1 <= n - 1) => n - 1 = 0
            BY <3>1
        <3> QED
            BY <3>2 DEF n
    <2>4. Len(SubSeq(s, 1, Len(s) - 1)) = Len(s) - 1
        <3>1. CASE 1 <= Len(s) - 1
            BY <2>2, <2>3, <3>1
        <3>2. CASE ~(1 <= Len(s) - 1)
            BY <2>2, <2>3, <3>2
        <3> QED
            BY <3>1, <3>2
    <2> QED
        BY <2>2, <2>4 DEF Front
<1>3. ASSUME NEW i \in 1..Len(s) - 1 PROVE Front(s)[i] = s[i]
    <2>1. \A j \in 1..Len(s) - 1 : s[j] \in S
        BY <1>1
    <2>2. SubSeq(s, 1, Len(s) - 1)[i] = s[1 + i - 1]
        BY <1>1, <2>1, SubSeqProperties
    <2> QED
        BY <1>1, <2>2 DEF Front
<1>4. Front(s) = << >> <=> Len(s) = 1
    <2>1. Front(s) # << >> => Len(Front(s)) # 0
        BY <1>2
    <2>2. Len(<< >>) = 0
        OBVIOUS
    <2> QED
        BY <1>1, <1>2, <2>1, <2>2
<1> QED
    BY <1>1, <1>2, <1>3, <1>4

\* Its last element replaced.
LEMMA FrontAppended ==
    ASSUME NEW S, NEW s \in Seq(S), s # << >>, NEW f \in S
    PROVE  /\ Append(Front(s), f) \in Seq(S) /\ Len(Append(Front(s), f)) = Len(s)
           /\ \A i \in 1..Len(s) - 1 : Append(Front(s), f)[i] = s[i]
           /\ Append(Front(s), f)[Len(s)] = f
<1>1. /\ Len(s) \in Nat \ {0} /\ Front(s) \in Seq(S) /\ Len(Front(s)) = Len(s) - 1
      /\ \A i \in 1..Len(s) - 1 : Front(s)[i] = s[i]
    BY FrontIs
<1> QED
    BY <1>1, AppendProperties

\* A call is made: it is the top, on what was there.
LEMMA Pushing ==
    ASSUME TypeOK, NEW t \in Threads, NEW f \in Calls, Pushed(t, <<f>>)
    PROVE  /\ Changes(t, Len(stack[t]) + 1, Len(stack[t]) + 1)
           /\ stack'[t][Len(stack[t]) + 1] = f
<1> DEFINE s == stack[t]
<1>1. s \in Seq(Calls) /\ <<f>> \in Seq(Calls) /\ Len(<<f>>) = 1 /\ <<f>>[1] = f
    BY DEF TypeOK
<1>2. /\ s \o <<f>> \in Seq(Calls) /\ Len(s \o <<f>>) = Len(s) + 1
      /\ \A i \in 1..Len(s) : (s \o <<f>>)[i] = s[i]
      /\ (s \o <<f>>)[Len(s) + 1] = f
    <2> HIDE DEF s
    <2> QED
        BY <1>1
<1>3. stack' = [stack EXCEPT ![t] = s \o <<f>>]
    BY DEF Pushed
<1> HIDE DEF s
<1>4. stack' \in [Threads -> Seq(Calls)] /\ stack'[t] = s \o <<f>>
    BY <1>2, <1>3 DEF TypeOK
<1>5. \A u \in Threads \ {t} : stack'[u] = stack[u]
    BY <1>3 DEF TypeOK
<1>6. Len(s) \in Nat
    BY <1>1
<1> QED
    BY <1>2, <1>4, <1>5, <1>6 DEF Changes, s

\* Two calls are made, the second from the first.
LEMMA PushingTwo ==
    ASSUME TypeOK, NEW t \in Threads, NEW f \in Calls, NEW g \in Calls, Pushed(t, <<f, g>>)
    PROVE  /\ Changes(t, Len(stack[t]) + 1, Len(stack[t]) + 2)
           /\ stack'[t][Len(stack[t]) + 1] = f /\ stack'[t][Len(stack[t]) + 2] = g
<1> DEFINE s == stack[t]
<1>1. /\ s \in Seq(Calls) /\ <<f, g>> \in Seq(Calls)
      /\ Len(<<f, g>>) = 2 /\ <<f, g>>[1] = f /\ <<f, g>>[2] = g
    BY DEF TypeOK
<1>2. /\ s \o <<f, g>> \in Seq(Calls) /\ Len(s \o <<f, g>>) = Len(s) + 2
      /\ \A i \in 1..Len(s) : (s \o <<f, g>>)[i] = s[i]
      /\ (s \o <<f, g>>)[Len(s) + 1] = f /\ (s \o <<f, g>>)[Len(s) + 2] = g
    <2> HIDE DEF s
    <2> QED
        BY <1>1
<1>3. stack' = [stack EXCEPT ![t] = s \o <<f, g>>]
    BY DEF Pushed
<1> HIDE DEF s
<1>4. stack' \in [Threads -> Seq(Calls)] /\ stack'[t] = s \o <<f, g>>
    BY <1>2, <1>3 DEF TypeOK
<1>5. \A u \in Threads \ {t} : stack'[u] = stack[u]
    BY <1>3 DEF TypeOK
<1>6. Len(s) \in Nat
    BY <1>1
<1> QED
    BY <1>2, <1>4, <1>5, <1>6 DEF Changes, s

\* The top call goes on.
LEMMA Becoming ==
    ASSUME TypeOK, NEW t \in Threads, Busy(t), NEW f \in Calls, Becomes(t, f)
    PROVE  /\ Len(stack[t]) \in Depths(t)
           /\ Changes(t, Len(stack[t]), Len(stack[t]))
           /\ stack'[t][Len(stack[t])] = f
<1> DEFINE s == stack[t]
<1>1. s \in Seq(Calls) /\ s # << >>
    BY DEF TypeOK, Busy
<1>2. /\ Append(Front(s), f) \in Seq(Calls) /\ Len(Append(Front(s), f)) = Len(s)
      /\ \A i \in 1..Len(s) - 1 : Append(Front(s), f)[i] = s[i]
      /\ Append(Front(s), f)[Len(s)] = f
    <2> HIDE DEF s
    <2> QED
        BY <1>1, FrontAppended
<1>3. stack' = [stack EXCEPT ![t] = Append(Front(s), f)]
    BY DEF Becomes
<1> HIDE DEF s
<1>4. stack' \in [Threads -> Seq(Calls)] /\ stack'[t] = Append(Front(s), f)
    BY <1>2, <1>3 DEF TypeOK
<1>5. \A u \in Threads \ {t} : stack'[u] = stack[u]
    BY <1>3 DEF TypeOK
<1>6. Len(s) \in Nat \ {0}
    BY <1>1
<1> QED
    BY <1>2, <1>4, <1>5, <1>6 DEF Changes, s, Depths

\* The top call is over, and nothing else happens to the stack.
LEMMA Popping ==
    ASSUME TypeOK, NEW t \in Threads, Busy(t), stack' = [stack EXCEPT ![t] = Front(stack[t])]
    PROVE  /\ Len(stack[t]) \in Depths(t)
           /\ Changes(t, Len(stack[t]), Len(stack[t]) - 1)
<1> DEFINE s == stack[t]
<1>1. s \in Seq(Calls) /\ s # << >>
    BY DEF TypeOK, Busy
<1>2. /\ Front(s) \in Seq(Calls) /\ Len(Front(s)) = Len(s) - 1
      /\ \A i \in 1..Len(s) - 1 : Front(s)[i] = s[i]
    <2> HIDE DEF s
    <2> QED
        BY <1>1, FrontIs
<1>3. stack' = [stack EXCEPT ![t] = Front(s)]
    OBVIOUS
<1> HIDE DEF s
<1>4. stack' \in [Threads -> Seq(Calls)] /\ stack'[t] = Front(s)
    BY <1>2, <1>3 DEF TypeOK
<1>5. \A u \in Threads \ {t} : stack'[u] = stack[u]
    BY <1>3 DEF TypeOK
<1>6. Len(s) \in Nat \ {0}
    BY <1>1
<1> QED
    BY <1>2, <1>4, <1>5, <1>6 DEF Changes, s, Depths

\* The top call is over; the open or the close it was made for goes on.
LEMMA Returning ==
    ASSUME TypeOK, NEW t \in Threads, Busy(t), NEW at \in Moments, Returns(t, at)
    PROVE  LET n == Len(stack[t])
           IN  /\ n \in Depths(t)
               /\ \/ /\ n = 1 \/ stack[t][n - 1].op = "read"
                     /\ Changes(t, n, n - 1)
                  \/ /\ n > 1 /\ stack[t][n - 1].op # "read"
                     /\ Changes(t, n - 1, n - 1)
                     /\ stack'[t][n - 1] = [stack[t][n - 1] EXCEPT !.at = at]
<1> DEFINE s == stack[t]
           rest == Front(s)
           n == Len(s)
           g == [s[n - 1] EXCEPT !.at = at]
<1>1. s \in Seq(Calls) /\ s # << >> /\ n \in Nat \ {0} /\ n \in Depths(t)
    BY DEF TypeOK, Busy, Depths
<1>2. /\ rest \in Seq(Calls) /\ Len(rest) = n - 1 /\ (rest = << >> <=> n = 1)
      /\ \A i \in 1..n - 1 : rest[i] = s[i]
    <2> HIDE DEF s
    <2> QED
        BY <1>1, FrontIs
<1>3. CASE n = 1 \/ s[n - 1].op = "read"
    <2>1. rest = << >> \/ Last(rest).op = "read"
        BY <1>1, <1>2, <1>3 DEF Last
    <2>2. stack' = [stack EXCEPT ![t] = Front(stack[t])]
        BY <2>1 DEF Returns
    <2> QED
        BY <1>3, <2>2, Popping
<1>4. CASE n > 1 /\ s[n - 1].op # "read"
    <2>1. ~(rest = << >> \/ Last(rest).op = "read") /\ Last(rest) = s[n - 1]
        BY <1>1, <1>2, <1>4 DEF Last
    <2>2. stack' = [stack EXCEPT ![t] = Append(Front(rest), g)]
        BY <2>1 DEF Returns
    <2>3. s[n - 1] \in Calls /\ g \in Calls
        <3>1. s[n - 1] \in Calls
            BY <1>1, <1>4
        <3> HIDE DEF s
        <3> QED
            BY <3>1 DEF Calls
    <2> HIDE DEF g
    <2>4. /\ Append(Front(rest), g) \in Seq(Calls) /\ Len(Append(Front(rest), g)) = n - 1
          /\ \A i \in 1..n - 2 : Append(Front(rest), g)[i] = s[i]
          /\ Append(Front(rest), g)[n - 1] = g
        <3>1. rest # << >> /\ n - 1 - 1 = n - 2
            BY <1>1, <1>2, <1>4
        <3>2. \A i \in 1..n - 2 : i \in 1..n - 1
            BY <1>1
        <3>4. rest \in Seq(Calls) /\ g \in Calls
            BY <1>2, <2>3
        <3> HIDE DEF rest, s, n
        <3>3. /\ Append(Front(rest), g) \in Seq(Calls)
              /\ Len(Append(Front(rest), g)) = Len(rest)
              /\ \A i \in 1..Len(rest) - 1 : Append(Front(rest), g)[i] = rest[i]
              /\ Append(Front(rest), g)[Len(rest)] = g
            BY <3>1, <3>4, FrontAppended
        <3> QED
            BY <1>2, <3>1, <3>2, <3>3
    <2> HIDE DEF rest, s
    <2>5. stack' \in [Threads -> Seq(Calls)] /\ stack'[t] = Append(Front(rest), g)
        BY <2>2, <2>4 DEF TypeOK
    <2>6. \A u \in Threads \ {t} : stack'[u] = stack[u]
        BY <2>2 DEF TypeOK
    <2>7. Changes(t, n - 1, n - 1)
        <3>1. n - 1 \in Nat \ {0} /\ n - 1 <= n + 1 /\ n - 1 - 1 = n - 2
            <4>1. n \in Nat /\ n > 1
                BY <1>1, <1>4
            <4> HIDE DEF n
            <4> QED
                BY <4>1
        <3>2. n = Len(stack[t])
            BY DEF s
        <3>3. \A i \in 1..n - 1 - 1 : stack'[t][i] = stack[t][i]
            BY <2>4, <2>5, <3>1 DEF s
        <3> HIDE DEF n
        <3> QED
            BY <2>4, <2>5, <2>6, <3>1, <3>2, <3>3 DEF Changes
    <2>8. stack'[t][n - 1] = g
        BY <2>4, <2>5
    <2> QED
        BY <1>1, <1>4, <2>7, <2>8 DEF g, s
<1>5. \/ n = 1 \/ s[n - 1].op = "read"
      \/ n > 1 /\ s[n - 1].op # "read"
    <2>1. n = 1 \/ n > 1
        <3>1. n \in Nat \ {0}
            BY <1>1
        <3> HIDE DEF n
        <3> QED
            BY <3>1
    <2> QED
        BY <2>1, Zenon
<1> HIDE DEF s, rest, n, g
<1> QED
    BY <1>3, <1>4, <1>5 DEF n, s

\* What Changes says, without the arithmetic.
LEMMA Kept ==
    ASSUME TypeOK, NEW t \in Threads, NEW k, NEW n, Changes(t, k, n)
    PROVE  /\ Depths(t)' = 1..n
           /\ \A i \in 1..n : At(t, i)' \in Calls /\ (IsTop(t, i)' <=> i = n)
           /\ \A i \in Depths(t) : At(t, i) \in Calls /\ (IsTop(t, i) <=> i = Len(stack[t]))
           /\ \A i \in 1..n : i < k => i \in Depths(t) /\ At(t, i)' = At(t, i)
           /\ \A i \in 1..n : i + 1 < k =>
                /\ i + 1 \in Depths(t) /\ At(t, i + 1)' = At(t, i + 1)
                /\ ~IsTop(t, i) /\ ~IsTop(t, i)'
           /\ \A u \in Threads \ {t} :
                /\ Depths(u)' = Depths(u)
                /\ \A i : At(u, i)' = At(u, i) /\ (IsTop(u, i)' <=> IsTop(u, i))
<1>1. /\ stack \in [Threads -> Seq(Calls)] /\ stack' \in [Threads -> Seq(Calls)]
      /\ stack[t] \in Seq(Calls) /\ stack'[t] \in Seq(Calls)
      /\ Len(stack[t]) \in Nat /\ Len(stack'[t]) = n /\ n \in Nat
      /\ k \in Nat \ {0} /\ k <= Len(stack[t]) + 1 /\ k <= n + 1
      /\ \A i \in 1..k - 1 : stack'[t][i] = stack[t][i]
      /\ \A u \in Threads \ {t} : stack'[u] = stack[u]
    BY DEF TypeOK, Changes
<1>2. Depths(t)' = 1..n
    BY <1>1 DEF Depths
<1>3. \A i \in 1..n : At(t, i)' \in Calls /\ (IsTop(t, i)' <=> i = n)
    BY <1>1 DEF At, IsTop
<1>4. \A i \in Depths(t) : At(t, i) \in Calls /\ (IsTop(t, i) <=> i = Len(stack[t]))
    BY <1>1 DEF At, IsTop, Depths
<1>5. \A i \in 1..n : i < k => i \in Depths(t) /\ At(t, i)' = At(t, i)
    BY <1>1 DEF At, Depths
<1>6. ASSUME NEW i \in 1..n, i + 1 < k
      PROVE  /\ i + 1 \in Depths(t) /\ At(t, i + 1)' = At(t, i + 1)
             /\ ~IsTop(t, i) /\ ~IsTop(t, i)'
    BY <1>1, <1>6 DEF At, Depths, IsTop
<1>7. \A u \in Threads \ {t} :
        /\ Depths(u)' = Depths(u)
        /\ \A i : At(u, i)' = At(u, i) /\ (IsTop(u, i)' <=> IsTop(u, i))
    BY <1>1 DEF At, Depths, IsTop
<1> QED
    BY <1>2, <1>3, <1>4, <1>5, <1>6, <1>7

-----------------------------------------------------------------------------
(* What a change of one stack leaves of each invariant                     *)

\* The calls below a change are nested as they were.
LEMMA NestedStep ==
    ASSUME TypeOK, Nested, NEW t \in Threads, NEW k, NEW n, Changes(t, k, n),
           \A i \in 1..n : i + 1 >= k => NestedAt(t, i)'
    PROVE  Nested'
<1> SUFFICES ASSUME NEW u \in Threads, NEW i \in Depths(u)' PROVE NestedAt(u, i)'
    BY DEF Nested
<1>0. k \in Nat /\ n \in Nat
    BY DEF Changes
<1>1. CASE u # t
    <2>1. /\ i \in Depths(u) /\ At(u, i)' = At(u, i) /\ At(u, i + 1)' = At(u, i + 1)
          /\ (IsTop(u, i)' <=> IsTop(u, i))
        BY <1>1, Kept
    <2>2. NestedAt(u, i)
        BY <2>1 DEF Nested
    <2> QED
        BY <2>1, <2>2 DEF NestedAt, Reading, Setting, Opening, Ending
<1>2. CASE u = t /\ i + 1 < k
    <2>1. i \in 1..n
        BY <1>2, Kept
    <2>2. /\ i \in Depths(t) /\ At(t, i)' = At(t, i) /\ At(t, i + 1)' = At(t, i + 1)
          /\ ~IsTop(t, i) /\ ~IsTop(t, i)'
        BY <1>0, <1>2, <2>1, Kept
    <2>3. NestedAt(t, i)
        BY <2>2 DEF Nested
    <2> QED
        BY <1>2, <2>2, <2>3 DEF NestedAt, Reading, Setting, Opening, Ending
<1>3. CASE u = t /\ ~(i + 1 < k)
    <2>1. i \in 1..n
        BY <1>3, Kept
    <2> QED
        BY <1>0, <1>3, <2>1
<1> QED
    BY <1>1, <1>2, <1>3

\* The calls below a change have the published mutex if they had it.
LEMMA MutexStep ==
    ASSUME TypeOK, OneMutex, NEW t \in Threads, NEW k, NEW n, Changes(t, k, n),
           lock # NoMutex => lock' = lock,
           \A i \in 1..n : i >= k /\ At(t, i)'.at \in {"enter", "inside"} =>
               lock' # NoMutex /\ At(t, i)'.mutex = lock'
    PROVE  OneMutex'
<1> SUFFICES ASSUME NEW u \in Threads, NEW i \in Depths(u)',
                    At(u, i)'.at \in {"enter", "inside"}
             PROVE  lock' # NoMutex /\ At(u, i)'.mutex = lock'
    BY DEF OneMutex
<1>0. k \in Nat /\ n \in Nat
    BY DEF Changes
<1>1. CASE u # t
    <2>1. i \in Depths(u) /\ At(u, i)' = At(u, i)
        BY <1>1, Kept
    <2> QED
        BY <2>1 DEF OneMutex
<1>2. CASE u = t /\ i < k
    <2>1. i \in Depths(u) /\ At(u, i)' = At(u, i)
        BY <1>0, <1>2, Kept
    <2> QED
        BY <2>1 DEF OneMutex
<1>3. CASE u = t /\ ~(i < k)
    BY <1>0, <1>3, Kept
<1> QED
    BY <1>1, <1>2, <1>3

\* A step that gives no repository to a call that did not have it.
LEMMA UserStep ==
    ASSUME TypeOK, OneUser, NEW t \in Threads, NEW k, NEW n, Changes(t, k, n),
           \A i \in 1..n : i >= k => \A r \in Repos : Uses(t, i, r)' =>
               Uses(t, i, r) /\ At(t, i)'.op = At(t, i).op,
           \A r \in live \ live' : \A u \in Threads : \A i \in Depths(u)' : ~Uses(u, i, r)'
    PROVE  OneUser'
<1>0. k \in Nat /\ n \in Nat
    BY DEF Changes
<1>1. ASSUME NEW u \in Threads, NEW i \in Depths(u)', NEW r \in Repos, Uses(u, i, r)'
      PROVE  i \in Depths(u) /\ Uses(u, i, r) /\ At(u, i)'.op = At(u, i).op
    <2>1. CASE u # t
        BY <1>1, <2>1, Kept DEF Uses
    <2>2. CASE u = t /\ i < k
        <3>1. i \in Depths(u) /\ At(u, i)' = At(u, i)
            BY <1>0, <2>2, Kept
        <3> QED
            BY <1>1, <3>1 DEF Uses
    <2>3. CASE u = t /\ ~(i < k)
        <3>1. i \in 1..n
            BY <2>3, Kept
        <3>2. i >= k
            BY <1>0, <2>3, <3>1
        <3>3. Uses(u, i, r) /\ At(u, i)'.op = At(u, i).op
            BY <1>1, <2>3, <3>1, <3>2
        <3> QED
            BY <3>3 DEF Uses
    <2> QED
        BY <2>1, <2>2, <2>3
<1> SUFFICES ASSUME NEW u \in Threads, NEW i \in Depths(u)', NEW r \in Repos, Uses(u, i, r)'
             PROVE  /\ r \in live'
                    /\ \A v \in Threads : \A j \in Depths(v)' : Uses(v, j, r)' =>
                        v = u /\ (At(u, i)'.op \in {"open", "close"} => j \in {i, i + 1})
    BY DEF OneUser
<1>2. i \in Depths(u) /\ Uses(u, i, r) /\ At(u, i)'.op = At(u, i).op
    BY <1>1
<1>3. r \in live'
    BY <1>2 DEF OneUser
<1>4. ASSUME NEW v \in Threads, NEW j \in Depths(v)', Uses(v, j, r)'
      PROVE  v = u /\ (At(u, i)'.op \in {"open", "close"} => j \in {i, i + 1})
    <2>1. j \in Depths(v) /\ Uses(v, j, r)
        BY <1>1, <1>4
    <2> QED
        BY <1>2, <2>1 DEF OneUser
<1> QED
    BY <1>3, <1>4

\* A step that makes calls for one slot, which no other thread has.
LEMMA NewUserStep ==
    ASSUME TypeOK, OneUser, NEW t \in Threads, NEW n, Changes(t, Len(stack[t]) + 1, n),
           n <= Len(stack[t]) + 2, NEW s \in Slots,
           \A i \in 1..n : i > Len(stack[t]) =>
               At(t, i)'.slot = s /\ (At(t, i)'.op \in {"open", "close"} => i = Len(stack[t]) + 1),
           live \subseteq live', s \in Repos => s \in live',
           \A u \in Threads : \A i \in Depths(u) : s \in Repos /\ Uses(u, i, s) =>
               /\ u = t
               /\ At(u, i).op \in {"open", "close"} => i = Len(stack[t]) /\ n = i + 1
               /\ \A j \in 1..n : j > Len(stack[t]) => At(t, j)'.op \notin {"open", "close"}
    PROVE  OneUser'
<1> DEFINE m == Len(stack[t])
<1>0. n \in Nat /\ m \in Nat
    BY DEF Changes, TypeOK
<1>1. ASSUME NEW u \in Threads, NEW i \in Depths(u)', NEW r \in Repos, Uses(u, i, r)'
      PROVE  \/ i \in Depths(u) /\ Uses(u, i, r) /\ At(u, i)' = At(u, i)
             \/ u = t /\ i \in 1..n /\ i > m /\ r = s
    <2>1. CASE u # t
        BY <1>1, <2>1, Kept DEF Uses
    <2>2. CASE u = t /\ i < m + 1
        <3>1. i \in Depths(u) /\ At(u, i)' = At(u, i)
            BY <1>0, <2>2, Kept
        <3> QED
            BY <1>1, <3>1 DEF Uses
    <2>3. CASE u = t /\ ~(i < m + 1)
        <3>1. i \in 1..n
            BY <2>3, Kept
        <3>2. i > m
            BY <1>0, <2>3, <3>1
        <3> QED
            BY <1>1, <2>3, <3>1, <3>2 DEF Uses
    <2> QED
        BY <2>1, <2>2, <2>3
<1> SUFFICES ASSUME NEW u \in Threads, NEW i \in Depths(u)', NEW r \in Repos, Uses(u, i, r)'
             PROVE  /\ r \in live'
                    /\ \A v \in Threads : \A j \in Depths(v)' : Uses(v, j, r)' =>
                        v = u /\ (At(u, i)'.op \in {"open", "close"} => j \in {i, i + 1})
    BY DEF OneUser
<1>3. r \in live'
    BY <1>1 DEF OneUser
<1>4. ASSUME NEW v \in Threads, NEW j \in Depths(v)', Uses(v, j, r)'
      PROVE  v = u /\ (At(u, i)'.op \in {"open", "close"} => j \in {i, i + 1})
    <2>1. \/ i \in Depths(u) /\ Uses(u, i, r) /\ At(u, i)' = At(u, i)
          \/ u = t /\ i \in 1..n /\ i > m /\ r = s
        BY <1>1
    <2>2. \/ j \in Depths(v) /\ Uses(v, j, r) /\ At(v, j)' = At(v, j)
          \/ v = t /\ j \in 1..n /\ j > m /\ r = s
        BY <1>1, <1>4
    <2>3. CASE /\ i \in Depths(u) /\ Uses(u, i, r) /\ At(u, i)' = At(u, i)
               /\ j \in Depths(v) /\ Uses(v, j, r)
        BY <2>3 DEF OneUser
    <2>4. CASE /\ i \in Depths(u) /\ Uses(u, i, r) /\ At(u, i)' = At(u, i)
               /\ v = t /\ j \in 1..n /\ j > m /\ r = s
        <3>1. u = t /\ (At(u, i).op \in {"open", "close"} => i = m /\ n = i + 1)
            BY <2>4
        <3>2. At(u, i)'.op \in {"open", "close"} => j = i + 1
            BY <1>0, <2>4, <3>1
        <3> QED
            BY <2>4, <3>1, <3>2
    <2>5. CASE /\ u = t /\ i \in 1..n /\ i > m /\ r = s
               /\ j \in Depths(v) /\ Uses(v, j, r)
        BY <2>5
    <2>6. CASE /\ u = t /\ i \in 1..n /\ i > m /\ r = s
               /\ v = t /\ j \in 1..n /\ j > m
        <3>1. At(t, i)'.op \in {"open", "close"} => i = m + 1
            BY <2>6
        <3>2. n <= m + 2
            OBVIOUS
        <3> HIDE DEF m
        <3>3. i = m + 1 => j \in {i, i + 1}
            BY <1>0, <2>6, <3>2
        <3> QED
            BY <2>6, <3>1, <3>3
    <2> QED
        BY <2>1, <2>2, <2>3, <2>4, <2>5, <2>6
<1> QED
    BY <1>3, <1>4

\* The slots are read from the table and the default alone.
LEMMA SlotsKept ==
    ASSUME table' = table, default' = default
    PROVE  \A s : InSlot(s)' = InSlot(s)
<1>1. \A s : EntryOf(s)' = EntryOf(s)
    BY Zenon DEF EntryOf, SelectInSeq
<1> QED
    BY <1>1 DEF InSlot

\* A step that changes no slot: what is freed had been emptied.
LEMMA GivenStep ==
    ASSUME TypeOK, AsGiven, NEW t \in Threads, NEW k, NEW n, Changes(t, k, n),
           UNCHANGED policies, live' \subseteq live,
           \A r \in live \ live' : InSlot(r) = NoBox,
           \A r \in live' : Unset(t, r) => Unset(t, r)' \/ InSlot(r) = given[r],
           \A i \in 1..n : i + 1 >= k => GivenAt(t, i)'
    PROVE  AsGiven'
<1>0. /\ k \in Nat /\ n \in Nat
      /\ table' = table /\ default' = default /\ given' = given
    BY DEF Changes, policies
<1>1. \A s : InSlot(s)' = InSlot(s)
    BY <1>0, SlotsKept
<1>2. default' = given'[Default]
    BY <1>0 DEF AsGiven
<1>3. \A r \in Repos \ live' : InSlot(r)' = NoBox
    BY <1>1 DEF AsGiven
<1>4. ASSUME NEW r \in live', \A u \in Threads : ~Unset(u, r)'
      PROVE  InSlot(r)' = given'[r]
    <2>1. ASSUME NEW u \in Threads \ {t} PROVE ~Unset(u, r)
        <3>1. Depths(u)' = Depths(u) /\ \A i : At(u, i)' = At(u, i)
            BY Kept
        <3> QED
            BY <1>4, <3>1 DEF Unset
    <2>2. Unset(t, r) => InSlot(r) = given[r]
        BY <1>4
    <2>3. r \in live
        OBVIOUS
    <2> QED
        BY <1>0, <1>1, <2>1, <2>2, <2>3 DEF AsGiven
<1>5. ASSUME NEW u \in Threads, NEW i \in Depths(u)' PROVE GivenAt(u, i)'
    <2>1. CASE u # t
        <3>1. /\ i \in Depths(u) /\ At(u, i)' = At(u, i) /\ At(u, i + 1)' = At(u, i + 1)
              /\ (IsTop(u, i)' <=> IsTop(u, i))
            BY <2>1, Kept
        <3>2. GivenAt(u, i)
            BY <3>1 DEF AsGiven
        <3> QED
            BY <1>0, <1>1, <3>1, <3>2 DEF GivenAt
    <2>2. CASE u = t /\ i + 1 < k
        <3>1. i \in 1..n
            BY <2>2, Kept
        <3>2. /\ i \in Depths(t) /\ At(t, i)' = At(t, i) /\ At(t, i + 1)' = At(t, i + 1)
              /\ ~IsTop(t, i) /\ ~IsTop(t, i)'
            BY <1>0, <2>2, <3>1, Kept
        <3>3. GivenAt(t, i)
            BY <3>2 DEF AsGiven
        <3> QED
            BY <1>0, <1>1, <2>2, <3>2, <3>3 DEF GivenAt
    <2>3. CASE u = t /\ ~(i + 1 < k)
        <3>1. i \in 1..n
            BY <2>3, Kept
        <3> QED
            BY <1>0, <2>3, <3>1
    <2> QED
        BY <2>1, <2>2, <2>3
<1> QED
    BY <1>2, <1>3, <1>4, <1>5 DEF AsGiven

\* A step that neither makes an open nor ends one.
LEMMA StackedStep ==
    ASSUME TypeOK, Stacked, NEW t \in Threads, NEW k, NEW n, Changes(t, k, n),
           threadPolicy' = threadPolicy,
           \A i \in 1..n : i >= k /\ At(t, i)'.op = "open" =>
               /\ i \in Depths(t) /\ At(t, i).op = "open"
               /\ At(t, i)'.box = At(t, i).box /\ At(t, i)'.other = At(t, i).other,
           \A i \in Depths(t) : i >= k /\ At(t, i).op = "open" => i <= n /\ At(t, i)'.op = "open",
           \A i \in 1..n : i >= k => Lent(t, i)'
    PROVE  Stacked'
<1>0. k \in Nat /\ n \in Nat
    BY DEF Changes
<1>1. ASSUME NEW u \in Threads \ {t}
      PROVE  Restores(u)' /\ \A i \in Depths(u)' : Lent(u, i)'
    <2>1. Depths(u)' = Depths(u) /\ \A i : At(u, i)' = At(u, i)
        BY Kept
    <2>2. Opens(u)' = Opens(u)
        BY <2>1 DEF Opens
    <2>3. Restores(u) /\ \A i \in Depths(u) : Lent(u, i)
        BY DEF Stacked
    <2> QED
        BY <2>1, <2>2, <2>3 DEF Restores, Lent
<1>2. Opens(t)' = Opens(t) /\ \A i \in Opens(t) :
        At(t, i)'.box = At(t, i).box /\ At(t, i)'.other = At(t, i).other
    <2>1. ASSUME NEW i \in Opens(t)'
          PROVE  /\ i \in Opens(t)
                 /\ At(t, i)'.box = At(t, i).box /\ At(t, i)'.other = At(t, i).other
        <3>1. i \in 1..n /\ At(t, i)'.op = "open" /\ At(t, i)'.box # NoBox
            <4>1. i \in Depths(t)' /\ At(t, i)'.op = "open" /\ At(t, i)'.box # NoBox
                BY DEF Opens
            <4>2. Depths(t)' = 1..n
                BY Kept
            <4> QED
                BY <4>1, <4>2
        <3>2. CASE i < k
            <4>1. i \in Depths(t) /\ At(t, i)' = At(t, i)
                BY <3>1, <3>2, Kept
            <4> QED
                BY <3>1, <4>1 DEF Opens
        <3>3. CASE i >= k
            BY <3>1, <3>3 DEF Opens
        <3> QED
            BY <1>0, <3>1, <3>2, <3>3
    <2>2. ASSUME NEW i \in Opens(t) PROVE i \in Opens(t)'
        <3>1. i \in Depths(t) /\ At(t, i).op = "open" /\ At(t, i).box # NoBox
            BY DEF Opens
        <3>2. i \in 1..n
            <4>1. i < k => i <= n
                BY <1>0, <3>1 DEF Changes, Depths
            <4>2. i >= k => i <= n
                BY <3>1
            <4> QED
                BY <1>0, <3>1, <4>1, <4>2 DEF Depths
        <3>3. CASE i < k
            <4>1. At(t, i)' = At(t, i)
                BY <3>2, <3>3, Kept
            <4> QED
                BY <3>1, <3>2, <4>1, Kept DEF Opens
        <3>4. CASE i >= k
            BY <3>1, <3>2, <3>4, Kept DEF Opens
        <3> QED
            BY <1>0, <3>2, <3>3, <3>4
    <2> QED
        BY <2>1, <2>2
<1>3. Restores(t)'
    <2>1. Restores(t)
        BY DEF Stacked
    <2> QED
        BY <1>2, <2>1 DEF Restores
<1>4. ASSUME NEW i \in Depths(t)' PROVE Lent(t, i)'
    <2>1. i \in 1..n
        BY Kept
    <2>2. CASE i < k
        <3>1. i \in Depths(t) /\ At(t, i)' = At(t, i)
            BY <2>1, <2>2, Kept
        <3>2. Lent(t, i)
            BY <3>1 DEF Stacked
        <3> QED
            BY <1>2, <3>1, <3>2 DEF Lent
    <2> QED
        BY <1>0, <2>1, <2>2
<1> QED
    BY <1>1, <1>3, <1>4 DEF Stacked

-----------------------------------------------------------------------------
(* Counting references                                                     *)

\* Two sets that may differ in x only.
LEMMA CountStep ==
    ASSUME NEW S, NEW S2, NEW x, IsFiniteSet(S), S2 \ {x} = S \ {x}
    PROVE  /\ IsFiniteSet(S2) /\ Cardinality(S) \in Nat /\ Cardinality(S2) \in Nat
           /\ Cardinality(S2) + (IF x \in S THEN 1 ELSE 0) =
                Cardinality(S) + (IF x \in S2 THEN 1 ELSE 0)
<1>1. /\ IsFiniteSet(S \ {x}) /\ Cardinality(S) \in Nat
      /\ Cardinality(S \ {x}) = IF x \in S THEN Cardinality(S) - 1 ELSE Cardinality(S)
    BY FS_RemoveElement, FS_CardinalityType
<1>2. CASE x \in S2
    <2>1. S2 = (S \ {x}) \cup {x}
        BY <1>2
    <2>2. IsFiniteSet(S2) /\ Cardinality(S2) = Cardinality(S \ {x}) + 1
        BY <1>1, <2>1, FS_AddElement
    <2> QED
        BY <1>1, <1>2, <2>2, FS_CardinalityType
<1>3. CASE x \notin S2
    <2>1. S2 = S \ {x}
        BY <1>3
    <2> QED
        BY <1>1, <1>3, <2>1, FS_CardinalityType
<1> QED
    BY <1>2, <1>3

\* t's call at x holds h1 in place of h0, and no other call changes what it
\* holds.
LEMMA HoldingStep ==
    ASSUME Counted, NEW t \in Threads, NEW x \in Nat,
           \A u \in Threads \ {t} : \A i \in Nat : HeldAt(u, i)' = HeldAt(u, i),
           \A i \in Nat \ {x} : HeldAt(t, i)' = HeldAt(t, i),
           NEW b \in Boxes
    PROVE  /\ IsFiniteSet(Holding(b))'
           /\ Cardinality(Holding(b)) \in Nat /\ Cardinality(Holding(b))' \in Nat
           /\ Cardinality(Holding(b))' + (IF HeldAt(t, x) = b THEN 1 ELSE 0) =
                Cardinality(Holding(b)) + (IF HeldAt(t, x)' = b THEN 1 ELSE 0)
<1>1. IsFiniteSet(Holding(b))
    BY DEF Counted
<1>2. /\ <<t, x>> \in Holding(b) <=> HeldAt(t, x) = b
      /\ <<t, x>> \in Holding(b)' <=> HeldAt(t, x)' = b
    BY DEF Holding
<1>3. Holding(b)' \ {<<t, x>>} = Holding(b) \ {<<t, x>>}
    <2>1. ASSUME NEW c \in Threads \X Nat, c # <<t, x>>
          PROVE  HeldAt(c[1], c[2])' = HeldAt(c[1], c[2])
        <3>1. PICK u \in Threads, i \in Nat : c = <<u, i>>
            OBVIOUS
        <3>2. u # t \/ i # x
            BY <2>1, <3>1
        <3> QED
            BY <3>1, <3>2
    <2> QED
        BY <2>1 DEF Holding
<1> DEFINE S == Holding(b)
           S2 == Holding(b)'
           y == <<t, x>>
<1> HIDE DEF S, S2, y
<1>4. IsFiniteSet(S) /\ S2 \ {y} = S \ {y}
    BY <1>1, <1>3 DEF S, S2, y
<1>5. /\ IsFiniteSet(S2) /\ Cardinality(S) \in Nat /\ Cardinality(S2) \in Nat
      /\ Cardinality(S2) + (IF y \in S THEN 1 ELSE 0) =
           Cardinality(S) + (IF y \in S2 THEN 1 ELSE 0)
    BY <1>4, CountStep
<1> QED
    BY <1>2, <1>5 DEF S, S2, y

\* s holds another payload, and no other slot does.
LEMMA KeepingStep ==
    ASSUME Counted, NEW s \in Slots,
           \A r \in Slots \ {s} : InSlot(r)' = InSlot(r),
           NEW b \in Boxes
    PROVE  /\ IsFiniteSet(Keeping(b))'
           /\ Cardinality(Keeping(b)) \in Nat /\ Cardinality(Keeping(b))' \in Nat
           /\ Cardinality(Keeping(b))' + (IF InSlot(s) = b THEN 1 ELSE 0) =
                Cardinality(Keeping(b)) + (IF InSlot(s)' = b THEN 1 ELSE 0)
<1>1. IsFiniteSet(Keeping(b))
    BY DEF Counted
<1>2. /\ s \in Keeping(b) <=> InSlot(s) = b
      /\ s \in Keeping(b)' <=> InSlot(s)' = b
    BY DEF Keeping
<1>3. Keeping(b)' \ {s} = Keeping(b) \ {s}
    BY DEF Keeping
<1> DEFINE S == Keeping(b)
           S2 == Keeping(b)'
<1> HIDE DEF S, S2
<1>4. IsFiniteSet(S) /\ S2 \ {s} = S \ {s}
    BY <1>1, <1>3 DEF S, S2
<1>5. /\ IsFiniteSet(S2) /\ Cardinality(S) \in Nat /\ Cardinality(S2) \in Nat
      /\ Cardinality(S2) + (IF s \in S THEN 1 ELSE 0) =
           Cardinality(S) + (IF s \in S2 THEN 1 ELSE 0)
    BY <1>4, CountStep
<1> QED
    BY <1>2, <1>5 DEF S, S2

\* What is held or registered has a reference, and was made.
LEMMA Referenced ==
    ASSUME TypeOK, Counted, NEW b \in Boxes
    PROVE  /\ \A t \in Threads, i \in Nat : HeldAt(t, i) = b => refs[b] \in Nat \ {0} /\ b <= made
           /\ \A s \in Slots : InSlot(s) = b => refs[b] \in Nat \ {0} /\ b <= made
<1>1. /\ IsFiniteSet(Holding(b)) /\ IsFiniteSet(Keeping(b))
      /\ refs[b] = Cardinality(Keeping(b)) + Cardinality(Holding(b))
      /\ b > made => refs[b] = 0
    BY DEF Counted
<1>2. Cardinality(Holding(b)) \in Nat /\ Cardinality(Keeping(b)) \in Nat
    BY <1>1, FS_CardinalityType
<1>3. b \in Nat /\ made \in Nat
    BY Assumptions DEF TypeOK
<1>4. ASSUME NEW t \in Threads, NEW i \in Nat, HeldAt(t, i) = b
      PROVE  refs[b] \in Nat \ {0} /\ b <= made
    <2>1. <<t, i>> \in Holding(b)
        BY <1>4 DEF Holding
    <2>2. Cardinality(Holding(b)) # 0
        BY <1>1, <2>1, FS_EmptySet
    <2> QED
        BY <1>1, <1>2, <1>3, <2>2
<1>5. ASSUME NEW s \in Slots, InSlot(s) = b
      PROVE  refs[b] \in Nat \ {0} /\ b <= made
    <2>1. s \in Keeping(b)
        BY <1>5 DEF Keeping
    <2>2. Cardinality(Keeping(b)) # 0
        BY <1>1, <2>1, FS_EmptySet
    <2> QED
        BY <1>1, <1>2, <1>3, <2>2
<1> QED
    BY <1>4, <1>5

\* The books balance when what t's call at x holds, and nothing else, goes
\* in or out of the references.
LEMMA CountedStep ==
    ASSUME TypeOK, Counted, NEW t \in Threads, NEW k, NEW n, Changes(t, k, n),
           table' = table, default' = default, NEW x \in Nat,
           \A i \in Nat : i >= k /\ i # x => HeldAt(t, i)' = HeldAt(t, i),
           \A b \in Boxes :
               /\ refs'[b] \in Int
               /\ refs'[b] + (IF HeldAt(t, x) = b THEN 1 ELSE 0) =
                    refs[b] + (IF HeldAt(t, x)' = b THEN 1 ELSE 0)
               /\ b > made' => refs'[b] = 0
    PROVE  Counted' /\ \A b \in Boxes : refs'[b] \in Nat
<1>0. k \in Nat /\ n \in Nat
    BY DEF Changes
<1>1. ASSUME NEW u \in Threads \ {t}, NEW i \in Nat PROVE HeldAt(u, i)' = HeldAt(u, i)
    BY Kept DEF HeldAt
<1>2. ASSUME NEW i \in Nat \ {x} PROVE HeldAt(t, i)' = HeldAt(t, i)
    <2>1. CASE i >= k
        BY <2>1
    <2>2. CASE i < k
        <3>1. i \in 1..n => i \in Depths(t) /\ At(t, i)' = At(t, i)
            BY <2>2, Kept
        <3>2. i \in Depths(t) => i \in 1..n
            BY <1>0, <2>2 DEF Changes, Depths
        <3>3. Depths(t)' = 1..n
            BY Kept
        <3> QED
            BY <3>1, <3>2, <3>3 DEF HeldAt
    <2> QED
        BY <1>0, <2>1, <2>2
<1> SUFFICES ASSUME NEW b \in Boxes
             PROVE  /\ IsFiniteSet(Keeping(b))' /\ IsFiniteSet(Holding(b))'
                    /\ refs'[b] = Cardinality(Keeping(b))' + Cardinality(Holding(b))'
                    /\ b > made' => refs'[b] = 0
                    /\ refs'[b] \in Nat
    BY DEF Counted
<1>3. Keeping(b)' = Keeping(b)
    BY SlotsKept DEF Keeping
<1>4. /\ IsFiniteSet(Keeping(b)) /\ refs[b] = Cardinality(Keeping(b)) + Cardinality(Holding(b))
      /\ Cardinality(Keeping(b)) \in Nat
    BY FS_CardinalityType DEF Counted
<1>5. /\ IsFiniteSet(Holding(b))'
      /\ Cardinality(Holding(b)) \in Nat /\ Cardinality(Holding(b))' \in Nat
      /\ Cardinality(Holding(b))' + (IF HeldAt(t, x) = b THEN 1 ELSE 0) =
           Cardinality(Holding(b)) + (IF HeldAt(t, x)' = b THEN 1 ELSE 0)
    BY <1>1, <1>2, HoldingStep
<1>6. /\ refs'[b] \in Int
      /\ refs'[b] + (IF HeldAt(t, x) = b THEN 1 ELSE 0) =
           refs[b] + (IF HeldAt(t, x)' = b THEN 1 ELSE 0)
      /\ b > made' => refs'[b] = 0
    OBVIOUS
<1>7. refs'[b] = Cardinality(Keeping(b)) + Cardinality(Holding(b))'
    <2>1. CASE HeldAt(t, x) = b
        BY <1>4, <1>5, <1>6, <2>1
    <2>2. CASE HeldAt(t, x) # b
        BY <1>4, <1>5, <1>6, <2>2
    <2> QED
        BY <2>1, <2>2
<1> QED
    BY <1>3, <1>4, <1>5, <1>6, <1>7

-----------------------------------------------------------------------------
(* The mutex                                                               *)

\* The top call, by its position.
LEMMA TopIs ==
    ASSUME TypeOK, NEW t \in Threads, Busy(t)
    PROVE  /\ Len(stack[t]) \in Nat \ {0} /\ Len(stack[t]) \in Depths(t)
           /\ Top(t) = At(t, Len(stack[t])) /\ Top(t) \in Calls
<1>1. stack[t] \in Seq(Calls) /\ stack[t] # << >>
    BY DEF TypeOK, Busy
<1>2. Len(stack[t]) \in Nat \ {0}
    BY <1>1, EmptySeq
<1> QED
    BY <1>1, <1>2 DEF Top, Last, At, Depths

\* A step of a thread that does not go inside.
LEMMA InsideStep ==
    ASSUME OneInside, NEW t \in Threads, \A u \in Threads \ {t} : stack'[u] = stack[u],
           Inside(t)' => Inside(t) \/ \A u \in Threads \ {t} : ~Inside(u)
    PROVE  OneInside'
<1>1. \A u \in Threads \ {t} : Inside(u)' = Inside(u)
    BY DEF Inside, Locking, Busy, Top
<1> SUFFICES ASSUME NEW u \in Threads, NEW v \in Threads, Inside(u)', Inside(v)'
             PROVE  u = v
    BY DEF OneInside
<1>2. CASE u # t /\ v # t
    BY <1>1, <1>2 DEF OneInside
<1>3. CASE u = t /\ v # t
    BY <1>1, <1>3 DEF OneInside
<1>4. CASE u # t /\ v = t
    BY <1>1, <1>4 DEF OneInside
<1> QED
    BY <1>2, <1>3, <1>4

\* Whoever is inside has the published mutex.
LEMMA InsideHasLock ==
    ASSUME TypeOK, OneMutex, NEW t \in Threads, Busy(t), Top(t).at \in {"enter", "inside"}
    PROVE  lock # NoMutex /\ Top(t).mutex = lock
BY TopIs DEF OneMutex

\* Everything but the mutex is as it was when a call only gets on with it.
LEMMA WorkingStep ==
    ASSUME IInv, NEW t \in Threads, Busy(t), NEW f \in Calls, Becomes(t, f),
           Top(t).at \in Locked, f.at \in Locked, Top(t).op \in {"read", "set"},
           f.op = Top(t).op, f.slot = Top(t).slot, f.box = Top(t).box,
           f.other = Top(t).other,
           UNCHANGED <<policies, threadPolicy, payloads, live>>,
           lock' \in Threads \cup {NoMutex}
    PROVE  /\ TypeOK' /\ Nested' /\ OneUser' /\ OneEntry' /\ AsGiven' /\ Stacked' /\ Counted'
           /\ Changes(t, Len(stack[t]), Len(stack[t]))
           /\ stack'[t][Len(stack[t])] = f
<1>t. TypeOK
    BY DEF IInv
<1>n. PICK n \in Nat \ {0} : n = Len(stack[t])
    BY <1>t, TopIs
<1>0. /\ n \in Nat \ {0} /\ n \in Depths(t) /\ Top(t) = At(t, n)
      /\ Changes(t, n, n) /\ At(t, n)' = f
    <2>1. n \in Depths(t) /\ Top(t) = At(t, n)
        BY <1>t, <1>n, TopIs
    <2>2. Changes(t, n, n) /\ stack'[t][n] = f
        BY <1>t, <1>n, Becoming
    <2> QED
        BY <2>1, <2>2 DEF At
<1>1. /\ table' = table /\ default' = default /\ given' = given
      /\ threadPolicy' = threadPolicy /\ refs' = refs /\ made' = made /\ live' = live
    BY DEF policies, payloads
<1>2. TypeOK'
    BY <1>t, <1>0, <1>1 DEF TypeOK, Changes
<1>3. /\ Depths(t)' = 1..n /\ IsTop(t, n) /\ IsTop(t, n)'
      /\ n \in 1..n
      /\ \A i \in 1..n : i # n =>
            /\ i \in Depths(t) /\ At(t, i)' = At(t, i) /\ ~IsTop(t, i) /\ ~IsTop(t, i)'
    <2>1. /\ Depths(t)' = 1..n
          /\ \A i \in 1..n : IsTop(t, i)' <=> i = n
          /\ \A i \in Depths(t) : IsTop(t, i) <=> i = n
          /\ \A i \in 1..n : i < n => i \in Depths(t) /\ At(t, i)' = At(t, i)
        BY <1>t, <1>n, <1>0, Kept
    <2>2. \A i \in 1..n : i # n => i < n
        BY <1>0
    <2> QED
        BY <1>0, <2>1, <2>2
<1>4. /\ f.at \notin {"asking", "replaced"} /\ At(t, n).at \notin {"asking", "replaced"}
      /\ f.op \notin {"open", "close"} /\ At(t, n).op \notin {"open", "close"}
    BY <1>0 DEF Locked
<1>5. /\ n + 1 >= n /\ n - 1 + 1 = n
      /\ \A i \in 1..n : i + 1 >= n /\ i # n => i + 1 = n
    BY <1>0
<1>6. Nested'
    <2> SUFFICES ASSUME NEW i \in 1..n, i + 1 >= n PROVE NestedAt(t, i)'
        BY <1>t, <1>0, NestedStep DEF IInv
    <2>1. NestedAt(t, i)
        <3>1. i \in Depths(t)
            BY <1>0, <1>3
        <3> QED
            BY <3>1 DEF IInv, Nested
    <2>2. CASE i = n
        BY <1>0, <1>3, <1>4, <2>1, <2>2 DEF NestedAt, Reading, Setting, Locked
    <2>3. CASE i # n
        <3>1. At(t, i + 1)' = f /\ At(t, i + 1) = Top(t)
            BY <1>0, <1>5, <2>3
        <3> QED
            BY <1>3, <2>1, <2>3, <3>1 DEF NestedAt, Reading, Setting, Opening, Ending
    <2> QED
        BY <2>2, <2>3
<1>7. OneUser'
    <2>1. \A i \in 1..n : i >= n => \A r \in Repos : Uses(t, i, r)' =>
               Uses(t, i, r) /\ At(t, i)'.op = At(t, i).op
        BY <1>0, <1>4 DEF Uses
    <2> QED
        BY <1>t, <1>0, <1>1, <2>1, UserStep DEF IInv
<1>8. OneEntry'
    BY <1>1 DEF IInv, OneEntry
<1>9. AsGiven'
    <2>1. \A i \in 1..n : i + 1 >= n => GivenAt(t, i)'
        <3> SUFFICES ASSUME NEW i \in 1..n, i + 1 >= n PROVE GivenAt(t, i)'
            OBVIOUS
        <3>1. GivenAt(t, i)
            <4>1. i \in Depths(t)
                BY <1>0, <1>3
            <4> QED
                BY <4>1 DEF IInv, AsGiven
        <3>2. CASE i = n
            BY <1>0, <1>4, <3>2 DEF GivenAt
        <3>3. CASE i # n
            <4>1. At(t, i + 1)' = f /\ At(t, i + 1) = At(t, n)
                BY <1>0, <1>5, <3>3
            <4>2. At(t, i)' = At(t, i) /\ ~IsTop(t, i) /\ ~IsTop(t, i)'
                BY <1>3, <3>3
            <4>3. \A s : InSlot(s)' = InSlot(s)
                BY <1>1, SlotsKept
            <4> QED
                BY <1>1, <1>4, <3>1, <4>1, <4>2, <4>3 DEF GivenAt
        <3> QED
            BY <3>2, <3>3
    <2>2. \A r \in live' : Unset(t, r) => Unset(t, r)'
        <3> SUFFICES ASSUME NEW r \in live', NEW i \in Depths(t), At(t, i).op = "close",
                            At(t, i).slot = r, At(t, i).depth = 2
                     PROVE  Unset(t, r)'
            BY DEF Unset
        <3>1. i # n /\ i \in 1..n
            BY <1>4, <1>n DEF Depths
        <3> QED
            BY <1>3, <3>1 DEF Unset
    <2>3. UNCHANGED policies
        OBVIOUS
    <2> QED
        BY <1>t, <1>0, <1>1, <2>1, <2>2, <2>3, GivenStep DEF IInv
<1>10. Stacked'
    <2>0. \A i \in 1..n : i >= n => i = n
        BY <1>0
    <2>1. \A i \in Depths(t) : i >= n => i = n
        BY <1>0, <1>n DEF Depths
    <2>2. \A i \in 1..n : i >= n => Lent(t, i)'
        <3>1. At(t, n).box # NoBox => At(t, n).op # "read"
            <4>1. NestedAt(t, n)
                BY <1>0 DEF IInv, Nested
            <4> QED
                BY <1>4, <4>1 DEF NestedAt, Reading
        <3> QED
            BY <1>0, <2>0, <3>1 DEF Lent
    <2>3. /\ \A i \in 1..n : i >= n /\ At(t, i)'.op = "open" => FALSE
          /\ \A i \in Depths(t) : i >= n /\ At(t, i).op = "open" => FALSE
        BY <1>0, <1>4, <2>0, <2>1
    <2> QED
        BY <1>t, <1>0, <1>1, <2>2, <2>3, StackedStep DEF IInv
<1>11. Counted'
    <2>1. HeldAt(t, n)' = HeldAt(t, n)
        BY <1>0, <1>3, <1>4 DEF HeldAt, Held
    <2>2. \A i \in Nat : i >= n /\ i # n => HeldAt(t, i)' = HeldAt(t, i)
        <3>1. \A i \in Nat : i >= n /\ i # n => i \notin 1..n
            BY <1>0
        <3>2. Depths(t) = 1..n
            BY <1>n DEF Depths
        <3> QED
            BY <1>3, <3>1, <3>2 DEF HeldAt
    <2>3. \A b \in Boxes : refs'[b] \in Int /\ (b > made' => refs'[b] = 0)
        BY <1>t, <1>1 DEF TypeOK, IInv, Counted
    <2> QED
        BY <1>t, <1>0, <1>1, <2>1, <2>2, <2>3, CountedStep DEF IInv
<1> QED
    BY <1>0, <1>2, <1>6, <1>7, <1>8, <1>9, <1>10, <1>11, <1>n DEF At

\* The new top of a stack.
LEMMA NewTop ==
    ASSUME NEW t \in Threads, NEW k, NEW n, Changes(t, k, n)
    PROVE  Top(t)' = stack'[t][n]
BY DEF Changes, Top, Last

\* gitkit_policy_lock.
LEMMA LoadLockInv ==
    ASSUME IInv, NEW t \in Threads, LoadLock(t)
    PROVE  IInv'
<1> DEFINE g == IF lock # NoMutex THEN [Top(t) EXCEPT !.at = "enter", !.mutex = lock]
                ELSE [Top(t) EXCEPT !.at = "publish", !.mutex = t]
<1>t. TypeOK /\ OneMutex /\ OneInside
    BY DEF IInv
<1>1. /\ Busy(t) /\ Top(t).op \in {"read", "set"} /\ Top(t).at = "load"
      /\ Becomes(t, g) /\ lock' = lock
      /\ UNCHANGED <<policies, threadPolicy, payloads, live>>
    BY DEF LoadLock, Locking
<1>n. PICK n \in Nat \ {0} : n = Len(stack[t])
    BY <1>t, <1>1, TopIs
<1>2. Top(t) \in Calls /\ lock \in Threads \cup {NoMutex}
    BY <1>t, <1>1, TopIs DEF TypeOK
<1>3. /\ g \in Calls /\ g.at \in {"enter", "publish"} /\ g.op = Top(t).op
      /\ g.slot = Top(t).slot /\ g.box = Top(t).box /\ g.other = Top(t).other
      /\ g.at = "enter" => lock # NoMutex /\ g.mutex = lock
    BY <1>2 DEF Calls, Moments
<1> HIDE DEF g
<1>f. PICK f \in Calls : f = g
    BY <1>3
<1>4. /\ TypeOK' /\ Nested' /\ OneUser' /\ OneEntry' /\ AsGiven' /\ Stacked' /\ Counted'
      /\ Changes(t, n, n) /\ stack'[t][n] = f
    <2>1. Top(t).at \in Locked /\ f.at \in Locked /\ lock' \in Threads \cup {NoMutex}
        BY <1>1, <1>2, <1>3, <1>f DEF Locked
    <2> QED
        BY <1>1, <1>3, <1>f, <1>n, <2>1, WorkingStep
<1>5. OneMutex'
    <2>1. \A i \in 1..n : i >= n => i = n
        OBVIOUS
    <2>2. At(t, n)' = f
        BY <1>4 DEF At
    <2> QED
        BY <1>t, <1>1, <1>3, <1>4, <1>f, <2>1, <2>2, MutexStep
<1>6. OneInside'
    <2>1. Top(t)' = f
        BY <1>4, NewTop
    <2>2. ~Inside(t)'
        BY <1>3, <1>f, <2>1 DEF Inside, Locking
    <2> QED
        BY <1>t, <1>4, <2>2, InsideStep DEF Changes
<1> QED
    BY <1>4, <1>5, <1>6 DEF IInv

\* Whichever thread is first to publish, all get its mutex.
LEMMA PublishLockInv ==
    ASSUME IInv, NEW t \in Threads, PublishLock(t)
    PROVE  IInv'
<1> DEFINE g == [Top(t) EXCEPT !.at = "enter", !.mutex = lock']
<1>t. TypeOK /\ OneMutex /\ OneInside
    BY DEF IInv
<1>1. /\ Busy(t) /\ Top(t).op \in {"read", "set"} /\ Top(t).at = "publish"
      /\ Becomes(t, g) /\ lock' = IF lock = NoMutex THEN t ELSE lock
      /\ UNCHANGED <<policies, threadPolicy, payloads, live>>
    BY DEF PublishLock, Locking, SwappedLock
<1>n. PICK n \in Nat \ {0} : n = Len(stack[t])
    BY <1>t, <1>1, TopIs
<1>2. /\ Top(t) \in Calls /\ lock' \in Threads \cup {NoMutex} /\ lock' # NoMutex
      /\ lock # NoMutex => lock' = lock
    BY <1>t, <1>1, TopIs, Assumptions DEF TypeOK
<1>3. /\ g \in Calls /\ g.at = "enter" /\ g.op = Top(t).op
      /\ g.slot = Top(t).slot /\ g.box = Top(t).box /\ g.other = Top(t).other
      /\ g.mutex = lock'
    BY <1>2 DEF Calls, Moments
<1> HIDE DEF g
<1>f. PICK f \in Calls : f = g
    BY <1>3
<1>4. /\ TypeOK' /\ Nested' /\ OneUser' /\ OneEntry' /\ AsGiven' /\ Stacked' /\ Counted'
      /\ Changes(t, n, n) /\ stack'[t][n] = f
    <2>1. Top(t).at \in Locked /\ f.at \in Locked
        BY <1>1, <1>3, <1>f DEF Locked
    <2> QED
        BY <1>1, <1>2, <1>3, <1>f, <1>n, <2>1, WorkingStep
<1>5. OneMutex'
    <2>1. \A i \in 1..n : i >= n => i = n
        OBVIOUS
    <2>2. At(t, n)' = f
        BY <1>4 DEF At
    <2> QED
        BY <1>t, <1>2, <1>3, <1>4, <1>f, <2>1, <2>2, MutexStep
<1>6. OneInside'
    <2>1. Top(t)' = f
        BY <1>4, NewTop
    <2>2. ~Inside(t)'
        BY <1>3, <1>f, <2>1 DEF Inside, Locking
    <2> QED
        BY <1>t, <1>4, <2>2, InsideStep DEF Changes
<1> QED
    BY <1>4, <1>5, <1>6 DEF IInv

\* It is the same mutex for whoever is inside, so nobody is.
LEMMA EnterLockInv ==
    ASSUME IInv, NEW t \in Threads, EnterLock(t)
    PROVE  IInv'
<1> DEFINE g == [Top(t) EXCEPT !.at = "inside"]
<1>t. TypeOK /\ OneMutex /\ OneInside
    BY DEF IInv
<1>1. /\ Busy(t) /\ Top(t).op \in {"read", "set"} /\ Top(t).at = "enter"
      /\ \A u \in Threads : ~(Inside(u) /\ Top(u).mutex = Top(t).mutex)
      /\ Becomes(t, g) /\ lock' = lock
      /\ UNCHANGED <<policies, threadPolicy, payloads, live>>
    BY DEF EnterLock, Locking, Goes
<1>n. PICK n \in Nat \ {0} : n = Len(stack[t])
    BY <1>t, <1>1, TopIs
<1>2. Top(t) \in Calls /\ lock' \in Threads \cup {NoMutex}
    BY <1>t, <1>1, TopIs DEF TypeOK
<1>3. /\ g \in Calls /\ g.at = "inside" /\ g.op = Top(t).op /\ g.mutex = Top(t).mutex
      /\ g.slot = Top(t).slot /\ g.box = Top(t).box /\ g.other = Top(t).other
    BY <1>2 DEF Calls, Moments
<1> HIDE DEF g
<1>f. PICK f \in Calls : f = g
    BY <1>3
<1>4. /\ TypeOK' /\ Nested' /\ OneUser' /\ OneEntry' /\ AsGiven' /\ Stacked' /\ Counted'
      /\ Changes(t, n, n) /\ stack'[t][n] = f
    <2>1. Top(t).at \in Locked /\ f.at \in Locked
        BY <1>1, <1>3, <1>f DEF Locked
    <2> QED
        BY <1>1, <1>2, <1>3, <1>f, <1>n, <2>1, WorkingStep
<1>5. lock # NoMutex /\ Top(t).mutex = lock
    BY <1>t, <1>1, InsideHasLock
<1>6. OneMutex'
    <2>1. \A i \in 1..n : i >= n => i = n
        OBVIOUS
    <2>2. At(t, n)' = f
        BY <1>4 DEF At
    <2> QED
        BY <1>t, <1>1, <1>3, <1>4, <1>5, <1>f, <2>1, <2>2, MutexStep
<1>7. OneInside'
    <2>1. ASSUME NEW u \in Threads PROVE ~Inside(u)
        <3> SUFFICES ASSUME Inside(u) PROVE FALSE
            OBVIOUS
        <3>1. Busy(u) /\ Top(u).at = "inside"
            BY DEF Inside, Locking
        <3>2. Top(u).mutex = lock
            BY <1>t, <3>1, InsideHasLock
        <3> QED
            BY <1>1, <1>5, <3>2
    <2> QED
        BY <1>t, <1>4, <2>1, InsideStep DEF Changes
<1> QED
    BY <1>4, <1>6, <1>7 DEF IInv

-----------------------------------------------------------------------------
(* Lookups and updates                                                     *)

\* A call holds what its frame says, and one that was not made holds nothing.
LEMMA HeldTop ==
    ASSUME TypeOK, NEW t \in Threads, NEW k, NEW n, Changes(t, k, n)
    PROVE  /\ \A i \in 1..n : HeldAt(t, i)' = Held(At(t, i)')
           /\ \A i : i \notin 1..n => HeldAt(t, i)' = NoBox
           /\ \A i \in Depths(t) : HeldAt(t, i) = Held(At(t, i))
           /\ \A i : i \notin Depths(t) => HeldAt(t, i) = NoBox
<1>1. Depths(t)' = 1..n
    BY Kept
<1> QED
    BY <1>1 DEF HeldAt, Held

\* A lookup or an update is over: what it held was let go, and the open or
\* the close it was a part of goes on.
LEMMA ReturnStep ==
    ASSUME IInv, NEW t \in Threads, Busy(t), NEW at \in Moments, Returns(t, at),
           \/ Top(t).op = "read" /\ at \in {"opened", "refused"}
           \/ Top(t).op = "set" /\ at = "stored" /\ Top(t).at = "replaced",
           UNCHANGED <<policies, threadPolicy, live, lock, made>>,
           refs' \in [Boxes -> Int],
           \A b \in Boxes : refs'[b] + (IF Held(Top(t)) = b THEN 1 ELSE 0) = refs[b]
    PROVE  IInv'
<1>t. TypeOK /\ OneMutex /\ OneInside
    BY DEF IInv
<1>n. PICK n \in Nat \ {0} : n = Len(stack[t])
    BY <1>t, TopIs
<1>0. n \in Depths(t) /\ Depths(t) = 1..n /\ Top(t) = At(t, n) /\ n - 1 \in Nat
    BY <1>t, <1>n, TopIs DEF Depths
<1>1. /\ table' = table /\ default' = default /\ given' = given /\ UNCHANGED policies
      /\ threadPolicy' = threadPolicy /\ made' = made /\ live' = live /\ lock' = lock
    BY DEF policies
<1>2. PICK k \in Nat \ {0} :
        /\ Changes(t, k, n - 1)
        /\ \/ k = n /\ (n = 1 \/ At(t, n - 1).op = "read")
           \/ /\ k = n - 1 /\ n > 1 /\ At(t, n - 1).op # "read"
              /\ At(t, n - 1)' = [At(t, n - 1) EXCEPT !.at = at]
    <2>1. \/ /\ n = 1 \/ At(t, n - 1).op = "read"
             /\ Changes(t, n, n - 1)
          \/ /\ n > 1 /\ At(t, n - 1).op # "read"
             /\ Changes(t, n - 1, n - 1)
             /\ stack'[t][n - 1] = [At(t, n - 1) EXCEPT !.at = at]
        BY <1>t, <1>n, Returning DEF At
    <2>2. At(t, n - 1)' = stack'[t][n - 1]
        BY DEF At
    <2>3. n > 1 => n - 1 \in Nat \ {0}
        BY <1>0
    <2> QED
        BY <2>1, <2>2, <2>3
<1>3. /\ At(t, n).op \in {"read", "set"} /\ At(t, n).op \notin {"open", "close"}
      /\ at \notin Locked
    BY <1>0 DEF Locked
\* The call below the top, if there is one.
<1>4. ASSUME n > 1
      PROVE  /\ n - 1 \in Depths(t) /\ n - 1 \in 1..n - 1 /\ n - 1 + 1 = n
             /\ ~IsTop(t, n - 1) /\ At(t, n - 1) \in Calls
             /\ NestedAt(t, n - 1) /\ GivenAt(t, n - 1)
             /\ IsTop(t, n - 1)'
    <2>1. n - 1 \in Depths(t) /\ n - 1 \in 1..n - 1 /\ n - 1 + 1 = n /\ n - 1 # n
        BY <1>0, <1>4
    <2>2. /\ \A i \in Depths(t) : At(t, i) \in Calls /\ (IsTop(t, i) <=> i = n)
          /\ \A i \in 1..n - 1 : IsTop(t, i)' <=> i = n - 1
        BY <1>t, <1>n, <1>2, Kept
    <2>3. NestedAt(t, n - 1) /\ GivenAt(t, n - 1)
        BY <2>1 DEF IInv, Nested, AsGiven
    <2> QED
        BY <2>1, <2>2, <2>3
\* Where it goes on.
<1>5. ASSUME n > 1, At(t, n - 1).op # "read"
      PROVE  /\ At(t, n - 1)' = [At(t, n - 1) EXCEPT !.at = at]
             /\ \/ At(t, n - 1).op = "open"
                \/ At(t, n - 1).op = "close" /\ at = "stored" /\ Top(t).at = "replaced"
    <2>1. k = n - 1 /\ At(t, n - 1)' = [At(t, n - 1) EXCEPT !.at = at]
        BY <1>0, <1>2, <1>5
    <2>2. At(t, n - 1).op \in {"open", "close"}
        BY <1>4, <1>5 DEF NestedAt, Setting, Calls
    <2>3. At(t, n - 1).op = "close" => At(t, n).op = "set"
        BY <1>4, <1>5 DEF NestedAt, Ending
    <2> QED
        BY <1>0, <2>1, <2>2, <2>3
<1>6. /\ \A i \in 1..n - 1 : i >= k => i = n - 1 /\ n > 1 /\ At(t, n - 1).op # "read"
      /\ \A i \in 1..n - 1 : i + 1 >= k =>
            \/ i = n - 1 /\ n > 1
            \/ i = n - 2 /\ n > 2 /\ k = n - 1 /\ At(t, n - 1).op # "read"
      /\ \A i \in Depths(t) : i >= k => i = n \/ (i = n - 1 /\ n > 1 /\ At(t, n - 1).op # "read")
    <2> DEFINE Below == n > 1 /\ At(t, n - 1).op # "read"
    <2>1. k = n \/ (k = n - 1 /\ Below)
        BY <1>2
    <2>2. Below => n > 1
        OBVIOUS
    <2>3. n \in Nat \ {0} /\ Depths(t) = 1..n
        BY <1>0
    <2> HIDE DEF Below
    <2>4. ASSUME NEW i \in 1..n - 1, i >= k PROVE i = n - 1 /\ Below
        BY <2>1, <2>2, <2>3, <2>4
    <2>5. ASSUME NEW i \in 1..n - 1, i + 1 >= k
          PROVE  \/ i = n - 1 /\ n > 1
                 \/ i = n - 2 /\ n > 2 /\ k = n - 1 /\ Below
        BY <2>1, <2>2, <2>3, <2>5
    <2>6. ASSUME NEW i \in 1..n, i >= k PROVE i = n \/ (i = n - 1 /\ Below)
        BY <2>1, <2>2, <2>3, <2>6
    <2> QED
        BY <2>3, <2>4, <2>5, <2>6 DEF Below
\* The call below a part of an open or a close is not one of them.
<1>7. ASSUME n > 2, k = n - 1, At(t, n - 1).op # "read"
      PROVE  /\ NestedAt(t, n - 2)' /\ At(t, n - 2).op = "read" /\ At(t, n - 2)' = At(t, n - 2)
    <2>1. n - 2 \in Depths(t) /\ n - 2 \in 1..n - 1 /\ n - 2 + 1 = n - 1 /\ n - 2 < k /\ n - 2 # n
        BY <1>0, <1>7
    <2>2. At(t, n - 2)' = At(t, n - 2) /\ At(t, n - 2) \in Calls /\ ~IsTop(t, n - 2)
        BY <1>t, <1>n, <1>2, <2>1, Kept
    <2>3. NestedAt(t, n - 2)
        BY <2>1 DEF IInv, Nested
    <2>4. At(t, n - 1).op \in {"open", "close"}
        BY <1>5, <1>7
    <2>5. At(t, n - 2).op = "read"
        BY <2>1, <2>2, <2>3, <2>4 DEF NestedAt, Setting, Opening, Ending, Calls
    <2> QED
        BY <2>2, <2>3, <2>5 DEF NestedAt, Reading
<1>8. Nested'
    <2>1. ASSUME n > 1 PROVE NestedAt(t, n - 1)'
        <3>1. CASE At(t, n - 1).op = "read"
            <4>1. k = n /\ n - 1 < k
                BY <1>0, <1>2, <3>1
            <4>2. At(t, n - 1)' = At(t, n - 1)
                BY <1>t, <1>2, <1>4, <2>1, <4>1, Kept
            <4> QED
                BY <1>4, <2>1, <3>1, <4>2 DEF NestedAt, Reading
        <3>2. CASE At(t, n - 1).op # "read"
            <4>1. /\ At(t, n - 1)'.op = At(t, n - 1).op /\ At(t, n - 1)'.slot = At(t, n - 1).slot
                  /\ At(t, n - 1)'.box = At(t, n - 1).box /\ At(t, n - 1)'.at = at
                BY <1>4, <1>5, <2>1, <3>2 DEF Calls
            <4> QED
                BY <1>4, <1>5, <2>1, <3>2, <4>1 DEF NestedAt, Opening, Ending
        <3> QED
            BY <3>1, <3>2
    <2>2. \A i \in 1..n - 1 : i + 1 >= k => NestedAt(t, i)'
        BY <1>6, <1>7, <2>1
    <2> QED
        BY <1>t, <1>2, <2>2, NestedStep DEF IInv
<1>9. OneMutex'
    <2>1. \A i \in 1..n - 1 : i >= k => At(t, i)'.at \notin {"enter", "inside"}
        BY <1>3, <1>4, <1>5, <1>6 DEF Calls, Locked
    <2> QED
        BY <1>t, <1>1, <1>2, <2>1, MutexStep
<1>10. OneInside'
    <2>1. ~Inside(t)'
        <3> SUFFICES ASSUME Inside(t)' PROVE FALSE
            OBVIOUS
        <3>1. /\ Busy(t)' /\ Top(t)'.op \in {"read", "set"} /\ Top(t)'.at = "inside"
            BY DEF Inside, Locking
        <3>2. n > 1 /\ Top(t)' = At(t, n - 1)'
            <4>1. Len(stack'[t]) = n - 1 /\ stack'[t] \in Seq(Calls) /\ stack'[t] # << >>
                BY <1>2, <3>1 DEF Changes, Busy
            <4>2. n - 1 # 0
                BY <4>1, EmptySeq
            <4>3. Top(t)' = stack'[t][n - 1]
                BY <1>2, NewTop
            <4> QED
                BY <1>0, <4>2, <4>3 DEF At
        <3>3. CASE At(t, n - 1).op # "read"
            BY <1>4, <1>5, <3>1, <3>2, <3>3 DEF Calls
        <3>4. CASE At(t, n - 1).op = "read"
            <4>1. k = n /\ n - 1 < k
                BY <1>0, <1>2, <3>4
            <4>2. At(t, n - 1)' = At(t, n - 1)
                BY <1>t, <1>2, <1>4, <3>2, <4>1, Kept
            <4> QED
                BY <1>4, <3>1, <3>2, <3>4, <4>2 DEF NestedAt, Reading
        <3> QED
            BY <3>3, <3>4
    <2> QED
        BY <1>t, <1>2, <2>1, InsideStep DEF Changes
<1>11. OneUser'
    <2>1. ASSUME NEW i \in 1..n - 1, i >= k, NEW r \in Repos, Uses(t, i, r)'
          PROVE  Uses(t, i, r) /\ At(t, i)'.op = At(t, i).op
        <3>1. i = n - 1 /\ n > 1 /\ At(t, n - 1).op # "read"
            BY <1>6, <2>1
        <3>2. /\ At(t, i)'.op = At(t, i).op /\ At(t, i)'.slot = At(t, i).slot
              /\ At(t, i)'.depth = At(t, i).depth
            BY <1>4, <1>5, <3>1 DEF Calls
        <3> QED
            BY <1>4, <2>1, <3>1, <3>2 DEF Uses
    <2> QED
        BY <1>t, <1>1, <1>2, <2>1, UserStep DEF IInv
<1>12. OneEntry'
    BY <1>1 DEF IInv, OneEntry
<1>13. AsGiven'
    <2>0. \A s : InSlot(s)' = InSlot(s)
        BY <1>1, SlotsKept
    <2>1. ASSUME n > 1 PROVE GivenAt(t, n - 1)'
        <3>1. CASE At(t, n - 1).op = "read"
            <4>1. k = n /\ n - 1 < k
                BY <1>0, <1>2, <3>1
            <4>2. At(t, n - 1)' = At(t, n - 1)
                BY <1>t, <1>2, <1>4, <2>1, <4>1, Kept
            <4> QED
                BY <3>1, <4>2 DEF GivenAt
        <3>2. CASE At(t, n - 1).op # "read"
            <4>1. /\ At(t, n - 1)'.op = At(t, n - 1).op /\ At(t, n - 1)'.slot = At(t, n - 1).slot
                  /\ At(t, n - 1)'.depth = At(t, n - 1).depth /\ At(t, n - 1)'.at = at
                  /\ At(t, n - 1)'.other = At(t, n - 1).other
                BY <1>4, <1>5, <2>1, <3>2 DEF Calls
            <4>2. At(t, n - 1).op = "open" /\ at = "refused" => At(t, n - 1).at = "reading"
                BY <1>0, <1>4, <2>1 DEF NestedAt, Opening
            <4>3. At(t, n - 1).op = "close" => At(t, n).at = "replaced"
                BY <1>0, <1>5, <2>1, <3>2
            <4>4. at # "reading"
                OBVIOUS
            <4> QED
                BY <1>1, <1>4, <2>0, <2>1, <4>1, <4>2, <4>3, <4>4 DEF GivenAt
        <3> QED
            BY <3>1, <3>2
    <2>2. \A i \in 1..n - 1 : i + 1 >= k => GivenAt(t, i)'
        <3>1. ASSUME n > 2, k = n - 1, At(t, n - 1).op # "read" PROVE GivenAt(t, n - 2)'
            BY <1>7, <3>1 DEF GivenAt
        <3> QED
            BY <1>6, <2>1, <3>1
    <2>3. ASSUME NEW r \in live', Unset(t, r) PROVE Unset(t, r)'
        <3>1. PICK i \in Depths(t) : At(t, i).op = "close" /\ At(t, i).slot = r /\ At(t, i).depth = 2
            BY <2>3 DEF Unset
        <3>2. i # n /\ i \in 1..n - 1
            BY <1>0, <1>3, <3>1
        <3>3. At(t, i)'.op = "close" /\ At(t, i)'.slot = r /\ At(t, i)'.depth = 2
            <4>1. CASE i < k
                <5>1. At(t, i)' = At(t, i)
                    BY <1>t, <1>2, <3>2, <4>1, Kept
                <5> QED
                    BY <3>1, <5>1
            <4>2. CASE i >= k
                <5>1. i = n - 1 /\ n > 1 /\ At(t, n - 1).op # "read"
                    BY <1>6, <3>2, <4>2
                <5> QED
                    BY <1>4, <1>5, <3>1, <5>1 DEF Calls
            <4> QED
                BY <3>2, <4>1, <4>2
        <3>4. Depths(t)' = 1..n - 1
            BY <1>t, <1>2, Kept
        <3> QED
            BY <3>2, <3>3, <3>4 DEF Unset
    <2> QED
        BY <1>t, <1>1, <1>2, <2>2, <2>3, GivenStep DEF IInv
<1>14. Stacked'
    <2>1. ASSUME NEW i \in 1..n - 1, i >= k
          PROVE  /\ Lent(t, i)'
                 /\ i \in Depths(t) /\ At(t, i)'.op = At(t, i).op
                 /\ At(t, i)'.box = At(t, i).box /\ At(t, i)'.other = At(t, i).other
        <3>1. i = n - 1 /\ n > 1 /\ At(t, n - 1).op # "read"
            BY <1>6, <2>1
        <3>2. /\ At(t, i)'.op = At(t, i).op /\ At(t, i)'.box = At(t, i).box
              /\ At(t, i)'.other = At(t, i).other
            BY <1>4, <1>5, <3>1 DEF Calls
        <3> QED
            BY <1>4, <3>1, <3>2 DEF Lent
    <2>2. ASSUME NEW i \in Depths(t), i >= k, At(t, i).op = "open"
          PROVE  i <= n - 1 /\ At(t, i)'.op = "open"
        <3>1. i # n
            BY <1>3, <2>2
        <3>2. i \in 1..n - 1
            BY <1>0, <3>1
        <3> QED
            BY <2>1, <2>2, <3>2
    <2> QED
        BY <1>t, <1>1, <1>2, <2>1, <2>2, StackedStep DEF IInv
<1>15. Counted' /\ \A b \in Boxes : refs'[b] \in Nat
    <2>1. HeldAt(t, n) = Held(Top(t)) /\ HeldAt(t, n)' = NoBox
        <3>1. n \notin 1..n - 1
            BY <1>0
        <3> QED
            BY <1>t, <1>0, <1>2, <3>1, HeldTop
    <2>2. ASSUME NEW i \in Nat, i >= k, i # n PROVE HeldAt(t, i)' = HeldAt(t, i)
        <3>1. CASE i \in 1..n - 1
            <4>1. i = n - 1 /\ n > 1 /\ At(t, n - 1).op # "read"
                BY <1>6, <2>2, <3>1
            <4>2. At(t, i)'.op = At(t, i).op /\ At(t, i)'.box = At(t, i).box
                  /\ At(t, i).op \in {"open", "close"}
                BY <1>4, <1>5, <4>1 DEF Calls
            <4>3. Held(At(t, i)') = Held(At(t, i))
                BY <4>2 DEF Held
            <4> QED
                BY <1>t, <1>2, <1>4, <3>1, <4>1, <4>3, HeldTop
        <3>2. CASE i \notin 1..n - 1
            <4>1. i \notin Depths(t)
                BY <1>0, <2>2, <3>2
            <4> QED
                BY <1>t, <1>2, <3>2, <4>1, HeldTop
        <3> QED
            BY <3>1, <3>2
    <2>3. ASSUME NEW b \in Boxes
          PROVE  /\ refs'[b] \in Int
                 /\ refs'[b] + (IF HeldAt(t, n) = b THEN 1 ELSE 0) =
                      refs[b] + (IF HeldAt(t, n)' = b THEN 1 ELSE 0)
                 /\ b > made' => refs'[b] = 0
        <3>1. refs'[b] \in Int /\ refs[b] \in Nat
            BY <1>t DEF TypeOK
        <3>2. HeldAt(t, n)' # b
            BY <2>1, Assumptions
        <3>3. refs'[b] + (IF HeldAt(t, n) = b THEN 1 ELSE 0) = refs[b]
            BY <2>1
        <3>4. ASSUME b > made' PROVE refs'[b] = 0
            <4>1. refs[b] = 0
                BY <1>1, <3>4 DEF IInv, Counted
            <4>2. ~(b <= made)
                BY <1>t, <1>1, <3>4, Assumptions DEF TypeOK
            <4>3. HeldAt(t, n) # b
                BY <1>t, <4>2, Referenced DEF IInv
            <4> QED
                BY <3>1, <3>3, <4>1, <4>3
        <3> QED
            BY <3>1, <3>2, <3>3, <3>4
    <2> QED
        BY <1>t, <1>1, <1>2, <2>2, <2>3, CountedStep DEF IInv
<1>16. TypeOK'
    <2>1. refs' \in [Boxes -> Nat]
        BY <1>15
    <2> QED
        BY <1>t, <1>1, <1>2, <2>1 DEF TypeOK, Changes
<1> QED
    BY <1>8, <1>9, <1>10, <1>11, <1>12, <1>13, <1>14, <1>15, <1>16 DEF IInv

\* A nonempty set of positions has a first one.
LEMMA First ==
    ASSUME NEW I, NEW n \in Nat, I \subseteq 1..n, I # {}
    PROVE  \E m \in I : \A j \in I : m <= j
<1> DEFINE Upto == {1..i : i \in I}
<1>1. Upto \subseteq FiniteSubsetsOf(Nat)
    <2>1. \A i \in I : IsFiniteSet(1..i) /\ 1..i \subseteq Nat
        BY FS_Interval
    <2> QED
        BY <2>1 DEF FiniteSubsetsOf
<1>2. PICK x \in Upto : \A y \in Upto : ~ (<<y, x>> \in StrictSubsetOrdering(Nat))
    <2>1. Upto # {}
        OBVIOUS
    <2> HIDE DEF Upto
    <2> QED
        BY <1>1, <2>1, WFMin, FS_StrictSubsetOrderingWellFounded
<1>3. PICK m \in I : x = 1..m
    OBVIOUS
<1>4. ASSUME NEW j \in I PROVE m <= j
    <2> SUFFICES ASSUME j < m PROVE FALSE
        OBVIOUS
    <2>1. ~(<<1..j, 1..m>> \in StrictSubsetOrdering(Nat))
        BY <1>2, <1>3
    <2>2. 1..j \subseteq 1..m /\ m \in 1..m /\ m \notin 1..j
        OBVIOUS
    <2>3. 1..j \in SUBSET Nat /\ 1..m \in SUBSET Nat
        OBVIOUS
    <2> QED
        BY <2>1, <2>2, <2>3 DEF StrictSubsetOrdering
<1> QED
    BY <1>4

\* And a last one.
LEMMA Latest ==
    ASSUME NEW I, NEW n \in Nat, I \subseteq 1..n, I # {}
    PROVE  \E m \in I : \A j \in I : j <= m
<1> DEFINE J == {n + 1 - i : i \in I}
<1>1. J \subseteq 1..n /\ J # {}
    <2>1. \A i \in I : n + 1 - i \in 1..n
        OBVIOUS
    <2>2. PICK i \in I : TRUE
        OBVIOUS
    <2>3. n + 1 - i \in J
        OBVIOUS
    <2> QED
        BY <2>1, <2>3
<1>2. PICK l \in J : \A j \in J : l <= j
    <2> HIDE DEF J
    <2> QED
        BY <1>1, First
<1>3. PICK m \in I : l = n + 1 - m
    OBVIOUS
<1>4. \A j \in I : n + 1 - m <= n + 1 - j
    BY <1>2, <1>3
<1> QED
    BY <1>4

\* The entry of a repository is found, if the table has one.
LEMMA EntryIs ==
    ASSUME TypeOK, NEW r
    PROVE  \/ EntryOf(r) = 0 /\ \A i \in 1..Len(table) : table[i].repo # r
           \/ EntryOf(r) \in 1..Len(table) /\ table[EntryOf(r)].repo = r
<1> DEFINE I == {i \in 1..Len(table) : table[i].repo = r}
<1>1. EntryOf(r) = IF I # {} THEN Min(I) ELSE 0
    BY Zenon DEF EntryOf, SelectInSeq
<1>2. I # {} => Min(I) \in I
    <2> SUFFICES ASSUME I # {} PROVE Min(I) \in I
        OBVIOUS
    <2>1. Len(table) \in Nat /\ I \subseteq 1..Len(table)
        BY DEF TypeOK
    <2> HIDE DEF I
    <2>2. PICK m \in I : \A j \in I : m <= j
        BY <2>1, First
    <2> QED
        BY <2>2 DEF Min
<1> QED
    BY <1>1, <1>2

\* What a slot holds has its type; the table's entries are of repositories.
LEMMA SlotType ==
    ASSUME TypeOK, NEW s \in Slots
    PROVE  /\ InSlot(s) \in Boxed
           /\ EntryOf(s) # 0 => /\ s \in Repos /\ s # Default
                                /\ InSlot(s) = table[EntryOf(s)].box /\ InSlot(s) \in Boxes
           /\ InSlot(Default) = default
<1>1. \/ EntryOf(s) = 0
      \/ EntryOf(s) \in 1..Len(table) /\ table[EntryOf(s)].repo = s
    BY EntryIs
<1>2. ASSUME NEW i \in 1..Len(table)
      PROVE  table[i].repo \in Repos /\ table[i].box \in Boxes
    <2>1. table[i] \in [repo : Repos, box : Boxes]
        BY ElementOfSeq DEF TypeOK
    <2> QED
        BY <2>1
<1>3. EntryOf(s) # 0 => /\ s \in Repos /\ s # Default /\ table[EntryOf(s)].box \in Boxes
    BY <1>1, <1>2, Assumptions
<1>4. InSlot(s) \in Boxed
    BY <1>3, Assumptions DEF InSlot, TypeOK
<1> QED
    BY <1>3, <1>4 DEF InSlot

\* The policy of a thread is that of one of its opens.
LEMMA LentByOpen ==
    ASSUME TypeOK, Stacked, NEW t \in Threads, threadPolicy[t] # NoBox
    PROVE  \E j \in Opens(t) : At(t, j).box = threadPolicy[t]
<1>1. Restores(t)
    BY DEF Stacked
<1>2. Opens(t) # {}
    BY <1>1 DEF Restores
<1>3. Len(stack[t]) \in Nat /\ Opens(t) \subseteq 1..Len(stack[t])
    BY DEF TypeOK, Opens, Depths
<1>4. PICK m \in Opens(t) : \A j \in Opens(t) : j <= m
    BY <1>2, <1>3, Latest
<1> QED
    BY <1>1, <1>4 DEF Restores

\* A payload is let go.
LEMMA Releasing ==
    ASSUME TypeOK, NEW h \in Boxed, IF h = NoBox THEN UNCHANGED refs ELSE Released(h)
    PROVE  /\ refs' \in [Boxes -> Int]
           /\ \A b \in Boxes : refs'[b] + (IF h = b THEN 1 ELSE 0) = refs[b]
<1>1. refs \in [Boxes -> Nat] /\ NoBox \notin Boxes
    BY Assumptions DEF TypeOK
<1>2. CASE h = NoBox
    BY <1>1, <1>2
<1>3. CASE h # NoBox
    BY <1>1, <1>3 DEF Released
<1> QED
    BY <1>2, <1>3

\* The replaced policy is let go.
LEMMA ReleaseReplacedInv ==
    ASSUME IInv, NEW t \in Threads, ReleaseReplaced(t)
    PROVE  IInv'
<1>t. TypeOK
    BY DEF IInv
<1>1. /\ Busy(t) /\ Top(t).op = "set" /\ Top(t).at = "replaced"
      /\ IF Top(t).other = NoBox THEN UNCHANGED refs ELSE Released(Top(t).other)
      /\ Returns(t, "stored")
      /\ UNCHANGED <<policies, threadPolicy, live, lock, made>>
    BY DEF ReleaseReplaced, In
<1>2. Top(t).other \in Boxed
    BY <1>t, <1>1, TopIs DEF Calls
<1>3. Held(Top(t)) = Top(t).other
    BY <1>1 DEF Held
<1>4. /\ refs' \in [Boxes -> Int]
      /\ \A b \in Boxes : refs'[b] + (IF Held(Top(t)) = b THEN 1 ELSE 0) = refs[b]
    BY <1>t, <1>1, <1>2, <1>3, Releasing
<1>5. "stored" \in Moments
    BY DEF Moments
<1> QED
    BY <1>1, <1>4, <1>5, ReturnStep

\* A lookup goes on.
LEMMA ReadStep ==
    ASSUME IInv, NEW t \in Threads, Busy(t), NEW f \in Calls, Becomes(t, f),
           Top(t).op = "read", f.op = "read", f.slot = Top(t).slot,
           f.at \in {"load", "asking"}, f.at # "asking" => f.box = NoBox,
           f.other \in {NoBox, f.box},
           f.box # NoBox /\ f.other = NoBox => \E j \in Opens(t) : At(t, j).box = f.box,
           UNCHANGED <<policies, threadPolicy, live, lock, made>>,
           refs' \in [Boxes -> Int],
           \A b \in Boxes :
               /\ refs'[b] + (IF Top(t).other = b THEN 1 ELSE 0) =
                    refs[b] + (IF f.other = b THEN 1 ELSE 0)
               /\ f.other = b => b <= made
    PROVE  IInv'
<1>t. TypeOK /\ OneMutex /\ OneInside
    BY DEF IInv
<1>n. PICK n \in Nat \ {0} : n = Len(stack[t])
    BY <1>t, TopIs
<1>0. /\ n \in Depths(t) /\ Depths(t) = 1..n /\ Top(t) = At(t, n) /\ n \in 1..n
      /\ Changes(t, n, n) /\ At(t, n)' = f
    <2>1. n \in Depths(t) /\ Depths(t) = 1..n /\ Top(t) = At(t, n) /\ n \in 1..n
        BY <1>t, <1>n, TopIs DEF Depths
    <2>2. Changes(t, n, n) /\ stack'[t][n] = f
        BY <1>t, <1>n, Becoming
    <2> QED
        BY <2>1, <2>2 DEF At
<1>1. /\ table' = table /\ default' = default /\ given' = given /\ UNCHANGED policies
      /\ threadPolicy' = threadPolicy /\ made' = made /\ live' = live /\ lock' = lock
    BY DEF policies
<1>2. /\ \A i \in 1..n : i >= n => i = n
      /\ \A i \in 1..n : i + 1 >= n => i = n \/ (n > 1 /\ i = n - 1)
      /\ n > 1 => n - 1 + 1 = n /\ n - 1 < n /\ n - 1 \in 1..n
    OBVIOUS
<1>3. IsTop(t, n)' /\ IsTop(t, n)
    BY <1>t, <1>n, <1>0, Kept
<1>4. ASSUME n > 1
      PROVE  /\ n - 1 \in Depths(t) /\ At(t, n - 1) \in Calls
             /\ At(t, n - 1)' = At(t, n - 1) /\ ~IsTop(t, n - 1) /\ ~IsTop(t, n - 1)'
             /\ NestedAt(t, n - 1) /\ GivenAt(t, n - 1)
    <2>1. n - 1 \in Depths(t) /\ n - 1 \in 1..n /\ n - 1 < n /\ n - 1 # n
        BY <1>0, <1>2, <1>4
    <2>2. /\ At(t, n - 1) \in Calls
          /\ At(t, n - 1)' = At(t, n - 1) /\ ~IsTop(t, n - 1) /\ ~IsTop(t, n - 1)'
        BY <1>t, <1>n, <1>0, <2>1, Kept
    <2> QED
        BY <2>1, <2>2 DEF IInv, Nested, AsGiven
<1>5. NestedAt(t, n)
    BY <1>0 DEF IInv, Nested
<1>6. Nested'
    <2>1. NestedAt(t, n)'
        BY <1>0, <1>3, <1>5 DEF NestedAt, Reading, Locked
    <2>2. ASSUME n > 1 PROVE NestedAt(t, n - 1)'
        <3>1. At(t, n - 1 + 1)' = f /\ At(t, n - 1 + 1) = Top(t)
            BY <1>0, <1>2, <2>2
        <3> QED
            BY <1>4, <2>2, <3>1 DEF NestedAt, Reading, Setting, Opening, Ending
    <2> QED
        BY <1>t, <1>0, <1>2, <2>1, <2>2, NestedStep DEF IInv
<1>7. OneMutex'
    BY <1>t, <1>0, <1>1, <1>2, MutexStep
<1>8. OneInside'
    <2>1. Top(t)' = f
        BY <1>0, NewTop DEF At
    <2>2. ~Inside(t)'
        BY <2>1 DEF Inside, Locking
    <2> QED
        BY <1>t, <1>0, <2>2, InsideStep DEF Changes
<1>9. OneUser'
    <2>1. \A i \in 1..n : i >= n => \A r \in Repos : Uses(t, i, r)' =>
               Uses(t, i, r) /\ At(t, i)'.op = At(t, i).op
        BY <1>0, <1>2 DEF Uses
    <2> QED
        BY <1>t, <1>0, <1>1, <2>1, UserStep DEF IInv
<1>10. OneEntry'
    BY <1>1 DEF IInv, OneEntry
<1>11. AsGiven'
    <2>1. GivenAt(t, n)'
        BY <1>0 DEF GivenAt
    <2>2. ASSUME n > 1 PROVE GivenAt(t, n - 1)'
        <3>1. At(t, n - 1).op # "close"
            BY <1>0, <1>2, <1>4, <2>2 DEF NestedAt, Ending
        <3> QED
            BY <1>1, <1>4, <2>2, <3>1 DEF GivenAt
    <2>3. ASSUME NEW r \in live', Unset(t, r) PROVE Unset(t, r)'
        <3>1. PICK i \in Depths(t) : At(t, i).op = "close" /\ At(t, i).slot = r /\ At(t, i).depth = 2
            BY <2>3 DEF Unset
        <3>2. i # n /\ i \in 1..n
            BY <1>0, <3>1
        <3>3. At(t, i)' = At(t, i) /\ i \in Depths(t)'
            <4>1. i < n
                BY <1>n, <3>2
            <4> QED
                BY <1>t, <1>0, <3>2, <4>1, Kept
        <3> QED
            BY <3>1, <3>3 DEF Unset
    <2> QED
        BY <1>t, <1>0, <1>1, <1>2, <2>1, <2>2, <2>3, GivenStep DEF IInv
<1>12. Stacked'
    <2>1. Lent(t, n)'
        <3> SUFFICES ASSUME f.box # NoBox, f.other = NoBox
                     PROVE  \E j \in Opens(t)' : j < n /\ At(t, j)'.box = f.box
            BY <1>0 DEF Lent
        <3>1. PICK j \in Opens(t) : At(t, j).box = f.box
            OBVIOUS
        <3>2. j \in 1..n /\ At(t, j).op = "open" /\ j # n
            BY <1>0, <3>1 DEF Opens
        <3>3. j < n
            BY <3>2
        <3>4. At(t, j)' = At(t, j) /\ j \in Depths(t)'
            BY <1>t, <1>0, <3>2, <3>3, Kept
        <3>5. j \in Opens(t)'
            BY <3>1, <3>4 DEF Opens
        <3> QED
            BY <3>1, <3>3, <3>4, <3>5
    <2> QED
        BY <1>t, <1>0, <1>1, <1>2, <2>1, StackedStep DEF IInv
<1>13. Counted' /\ \A b \in Boxes : refs'[b] \in Nat
    <2>1. HeldAt(t, n) = Top(t).other /\ HeldAt(t, n)' = f.other
        <3>1. Held(Top(t)) = Top(t).other /\ Held(f) = f.other
            BY DEF Held
        <3> QED
            BY <1>t, <1>0, <3>1, HeldTop
    <2>2. ASSUME NEW i \in Nat, i >= n, i # n PROVE HeldAt(t, i)' = HeldAt(t, i)
        <3>1. i \notin 1..n
            BY <2>2
        <3> QED
            BY <1>t, <1>0, <3>1, HeldTop
    <2>3. ASSUME NEW b \in Boxes
          PROVE  /\ refs'[b] \in Int
                 /\ refs'[b] + (IF HeldAt(t, n) = b THEN 1 ELSE 0) =
                      refs[b] + (IF HeldAt(t, n)' = b THEN 1 ELSE 0)
                 /\ b > made' => refs'[b] = 0
        <3>1. refs'[b] \in Int /\ refs[b] \in Nat
            BY <1>t DEF TypeOK
        <3>2. refs'[b] + (IF HeldAt(t, n) = b THEN 1 ELSE 0) =
                refs[b] + (IF HeldAt(t, n)' = b THEN 1 ELSE 0)
            BY <2>1
        <3>3. ASSUME b > made' PROVE refs'[b] = 0
            <4>1. refs[b] = 0
                BY <1>1, <3>3 DEF IInv, Counted
            <4>2. ~(b <= made)
                BY <1>t, <1>1, <3>3, Assumptions DEF TypeOK
            <4>3. HeldAt(t, n) # b
                BY <1>t, <4>2, Referenced DEF IInv
            <4>4. HeldAt(t, n)' # b
                BY <2>1, <4>2
            <4> QED
                BY <3>1, <3>2, <4>1, <4>3, <4>4
        <3> QED
            BY <3>1, <3>2, <3>3
    <2> QED
        BY <1>t, <1>0, <1>1, <2>2, <2>3, CountedStep DEF IInv
<1>14. TypeOK'
    <2>1. refs' \in [Boxes -> Nat]
        BY <1>13
    <2> QED
        BY <1>t, <1>0, <1>1, <2>1 DEF TypeOK, Changes
<1> QED
    BY <1>6, <1>7, <1>8, <1>9, <1>10, <1>11, <1>12, <1>13, <1>14 DEF IInv

\* The callback has answered.
LEMMA AnswerIncludeInv ==
    ASSUME IInv, NEW t \in Threads, NEW allowed \in BOOLEAN, AnswerInclude(t, allowed)
    PROVE  IInv'
<1>t. TypeOK
    BY DEF IInv
<1>1. /\ Busy(t) /\ Top(t).op = "read" /\ Top(t).at = "asking"
      /\ IF Top(t).other = NoBox THEN UNCHANGED refs ELSE Released(Top(t).other)
      /\ UNCHANGED <<policies, threadPolicy, live, lock, made>>
    BY DEF AnswerInclude, In
<1>2. Top(t) \in Calls /\ Top(t).other \in Boxed /\ Top(t).slot \in Slots
    BY <1>t, <1>1, TopIs DEF Calls
<1>3. /\ refs' \in [Boxes -> Int]
      /\ \A b \in Boxes : refs'[b] + (IF Top(t).other = b THEN 1 ELSE 0) = refs[b]
    BY <1>t, <1>1, <1>2, Releasing
<1>4. CASE ~allowed \/ Top(t).depth = 2
    <2>1. PICK at \in {"opened", "refused"} : Returns(t, at)
        BY <1>4 DEF AnswerInclude
    <2>2. at \in Moments
        BY DEF Moments
    <2>3. Held(Top(t)) = Top(t).other
        BY <1>1 DEF Held
    <2> QED
        BY <1>1, <1>3, <2>1, <2>2, <2>3, ReturnStep
<1>5. CASE allowed /\ Top(t).depth # 2
    <2> DEFINE g == [Frame("read", Top(t).slot, NoBox, "load") EXCEPT !.depth = 2]
    <2>1. Becomes(t, g)
        BY <1>5 DEF AnswerInclude
    <2>2. /\ g \in Calls /\ g.op = "read" /\ g.slot = Top(t).slot /\ g.at = "load"
          /\ g.box = NoBox /\ g.other = NoBox
        BY <1>2, Assumptions DEF Frame, Calls, Moments
    <2> HIDE DEF g
    <2>3. \A b \in Boxes :
               /\ refs'[b] + (IF Top(t).other = b THEN 1 ELSE 0) =
                    refs[b] + (IF g.other = b THEN 1 ELSE 0)
               /\ g.other = b => b <= made
        <3> SUFFICES ASSUME NEW b \in Boxes
                     PROVE  /\ refs'[b] + (IF Top(t).other = b THEN 1 ELSE 0) =
                                 refs[b] + (IF g.other = b THEN 1 ELSE 0)
                            /\ g.other # b
            OBVIOUS
        <3>1. g.other # b /\ refs[b] \in Nat
            BY <1>t, <2>2, Assumptions DEF TypeOK
        <3> QED
            BY <1>3, <3>1
    <2>f. PICK f \in Calls : f = g
        BY <2>2
    <2> QED
        BY <1>1, <1>3, <2>1, <2>2, <2>3, <2>f, ReadStep
<1> QED
    BY <1>4, <1>5

\* gitkit_policy_for.
LEMMA FindPolicyInv ==
    ASSUME IInv, NEW t \in Threads, FindPolicy(t)
    PROVE  IInv'
<1> DEFINE r == Top(t).slot
           found == PolicyFor(t, r)
           kept == IF Retained(t, r) THEN found ELSE NoBox
           g == [Top(t) EXCEPT !.at = "asking", !.box = found, !.other = kept]
<1>t. TypeOK
    BY DEF IInv
<1>1. /\ Busy(t) /\ Top(t).op = "read" /\ Top(t).at = "inside"
      /\ refs' = IF kept = NoBox THEN refs ELSE [refs EXCEPT ![kept] = @ + 1]
      /\ Becomes(t, g)
      /\ UNCHANGED <<policies, threadPolicy, live, lock, made>>
    BY DEF FindPolicy, Inside, Locking
<1>2. Top(t) \in Calls /\ NestedAt(t, Len(stack[t])) /\ Top(t) = At(t, Len(stack[t]))
    BY <1>t, <1>1, TopIs DEF IInv, Nested
<1>3. r \in Repos /\ r \in Slots /\ Top(t).other = NoBox /\ Default \in Slots
    BY <1>1, <1>2, Assumptions DEF NestedAt, Reading, Slots
\* What was found is in a slot, or is the thread's own.
<1>4. /\ found \in Boxed
      /\ Retained(t, r) => \E s \in Slots : InSlot(s) = found
      /\ ~Retained(t, r) => found = threadPolicy[t] /\ found # NoBox
    <2>1. EntryOf(r) # 0 => InSlot(r) = table[EntryOf(r)].box
        BY <1>t, <1>3, SlotType
    <2>2. InSlot(Default) = default /\ InSlot(r) \in Boxed /\ default \in Boxed
          /\ threadPolicy[t] \in Boxed
        BY <1>t, <1>3, SlotType DEF TypeOK
    <2> QED
        BY <1>3, <2>1, <2>2 DEF PolicyFor, Retained
<1> HIDE DEF found
<1>5. kept \in {NoBox, found} /\ kept \in Boxed
    BY <1>4, Assumptions
<1>6. found # NoBox /\ kept = NoBox => \E j \in Opens(t) : At(t, j).box = found
    <2> SUFFICES ASSUME found # NoBox, kept = NoBox PROVE \E j \in Opens(t) : At(t, j).box = found
        OBVIOUS
    <2>1. found = threadPolicy[t] /\ threadPolicy[t] # NoBox
        BY <1>4
    <2> QED
        BY <1>t, <2>1, LentByOpen DEF IInv
<1>7. \A b \in Boxes : kept = b => b <= made
    <2> SUFFICES ASSUME NEW b \in Boxes, kept = b PROVE b <= made
        OBVIOUS
    <2>1. PICK s \in Slots : InSlot(s) = b
        BY <1>4, Assumptions
    <2> QED
        BY <1>t, <2>1, Referenced DEF IInv
<1> HIDE DEF kept
<1>8. /\ g \in Calls /\ g.op = "read" /\ g.slot = Top(t).slot /\ g.at = "asking"
      /\ g.box = found /\ g.other = kept
    BY <1>1, <1>2, <1>4, <1>5 DEF Calls, Moments
<1> HIDE DEF g
<1>9. refs' \in [Boxes -> Int] /\ \A b \in Boxes :
               refs'[b] + (IF Top(t).other = b THEN 1 ELSE 0) =
                    refs[b] + (IF kept = b THEN 1 ELSE 0)
    <2>1. refs \in [Boxes -> Nat] /\ NoBox \notin Boxes
        BY <1>t, Assumptions DEF TypeOK
    <2>2. CASE kept = NoBox
        BY <1>1, <1>3, <2>1, <2>2
    <2>3. CASE kept # NoBox
        <3>1. refs' = [refs EXCEPT ![kept] = @ + 1]
            BY <1>1, <2>3
        <3>2. refs' \in [Boxes -> Int] /\ \A b \in Boxes :
                refs'[b] = refs[b] + (IF kept = b THEN 1 ELSE 0)
            <4>1. kept \in Boxes
                BY <1>5, <2>3 DEF Boxed
            <4> QED
                BY <2>1, <3>1, <4>1
        <3>3. \A b \in Boxes : Top(t).other # b
            BY <1>3, <2>1
        <3> QED
            BY <2>1, <3>2, <3>3
    <2> QED
        BY <2>2, <2>3
<1>f. PICK f \in Calls : f = g
    BY <1>8
<1> QED
    BY <1>1, <1>5, <1>6, <1>7, <1>8, <1>9, <1>f, ReadStep

-----------------------------------------------------------------------------
(* Calls                                                                   *)

\* The payloads made are new, and have one reference each.
LEMMA Making ==
    ASSUME TypeOK, Counted, NEW n \in 0..1, Makes(n)
    PROVE  /\ made' \in 0..MaxBoxes /\ made <= made'
           /\ refs' \in [Boxes -> Nat]
           /\ n = 0 => refs' = refs /\ made' = made
           /\ n = 1 => /\ made' \in Boxes
                       /\ \A b \in Boxes : refs'[b] = refs[b] + (IF made' = b THEN 1 ELSE 0)
           /\ \A b \in Boxes : b > made' => refs'[b] = 0
<1>1. /\ made \in Nat /\ MaxBoxes \in Nat /\ refs \in [Boxes -> Nat] /\ made + n <= MaxBoxes
      /\ made' = made + n
      /\ refs' = [b \in Boxes |-> IF b \in made + 1..made + n THEN 1 ELSE refs[b]]
      /\ \A b \in Boxes : b > made => refs[b] = 0
    BY Assumptions DEF TypeOK, Counted, Makes
<1>2. Boxes = 1..MaxBoxes
    BY DEF Boxes
<1>3. CASE n = 0
    <2>1. \A b \in Boxes : b \notin made + 1..made + n
        BY <1>1, <1>2, <1>3
    <2>2. refs' = refs
        BY <1>1, <2>1
    <2> QED
        BY <1>1, <1>3, <2>2
<1>4. CASE n = 1
    <2>1. \A b \in Boxes : b \in made + 1..made + n <=> b = made'
        BY <1>1, <1>2, <1>4
    <2>2. made' \in Boxes /\ refs[made'] = 0
        BY <1>1, <1>2, <1>4
    <2>3. \A b \in Boxes : refs'[b] = refs[b] + (IF made' = b THEN 1 ELSE 0)
        BY <1>1, <2>1, <2>2
    <2>4. refs' \in [Boxes -> Nat]
        BY <1>1
    <2>5. \A b \in Boxes : b > made' => refs'[b] = 0
        BY <1>1, <1>2, <1>4, <2>3
    <2> QED
        BY <1>1, <1>4, <2>2, <2>3, <2>4, <2>5
<1> QED
    BY <1>3, <1>4

\* A lookup, an update or a close begins.
LEMMA CallStep ==
    ASSUME IInv, NEW t \in Threads, NEW f \in Calls, Pushed(t, <<f>>),
           UNCHANGED <<policies, threadPolicy, live, lock>>,
           \/ f.op = "read" /\ f.slot \in Repos /\ f.at = "load" /\ f.box = NoBox /\ f.other = NoBox
           \/ f.op = "set" /\ f.at = "load"
           \/ /\ f.op = "close" /\ f.slot \in Repos /\ f.at = "stored" /\ f.box = NoBox
              /\ f.depth = 1 /\ f.other = given[f.slot]
              /\ \A u \in Threads : \A i \in Depths(u) : ~Uses(u, i, f.slot),
           \/ ~Busy(t)
           \/ Top(t).op = "read" /\ Top(t).at = "asking" /\ Top(t).box # NoBox
           \/ f.op = "set" /\ Top(t).op = "open" /\ Top(t).at = "opened" /\ Top(t).slot = f.slot,
           f.slot \in Repos => f.slot \in live,
           \A u \in Threads : \A i \in Depths(u) : f.slot \in Repos /\ Uses(u, i, f.slot) =>
               u = t /\ (At(u, i).op \in {"open", "close"} => i = Len(stack[t])),
           made' \in 0..MaxBoxes, made <= made', refs' \in [Boxes -> Int],
           \A b \in Boxes :
               /\ refs'[b] = refs[b] + (IF Held(f) = b THEN 1 ELSE 0)
               /\ b > made' => refs'[b] = 0
    PROVE  IInv'
<1>t. TypeOK /\ OneMutex /\ OneInside
    BY DEF IInv
<1>n. PICK n \in Nat : n = Len(stack[t])
    BY <1>t DEF TypeOK
<1>0. /\ Depths(t) = 1..n /\ n + 1 \in 1..n + 1 /\ n + 1 \notin Depths(t)
      /\ Changes(t, n + 1, n + 1) /\ At(t, n + 1)' = f
      /\ ~Busy(t) => n = 0
      /\ n # 0 => Busy(t) /\ n \in Depths(t) /\ n \in 1..n + 1 /\ n < n + 1 /\ Top(t) = At(t, n)
    <2>1. Depths(t) = 1..n /\ n + 1 \in 1..n + 1 /\ n + 1 \notin Depths(t)
        BY <1>n DEF Depths
    <2>2. Changes(t, n + 1, n + 1) /\ stack'[t][n + 1] = f
        BY <1>t, <1>n, Pushing
    <2>3. ~Busy(t) => n = 0
        BY <1>n DEF Busy
    <2>4. n # 0 => Busy(t) /\ Top(t) = At(t, n)
        <3>1. n # 0 => Busy(t)
            BY <1>n DEF Busy
        <3> QED
            BY <1>t, <1>n, <3>1, TopIs
    <2> QED
        BY <2>1, <2>2, <2>3, <2>4 DEF At
<1>1. /\ table' = table /\ default' = default /\ given' = given /\ UNCHANGED policies
      /\ threadPolicy' = threadPolicy /\ live' = live /\ lock' = lock
    BY DEF policies
<1>2. /\ \A i \in 1..n + 1 : i >= n + 1 => i = n + 1
      /\ \A i \in 1..n + 1 : i + 1 >= n + 1 => i = n + 1 \/ (n # 0 /\ i = n)
      /\ \A i \in Depths(t) : ~(i >= n + 1)
    BY <1>0
<1>3. IsTop(t, n + 1)'
    BY <1>t, <1>0, Kept
<1>4. ASSUME n # 0
      PROVE  /\ At(t, n) \in Calls /\ At(t, n)' = At(t, n)
             /\ IsTop(t, n) /\ ~IsTop(t, n)'
             /\ NestedAt(t, n)
             /\ \/ At(t, n).op = "read" /\ At(t, n).at = "asking" /\ At(t, n).box # NoBox
                \/ /\ f.op = "set" /\ At(t, n).op = "open" /\ At(t, n).at = "opened"
                   /\ At(t, n).slot = f.slot
    <2>1. n \in Depths(t) /\ n \in 1..n + 1 /\ n < n + 1 /\ n # n + 1
        BY <1>0, <1>4
    <2>2. /\ At(t, n) \in Calls /\ At(t, n)' = At(t, n) /\ IsTop(t, n) /\ ~IsTop(t, n)'
        BY <1>t, <1>n, <1>0, <2>1, Kept
    <2>3. NestedAt(t, n)
        BY <2>1 DEF IInv, Nested
    <2> QED
        BY <1>0, <1>4, <2>2, <2>3
<1>5. Nested'
    <2>1. NestedAt(t, n + 1)'
        BY <1>0, <1>3 DEF NestedAt, Reading, Setting, Ending, Locked
    <2>2. ASSUME n # 0 PROVE NestedAt(t, n)'
        BY <1>0, <1>4, <2>2 DEF NestedAt, Reading, Opening
    <2> QED
        BY <1>t, <1>0, <1>2, <2>1, <2>2, NestedStep DEF IInv
<1>6. OneMutex'
    BY <1>t, <1>0, <1>1, <1>2, MutexStep
<1>7. OneInside'
    <2>1. Top(t)' = f
        BY <1>0, NewTop DEF At
    <2>2. ~Inside(t)'
        BY <2>1 DEF Inside, Locking
    <2> QED
        BY <1>t, <1>0, <2>2, InsideStep DEF Changes
<1>8. OneUser'
    <2>1. f.slot \in Slots /\ f.op # "open"
        BY DEF Calls
    <2>s. PICK s \in Slots : s = f.slot
        BY <2>1
    <2>2. \A i \in 1..n + 1 : i > n => At(t, i)' = f
        BY <1>0, <1>2
    <2>3. \A i \in 1..n + 1 : i > Len(stack[t]) =>
            At(t, i)'.slot = s /\ (At(t, i)'.op \in {"open", "close"} => i = Len(stack[t]) + 1)
        BY <1>n, <2>1, <2>2, <2>s
    <2>4. \A u \in Threads : \A i \in Depths(u) : s \in Repos /\ Uses(u, i, s) =>
               /\ u = t
               /\ At(u, i).op \in {"open", "close"} => i = Len(stack[t]) /\ n + 1 = i + 1
               /\ \A j \in 1..n + 1 : j > Len(stack[t]) => At(t, j)'.op \notin {"open", "close"}
        BY <1>n, <2>1, <2>2, <2>s
    <2>5. /\ n + 1 <= Len(stack[t]) + 2 /\ Changes(t, Len(stack[t]) + 1, n + 1)
          /\ live \subseteq live' /\ (s \in Repos => s \in live')
        BY <1>n, <1>0, <1>1, <2>s
    <2> QED
        BY <1>t, <2>3, <2>4, <2>5, NewUserStep DEF IInv
<1>9. OneEntry'
    BY <1>1 DEF IInv, OneEntry
<1>10. AsGiven'
    <2>1. GivenAt(t, n + 1)'
        BY <1>0, <1>1 DEF GivenAt
    <2>2. ASSUME n # 0 PROVE GivenAt(t, n)'
        BY <1>4, <2>2 DEF GivenAt
    <2>3. ASSUME NEW r \in live', Unset(t, r) PROVE Unset(t, r)'
        <3>1. PICK i \in Depths(t) : At(t, i).op = "close" /\ At(t, i).slot = r /\ At(t, i).depth = 2
            BY <2>3 DEF Unset
        <3>2. i \in 1..n + 1 /\ i < n + 1
            BY <1>0
        <3>3. At(t, i)' = At(t, i) /\ i \in Depths(t)'
            BY <1>t, <1>0, <3>2, Kept
        <3> QED
            BY <3>1, <3>3 DEF Unset
    <2> QED
        BY <1>t, <1>0, <1>1, <1>2, <2>1, <2>2, <2>3, GivenStep DEF IInv
<1>11. Stacked'
    <2>1. Lent(t, n + 1)'
        BY <1>0 DEF Lent
    <2>2. f.op # "open"
        OBVIOUS
    <2> QED
        BY <1>t, <1>0, <1>1, <1>2, <2>1, <2>2, StackedStep DEF IInv
<1>12. Counted' /\ \A b \in Boxes : refs'[b] \in Nat
    <2>1. HeldAt(t, n + 1) = NoBox /\ HeldAt(t, n + 1)' = Held(f)
        BY <1>t, <1>0, HeldTop
    <2>2. ASSUME NEW i \in Nat, i >= n + 1, i # n + 1 PROVE HeldAt(t, i)' = HeldAt(t, i)
        <3>1. i \notin 1..n + 1 /\ i \notin Depths(t)
            BY <1>0, <2>2
        <3> QED
            BY <1>t, <1>0, <3>1, HeldTop
    <2>3. ASSUME NEW b \in Boxes
          PROVE  /\ refs'[b] \in Int
                 /\ refs'[b] + (IF HeldAt(t, n + 1) = b THEN 1 ELSE 0) =
                      refs[b] + (IF HeldAt(t, n + 1)' = b THEN 1 ELSE 0)
                 /\ b > made' => refs'[b] = 0
        <3>1. refs'[b] \in Int /\ refs[b] \in Nat
            BY <1>t DEF TypeOK
        <3>2. HeldAt(t, n + 1) # b
            BY <2>1, Assumptions
        <3> QED
            BY <2>1, <3>1, <3>2
    <2> QED
        BY <1>t, <1>0, <1>1, <2>2, <2>3, CountedStep DEF IInv
<1>13. TypeOK'
    <2>1. refs' \in [Boxes -> Nat]
        BY <1>12
    <2> QED
        BY <1>t, <1>0, <1>1, <2>1 DEF TypeOK, Changes
<1> QED
    BY <1>5, <1>6, <1>7, <1>8, <1>9, <1>10, <1>11, <1>12, <1>13 DEF IInv

\* Nobody but t uses a usable handle, and no open or close does.
LEMMA UsableIs ==
    ASSUME TypeOK, NEW t \in Threads, NEW r, Usable(t, r)
    PROVE  /\ r \in live
           /\ \A u \in Threads : \A i \in Depths(u) : At(u, i).slot = r =>
                u = t /\ At(u, i).op \notin {"open", "close"}
<1> SUFFICES ASSUME NEW u \in Threads, NEW i \in Depths(u), At(u, i).slot = r
             PROVE  u = t /\ At(u, i).op \notin {"open", "close"}
    BY DEF Usable
<1>1. stack[u] \in Seq(Calls) /\ i \in DOMAIN stack[u]
    BY DEF TypeOK, Depths
<1>2. At(u, i) \in Frames(u)
    BY <1>1 DEF Frames, ToSet, At
<1> QED
    BY <1>2 DEF Usable

\* What Free says of where the call is made.
LEMMA FreeIs ==
    ASSUME NEW t \in Threads, Free(t)
    PROVE  \/ ~Busy(t)
           \/ Busy(t) /\ Top(t).op = "read" /\ Top(t).at = "asking" /\ Top(t).box # NoBox
BY DEF Free, In

\* A config is read.
LEMMA ReadConfigInv ==
    ASSUME IInv, NEW t \in Threads, NEW r \in Repos, ReadConfig(t, r)
    PROVE  IInv'
<1> DEFINE g == Frame("read", r, NoBox, "load")
<1>t. TypeOK
    BY DEF IInv
<1>1. /\ Usable(t, r) /\ Free(t) /\ Pushed(t, <<g>>)
      /\ UNCHANGED <<policies, threadPolicy, live, lock>> /\ refs' = refs /\ made' = made
    BY DEF ReadConfig, payloads
<1>2. /\ g \in Calls /\ g.op = "read" /\ g.slot = r /\ g.at = "load" /\ g.box = NoBox
      /\ g.other = NoBox
    BY Assumptions DEF Frame, Calls, Slots, Moments
<1>3. Held(g) = NoBox
    BY <1>2 DEF Held
<1> HIDE DEF g
<1>f. PICK f \in Calls : f = g
    BY <1>2
<1>4. \A u \in Threads : \A i \in Depths(u) : f.slot \in Repos /\ Uses(u, i, f.slot) =>
               u = t /\ (At(u, i).op \in {"open", "close"} => i = Len(stack[t]))
    BY <1>t, <1>1, <1>2, <1>f, UsableIs DEF Uses
<1>5. /\ made' \in 0..MaxBoxes /\ made <= made' /\ refs' \in [Boxes -> Int]
      /\ \A b \in Boxes : /\ refs'[b] = refs[b] + (IF Held(f) = b THEN 1 ELSE 0)
                          /\ b > made' => refs'[b] = 0
    <2>1. made \in 0..MaxBoxes /\ made \in Nat /\ refs \in [Boxes -> Nat]
        BY <1>t, Assumptions DEF TypeOK
    <2>2. \A b \in Boxes : Held(f) # b
        BY <1>3, <1>f, Assumptions
    <2>3. \A b \in Boxes : b > made => refs[b] = 0
        BY DEF IInv, Counted
    <2> QED
        BY <1>1, <2>1, <2>2, <2>3
<1>6. r \in live
    BY <1>t, <1>1, UsableIs
<1>7. \/ ~Busy(t)
      \/ Top(t).op = "read" /\ Top(t).at = "asking" /\ Top(t).box # NoBox
    BY <1>1, FreeIs
<1> QED
    BY <1>1, <1>2, <1>4, <1>5, <1>6, <1>7, <1>f, CallStep

\* A policy is set, with the payload made for it, or removed.
LEMMA SetPolicyInv ==
    ASSUME IInv, NEW t \in Threads, NEW s \in Slots, NEW n \in 0..1, SetPolicy(t, s, n)
    PROVE  IInv'
<1> DEFINE g == Frame("set", s, IF n = 1 THEN made' ELSE NoBox, "load")
<1>t. TypeOK
    BY DEF IInv
<1>1. /\ IF s = Default THEN "default" \in world ELSE Usable(t, s)
      /\ Free(t) /\ Makes(n) /\ Pushed(t, <<g>>)
      /\ UNCHANGED <<policies, threadPolicy, live, lock>>
    BY DEF SetPolicy
<1>2. /\ made' \in 0..MaxBoxes /\ made <= made' /\ refs' \in [Boxes -> Nat]
      /\ n = 0 => refs' = refs /\ made' = made
      /\ n = 1 => /\ made' \in Boxes
                  /\ \A b \in Boxes : refs'[b] = refs[b] + (IF made' = b THEN 1 ELSE 0)
      /\ \A b \in Boxes : b > made' => refs'[b] = 0
    BY <1>t, <1>1, Making DEF IInv
<1>3. /\ g \in Calls /\ g.op = "set" /\ g.slot = s /\ g.at = "load"
      /\ g.box = IF n = 1 THEN made' ELSE NoBox
    BY <1>2, Assumptions DEF Frame, Calls, Moments
<1>4. Held(g) = IF n = 1 THEN made' ELSE NoBox
    BY <1>3 DEF Held
<1> HIDE DEF g
<1>f. PICK f \in Calls : f = g
    BY <1>3
<1>5. /\ s \in Repos => s \in live
      /\ \A u \in Threads : \A i \in Depths(u) : f.slot \in Repos /\ Uses(u, i, f.slot) =>
               u = t /\ (At(u, i).op \in {"open", "close"} => i = Len(stack[t]))
    <2>1. s \in Repos => Usable(t, s)
        BY <1>1, Assumptions
    <2> QED
        BY <1>t, <1>3, <1>f, <2>1, UsableIs DEF Uses
<1>6. \A b \in Boxes : /\ refs'[b] = refs[b] + (IF Held(f) = b THEN 1 ELSE 0)
                       /\ b > made' => refs'[b] = 0
    <2>1. refs \in [Boxes -> Nat]
        BY <1>t DEF TypeOK
    <2>2. CASE n = 0
        <3>1. \A b \in Boxes : Held(f) # b
            BY <1>4, <1>f, <2>2, Assumptions
        <3> QED
            BY <1>2, <2>1, <2>2, <3>1
    <2>3. CASE n = 1
        BY <1>2, <1>4, <1>f, <2>3
    <2> QED
        BY <2>2, <2>3
<1>7. \/ ~Busy(t)
      \/ Top(t).op = "read" /\ Top(t).at = "asking" /\ Top(t).box # NoBox
    BY <1>1, FreeIs
<1>8. refs' \in [Boxes -> Int]
    BY <1>2
<1> QED
    BY <1>1, <1>2, <1>3, <1>5, <1>6, <1>7, <1>8, <1>f, CallStep

\* What an open was given becomes its repository's, which it alone has.
LEMMA OpenRegistersInv ==
    ASSUME IInv, NEW t \in Threads, OpenRegisters(t)
    PROVE  IInv'
<1> DEFINE g == Frame("set", Top(t).slot, made', "load")
<1>t. TypeOK
    BY DEF IInv
<1>1. /\ Busy(t) /\ Top(t).op = "open" /\ Top(t).at = "opened"
      /\ Makes(1) /\ Pushed(t, <<g>>)
      /\ UNCHANGED <<policies, threadPolicy, live, lock>>
    BY DEF OpenRegisters, In
<1>2. /\ made' \in 0..MaxBoxes /\ made <= made' /\ refs' \in [Boxes -> Nat]
      /\ made' \in Boxes
      /\ \A b \in Boxes : refs'[b] = refs[b] + (IF made' = b THEN 1 ELSE 0)
      /\ \A b \in Boxes : b > made' => refs'[b] = 0
    <2>1. 1 \in 0..1
        OBVIOUS
    <2> QED
        BY <1>t, <1>1, <2>1, Making DEF IInv
<1>n. PICK n \in Nat \ {0} : n = Len(stack[t])
    BY <1>t, <1>1, TopIs
<1>3. Top(t) \in Calls /\ n \in Depths(t) /\ Top(t) = At(t, n) /\ NestedAt(t, n) /\ IsTop(t, n)
    BY <1>t, <1>1, <1>n, TopIs DEF IInv, Nested, IsTop
<1>4. /\ g \in Calls /\ g.op = "set" /\ g.slot = Top(t).slot /\ g.at = "load" /\ g.box = made'
    BY <1>2, <1>3, Assumptions DEF Frame, Calls, Moments
<1>5. Held(g) = made'
    BY <1>4 DEF Held
<1> HIDE DEF g
<1>f. PICK f \in Calls : f = g
    BY <1>4
<1>6. /\ f.slot \in live
      /\ \A u \in Threads : \A i \in Depths(u) : f.slot \in Repos /\ Uses(u, i, f.slot) =>
               u = t /\ (At(u, i).op \in {"open", "close"} => i = Len(stack[t]))
    <2>1. Uses(t, n, f.slot) /\ f.slot \in Repos
        BY <1>1, <1>3, <1>4, <1>f DEF Uses, NestedAt, Opening
    <2>2. f.slot \in live
        BY <1>3, <2>1 DEF IInv, OneUser
    <2>3. ASSUME NEW u \in Threads, NEW i \in Depths(u), Uses(u, i, f.slot)
          PROVE  u = t /\ i = n
        <3>1. u = t /\ i \in {n, n + 1}
            BY <1>1, <1>3, <2>1, <2>3 DEF IInv, OneUser
        <3>2. i # n + 1
            BY <1>n, <3>1 DEF Depths
        <3> QED
            BY <3>1, <3>2
    <2> QED
        BY <1>n, <2>2, <2>3
<1>7. \A b \in Boxes : /\ refs'[b] = refs[b] + (IF Held(f) = b THEN 1 ELSE 0)
                       /\ b > made' => refs'[b] = 0
    BY <1>2, <1>5, <1>f
<1>8. refs' \in [Boxes -> Int]
    BY <1>2
<1> QED
    BY <1>1, <1>2, <1>4, <1>6, <1>7, <1>8, <1>f, CallStep

\* A close begins, by the only user of the handle.
LEMMA CloseBeginsInv ==
    ASSUME IInv, NEW t \in Threads, NEW r \in Repos, CloseBegins(t, r)
    PROVE  IInv'
<1> DEFINE g == [Frame("close", r, NoBox, "stored") EXCEPT !.other = given[r]]
<1>t. TypeOK
    BY DEF IInv
<1>1. /\ Usable(t, r) /\ Free(t) /\ (\A c \in Frames(t) : c.slot # r) /\ Pushed(t, <<g>>)
      /\ UNCHANGED <<policies, threadPolicy, live, lock>> /\ refs' = refs /\ made' = made
    BY DEF CloseBegins, payloads
<1>2. /\ g \in Calls /\ g.op = "close" /\ g.slot = r /\ g.at = "stored" /\ g.box = NoBox
      /\ g.other = given[r] /\ g.depth = 1
    <2>1. given[r] \in Boxed /\ r \in Slots
        BY <1>t DEF TypeOK, Slots
    <2> QED
        BY <2>1, Assumptions DEF Frame, Calls, Moments
<1>3. Held(g) = NoBox
    BY <1>2 DEF Held
<1> HIDE DEF g
<1>f. PICK f \in Calls : f = g
    BY <1>2
\* Nobody uses the handle.
<1>u. \A u \in Threads : \A i \in Depths(u) : ~Uses(u, i, r)
    <2> SUFFICES ASSUME NEW u \in Threads, NEW i \in Depths(u), At(u, i).slot = r
                 PROVE  FALSE
        BY DEF Uses
    <2>1. u = t
        BY <1>t, <1>1, UsableIs
    <2>2. stack[t] \in Seq(Calls) /\ i \in DOMAIN stack[t]
        BY <1>t, <2>1 DEF TypeOK, Depths
    <2>3. At(t, i) \in Frames(t)
        BY <2>2 DEF Frames, ToSet, At
    <2> QED
        BY <1>1, <2>1, <2>3
<1>4. \A u \in Threads : \A i \in Depths(u) : f.slot \in Repos /\ Uses(u, i, f.slot) =>
               u = t /\ (At(u, i).op \in {"open", "close"} => i = Len(stack[t]))
    BY <1>t, <1>1, <1>2, <1>f, UsableIs DEF Uses
<1>5. /\ made' \in 0..MaxBoxes /\ made <= made' /\ refs' \in [Boxes -> Int]
      /\ \A b \in Boxes : /\ refs'[b] = refs[b] + (IF Held(f) = b THEN 1 ELSE 0)
                          /\ b > made' => refs'[b] = 0
    <2>1. made \in 0..MaxBoxes /\ made \in Nat /\ refs \in [Boxes -> Nat]
        BY <1>t, Assumptions DEF TypeOK
    <2>2. \A b \in Boxes : Held(f) # b
        BY <1>3, <1>f, Assumptions
    <2>3. \A b \in Boxes : b > made => refs[b] = 0
        BY DEF IInv, Counted
    <2> QED
        BY <1>1, <2>1, <2>2, <2>3
<1>6. r \in live
    BY <1>t, <1>1, UsableIs
<1>7. \/ ~Busy(t)
      \/ Top(t).op = "read" /\ Top(t).at = "asking" /\ Top(t).box # NoBox
    BY <1>1, FreeIs
<1> QED
    BY <1>1, <1>2, <1>4, <1>5, <1>6, <1>7, <1>f, <1>u, CallStep

-----------------------------------------------------------------------------
(* The table                                                               *)

Entries == [repo : Repos, box : Boxes]

\* The table has one entry of a repository; where one is; what it holds.
Single(tab) == \A i, j \in 1..Len(tab) : tab[i].repo = tab[j].repo => i = j
PlaceIn(tab, r) == SelectInSeq(tab, LAMBDA e : e.repo = r)
BoxIn(tab, r) == IF PlaceIn(tab, r) # 0 THEN tab[PlaceIn(tab, r)].box ELSE NoBox

\* A slot, before and after a step, by the table it is read from.
LEMMA SlotIs ==
    /\ \A s : InSlot(s) = IF s = Default THEN default ELSE BoxIn(table, s)
    /\ \A s : InSlot(s)' = IF s = Default THEN default' ELSE BoxIn(table', s)
    /\ \A s : EntryOf(s) = PlaceIn(table, s)
<1>1. /\ \A s : EntryOf(s) = PlaceIn(table, s)
      /\ \A s : EntryOf(s)' = PlaceIn(table', s)
    BY Zenon DEF EntryOf, PlaceIn, SelectInSeq
<1> QED
    BY <1>1 DEF InSlot, BoxIn

\* An entry is found, if there is one, and nothing if there is none.
LEMMA BoxInIs ==
    ASSUME NEW tab \in Seq(Entries), Single(tab), NEW r
    PROVE  /\ \A i \in 1..Len(tab) : tab[i].repo = r => PlaceIn(tab, r) = i /\ BoxIn(tab, r) = tab[i].box
           /\ (\A i \in 1..Len(tab) : tab[i].repo # r) => PlaceIn(tab, r) = 0 /\ BoxIn(tab, r) = NoBox
<1> DEFINE I == {i \in 1..Len(tab) : tab[i].repo = r}
<1>1. PlaceIn(tab, r) = IF I # {} THEN Min(I) ELSE 0
    BY Zenon DEF PlaceIn, SelectInSeq
<1>2. ASSUME NEW i \in 1..Len(tab), tab[i].repo = r
      PROVE  PlaceIn(tab, r) = i /\ i # 0
    <2>1. I = {i}
        BY <1>2 DEF Single
    <2>2. Min({i}) = i
        BY DEF Min
    <2>3. i # 0
        OBVIOUS
    <2> HIDE DEF I
    <2> QED
        BY <1>1, <2>1, <2>2, <2>3
<1>3. ASSUME \A i \in 1..Len(tab) : tab[i].repo # r PROVE PlaceIn(tab, r) = 0
    <2>1. I = {}
        BY <1>3
    <2> QED
        BY <1>1, <2>1
<1> QED
    BY <1>2, <1>3 DEF BoxIn

\* Two tables that say the same of a repository.
LEMMA SameBox ==
    ASSUME NEW tab \in Seq(Entries), NEW tab2 \in Seq(Entries), Single(tab), Single(tab2), NEW r,
           \A i \in 1..Len(tab) : tab[i].repo = r =>
               \E j \in 1..Len(tab2) : tab2[j].repo = r /\ tab2[j].box = tab[i].box,
           \A j \in 1..Len(tab2) : tab2[j].repo = r => \E i \in 1..Len(tab) : tab[i].repo = r
    PROVE  BoxIn(tab2, r) = BoxIn(tab, r)
<1>1. CASE \E i \in 1..Len(tab) : tab[i].repo = r
    <2>1. PICK i \in 1..Len(tab) : tab[i].repo = r
        BY <1>1
    <2>2. PICK j \in 1..Len(tab2) : tab2[j].repo = r /\ tab2[j].box = tab[i].box
        BY <2>1
    <2> QED
        BY <2>1, <2>2, BoxInIs
<1>2. CASE ~\E i \in 1..Len(tab) : tab[i].repo = r
    BY <1>2, BoxInIs
<1> QED
    BY <1>1, <1>2

\* gitkit_config_set_include_policy leaves the other slots alone, whether it
\* changes an entry, adds one, or fills a removed one's place with the last.
LEMMA Storing ==
    ASSUME TypeOK, OneEntry, NEW s \in Slots, NEW box \in Boxed,
           IF s = Default THEN default' = box /\ UNCHANGED table
           ELSE table' = Stored(s, box) /\ UNCHANGED default
    PROVE  /\ table' \in Seq(Entries) /\ default' \in Boxed /\ OneEntry'
           /\ InSlot(s)' = box
           /\ \A r \in Slots \ {s} : InSlot(r)' = InSlot(r)
<1> DEFINE m == Len(table)
<1>t. /\ table \in Seq(Entries) /\ default \in Boxed /\ m \in Nat /\ Single(table)
      /\ \A i \in 1..m : table[i] \in Entries
    <2>1. table \in Seq(Entries) /\ default \in Boxed
        BY DEF TypeOK, Entries
    <2>2. Single(table)
        BY DEF OneEntry, Single
    <2> QED
        BY <2>1, <2>2, ElementOfSeq
<1>1. CASE s = Default
    <2>1. default' = box /\ table' = table
        BY <1>1
    <2>2. OneEntry'
        BY <2>1 DEF OneEntry
    <2> QED
        BY <1>1, <1>t, <2>1, <2>2, SlotIs
<1>2. CASE s # Default
    <2>1. s \in Repos /\ default' = default /\ table' = Stored(s, box)
        BY <1>2 DEF Slots
    <2>2. ASSUME NEW tab2 \in Seq(Entries), tab2 = table', Single(tab2), BoxIn(tab2, s) = box,
                 \A r \in Repos \ {s} : BoxIn(tab2, r) = BoxIn(table, r)
          PROVE  /\ table' \in Seq(Entries) /\ default' \in Boxed /\ OneEntry'
                 /\ InSlot(s)' = box
                 /\ \A r \in Slots \ {s} : InSlot(r)' = InSlot(r)
        <3>1. OneEntry'
            BY <2>2 DEF OneEntry, Single
        <3> QED
            BY <1>t, <1>2, <2>1, <2>2, <3>1, SlotIs DEF Slots
    <2>3. ASSUME NEW i \in 1..m, table[i].repo = s PROVE EntryOf(s) = i /\ i # 0
        BY <1>t, <2>3, BoxInIs, SlotIs
    <2>4. (\A i \in 1..m : table[i].repo # s) => EntryOf(s) = 0
        BY <1>t, BoxInIs, SlotIs
    \* The entry's box is replaced.
    <2>5. ASSUME NEW i \in 1..m, table[i].repo = s, box # NoBox
          PROVE  /\ table' \in Seq(Entries) /\ default' \in Boxed /\ OneEntry'
                 /\ InSlot(s)' = box
                 /\ \A r \in Slots \ {s} : InSlot(r)' = InSlot(r)
        <3> DEFINE tab2 == [table EXCEPT ![i].box = box]
        <3>1. tab2 = table'
            BY <2>1, <2>3, <2>5 DEF Stored
        <3>2. box \in Boxes /\ [table[i] EXCEPT !.box = box] \in Entries
              /\ [table[i] EXCEPT !.box = box].repo = s /\ [table[i] EXCEPT !.box = box].box = box
            <4>1. box \in Boxes /\ table[i] \in Entries
                BY <1>t, <2>5 DEF Boxed
            <4> QED
                BY <2>5, <4>1 DEF Entries
        <3>3. /\ tab2 \in Seq(Entries) /\ Len(tab2) = m
              /\ tab2[i].repo = s /\ tab2[i].box = box
              /\ \A j \in 1..m \ {i} : tab2[j] = table[j]
            <4> DEFINE e == [table[i] EXCEPT !.box = box]
            <4>1. tab2 = [table EXCEPT ![i] = e]
                OBVIOUS
            <4> HIDE DEF e, tab2
            <4>2. e \in Entries /\ e.repo = s /\ e.box = box
                BY <3>2 DEF e
            <4> QED
                BY <1>t, <4>1, <4>2
        <3> HIDE DEF tab2
        <3>4. Single(tab2)
            BY <1>t, <2>5, <3>3 DEF Single
        <3>5. BoxIn(tab2, s) = box
            BY <3>3, <3>4, BoxInIs
        <3>6. ASSUME NEW r \in Repos \ {s} PROVE BoxIn(tab2, r) = BoxIn(table, r)
            BY <1>t, <2>5, <3>3, <3>4, SameBox
        <3> QED
            BY <2>2, <3>1, <3>3, <3>4, <3>5, <3>6
    \* The entry is removed.
    <2>6. ASSUME NEW i \in 1..m, table[i].repo = s, box = NoBox
          PROVE  /\ table' \in Seq(Entries) /\ default' \in Boxed /\ OneEntry'
                 /\ InSlot(s)' = box
                 /\ \A r \in Slots \ {s} : InSlot(r)' = InSlot(r)
        <3> DEFINE tab1 == [table EXCEPT ![i] = Last(table)]
                   tab2 == Front(tab1)
        <3>1. tab2 = table'
            BY <2>1, <2>3, <2>6 DEF Stored, Without
        <3>2. /\ tab1 \in Seq(Entries) /\ Len(tab1) = m /\ tab1 # << >> /\ m \in Nat \ {0}
              /\ \A j \in 1..m : tab1[j] = IF j = i THEN table[m] ELSE table[j]
            <4>1. Last(table) = table[m] /\ m \in 1..m /\ table[m] \in Entries
                BY <1>t DEF Last
            <4>2. tab1 \in Seq(Entries) /\ Len(tab1) = m
                  /\ \A j \in 1..m : tab1[j] = IF j = i THEN table[m] ELSE table[j]
                BY <1>t, <4>1
            <4> QED
                BY <4>1, <4>2
        <3> HIDE DEF tab1
        <3>3. /\ tab2 \in Seq(Entries) /\ Len(tab2) = m - 1
              /\ \A j \in 1..m - 1 : tab2[j] = IF j = i THEN table[m] ELSE table[j]
            BY <3>2, FrontIs
        <3> HIDE DEF tab2
        <3>4. ASSUME NEW j \in 1..m - 1
              PROVE  \E p \in 1..m : p # i /\ tab2[j] = table[p] /\ p = IF j = i THEN m ELSE j
            <4>1. m \in 1..m /\ j \in 1..m /\ (j = i => m # i)
                BY <3>2
            <4> QED
                BY <3>3, <4>1
        <3>5. Single(tab2)
            <4> SUFFICES ASSUME NEW j \in 1..m - 1, NEW k \in 1..m - 1, tab2[j].repo = tab2[k].repo
                         PROVE  j = k
                BY <3>3 DEF Single
            <4>1. PICK p \in 1..m : p # i /\ tab2[j] = table[p] /\ p = IF j = i THEN m ELSE j
                BY <3>4
            <4>2. PICK q \in 1..m : q # i /\ tab2[k] = table[q] /\ q = IF k = i THEN m ELSE k
                BY <3>4
            <4>3. p = q
                BY <1>t, <4>1, <4>2 DEF Single
            <4>4. j # m /\ k # m
                BY <3>2
            <4> QED
                BY <4>1, <4>2, <4>3, <4>4
        <3>6. ASSUME NEW j \in 1..m - 1 PROVE tab2[j].repo # s
            BY <1>t, <2>6, <3>4 DEF Single
        <3>7. BoxIn(tab2, s) = box
            BY <2>6, <3>3, <3>5, <3>6, BoxInIs
        <3>8. ASSUME NEW r \in Repos \ {s} PROVE BoxIn(tab2, r) = BoxIn(table, r)
            <4>1. ASSUME NEW p \in 1..m, table[p].repo = r
                  PROVE  \E j \in 1..m - 1 : tab2[j].repo = r /\ tab2[j].box = table[p].box
                <5>1. p # i
                    BY <2>6, <4>1
                <5>2. CASE p = m
                    <6>1. i \in 1..m - 1
                        BY <3>2, <5>1, <5>2
                    <6> QED
                        BY <3>3, <4>1, <5>2, <6>1
                <5>3. CASE p # m
                    <6>1. p \in 1..m - 1
                        BY <3>2, <5>3
                    <6> QED
                        BY <3>3, <4>1, <5>1, <6>1
                <5> QED
                    BY <5>2, <5>3
            <4>2. ASSUME NEW j \in 1..m - 1, tab2[j].repo = r
                  PROVE  \E p \in 1..m : table[p].repo = r
                BY <3>4, <4>2
            <4> QED
                BY <1>t, <3>3, <3>5, <4>1, <4>2, SameBox
        <3> QED
            BY <2>2, <3>1, <3>3, <3>5, <3>7, <3>8
    \* There is no entry to remove.
    <2>7. ASSUME \A i \in 1..m : table[i].repo # s, box = NoBox
          PROVE  /\ table' \in Seq(Entries) /\ default' \in Boxed /\ OneEntry'
                 /\ InSlot(s)' = box
                 /\ \A r \in Slots \ {s} : InSlot(r)' = InSlot(r)
        <3>1. table' = table
            BY <2>1, <2>4, <2>7 DEF Stored
        <3>2. BoxIn(table, s) = box
            BY <1>t, <2>7, BoxInIs
        <3> QED
            BY <1>t, <2>2, <3>1, <3>2
    \* An entry is added.
    <2>8. ASSUME \A i \in 1..m : table[i].repo # s, box # NoBox
          PROVE  /\ table' \in Seq(Entries) /\ default' \in Boxed /\ OneEntry'
                 /\ InSlot(s)' = box
                 /\ \A r \in Slots \ {s} : InSlot(r)' = InSlot(r)
        <3> DEFINE e == [repo |-> s, box |-> box]
                   tab2 == Append(table, e)
        <3>1. tab2 = table'
            BY <2>1, <2>4, <2>8 DEF Stored
        <3>2. e \in Entries /\ e.repo = s /\ e.box = box
            BY <2>1, <2>8 DEF Entries, Boxed
        <3> HIDE DEF e
        <3>3. /\ tab2 \in Seq(Entries) /\ Len(tab2) = m + 1
              /\ \A j \in 1..m : tab2[j] = table[j]
              /\ tab2[m + 1] = e /\ m + 1 \in 1..m + 1
              /\ \A j \in 1..m + 1 : j = m + 1 \/ j \in 1..m
              /\ \A j \in 1..m : j \in 1..m + 1
            BY <1>t, <3>2, AppendProperties
        <3> HIDE DEF tab2
        <3>4. Single(tab2)
            <4> SUFFICES ASSUME NEW j \in 1..m + 1, NEW k \in 1..m + 1, tab2[j].repo = tab2[k].repo
                         PROVE  j = k
                BY <3>3 DEF Single
            <4> QED
                BY <1>t, <2>8, <3>2, <3>3 DEF Single
        <3>5. BoxIn(tab2, s) = box
            BY <3>2, <3>3, <3>4, BoxInIs
        <3>6. ASSUME NEW r \in Repos \ {s} PROVE BoxIn(tab2, r) = BoxIn(table, r)
            <4>1. \A i \in 1..m : table[i].repo = r =>
                    \E j \in 1..m + 1 : tab2[j].repo = r /\ tab2[j].box = table[i].box
                BY <3>3
            <4>2. \A j \in 1..m + 1 : tab2[j].repo = r => \E i \in 1..m : table[i].repo = r
                BY <3>2, <3>3
            <4> QED
                BY <1>t, <3>3, <3>4, <4>1, <4>2, SameBox
        <3> QED
            BY <2>2, <3>1, <3>3, <3>4, <3>5, <3>6
    <2> QED
        BY <2>5, <2>6, <2>7, <2>8
<1> QED
    BY <1>1, <1>2

\* A policy takes its slot, and its call takes what was there.
LEMMA StorePolicyInv ==
    ASSUME IInv, NEW t \in Threads, StorePolicy(t)
    PROVE  IInv'
<1>t. TypeOK /\ OneMutex /\ OneInside /\ OneEntry
    BY DEF IInv
<1>b. Busy(t) /\ Inside(t) /\ Top(t).op = "set" /\ Top(t).at = "inside"
    BY DEF StorePolicy, Inside, Locking
<1>c. Top(t) \in Calls /\ Top(t).slot \in Slots /\ Top(t).box \in Boxed
    BY <1>t, <1>b, TopIs DEF Calls
<1>s. PICK s \in Slots : s = Top(t).slot
    BY <1>c
<1>x. PICK box \in Boxed : box = Top(t).box
    BY <1>c
<1>o. PICK old \in Boxed : old = InSlot(s)
    BY <1>t, SlotType
<1> DEFINE g == [Top(t) EXCEPT !.at = "replaced", !.box = NoBox, !.other = old]
<1>1. /\ IF s = Default THEN default' = box /\ UNCHANGED table
         ELSE table' = Stored(s, box) /\ UNCHANGED default
      /\ given' = IF Closing(t) THEN given ELSE [given EXCEPT ![s] = box]
      /\ Becomes(t, g)
      /\ lock' = lock /\ threadPolicy' = threadPolicy /\ refs' = refs /\ made' = made
      /\ live' = live
    BY <1>s, <1>x, <1>o DEF StorePolicy, payloads
<1>2. /\ g \in Calls /\ g.op = "set" /\ g.slot = s /\ g.at = "replaced" /\ g.box = NoBox
      /\ g.other = old
    BY <1>b, <1>c, <1>s, Assumptions DEF Calls, Moments
<1> HIDE DEF g
<1>f. PICK f \in Calls : f = g
    BY <1>2
<1>n. PICK n \in Nat \ {0} : n = Len(stack[t])
    BY <1>t, <1>b, TopIs
<1>0. /\ n \in Depths(t) /\ Depths(t) = 1..n /\ Top(t) = At(t, n) /\ n \in 1..n
      /\ Changes(t, n, n) /\ At(t, n)' = f
    <2>1. n \in Depths(t) /\ Depths(t) = 1..n /\ Top(t) = At(t, n) /\ n \in 1..n
        BY <1>t, <1>b, <1>n, TopIs DEF Depths
    <2>2. Changes(t, n, n) /\ stack'[t][n] = f
        BY <1>t, <1>b, <1>1, <1>f, <1>n, Becoming
    <2> QED
        BY <2>1, <2>2 DEF At
<1>3. /\ table' \in Seq(Entries) /\ default' \in Boxed /\ OneEntry'
      /\ InSlot(s)' = box
      /\ \A r \in Slots \ {s} : InSlot(r)' = InSlot(r)
    BY <1>t, <1>1, Storing
<1>4. /\ \A i \in 1..n : i >= n => i = n
      /\ \A i \in 1..n : i + 1 >= n => i = n \/ (n > 1 /\ i = n - 1)
      /\ n > 1 => n - 1 + 1 = n /\ n - 1 < n /\ n - 1 \in 1..n
    OBVIOUS
<1>5. /\ IsTop(t, n)' /\ IsTop(t, n) /\ Depths(t)' = 1..n
      /\ \A i \in 1..n : i # n => At(t, i)' = At(t, i) /\ ~IsTop(t, i) /\ ~IsTop(t, i)'
    <2>1. \A i \in 1..n : i # n => i < n
        OBVIOUS
    <2> QED
        BY <1>t, <1>n, <1>0, <2>1, Kept
<1>6. \A i \in 1..n : NestedAt(t, i) /\ GivenAt(t, i) /\ At(t, i) \in Calls
    <2>1. \A i \in Depths(t) : At(t, i) \in Calls
        BY <1>t, <1>0, Kept
    <2> QED
        BY <1>0, <2>1 DEF IInv, Nested, AsGiven
\* The call below the top has the same slot, if the top is a part of it.
<1>7. ASSUME n > 1
      PROVE  /\ n - 1 \in 1..n /\ n - 1 # n /\ n - 1 + 1 = n
             /\ At(t, n - 1)' = At(t, n - 1) /\ ~IsTop(t, n - 1) /\ ~IsTop(t, n - 1)'
    BY <1>4, <1>5, <1>7
<1>8. Nested'
    <2>1. NestedAt(t, n)'
        BY <1>0, <1>2, <1>5, <1>f DEF NestedAt, Setting
    <2>2. ASSUME n > 1 PROVE NestedAt(t, n - 1)'
        <3>1. /\ NestedAt(t, n - 1)
              /\ At(t, n - 1 + 1)'.op = At(t, n - 1 + 1).op
              /\ At(t, n - 1 + 1)'.slot = At(t, n - 1 + 1).slot
              /\ At(t, n - 1 + 1)'.box = NoBox
            BY <1>0, <1>2, <1>6, <1>7, <1>b, <1>f, <1>s, <2>2
        <3> QED
            BY <1>7, <2>2, <3>1 DEF NestedAt, Reading, Setting, Opening, Ending
    <2> QED
        BY <1>t, <1>0, <1>4, <2>1, <2>2, NestedStep DEF IInv
<1>9. OneMutex'
    <2>1. \A i \in 1..n : i >= n => At(t, i)'.at \notin {"enter", "inside"}
        BY <1>0, <1>2, <1>4, <1>f
    <2> QED
        BY <1>t, <1>0, <1>1, <2>1, MutexStep
<1>10. OneInside'
    <2>1. Top(t)' = f
        BY <1>0, NewTop DEF At
    <2>2. ~Inside(t)'
        BY <1>2, <1>f, <2>1 DEF Inside, Locking
    <2> QED
        BY <1>t, <1>0, <2>2, InsideStep DEF Changes
<1>11. OneUser'
    <2>1. \A i \in 1..n : i >= n => \A r \in Repos : Uses(t, i, r)' =>
               Uses(t, i, r) /\ At(t, i)'.op = At(t, i).op
        BY <1>0, <1>2, <1>4, <1>b, <1>f, <1>s DEF Uses
    <2> QED
        BY <1>t, <1>0, <1>1, <2>1, UserStep DEF IInv
\* The table is what was given: by now the policy is, unless it is removed
\* for a close.
<1>12. AsGiven'
    <2>a. AsGiven
        BY DEF IInv
    <2>g. given \in [Slots -> Boxed] /\ Default \in Slots
        BY <1>t DEF TypeOK, Slots
    <2>m. Closing(t) <=> \E i \in 1..n : At(t, i).op = "close"
        <3>1. stack[t] \in Seq(Calls) /\ DOMAIN stack[t] = 1..n
            BY <1>t, <1>n DEF TypeOK
        <3>2. Frames(t) = {At(t, i) : i \in 1..n}
            BY <3>1 DEF Frames, ToSet, At
        <3> QED
            BY <3>2 DEF Closing
    \* What is closed is closed by the call this one is a part of.
    <2>c. ASSUME Closing(t)
          PROVE  /\ n > 1 /\ At(t, n - 1).op = "close" /\ At(t, n - 1).depth = 2
                 /\ At(t, n - 1).slot = s /\ box = NoBox /\ s \in Repos /\ s # Default
        <3>1. PICK i \in 1..n : At(t, i).op = "close"
            BY <2>c, <2>m
        <3>2. i # n /\ NestedAt(t, i) /\ ~IsTop(t, i)
            BY <1>0, <1>5, <1>6, <1>b, <3>1 DEF NestedAt, Ending
        <3>3. At(t, i).depth = 2 /\ At(t, i + 1).op = "set" /\ At(t, i).slot = At(t, i + 1).slot
              /\ At(t, i + 1).box = NoBox /\ At(t, i).slot \in Repos
            BY <3>1, <3>2 DEF NestedAt, Ending
        <3>4. i + 1 \in 1..n
            BY <3>1, <3>2
        <3>5. IsTop(t, i + 1)
            BY <1>6, <3>3, <3>4 DEF NestedAt, Setting
        <3>6. i + 1 = n
            BY <1>5, <3>4, <3>5
        <3>7. n > 1 /\ n - 1 = i
            BY <3>6
        <3> QED
            BY <1>0, <1>s, <1>x, <3>1, <3>2, <3>3, <3>6, <3>7, Assumptions
    \* Nor is there another that closes or opens this slot.
    <2>u. ASSUME s \in Repos, NEW u \in Threads, NEW i \in Depths(u), At(u, i).slot = s,
                 At(u, i).op = "close" => At(u, i).depth # 3
          PROVE  u = t
        <3>1. Uses(t, n, s) /\ Uses(u, i, s)
            BY <1>0, <1>b, <1>s, <2>u DEF Uses
        <3> QED
            BY <1>0, <2>u, <3>1 DEF IInv, OneUser
    <2>l. s \in Repos => s \in live
        <3>1. s \in Repos => Uses(t, n, s)
            BY <1>0, <1>b, <1>s DEF Uses
        <3> QED
            BY <1>0, <3>1 DEF IInv, OneUser
    <2>1. default' = given'[Default]
        <3>1. CASE s = Default
            <4>1. ~Closing(t)
                BY <2>c, <3>1
            <4> QED
                BY <1>1, <2>g, <3>1, <4>1
        <3>2. CASE s # Default
            BY <1>1, <2>a, <2>g, <3>2 DEF AsGiven
        <3> QED
            BY <3>1, <3>2
    <2>2. \A r \in Repos \ live' : InSlot(r)' = NoBox
        BY <1>1, <1>3, <2>a, <2>l DEF AsGiven, Slots
    <2>v. ASSUME NEW u \in Threads, NEW r, Unset(u, r) PROVE Unset(u, r)'
        <3>1. PICK i \in Depths(u) : At(u, i).op = "close" /\ At(u, i).slot = r /\ At(u, i).depth = 2
            BY <2>v DEF Unset
        <3>2. i \in Depths(u)' /\ At(u, i)' = At(u, i)
            <4>1. CASE u = t
                BY <1>0, <1>5, <1>b, <3>1, <4>1
            <4>2. CASE u # t
                BY <1>t, <1>0, <4>2, Kept
            <4> QED
                BY <4>1, <4>2
        <3> QED
            BY <3>1, <3>2 DEF Unset
    <2>3. ASSUME NEW r \in live', \A u \in Threads : ~Unset(u, r)'
          PROVE  InSlot(r)' = given'[r]
        <3>1. \A u \in Threads : ~Unset(u, r)
            BY <2>3, <2>v
        <3>2. r \in live /\ r \in Repos /\ r \in Slots
            BY <1>1, <1>t DEF TypeOK, Slots
        <3>3. CASE r = s
            <4>1. ~Closing(t)
                <5> SUFFICES ASSUME Closing(t) PROVE FALSE
                    OBVIOUS
                <5>1. n - 1 \in Depths(t)
                    BY <1>0, <1>4, <2>c
                <5> QED
                    BY <2>c, <3>1, <3>3, <5>1 DEF Unset
            <4> QED
                BY <1>1, <1>3, <2>g, <3>3, <4>1
        <3>4. CASE r # s
            <4>1. InSlot(r)' = InSlot(r) /\ InSlot(r) = given[r]
                BY <1>3, <2>a, <3>1, <3>2, <3>4 DEF AsGiven
            <4>2. given'[r] = given[r]
                BY <1>1, <2>g, <3>2, <3>4
            <4> QED
                BY <4>1, <4>2
        <3> QED
            BY <3>3, <3>4
    <2>4. ASSUME NEW u \in Threads, NEW i \in Depths(u)' PROVE GivenAt(u, i)'
        <3>0. i \in Depths(u) /\ (IsTop(u, i)' <=> IsTop(u, i))
            <4>1. CASE u = t
                BY <1>0, <1>5, <4>1
            <4>2. CASE u # t
                BY <1>t, <1>0, <4>2, Kept
            <4> QED
                BY <4>1, <4>2
        <3>1. CASE u = t /\ i = n
            BY <1>0, <1>2, <1>f, <3>1 DEF GivenAt
        <3>2. CASE ~(u = t /\ i = n)
            <4>1. At(u, i)' = At(u, i)
                <5>1. CASE u = t
                    BY <1>0, <1>5, <3>0, <3>2, <5>1
                <5>2. CASE u # t
                    BY <1>t, <1>0, <5>2, Kept
                <5> QED
                    BY <5>1, <5>2
            <4>2. GivenAt(u, i) /\ At(u, i) \in Calls
                <5>1. GivenAt(u, i)
                    BY <2>a, <3>0 DEF AsGiven
                <5>2. stack[u] \in Seq(Calls)
                    BY <1>t DEF TypeOK
                <5>3. At(u, i) \in Calls
                    BY <3>0, <5>2, ElementOfSeq DEF At, Depths
                <5> QED
                    BY <5>1, <5>3
            \* An open of the slot is where it goes on after this call.
            <4>3. CASE At(u, i).slot = s /\ At(u, i).op = "open"
                <5>1. s \in Repos
                    <6>1. NestedAt(u, i)
                        BY <3>0 DEF IInv, Nested
                    <6> QED
                        BY <4>3, <6>1 DEF NestedAt, Opening
                <5>2. u = t /\ i # n /\ i \in 1..n
                    BY <1>0, <2>u, <3>0, <3>2, <4>3, <5>1
                <5>3. Uses(t, i, s) /\ Uses(t, n, s)
                    BY <1>0, <1>b, <1>s, <3>0, <4>3, <5>2 DEF Uses
                <5>4. n \in {i, i + 1}
                    BY <1>0, <3>0, <4>3, <5>1, <5>2, <5>3 DEF IInv, OneUser
                <5>5. n = i + 1
                    BY <5>2, <5>4
                <5>6. At(t, i).at = "opened"
                    BY <1>0, <1>5, <1>6, <1>b, <4>3, <5>2, <5>5 DEF NestedAt, Opening
                <5> QED
                    BY <4>1, <4>3, <5>2, <5>6 DEF GivenAt
            \* A close of it is past its start, and its policy is out.
            <4>4. CASE At(u, i).slot = s /\ At(u, i).op = "close" /\ At(u, i).depth # 3
                <5>1. NestedAt(u, i) /\ s \in Repos
                    <6>1. NestedAt(u, i)
                        BY <3>0 DEF IInv, Nested
                    <6> QED
                        BY <4>4, <6>1 DEF NestedAt, Ending
                <5>2. u = t /\ i # n /\ i \in 1..n
                    BY <1>0, <2>u, <3>0, <3>2, <4>4, <5>1
                <5>3. At(t, i).depth = 2
                    BY <1>5, <4>4, <5>1, <5>2 DEF NestedAt, Ending
                <5>4. Closing(t)
                    BY <2>m, <4>4, <5>2
                <5>5. InSlot(s)' = NoBox
                    BY <1>3, <2>c, <5>4
                <5> QED
                    BY <4>1, <4>4, <5>2, <5>3, <5>5 DEF GivenAt
            <4>5. CASE At(u, i).slot = s /\ At(u, i).op = "close" /\ At(u, i).depth = 3
                BY <4>1, <4>5 DEF GivenAt
            <4>6. CASE At(u, i).slot = s /\ At(u, i).op \notin {"open", "close"}
                BY <4>1, <4>6 DEF GivenAt
            <4>7. CASE At(u, i).slot # s
                <5>1. PICK r \in Slots \ {s} : r = At(u, i).slot
                    BY <4>2, <4>7 DEF Calls
                <5>2. InSlot(r)' = InSlot(r) /\ given'[r] = given[r] /\ At(u, i)'.slot = r
                    BY <1>1, <1>3, <2>g, <4>1, <5>1
                <5>3. CASE At(u, i).op = "close" /\ At(u, i).depth = 2 /\ ~IsTop(u, i)
                    <6>1. NestedAt(u, i)
                        BY <3>0 DEF IInv, Nested
                    <6>2. At(u, i + 1).slot = r
                        BY <5>1, <5>3, <6>1 DEF NestedAt, Ending
                    <6>3. At(u, i + 1)' = At(u, i + 1)
                        <7>1. CASE u # t
                            BY <1>t, <1>0, <7>1, Kept
                        <7>2. CASE u = t
                            <8>1. i + 1 \in 1..n
                                BY <1>0, <3>0, <3>2, <7>2
                            <8>2. i + 1 # n
                                BY <1>0, <1>s, <5>1, <6>2, <7>2
                            <8> QED
                                BY <1>5, <7>2, <8>1, <8>2
                        <7> QED
                            BY <7>1, <7>2
                    <6> QED
                        BY <3>0, <4>1, <4>2, <5>1, <5>2, <5>3, <6>3 DEF GivenAt
                <5>4. CASE ~(At(u, i).op = "close" /\ At(u, i).depth = 2 /\ ~IsTop(u, i))
                    BY <3>0, <4>1, <4>2, <5>1, <5>2, <5>4 DEF GivenAt
                <5> QED
                    BY <5>3, <5>4
            <4> QED
                BY <4>3, <4>4, <4>5, <4>6, <4>7
        <3> QED
            BY <3>1, <3>2
    <2> QED
        BY <2>1, <2>2, <2>3, <2>4 DEF AsGiven
<1>13. Stacked'
    <2>1. Lent(t, n)'
        BY <1>0, <1>2, <1>f DEF Lent
    <2>2. /\ \A i \in 1..n : i >= n /\ At(t, i)'.op = "open" => FALSE
          /\ \A i \in Depths(t) : i >= n /\ At(t, i).op = "open" => FALSE
        BY <1>0, <1>2, <1>4, <1>b, <1>f
    <2>3. \A i \in 1..n : i >= n => Lent(t, i)'
        BY <1>4, <2>1
    <2> QED
        BY <1>t, <1>0, <1>1, <2>2, <2>3, StackedStep DEF IInv
\* The slot has the call's reference, and the call has the slot's.
<1>14. Counted'
    <2>1. HeldAt(t, n) = box /\ HeldAt(t, n)' = old
        <3>1. Held(Top(t)) = box /\ Held(f) = old
            BY <1>b, <1>2, <1>f, <1>x DEF Held
        <3> QED
            BY <1>t, <1>0, <3>1, HeldTop
    <2>2. ASSUME NEW u \in Threads \ {t}, NEW i \in Nat PROVE HeldAt(u, i)' = HeldAt(u, i)
        BY <1>t, <1>0, Kept DEF HeldAt
    <2>3. ASSUME NEW i \in Nat \ {n} PROVE HeldAt(t, i)' = HeldAt(t, i)
        <3>1. CASE i \in 1..n
            BY <1>0, <1>5, <3>1 DEF HeldAt
        <3>2. CASE i \notin 1..n
            BY <1>t, <1>0, <3>2, HeldTop
        <3> QED
            BY <3>1, <3>2
    <2> SUFFICES ASSUME NEW b \in Boxes
                 PROVE  /\ IsFiniteSet(Keeping(b))' /\ IsFiniteSet(Holding(b))'
                        /\ refs'[b] = Cardinality(Keeping(b))' + Cardinality(Holding(b))'
                        /\ b > made' => refs'[b] = 0
        BY DEF Counted
    <2>c. Counted
        BY DEF IInv
    <2>4. /\ IsFiniteSet(Holding(b))'
          /\ Cardinality(Holding(b)) \in Nat /\ Cardinality(Holding(b))' \in Nat
          /\ Cardinality(Holding(b))' + (IF box = b THEN 1 ELSE 0) =
               Cardinality(Holding(b)) + (IF old = b THEN 1 ELSE 0)
        BY <2>1, <2>2, <2>3, <2>c, HoldingStep
    <2>5. /\ IsFiniteSet(Keeping(b))'
          /\ Cardinality(Keeping(b)) \in Nat /\ Cardinality(Keeping(b))' \in Nat
          /\ Cardinality(Keeping(b))' + (IF old = b THEN 1 ELSE 0) =
               Cardinality(Keeping(b)) + (IF box = b THEN 1 ELSE 0)
        BY <1>3, <1>o, <2>c, KeepingStep
    <2>6. /\ refs[b] = Cardinality(Keeping(b)) + Cardinality(Holding(b))
          /\ b > made => refs[b] = 0
        BY <2>c DEF Counted
    <2>7. Cardinality(Keeping(b)) + Cardinality(Holding(b)) =
            Cardinality(Keeping(b))' + Cardinality(Holding(b))'
        <3> DEFINE K == Cardinality(Keeping(b))
                   K2 == Cardinality(Keeping(b))'
                   H == Cardinality(Holding(b))
                   H2 == Cardinality(Holding(b))'
        <3> HIDE DEF K, K2, H, H2
        <3>1. /\ K \in Nat /\ K2 \in Nat /\ H \in Nat /\ H2 \in Nat
              /\ H2 + (IF box = b THEN 1 ELSE 0) = H + (IF old = b THEN 1 ELSE 0)
              /\ K2 + (IF old = b THEN 1 ELSE 0) = K + (IF box = b THEN 1 ELSE 0)
            BY <2>4, <2>5 DEF K, K2, H, H2
        <3>2. K + H = K2 + H2
            BY <3>1
        <3> QED
            BY <3>2 DEF K, K2, H, H2
    <2> QED
        BY <1>1, <2>4, <2>5, <2>6, <2>7
<1>15. TypeOK'
    <2>1. given' \in [Slots -> Boxed]
        BY <1>1, <1>t DEF TypeOK
    <2> QED
        BY <1>t, <1>0, <1>1, <1>3, <2>1 DEF TypeOK, Changes, Entries
<1> QED
    BY <1>3, <1>8, <1>9, <1>10, <1>11, <1>12, <1>13, <1>14, <1>15 DEF IInv

\* A repository is opened, at an address no call has.
LEMMA OpenBeginsInv ==
    ASSUME IInv, NEW t \in Threads, NEW r \in Repos, NEW c \in 0..1, OpenBegins(t, r, c)
    PROVE  IInv'
<1> DEFINE box == IF c = 1 THEN made' ELSE NoBox
           f0 == [Frame("open", r, box, "reading") EXCEPT !.other = threadPolicy[t]]
           g0 == Frame("read", r, NoBox, "load")
<1>t. TypeOK /\ OneMutex /\ OneInside
    BY DEF IInv
<1>1. /\ r \notin live /\ Free(t) /\ Makes(c)
      /\ live' = live \cup {r} /\ given' = [given EXCEPT ![r] = NoBox]
      /\ threadPolicy' = IF c = 1 THEN [threadPolicy EXCEPT ![t] = box] ELSE threadPolicy
      /\ Pushed(t, <<f0, g0>>)
      /\ lock' = lock /\ table' = table /\ default' = default
    BY DEF OpenBegins
<1>2. /\ made' \in 0..MaxBoxes /\ made <= made' /\ refs' \in [Boxes -> Nat]
      /\ c = 0 => refs' = refs /\ made' = made
      /\ c = 1 => /\ made' \in Boxes
                  /\ \A b \in Boxes : refs'[b] = refs[b] + (IF made' = b THEN 1 ELSE 0)
      /\ \A b \in Boxes : b > made' => refs'[b] = 0
    BY <1>t, <1>1, Making DEF IInv
<1>x. PICK h \in Boxed : h = box
    BY <1>2, Assumptions
<1>3. /\ f0 \in Calls /\ f0.op = "open" /\ f0.slot = r /\ f0.at = "reading" /\ f0.box = h
      /\ f0.other = threadPolicy[t]
      /\ g0 \in Calls /\ g0.op = "read" /\ g0.slot = r /\ g0.at = "load" /\ g0.box = NoBox
      /\ g0.other = NoBox
    <2>1. box \in Boxed /\ r \in Slots /\ threadPolicy[t] \in Boxed
        BY <1>t, <1>x DEF TypeOK, Slots
    <2> QED
        BY <1>x, <2>1, Assumptions DEF Frame, Calls, Moments
<1> HIDE DEF f0, g0
<1>f. PICK f \in Calls : f = f0
    BY <1>3
<1>g. PICK g \in Calls : g = g0
    BY <1>3
<1>m. PICK m \in Nat : m = Len(stack[t])
    BY <1>t DEF TypeOK
<1>0. /\ Depths(t) = 1..m /\ Changes(t, m + 1, m + 2)
      /\ At(t, m + 1)' = f /\ At(t, m + 2)' = g
      /\ ~Busy(t) => m = 0
      /\ m # 0 => Busy(t) /\ Top(t) = At(t, m)
    <2>1. Depths(t) = 1..m
        BY <1>m DEF Depths
    <2>2. Changes(t, m + 1, m + 2) /\ stack'[t][m + 1] = f /\ stack'[t][m + 2] = g
        BY <1>t, <1>1, <1>f, <1>g, <1>m, PushingTwo
    <2>3. ~Busy(t) => m = 0
        BY <1>m DEF Busy
    <2>4. m # 0 => Busy(t) /\ Top(t) = At(t, m)
        <3>1. m # 0 => Busy(t)
            BY <1>m DEF Busy
        <3> QED
            BY <1>t, <1>m, <3>1, TopIs
    <2> QED
        BY <2>1, <2>2, <2>3, <2>4 DEF At
<1>4. /\ \A i \in 1..m + 2 : i >= m + 1 => i = m + 1 \/ i = m + 2
      /\ \A i \in 1..m + 2 : i + 1 >= m + 1 => i = m + 2 \/ i = m + 1 \/ (m # 0 /\ i = m)
      /\ \A i \in 1..m : i \in 1..m + 2 /\ i < m + 1 /\ i # m + 2
      /\ \A i \in 1..m + 2 : i \in 1..m \/ i = m + 1 \/ i = m + 2
      /\ m # 0 => m \in 1..m
      /\ m + 1 \in 1..m + 2 /\ m + 2 \in 1..m + 2 /\ m + 1 # m + 2 /\ m + 1 + 1 = m + 2
      /\ m + 1 \notin 1..m /\ m + 2 \notin 1..m
    OBVIOUS
<1>5. /\ Depths(t)' = 1..m + 2
      /\ IsTop(t, m + 2)' /\ ~IsTop(t, m + 1)'
      /\ \A i \in 1..m : At(t, i)' = At(t, i) /\ ~IsTop(t, i)' /\ At(t, i) \in Calls
    BY <1>t, <1>0, <1>4, Kept
<1>6. ASSUME m # 0
      PROVE  NestedAt(t, m) /\ At(t, m).op = "read" /\ At(t, m).at = "asking" /\ At(t, m).box # NoBox
    <2>1. NestedAt(t, m)
        BY <1>0, <1>4, <1>6 DEF IInv, Nested
    <2>2. Busy(t) /\ Top(t).op = "read" /\ Top(t).at = "asking" /\ Top(t).box # NoBox
        BY <1>0, <1>1, <1>6, FreeIs
    <2> QED
        BY <1>0, <1>6, <2>1, <2>2
\* Whoever names the address has let it go.
<1>7. ASSUME NEW u \in Threads, NEW i \in Depths(u), At(u, i).slot = r
      PROVE  At(u, i).op = "close" /\ At(u, i).depth = 3
    <2>1. ~Uses(u, i, r)
        BY <1>1 DEF IInv, OneUser
    <2> QED
        BY <1>7, <2>1 DEF Uses
<1>8. Nested'
    <2>1. NestedAt(t, m + 2)'
        BY <1>0, <1>3, <1>5, <1>g DEF NestedAt, Reading, Locked
    <2>2. NestedAt(t, m + 1)'
        BY <1>0, <1>3, <1>4, <1>5, <1>f, <1>g DEF NestedAt, Opening
    <2>3. ASSUME m # 0 PROVE NestedAt(t, m)'
        BY <1>4, <1>5, <1>6, <2>3 DEF NestedAt, Reading
    <2> QED
        BY <1>t, <1>0, <1>4, <2>1, <2>2, <2>3, NestedStep DEF IInv
<1>9. OneMutex'
    <2>1. \A i \in 1..m + 2 : i >= m + 1 => At(t, i)'.at \notin {"enter", "inside"}
        BY <1>0, <1>3, <1>4, <1>f, <1>g
    <2> QED
        BY <1>t, <1>0, <1>1, <2>1, MutexStep
<1>10. OneInside'
    <2>1. Top(t)' = g
        BY <1>0, NewTop DEF At
    <2>2. ~Inside(t)'
        BY <1>3, <1>g, <2>1 DEF Inside, Locking
    <2> QED
        BY <1>t, <1>0, <2>2, InsideStep DEF Changes
<1>11. OneUser'
    <2>1. ASSUME NEW i \in 1..m + 2, i > Len(stack[t])
          PROVE  At(t, i)'.slot = r /\ (At(t, i)'.op \in {"open", "close"} => i = Len(stack[t]) + 1)
        <3>1. i = m + 1 \/ i = m + 2
            BY <1>4, <1>m, <2>1
        <3> QED
            BY <1>0, <1>3, <1>f, <1>g, <1>m, <3>1
    <2>2. \A u \in Threads : \A i \in Depths(u) : ~Uses(u, i, r)
        BY <1>7 DEF Uses
    <2>3. /\ m + 2 \in Nat /\ m + 2 <= Len(stack[t]) + 2
          /\ Changes(t, Len(stack[t]) + 1, m + 2)
          /\ r \in Slots /\ live \subseteq live' /\ r \in live'
        BY <1>0, <1>1, <1>m DEF Slots
    <2> QED
        BY <1>t, <2>1, <2>2, <2>3, NewUserStep DEF IInv
<1>12. OneEntry'
    BY <1>1 DEF IInv, OneEntry
<1>13. AsGiven'
    <2>a. AsGiven /\ given \in [Slots -> Boxed] /\ r \in Slots /\ r # Default /\ Default \in Slots
        BY <1>t, Assumptions DEF IInv, TypeOK, Slots
    <2>s. \A q : InSlot(q)' = InSlot(q)
        BY <1>1, SlotsKept
    <2>g. given'[r] = NoBox /\ \A q \in Slots \ {r} : given'[q] = given[q]
        BY <1>1, <2>a
    <2>1. default' = given'[Default]
        BY <1>1, <2>a, <2>g DEF AsGiven
    <2>2. \A q \in Repos \ live' : InSlot(q)' = NoBox
        BY <1>1, <2>a, <2>s DEF AsGiven
    <2>3. ASSUME NEW q \in live', \A u \in Threads : ~Unset(u, q)'
          PROVE  InSlot(q)' = given'[q]
        <3>1. CASE q = r
            BY <1>1, <2>a, <2>g, <2>s, <3>1 DEF AsGiven
        <3>2. CASE q # r
            <4>1. q \in live /\ q \in Slots
                BY <1>1, <1>t, <3>2 DEF TypeOK, Slots
            <4>2. ASSUME NEW u \in Threads, Unset(u, q) PROVE Unset(u, q)'
                <5>1. PICK i \in Depths(u) : At(u, i).op = "close" /\ At(u, i).slot = q /\ At(u, i).depth = 2
                    BY <4>2 DEF Unset
                <5>2. i \in Depths(u)' /\ At(u, i)' = At(u, i)
                    <6>1. CASE u = t
                        BY <1>0, <1>4, <1>5, <6>1
                    <6>2. CASE u # t
                        BY <1>t, <1>0, <6>2, Kept
                    <6> QED
                        BY <6>1, <6>2
                <5> QED
                    BY <5>1, <5>2 DEF Unset
            <4> QED
                BY <2>3, <2>a, <2>g, <2>s, <3>2, <4>1, <4>2 DEF AsGiven
        <3> QED
            BY <3>1, <3>2
    <2>4. ASSUME NEW u \in Threads, NEW i \in Depths(u)' PROVE GivenAt(u, i)'
        <3>1. CASE u = t /\ i = m + 1
            BY <1>0, <1>3, <1>f, <2>g, <3>1 DEF GivenAt
        <3>2. CASE u = t /\ i = m + 2
            BY <1>0, <1>3, <1>g, <3>2 DEF GivenAt
        <3>3. CASE ~(u = t /\ i \in {m + 1, m + 2})
            <4>1. i \in Depths(u) /\ At(u, i)' = At(u, i)
                <5>1. CASE u = t
                    BY <1>0, <1>4, <1>5, <3>3, <5>1
                <5>2. CASE u # t
                    BY <1>t, <1>0, <5>2, Kept
                <5> QED
                    BY <5>1, <5>2
            <4>2. GivenAt(u, i) /\ At(u, i) \in Calls /\ NestedAt(u, i)
                <5>1. GivenAt(u, i) /\ NestedAt(u, i)
                    BY <2>a, <4>1 DEF AsGiven, IInv, Nested
                <5>2. stack[u] \in Seq(Calls)
                    BY <1>t DEF TypeOK
                <5>3. At(u, i) \in Calls
                    BY <4>1, <5>2, ElementOfSeq DEF At, Depths
                <5> QED
                    BY <5>1, <5>3
            <4>3. CASE At(u, i).slot = r
                <5>1. At(u, i).op = "close" /\ At(u, i).depth = 3
                    BY <1>7, <4>1, <4>3
                <5> QED
                    BY <4>1, <5>1 DEF GivenAt
            <4>4. CASE At(u, i).slot # r
                <5>1. PICK q \in Slots \ {r} : q = At(u, i).slot
                    BY <4>2, <4>4 DEF Calls
                <5>2. InSlot(q)' = InSlot(q) /\ given'[q] = given[q] /\ At(u, i)'.slot = q
                    BY <2>g, <2>s, <4>1, <5>1
                \* A close that is not on top goes on with the call above it.
                <5>3. CASE At(u, i).op = "close" /\ At(u, i).depth = 2 /\ ~IsTop(u, i)
                    <6>1. At(u, i + 1)' = At(u, i + 1) /\ ~IsTop(u, i)'
                        <7>1. CASE u # t
                            <8>1. (IsTop(u, i)' <=> IsTop(u, i)) /\ \A j : At(u, j)' = At(u, j)
                                BY <1>t, <1>0, <7>1, Kept
                            <8>2. At(u, i + 1)' = At(u, i + 1)
                                BY <8>1
                            <8> QED
                                BY <5>3, <8>1, <8>2
                        <7>2. CASE u = t
                            <8>1. i \in 1..m /\ i # m
                                BY <1>0, <1>m, <4>1, <5>3, <7>2 DEF IsTop
                            <8>2. i + 1 \in 1..m
                                BY <8>1
                            <8> QED
                                BY <1>5, <7>2, <8>2
                        <7> QED
                            BY <7>1, <7>2
                    <6> QED
                        BY <4>1, <4>2, <5>1, <5>2, <5>3, <6>1 DEF GivenAt, NestedAt, Ending
                <5>4. CASE ~(At(u, i).op = "close" /\ At(u, i).depth = 2 /\ ~IsTop(u, i))
                    BY <4>1, <4>2, <5>1, <5>2, <5>4 DEF GivenAt
                <5> QED
                    BY <5>3, <5>4
            <4> QED
                BY <4>3, <4>4
        <3> QED
            BY <3>1, <3>2, <3>3
    <2> QED
        BY <2>1, <2>2, <2>3, <2>4 DEF AsGiven
<1>14. Stacked'
    <2>s. threadPolicy \in [Threads -> Boxed]
        BY <1>t DEF TypeOK
    <2>1. ASSUME NEW u \in Threads \ {t}
          PROVE  Restores(u)' /\ \A i \in Depths(u)' : Lent(u, i)'
        <3>1. Depths(u)' = Depths(u) /\ \A i : At(u, i)' = At(u, i)
            BY <1>t, <1>0, Kept
        <3>2. Opens(u)' = Opens(u) /\ threadPolicy'[u] = threadPolicy[u]
            BY <1>1, <2>s, <3>1 DEF Opens
        <3>3. Restores(u) /\ \A i \in Depths(u) : Lent(u, i)
            BY DEF IInv, Stacked
        <3> QED
            BY <3>1, <3>2, <3>3 DEF Restores, Lent
    \* The new open is the innermost one.
    <2>2. /\ Opens(t) \subseteq 1..m
          /\ \A i \in Opens(t) : At(t, i)' = At(t, i) /\ i < m + 1
          /\ Opens(t)' = IF h = NoBox THEN Opens(t) ELSE Opens(t) \cup {m + 1}
        <3>1. \A i \in 1..m : At(t, i)' = At(t, i) /\ i < m + 1
            BY <1>4, <1>5
        <3>2. Opens(t) = {i \in 1..m : At(t, i).op = "open" /\ At(t, i).box # NoBox}
            BY <1>0 DEF Opens
        <3>3. Opens(t)' = {i \in 1..m + 2 : At(t, i)'.op = "open" /\ At(t, i)'.box # NoBox}
            BY <1>5 DEF Opens
        <3>4. At(t, m + 2)'.op # "open" /\ At(t, m + 1)'.op = "open" /\ At(t, m + 1)'.box = h
            BY <1>0, <1>3, <1>f, <1>g
        <3> QED
            BY <1>4, <3>1, <3>2, <3>3, <3>4
    <2>3. Restores(t)
        BY DEF IInv, Stacked
    <2>4. CASE h = NoBox
        <3>1. c = 0
            BY <1>2, <1>x, <2>4, Assumptions
        <3>2. threadPolicy' = threadPolicy /\ Opens(t)' = Opens(t)
            BY <1>1, <2>2, <2>4, <3>1
        <3>3. Restores(t)'
            BY <2>2, <2>3, <3>2 DEF Restores
        <3>4. ASSUME NEW i \in 1..m PROVE Lent(t, i)'
            <4>1. Lent(t, i)
                BY <1>0 DEF IInv, Stacked
            <4> QED
                BY <1>5, <2>2, <3>2, <4>1 DEF Lent
        <3>5. Lent(t, m + 1)' /\ Lent(t, m + 2)'
            BY <1>0, <1>3, <1>f, <1>g DEF Lent
        <3> QED
            BY <1>4, <1>5, <2>1, <3>3, <3>4, <3>5 DEF Stacked
    <2>5. CASE h # NoBox
        <3>1. c = 1
            BY <1>x, <2>5
        <3>2. /\ threadPolicy'[t] = h /\ Opens(t)' = Opens(t) \cup {m + 1}
              /\ At(t, m + 1)'.box = h /\ At(t, m + 1)'.other = threadPolicy[t]
            BY <1>0, <1>1, <1>3, <1>f, <1>x, <2>2, <2>5, <2>s, <3>1
        <3>3. ASSUME NEW i \in Opens(t)'
              PROVE  /\ (\A j \in Opens(t)' : j <= i) => threadPolicy'[t] = At(t, i)'.box
                     /\ (\A j \in Opens(t)' : j >= i) => At(t, i)'.other = NoBox
            <4>1. CASE i = m + 1
                <5>1. (\A j \in Opens(t)' : j >= i) => Opens(t) = {}
                    <6>1. \A j \in Opens(t) : ~(j >= m + 1)
                        BY <2>2
                    <6> QED
                        BY <3>2, <4>1, <6>1
                <5> QED
                    BY <2>3, <3>2, <4>1, <5>1 DEF Restores
            <4>2. CASE i # m + 1
                <5>1. i \in Opens(t) /\ At(t, i)' = At(t, i) /\ ~(m + 1 <= i)
                    BY <2>2, <3>2, <4>2
                <5>2. (\A j \in Opens(t)' : j >= i) => \A j \in Opens(t) : j >= i
                    BY <3>2
                <5> QED
                    BY <2>3, <3>2, <5>1, <5>2 DEF Restores
            <4> QED
                BY <4>1, <4>2
        <3>4. ASSUME NEW i \in Opens(t)', NEW j \in Opens(t)', i < j,
                     \A k \in Opens(t)' : k <= i \/ k >= j
              PROVE  At(t, j)'.other = At(t, i)'.box
            <4>1. i \in Opens(t) /\ At(t, i)' = At(t, i)
                <5>1. i # m + 1
                    <6>1. \A k \in Opens(t)' : ~(m + 1 < k)
                        BY <2>2, <3>2
                    <6> QED
                        BY <3>4, <6>1
                <5> QED
                    BY <2>2, <3>2, <5>1
            <4>2. CASE j = m + 1
                <5>1. \A k \in Opens(t) : k <= i
                    <6>1. \A k \in Opens(t) : ~(k >= m + 1) /\ k \in Opens(t)'
                        BY <2>2, <3>2
                    <6> QED
                        BY <3>4, <4>2, <6>1
                <5> QED
                    BY <2>3, <3>2, <4>1, <4>2, <5>1 DEF Restores
            <4>3. CASE j # m + 1
                <5>1. j \in Opens(t) /\ At(t, j)' = At(t, j)
                    BY <2>2, <3>2, <4>3
                <5>2. \A k \in Opens(t) : k <= i \/ k >= j
                    BY <3>2, <3>4
                <5> QED
                    BY <2>3, <3>4, <4>1, <5>1, <5>2 DEF Restores
            <4> QED
                BY <4>2, <4>3
        <3>5. Restores(t)'
            <4>1. Opens(t)' # {}
                BY <3>2
            <4> QED
                BY <3>3, <3>4, <4>1 DEF Restores
        <3>6. ASSUME NEW i \in 1..m PROVE Lent(t, i)'
            <4>1. Lent(t, i)
                BY <1>0 DEF IInv, Stacked
            <4> QED
                BY <1>5, <2>2, <3>2, <4>1 DEF Lent
        <3>7. Lent(t, m + 1)' /\ Lent(t, m + 2)'
            BY <1>0, <1>3, <1>f, <1>g DEF Lent
        <3> QED
            BY <1>4, <1>5, <2>1, <3>5, <3>6, <3>7 DEF Stacked
    <2> QED
        BY <2>4, <2>5
<1>15. Counted' /\ \A b \in Boxes : refs'[b] \in Nat
    <2>1. /\ HeldAt(t, m + 1) = NoBox /\ HeldAt(t, m + 1)' = h
          /\ HeldAt(t, m + 2) = NoBox /\ HeldAt(t, m + 2)' = NoBox
        <3>1. Held(f) = h /\ Held(g) = NoBox
            BY <1>3, <1>f, <1>g DEF Held
        <3> QED
            BY <1>t, <1>0, <1>4, <3>1, HeldTop
    <2>2. ASSUME NEW i \in Nat, i >= m + 1, i # m + 1 PROVE HeldAt(t, i)' = HeldAt(t, i)
        <3>1. i = m + 2 \/ (i \notin 1..m + 2 /\ i \notin 1..m)
            BY <2>2
        <3> QED
            BY <1>t, <1>0, <2>1, <3>1, HeldTop
    <2>3. ASSUME NEW b \in Boxes
          PROVE  /\ refs'[b] \in Int
                 /\ refs'[b] + (IF HeldAt(t, m + 1) = b THEN 1 ELSE 0) =
                      refs[b] + (IF HeldAt(t, m + 1)' = b THEN 1 ELSE 0)
                 /\ b > made' => refs'[b] = 0
        <3>1. refs'[b] \in Nat /\ refs[b] \in Nat
            BY <1>t, <1>2 DEF TypeOK
        <3>2. HeldAt(t, m + 1) # b
            BY <2>1, Assumptions
        <3>3. refs'[b] = refs[b] + (IF h = b THEN 1 ELSE 0)
            <4>1. CASE c = 0
                BY <1>2, <1>x, <3>1, <4>1, Assumptions
            <4>2. CASE c = 1
                BY <1>2, <1>x, <4>2
            <4> QED
                BY <4>1, <4>2
        <3> QED
            BY <1>2, <2>1, <3>1, <3>2, <3>3
    <2> QED
        BY <1>t, <1>0, <1>1, <2>2, <2>3, CountedStep DEF IInv
<1>16. TypeOK'
    <2>1. threadPolicy' \in [Threads -> Boxed]
        BY <1>t, <1>1, <1>x DEF TypeOK
    <2>2. given' \in [Slots -> Boxed] /\ live' \subseteq Repos
        BY <1>t, <1>1, Assumptions DEF TypeOK
    <2> QED
        BY <1>t, <1>0, <1>1, <1>2, <2>1, <2>2 DEF TypeOK, Changes
<1> QED
    BY <1>8, <1>9, <1>10, <1>11, <1>12, <1>13, <1>14, <1>15, <1>16 DEF IInv

\* An open ends, on an empty stack or inside the callback it was made from.
LEMMA OpenEndsInv ==
    ASSUME IInv, NEW t \in Threads, OpenEnds(t)
    PROVE  IInv'
<1>t. TypeOK /\ OneMutex /\ OneInside /\ AsGiven
    BY DEF IInv
<1>b. /\ Busy(t) /\ Top(t).op = "open" /\ Top(t).at \in {"stored", "refused", "opened"}
      /\ Top(t).at = "opened" => Top(t).box = NoBox
    BY DEF OpenEnds, In
<1>m. PICK n \in Nat \ {0} : n = Len(stack[t])
    BY <1>t, <1>b, TopIs
<1>c. /\ n \in Depths(t) /\ Depths(t) = 1..n /\ Top(t) = At(t, n) /\ Top(t) \in Calls
      /\ IsTop(t, n) /\ NestedAt(t, n) /\ GivenAt(t, n)
    BY <1>t, <1>b, <1>m, TopIs DEF Depths, IsTop, IInv, Nested, AsGiven
<1>h. PICK h \in Boxed : h = Top(t).box
    BY <1>c DEF Calls
<1>s. PICK s \in Repos : s = Top(t).slot
    BY <1>b, <1>c DEF NestedAt, Opening
<1>p. PICK p \in Boxed : p = Top(t).other
    BY <1>c DEF Calls
<1>1. /\ IF h = NoBox THEN UNCHANGED <<threadPolicy, refs>>
         ELSE threadPolicy' = [threadPolicy EXCEPT ![t] = p] /\ Released(h)
      /\ live' = IF Top(t).at = "refused" THEN live \ {s} ELSE live
      /\ Returns(t, "none")
      /\ UNCHANGED policies /\ table' = table /\ default' = default /\ given' = given
      /\ made' = made /\ lock' = lock
    BY <1>h, <1>s, <1>p DEF OpenEnds, policies
\* An open is only ever inside a callback.
<1>2. n > 1 => /\ n - 1 \in 1..n /\ n - 1 # n /\ n - 1 + 1 = n /\ n - 1 \in 1..n - 1 /\ n - 1 < n
               /\ At(t, n - 1).op = "read" /\ NestedAt(t, n - 1)
    <2> SUFFICES ASSUME n > 1
                 PROVE  /\ n - 1 \in 1..n /\ n - 1 # n /\ n - 1 + 1 = n /\ n - 1 \in 1..n - 1 /\ n - 1 < n
                        /\ At(t, n - 1).op = "read" /\ NestedAt(t, n - 1)
        OBVIOUS
    <2>1. n - 1 \in 1..n /\ n - 1 # n /\ n - 1 + 1 = n /\ n - 1 \in 1..n - 1 /\ n - 1 < n
        OBVIOUS
    <2>2. At(t, n - 1) \in Calls /\ ~IsTop(t, n - 1)
        <3>1. stack[t] \in Seq(Calls)
            BY <1>t DEF TypeOK
        <3>2. At(t, n - 1) \in Calls
            BY <1>c, <2>1, <3>1, ElementOfSeq DEF At, Depths
        <3> QED
            BY <1>m, <2>1, <3>2 DEF IsTop
    <2>3. NestedAt(t, n - 1)
        BY <1>c, <2>1 DEF IInv, Nested
    <2>4. At(t, n - 1).op = "read"
        BY <1>b, <1>c, <2>1, <2>2, <2>3 DEF NestedAt, Setting, Opening, Ending, Calls
    <2> QED
        BY <2>1, <2>3, <2>4
<1>3. Changes(t, n, n - 1) /\ Len(stack'[t]) = n - 1 /\ n - 1 \in Nat
    <2>1. stack' = [stack EXCEPT ![t] = Front(stack[t])]
        <3>1. stack[t] \in Seq(Calls) /\ stack[t] # << >>
            BY <1>t, <1>b DEF TypeOK, Busy
        <3>2. /\ Len(Front(stack[t])) = n - 1 /\ (Front(stack[t]) = << >> <=> n = 1)
              /\ \A i \in 1..n - 1 : Front(stack[t])[i] = stack[t][i]
            BY <1>m, <3>1, FrontIs
        <3>3. Front(stack[t]) = << >> \/ Last(Front(stack[t])).op = "read"
            <4>1. n = 1 \/ n > 1
                OBVIOUS
            <4> QED
                BY <1>2, <3>2, <4>1 DEF Last, At
        <3> QED
            BY <1>1, <3>3 DEF Returns
    <2>2. Changes(t, n, n - 1)
        BY <1>t, <1>b, <1>m, <2>1, Popping
    <2> QED
        BY <2>2 DEF Changes
<1>4. /\ Depths(t)' = 1..n - 1
      /\ \A i \in 1..n - 1 : At(t, i)' = At(t, i) /\ i \in Depths(t) /\ i # n /\ i < n
      /\ \A i \in 1..n : i \in 1..n - 1 \/ i = n
      /\ \A i \in 1..n - 1 : i >= n => FALSE
      /\ \A i \in 1..n - 1 : i + 1 >= n => i = n - 1 /\ n > 1
    <2>1. \A i \in 1..n - 1 : i < n /\ i # n
        OBVIOUS
    <2>2. Depths(t)' = 1..n - 1 /\ \A i \in 1..n - 1 : At(t, i)' = At(t, i) /\ i \in Depths(t)
        BY <1>t, <1>3, <2>1, Kept
    <2> QED
        BY <2>1, <2>2
\* The open alone has the repository.
<1>5. ASSUME NEW u \in Threads, NEW i \in Depths(u), Uses(u, i, s) PROVE u = t /\ i = n
    <2>1. Uses(t, n, s)
        BY <1>b, <1>c, <1>s DEF Uses
    <2>2. u = t /\ i \in {n, n + 1}
        BY <1>5, <1>b, <1>c, <2>1 DEF IInv, OneUser
    <2>3. i # n + 1
        BY <1>c, <2>2
    <2> QED
        BY <2>2, <2>3
<1>6. Nested'
    <2>1. ASSUME n > 1 PROVE NestedAt(t, n - 1)'
        <3>1. ~IsTop(t, n - 1)
            BY <1>2, <1>m, <2>1 DEF IsTop
        <3> QED
            BY <1>2, <1>4, <2>1, <3>1 DEF NestedAt, Reading
    <2> QED
        BY <1>t, <1>3, <1>4, <2>1, NestedStep DEF IInv
<1>7. OneMutex'
    BY <1>t, <1>1, <1>3, <1>4, MutexStep
<1>8. OneInside'
    <2>1. ~Inside(t)'
        <3> SUFFICES ASSUME Inside(t)' PROVE FALSE
            OBVIOUS
        <3>1. Busy(t)' /\ Top(t)'.at = "inside"
            BY DEF Inside, Locking
        <3>2. n > 1 /\ Top(t)' = At(t, n - 1)'
            <4>1. stack'[t] \in Seq(Calls) /\ stack'[t] # << >>
                BY <1>3, <3>1 DEF Changes, Busy
            <4>2. n - 1 # 0
                BY <1>3, <4>1, EmptySeq
            <4>3. Top(t)' = stack'[t][n - 1]
                BY <1>3, NewTop
            <4> QED
                BY <4>2, <4>3 DEF At
        <3>3. n - 1 \in Depths(t) /\ ~IsTop(t, n - 1)
            BY <1>2, <1>c, <1>m, <3>2 DEF IsTop
        <3> QED
            BY <1>2, <1>4, <3>1, <3>2, <3>3 DEF NestedAt, Reading
    <2> QED
        BY <1>t, <1>3, <2>1, InsideStep DEF Changes
<1>9. OneUser'
    <2>1. ASSUME NEW r \in live \ live', NEW u \in Threads, NEW i \in Depths(u)', Uses(u, i, r)'
          PROVE  FALSE
        <3>1. r = s
            BY <1>1
        <3>2. i \in Depths(u) /\ At(u, i)' = At(u, i) /\ ~(u = t /\ i = n)
            <4>1. CASE u = t
                BY <1>4, <4>1
            <4>2. CASE u # t
                BY <1>t, <1>3, <4>2, Kept
            <4> QED
                BY <4>1, <4>2
        <3>3. Uses(u, i, s)
            BY <2>1, <3>1, <3>2 DEF Uses
        <3> QED
            BY <1>5, <3>2, <3>3
    <2> QED
        BY <1>t, <1>3, <1>4, <2>1, UserStep DEF IInv
<1>10. OneEntry'
    BY <1>1 DEF IInv, OneEntry
<1>11. AsGiven'
    <2>1. live' \subseteq live
        BY <1>1
    <2>2. ASSUME NEW r \in live \ live' PROVE InSlot(r) = NoBox
        <3>1. r = s /\ Top(t).at = "refused" /\ s \in live
            BY <1>1, <2>2
        <3>2. given[s] = NoBox
            BY <1>b, <1>c, <1>s, <3>1 DEF GivenAt
        <3>3. \A u \in Threads : ~Unset(u, s)
            <4> SUFFICES ASSUME NEW u \in Threads, NEW i \in Depths(u), At(u, i).op = "close",
                                At(u, i).slot = s, At(u, i).depth = 2
                         PROVE  FALSE
                BY DEF Unset
            <4>1. Uses(u, i, s)
                BY DEF Uses
            <4> QED
                BY <1>5, <1>b, <1>c, <4>1
        <3> QED
            BY <1>t, <3>1, <3>2, <3>3 DEF AsGiven
    <2>3. ASSUME NEW r \in live', Unset(t, r) PROVE Unset(t, r)'
        <3>1. PICK i \in Depths(t) : At(t, i).op = "close" /\ At(t, i).slot = r /\ At(t, i).depth = 2
            BY <2>3 DEF Unset
        <3>2. i \in 1..n - 1
            BY <1>4, <1>b, <1>c, <3>1
        <3> QED
            BY <1>4, <3>1, <3>2 DEF Unset
    <2>4. \A i \in 1..n - 1 : i + 1 >= n => GivenAt(t, i)'
        BY <1>2, <1>4 DEF GivenAt
    <2> QED
        BY <1>t, <1>1, <1>3, <2>1, <2>2, <2>3, <2>4, GivenStep
\* The policy of the innermost open that is left is the one this one kept.
<1>12. Stacked'
    <2>s. threadPolicy \in [Threads -> Boxed]
        BY <1>t DEF TypeOK
    <2>1. ASSUME NEW u \in Threads \ {t}
          PROVE  Restores(u)' /\ \A i \in Depths(u)' : Lent(u, i)'
        <3>1. Depths(u)' = Depths(u) /\ \A i : At(u, i)' = At(u, i)
            BY <1>t, <1>3, Kept
        <3>2. Opens(u)' = Opens(u) /\ threadPolicy'[u] = threadPolicy[u]
            BY <1>1, <2>s, <3>1 DEF Opens
        <3>3. Restores(u) /\ \A i \in Depths(u) : Lent(u, i)
            BY DEF IInv, Stacked
        <3> QED
            BY <3>1, <3>2, <3>3 DEF Restores, Lent
    <2>2. /\ Opens(t) \subseteq 1..n
          /\ Opens(t)' = Opens(t) \ {n}
          /\ \A i \in Opens(t) \ {n} : At(t, i)' = At(t, i) /\ i \in 1..n - 1 /\ i < n
          /\ n \in Opens(t) <=> h # NoBox
        <3>1. Opens(t) = {i \in 1..n : At(t, i).op = "open" /\ At(t, i).box # NoBox}
            BY <1>c DEF Opens
        <3>2. Opens(t)' = {i \in 1..n - 1 : At(t, i)'.op = "open" /\ At(t, i)'.box # NoBox}
            BY <1>4 DEF Opens
        <3>3. n \in 1..n /\ n \notin 1..n - 1
            OBVIOUS
        <3>4. n \in Opens(t) <=> h # NoBox
            BY <1>b, <1>c, <1>h, <3>1, <3>3
        <3>5. \A i \in Opens(t) \ {n} : i \in 1..n - 1
            BY <1>4, <3>1
        <3>6. Opens(t)' = Opens(t) \ {n}
            BY <1>4, <3>1, <3>2, <3>3, <3>5
        <3> QED
            BY <1>4, <3>1, <3>4, <3>5, <3>6
    <2>3. Restores(t) /\ \A i \in Depths(t) : Lent(t, i)
        BY DEF IInv, Stacked
    <2>4. ASSUME NEW i \in Depths(t)' PROVE Lent(t, i)'
        <3>1. i \in 1..n - 1 /\ At(t, i)' = At(t, i) /\ Lent(t, i)
            BY <1>4, <2>3
        <3>2. ASSUME NEW j \in Opens(t), j < i PROVE j \in Opens(t)' /\ At(t, j)' = At(t, j)
            <4>1. j # n
                BY <3>1, <3>2
            <4> QED
                BY <2>2, <4>1
        <3> QED
            BY <3>1, <3>2 DEF Lent
    <2>5. CASE h = NoBox
        <3>1. threadPolicy' = threadPolicy /\ Opens(t)' = Opens(t)
            BY <1>1, <2>2, <2>5
        <3>2. \A i \in Opens(t) : At(t, i)' = At(t, i)
            BY <2>2, <2>5
        <3>3. Restores(t)'
            BY <2>3, <3>1, <3>2 DEF Restores
        <3> QED
            BY <2>1, <2>4, <3>3 DEF Stacked
    <2>6. CASE h # NoBox
        <3>1. threadPolicy'[t] = p /\ n \in Opens(t) /\ At(t, n).other = p
            BY <1>1, <1>c, <1>p, <2>2, <2>6, <2>s
        <3>2. Opens(t)' = {} => threadPolicy'[t] = NoBox
            <4>1. \A j \in Opens(t) : j >= n <=> j = n
                BY <2>2
            <4> QED
                BY <2>2, <2>3, <3>1, <4>1 DEF Restores
        <3>3. ASSUME NEW i \in Opens(t)'
              PROVE  /\ (\A j \in Opens(t)' : j <= i) => threadPolicy'[t] = At(t, i)'.box
                     /\ (\A j \in Opens(t)' : j >= i) => At(t, i)'.other = NoBox
            <4>1. i \in Opens(t) /\ i < n /\ At(t, i)' = At(t, i) /\ i \in Nat
                BY <2>2
            <4>2. ASSUME \A j \in Opens(t)' : j <= i PROVE p = At(t, i).box
                <5>1. \A k \in Opens(t) : k <= i \/ k >= n
                    <6> SUFFICES ASSUME NEW k \in Opens(t), ~(k >= n) PROVE k <= i
                        OBVIOUS
                    <6>1. k # n
                        OBVIOUS
                    <6> QED
                        BY <2>2, <4>2, <6>1
                <5> QED
                    BY <2>3, <3>1, <4>1, <5>1 DEF Restores
            <4>3. ASSUME \A j \in Opens(t)' : j >= i PROVE At(t, i).other = NoBox
                <5>1. \A j \in Opens(t) : j >= i
                    BY <2>2, <4>1, <4>3
                <5> QED
                    BY <2>3, <4>1, <5>1 DEF Restores
            <4> QED
                BY <3>1, <4>1, <4>2, <4>3
        <3>4. ASSUME NEW i \in Opens(t)', NEW j \in Opens(t)', i < j,
                     \A k \in Opens(t)' : k <= i \/ k >= j
              PROVE  At(t, j)'.other = At(t, i)'.box
            <4>1. /\ i \in Opens(t) /\ At(t, i)' = At(t, i)
                  /\ j \in Opens(t) /\ At(t, j)' = At(t, j) /\ j < n
                BY <2>2
            <4>2. \A k \in Opens(t) : k <= i \/ k >= j
                BY <2>2, <3>4, <4>1
            <4> QED
                BY <2>3, <3>4, <4>1, <4>2 DEF Restores
        <3>5. Restores(t)'
            BY <3>2, <3>3, <3>4 DEF Restores
        <3> QED
            BY <2>1, <2>4, <3>5 DEF Stacked
    <2> QED
        BY <2>5, <2>6
<1>13. /\ refs' \in [Boxes -> Int]
       /\ \A b \in Boxes : refs'[b] + (IF h = b THEN 1 ELSE 0) = refs[b]
    BY <1>t, <1>1, Releasing
<1>14. Counted' /\ \A b \in Boxes : refs'[b] \in Nat
    <2>1. HeldAt(t, n) = h /\ HeldAt(t, n)' = NoBox
        <3>1. Held(Top(t)) = h
            BY <1>b, <1>h DEF Held
        <3>2. n \notin 1..n - 1
            OBVIOUS
        <3> QED
            BY <1>t, <1>3, <1>c, <3>1, <3>2, HeldTop
    <2>2. ASSUME NEW i \in Nat, i >= n, i # n PROVE HeldAt(t, i)' = HeldAt(t, i)
        <3>1. i \notin 1..n /\ i \notin 1..n - 1
            BY <2>2
        <3> QED
            BY <1>t, <1>3, <1>c, <3>1, HeldTop
    <2>3. ASSUME NEW b \in Boxes
          PROVE  /\ refs'[b] \in Int
                 /\ refs'[b] + (IF HeldAt(t, n) = b THEN 1 ELSE 0) =
                      refs[b] + (IF HeldAt(t, n)' = b THEN 1 ELSE 0)
                 /\ b > made' => refs'[b] = 0
        <3>1. refs'[b] \in Int /\ refs[b] \in Nat
            BY <1>t, <1>13 DEF TypeOK
        <3>2. HeldAt(t, n)' # b
            BY <2>1, Assumptions
        <3>3. refs'[b] + (IF HeldAt(t, n) = b THEN 1 ELSE 0) = refs[b]
            BY <1>13, <2>1
        <3>4. ASSUME b > made' PROVE refs'[b] = 0
            <4>1. refs[b] = 0
                BY <1>1, <3>4 DEF IInv, Counted
            <4>2. ~(b <= made)
                BY <1>t, <1>1, <3>4, Assumptions DEF TypeOK
            <4>3. HeldAt(t, n) # b
                BY <1>t, <4>2, Referenced DEF IInv
            <4> QED
                BY <3>1, <3>3, <4>1, <4>3
        <3> QED
            BY <3>1, <3>2, <3>3, <3>4
    <2> QED
        BY <1>t, <1>1, <1>3, <2>2, <2>3, CountedStep DEF IInv
<1>15. TypeOK'
    <2>1. threadPolicy' \in [Threads -> Boxed]
        BY <1>t, <1>1 DEF TypeOK
    <2>2. refs' \in [Boxes -> Nat] /\ live' \subseteq Repos
        BY <1>t, <1>1, <1>13, <1>14 DEF TypeOK
    <2> QED
        BY <1>t, <1>1, <1>3, <2>1, <2>2 DEF TypeOK, Changes
<1> QED
    BY <1>6, <1>7, <1>8, <1>9, <1>10, <1>11, <1>12, <1>14, <1>15 DEF IInv

\* The next part of a close, of d parts done.
LEMMA CloseStep ==
    ASSUME IInv, NEW t \in Threads, Busy(t), Top(t).op = "close", NEW s \in Repos, s = Top(t).slot,
           NEW n \in Nat \ {0}, n = Len(stack[t]),
           NEW d \in 1..3, d = Top(t).depth, NEW k \in Nat, Changes(t, n, k),
           NEW f \in Calls, k # n - 1 => At(t, n)' = f,
           f.op = "close", f.slot = s, f.at = "stored", f.box = NoBox, d # 3 => f.depth = d + 1,
           NEW g \in Calls, k = n + 1 => At(t, n + 1)' = g,
           g.op = "set", g.slot = s, g.at = "load", g.box = NoBox, g.other = NoBox,
           \/ k = n - 1 /\ d = 3 /\ live' = live
           \/ k = n /\ d = 2 /\ live' = live \ {s}
           \/ k = n /\ d = 1 /\ live' = live /\ Top(t).other = NoBox
           \/ k = n + 1 /\ d = 1 /\ live' = live,
           UNCHANGED <<lock, policies, threadPolicy, payloads>>
    PROVE  IInv'
<1>t. TypeOK /\ OneMutex /\ OneInside /\ AsGiven
    BY DEF IInv
<1>1. /\ table' = table /\ default' = default /\ given' = given /\ UNCHANGED policies
      /\ threadPolicy' = threadPolicy /\ refs' = refs /\ made' = made /\ lock' = lock
    BY DEF policies, payloads
<1>2. /\ n \in Depths(t) /\ Depths(t) = 1..n /\ Top(t) = At(t, n) /\ IsTop(t, n)
      /\ NestedAt(t, n) /\ GivenAt(t, n)
      /\ \A i \in 1..n : IsTop(t, i) <=> i = n
    <2>1. n \in Depths(t) /\ Depths(t) = 1..n /\ Top(t) = At(t, n)
        BY <1>t, TopIs DEF Depths
    <2>2. NestedAt(t, n) /\ GivenAt(t, n)
        BY <1>t, <2>1 DEF IInv, Nested, AsGiven
    <2> QED
        BY <2>1, <2>2 DEF IsTop
<1>3. /\ Depths(t)' = 1..k
      /\ \A i \in 1..k : IsTop(t, i)' <=> i = k
      /\ \A i \in 1..k : (i = n /\ k # n - 1) \/ (i = n + 1 /\ k = n + 1) \/ i < n
      /\ \A i \in 1..k : /\ i = n => At(t, i)' = f
                         /\ i = n + 1 => At(t, i)' = g
                         /\ i < n => i \in Depths(t) /\ At(t, i)' = At(t, i)
      /\ k # n - 1 => n \in 1..k
    <2>1. /\ Depths(t)' = 1..k /\ \A i \in 1..k : IsTop(t, i)' <=> i = k
          /\ \A i \in 1..k : i < n => i \in Depths(t) /\ At(t, i)' = At(t, i)
        BY <1>t, Kept
    <2>2. /\ \A i \in 1..k : (i = n /\ k # n - 1) \/ (i = n + 1 /\ k = n + 1) \/ i < n
          /\ k # n - 1 => n \in 1..k
        OBVIOUS
    <2> QED
        BY <2>1, <2>2
\* Below a close is the callback it is made from.
<1>b. ASSUME NEW i \in 1..k, i < n
      PROVE  /\ i \in Depths(t) /\ At(t, i)' = At(t, i) /\ At(t, i) \in Calls /\ NestedAt(t, i)
             /\ ~IsTop(t, i) /\ At(t, i).op # "close"
             /\ i + 1 = n => At(t, i).op = "read" /\ At(t, i).at = "asking"
    <2>1. /\ i \in Depths(t) /\ At(t, i)' = At(t, i) /\ i \in 1..n /\ i # n /\ i + 1 \in 1..n
        BY <1>2, <1>3, <1>b
    <2>2. NestedAt(t, i) /\ ~IsTop(t, i) /\ At(t, i) \in Calls
        <3>1. At(t, i) \in Calls
            BY <1>t, <2>1, Kept
        <3> QED
            BY <1>2, <2>1, <3>1 DEF IInv, Nested
    <2>3. At(t, i).op # "close"
        <3> SUFFICES ASSUME At(t, i).op = "close" PROVE FALSE
            OBVIOUS
        <3>1. At(t, i + 1).op = "set"
            BY <2>2 DEF NestedAt, Ending
        <3>2. NestedAt(t, i + 1)
            BY <1>2, <2>1 DEF IInv, Nested
        <3>3. i + 1 = n
            BY <1>2, <2>1, <3>1, <3>2 DEF NestedAt, Setting
        <3> QED
            BY <1>2, <3>1, <3>3
    <2>4. ASSUME i + 1 = n PROVE At(t, i).op = "read" /\ At(t, i).at = "asking"
        <3>1. At(t, i).op = "read"
            BY <1>2, <2>2, <2>3, <2>4 DEF NestedAt, Setting, Opening, Calls
        <3> QED
            BY <2>2, <3>1 DEF NestedAt, Reading
    <2> QED
        BY <2>1, <2>2, <2>3, <2>4
\* Until the repository is freed it is t's, and its policy is as given until
\* it is removed.
<1>4. d # 3 =>
        /\ s \in live
        /\ \A u \in Threads : \A i \in Depths(u) : Uses(u, i, s) => u = t /\ i = n
    <2>1. d # 3 => Uses(t, n, s)
        BY <1>2 DEF Uses
    <2>2. ASSUME NEW i \in Depths(t), i \in {n, n + 1} PROVE i = n
        BY <1>2, <2>2
    <2> QED
        BY <1>2, <2>1, <2>2 DEF IInv, OneUser
<1>5. /\ d = 2 => InSlot(s) = NoBox
      /\ d = 1 => InSlot(s) = Top(t).other
    <2>1. d = 2 => InSlot(s) = NoBox
        BY <1>2 DEF GivenAt
    <2>2. ASSUME d = 1 PROVE InSlot(s) = Top(t).other
        <3>1. Top(t).other = given[s]
            BY <1>2, <2>2 DEF GivenAt
        <3>2. ASSUME NEW u \in Threads PROVE ~Unset(u, s)
            <4> SUFFICES ASSUME NEW i \in Depths(u), At(u, i).op = "close", At(u, i).slot = s,
                                At(u, i).depth = 2
                         PROVE  FALSE
                BY DEF Unset
            <4>1. Uses(u, i, s)
                BY DEF Uses
            <4>2. u = t /\ i = n
                BY <1>4, <2>2, <4>1
            <4> QED
                BY <1>2, <2>2, <4>2
        <3> QED
            BY <1>t, <1>4, <2>2, <3>1, <3>2 DEF AsGiven
    <2> QED
        BY <2>1, <2>2
<1>6. Nested'
    <2>1. ASSUME NEW i \in 1..k, i + 1 >= n PROVE NestedAt(t, i)'
        <3>1. CASE i = n
            <4>1. k # n => k = n + 1 /\ d = 1 /\ n + 1 \in 1..k
                BY <1>3, <3>1
            <4>2. k # n => At(t, n + 1)' = g
                BY <4>1
            <4>3. At(t, n)' = f /\ (IsTop(t, n)' <=> n = k)
                BY <1>3, <3>1
            <4> QED
                BY <1>3, <3>1, <4>1, <4>2, <4>3 DEF NestedAt, Ending
        <3>2. CASE i = n + 1 /\ k = n + 1
            <4>1. At(t, i)' = g /\ IsTop(t, i)'
                BY <1>3, <3>2
            <4> QED
                BY <4>1 DEF NestedAt, Setting, Locked
        <3>3. CASE i < n
            <4>1. i + 1 = n
                BY <2>1, <3>3
            <4> QED
                BY <1>b, <3>3, <4>1 DEF NestedAt, Reading
        <3> QED
            BY <1>3, <3>1, <3>2, <3>3
    <2> QED
        BY <1>t, <2>1, NestedStep DEF IInv
<1>7. OneMutex'
    <2>1. \A i \in 1..k : i >= n => At(t, i)'.at \notin {"enter", "inside"}
        BY <1>3
    <2> QED
        BY <1>t, <1>1, <2>1, MutexStep
<1>8. OneInside'
    <2>1. ~Inside(t)'
        <3> SUFFICES ASSUME Inside(t)' PROVE FALSE
            OBVIOUS
        <3>1. Busy(t)' /\ Top(t)'.at = "inside"
            BY DEF Inside, Locking
        <3>2. k # 0
            BY <3>1, EmptySeq DEF Changes, Busy
        <3>3. Top(t)' = At(t, k)' /\ k \in 1..k
            BY <3>2, NewTop DEF At
        <3>4. CASE k < n
            <4>1. k + 1 = n
                BY <3>4
            <4> QED
                BY <1>b, <3>1, <3>3, <3>4, <4>1
        <3>5. CASE k = n \/ k = n + 1
            BY <1>3, <3>1, <3>3, <3>5
        <3> QED
            BY <3>4, <3>5
    <2> QED
        BY <1>t, <2>1, InsideStep DEF Changes
<1>9. OneUser'
    <2>1. ASSUME NEW u \in Threads, NEW i \in Depths(u)', NEW r \in Repos, Uses(u, i, r)'
          PROVE  \/ ~(u = t /\ i \in {n, n + 1}) /\ i \in Depths(u) /\ Uses(u, i, r) /\ At(u, i)' = At(u, i)
                 \/ /\ u = t /\ r = s /\ d = 1 /\ i \in {n, n + 1}
                    /\ At(u, i)'.op \in {"open", "close"} => i = n
        <3>1. CASE u # t
            BY <1>t, <2>1, <3>1, Kept DEF Uses
        <3>2. CASE u = t
            <4>1. i \in 1..k
                BY <1>3, <3>2
            <4>2. CASE i < n
                <5>1. i \in Depths(t) /\ At(t, i)' = At(t, i) /\ i \notin {n, n + 1}
                    BY <1>b, <4>1, <4>2
                <5> QED
                    BY <2>1, <3>2, <5>1 DEF Uses
            <4>3. CASE i \in {n, n + 1}
                <5>1. /\ At(t, i)'.slot = s
                      /\ At(t, i)'.op \in {"open", "close"} => i = n
                    BY <1>3, <4>1, <4>3
                <5>2. d = 1
                    <6>1. k = n /\ d = 2 => At(t, i)'.op = "close" /\ At(t, i)'.depth = 3
                        BY <1>3, <4>1, <4>3
                    <6>2. k # n - 1
                        BY <4>1, <4>3
                    <6> QED
                        BY <2>1, <3>2, <6>1, <6>2 DEF Uses
                <5> QED
                    BY <2>1, <3>2, <4>3, <5>1, <5>2 DEF Uses
            <4> QED
                BY <1>3, <4>1, <4>2, <4>3
        <3> QED
            BY <3>1, <3>2
    <2> SUFFICES ASSUME NEW u \in Threads, NEW i \in Depths(u)', NEW r \in Repos, Uses(u, i, r)'
                 PROVE  /\ r \in live'
                        /\ \A v \in Threads : \A j \in Depths(v)' : Uses(v, j, r)' =>
                            v = u /\ (At(u, i)'.op \in {"open", "close"} => j \in {i, i + 1})
        BY DEF OneUser
    <2>2. r \in live'
        <3>1. CASE ~(u = t /\ i \in {n, n + 1}) /\ i \in Depths(u) /\ Uses(u, i, r)
            <4>1. r \in live
                BY <3>1 DEF IInv, OneUser
            <4>2. d = 2 => r # s
                BY <1>4, <3>1
            <4> QED
                BY <4>1, <4>2
        <3>2. CASE r = s /\ d = 1
            BY <1>4, <3>2
        <3> QED
            BY <2>1, <3>1, <3>2
    <2>3. ASSUME NEW v \in Threads, NEW j \in Depths(v)', Uses(v, j, r)'
          PROVE  v = u /\ (At(u, i)'.op \in {"open", "close"} => j \in {i, i + 1})
        <3>1. \/ ~(u = t /\ i \in {n, n + 1}) /\ i \in Depths(u) /\ Uses(u, i, r) /\ At(u, i)' = At(u, i)
              \/ /\ u = t /\ r = s /\ d = 1 /\ i \in {n, n + 1}
                 /\ At(u, i)'.op \in {"open", "close"} => i = n
            BY <2>1
        <3>2. \/ ~(v = t /\ j \in {n, n + 1}) /\ j \in Depths(v) /\ Uses(v, j, r) /\ At(v, j)' = At(v, j)
              \/ /\ v = t /\ r = s /\ d = 1 /\ j \in {n, n + 1}
                 /\ At(v, j)'.op \in {"open", "close"} => j = n
            BY <2>1, <2>3
        <3>3. CASE /\ i \in Depths(u) /\ Uses(u, i, r) /\ At(u, i)' = At(u, i)
                   /\ j \in Depths(v) /\ Uses(v, j, r)
            BY <3>3 DEF IInv, OneUser
        <3>4. CASE /\ u = t /\ i \in {n, n + 1} /\ (At(u, i)'.op \in {"open", "close"} => i = n)
                   /\ v = t /\ j \in {n, n + 1}
            BY <3>4
        <3>5. CASE /\ r = s /\ d = 1
                   /\ ~(v = t /\ j \in {n, n + 1}) /\ j \in Depths(v) /\ Uses(v, j, r)
            BY <1>4, <3>5
        <3>6. CASE /\ r = s /\ d = 1
                   /\ ~(u = t /\ i \in {n, n + 1}) /\ i \in Depths(u) /\ Uses(u, i, r)
            BY <1>4, <3>6
        <3> QED
            BY <3>1, <3>2, <3>3, <3>4, <3>5, <3>6
    <2> QED
        BY <2>2, <2>3
<1>10. OneEntry'
    BY <1>1 DEF IInv, OneEntry
<1>11. AsGiven'
    <2>1. live' \subseteq live /\ \A r \in live \ live' : InSlot(r) = NoBox
        BY <1>5
    <2>2. ASSUME NEW r \in live' PROVE ~Unset(t, r)
        <3> SUFFICES ASSUME NEW i \in Depths(t), At(t, i).op = "close", At(t, i).slot = r,
                            At(t, i).depth = 2
                     PROVE  FALSE
            BY DEF Unset
        <3>1. i = n
            <4> SUFFICES ASSUME i # n PROVE FALSE
                OBVIOUS
            <4>1. i \in 1..k /\ i < n
                BY <1>2
            <4> QED
                BY <1>b, <4>1
        <3>2. d = 2 /\ r = s
            BY <1>2, <3>1
        <3> QED
            BY <3>2
    <2>3. ASSUME NEW i \in 1..k, i + 1 >= n PROVE GivenAt(t, i)'
        <3>1. CASE i = n
            <4>1. InSlot(s)' = InSlot(s)
                BY <1>1, SlotsKept
            <4>2. CASE k = n + 1
                <5>1. At(t, n + 1)' = g /\ ~IsTop(t, n)' /\ d = 1 /\ At(t, n)' = f
                    BY <1>3, <3>1, <4>2
                <5> QED
                    BY <1>3, <3>1, <5>1 DEF GivenAt
            <4>3. CASE k # n + 1
                <5>1. At(t, n)' = f /\ k # n - 1
                    BY <1>3, <3>1
                <5> QED
                    BY <1>3, <1>5, <3>1, <4>1, <4>3, <5>1 DEF GivenAt
            <4> QED
                BY <4>2, <4>3
        <3>2. CASE i = n + 1 /\ k = n + 1
            BY <1>3, <3>2 DEF GivenAt
        <3>3. CASE i < n
            <4>1. i + 1 = n
                BY <2>3, <3>3
            <4> QED
                BY <1>b, <3>3, <4>1 DEF GivenAt
        <3> QED
            BY <1>3, <3>1, <3>2, <3>3
    <2> QED
        BY <1>t, <1>1, <2>1, <2>2, <2>3, GivenStep
<1>12. Stacked'
    <2>1. /\ \A i \in 1..k : i >= n => At(t, i)'.op \notin {"open", "read"}
          /\ \A i \in Depths(t) : i >= n => At(t, i).op # "open"
        <3>1. \A i \in 1..n : i >= n => i = n
            OBVIOUS
        <3>2. \A i \in 1..k : i >= n => i = n \/ (i = n + 1 /\ k = n + 1)
            BY <1>3
        <3> QED
            BY <1>2, <1>3, <3>1, <3>2
    <2>2. \A i \in 1..k : i >= n => Lent(t, i)'
        BY <2>1 DEF Lent
    <2> QED
        BY <1>t, <1>1, <2>1, <2>2, StackedStep DEF IInv
<1>13. Counted'
    <2>1. \A i \in Nat : i >= n => HeldAt(t, i)' = NoBox /\ HeldAt(t, i) = NoBox
        <3>1. Held(f) = NoBox /\ Held(g) = NoBox /\ Held(Top(t)) = NoBox
            BY DEF Held
        <3>2. ASSUME NEW i \in Nat, i >= n PROVE HeldAt(t, i)' = NoBox
            <4>1. i \in 1..k => At(t, i)' = f \/ At(t, i)' = g
                BY <1>3, <3>2
            <4> QED
                BY <1>t, <3>1, <4>1, HeldTop
        <3>3. ASSUME NEW i \in Nat, i >= n PROVE HeldAt(t, i) = NoBox
            <4>1. i \in Depths(t) => i = n
                BY <1>2, <3>3
            <4> QED
                BY <1>t, <1>2, <3>1, <4>1, HeldTop
        <3> QED
            BY <3>2, <3>3
    <2>2. \A b \in Boxes : refs'[b] \in Int /\ (b > made' => refs'[b] = 0)
        BY <1>t, <1>1 DEF TypeOK, IInv, Counted
    <2>3. \A b \in Boxes : refs'[b] + (IF HeldAt(t, n) = b THEN 1 ELSE 0) =
                             refs[b] + (IF HeldAt(t, n)' = b THEN 1 ELSE 0)
        <3>1. HeldAt(t, n) = NoBox /\ HeldAt(t, n)' = NoBox
            BY <2>1
        <3> QED
            BY <1>1, <3>1
    <2>4. \A i \in Nat : i >= n /\ i # n => HeldAt(t, i)' = HeldAt(t, i)
        BY <2>1
    <2> QED
        BY <1>t, <1>1, <2>2, <2>3, <2>4, CountedStep DEF IInv
<1>14. TypeOK'
    <2>1. live' \subseteq Repos
        BY <1>t DEF TypeOK
    <2> QED
        BY <1>t, <1>1, <2>1 DEF TypeOK, Changes
<1> QED
    BY <1>6, <1>7, <1>8, <1>9, <1>10, <1>11, <1>12, <1>13, <1>14 DEF IInv

\* deinit.
LEMMA CloseGoesOnInv ==
    ASSUME IInv, NEW t \in Threads, CloseGoesOn(t)
    PROVE  IInv'
<1> DEFINE f0 == [Top(t) EXCEPT !.depth = @ + 1]
           g0 == Frame("set", Top(t).slot, NoBox, "load")
<1>t. TypeOK
    BY DEF IInv
<1>b. Busy(t) /\ Top(t).op = "close" /\ Top(t).at = "stored"
    BY DEF CloseGoesOn, In
<1>n. PICK n \in Nat \ {0} : n = Len(stack[t])
    BY <1>t, <1>b, TopIs
<1>c. /\ stack[t] \in Seq(Calls) /\ stack[t][n] = Top(t) /\ Top(t) \in Calls
      /\ Top(t).slot \in Repos /\ Top(t).box = NoBox
    <2>1. /\ stack[t] \in Seq(Calls) /\ Len(stack[t]) \in Depths(t)
          /\ Top(t) = At(t, Len(stack[t])) /\ Top(t) \in Calls
        BY <1>t, <1>b, TopIs DEF TypeOK
    <2>2. NestedAt(t, Len(stack[t]))
        BY <2>1 DEF IInv, Nested
    <2> QED
        BY <1>b, <1>n, <2>1, <2>2 DEF NestedAt, Ending, At
<1>d. PICK d \in 1..3 : d = Top(t).depth
    BY <1>c DEF Calls
<1>s. PICK s \in Repos : s = Top(t).slot
    BY <1>c
<1>1. UNCHANGED <<lock, policies, threadPolicy, payloads>>
    BY DEF CloseGoesOn
<1>2. Len(CloseParts) = 2 /\ CloseParts[1] = "unset" /\ CloseParts[2] = "free"
    BY DEF CloseParts
<1>3. /\ g0 \in Calls /\ g0.op = "set" /\ g0.slot = s /\ g0.at = "load" /\ g0.box = NoBox
      /\ g0.other = NoBox
    BY <1>s, Assumptions DEF Frame, Calls, Moments, Slots
<1>f. PICK f \in Calls : /\ d # 3 => f = f0
                         /\ f.op = "close" /\ f.slot = s /\ f.at = "stored" /\ f.box = NoBox
                         /\ d # 3 => f.depth = d + 1
    <2>1. CASE d = 3
        BY <1>b, <1>c, <1>s, <2>1
    <2>2. CASE d # 3
        <3>1. d + 1 \in 1..3
            BY <2>2
        <3>2. /\ f0 \in Calls /\ f0.op = "close" /\ f0.slot = s /\ f0.at = "stored"
              /\ f0.box = NoBox /\ f0.depth = d + 1
            BY <1>b, <1>c, <1>d, <1>s, <3>1 DEF Calls
        <3> QED
            BY <3>2
    <2> QED
        BY <2>1, <2>2
<1> HIDE DEF f0, g0
<1>g. PICK g \in Calls : g = g0
    BY <1>3
<1>4. CASE d = 3
    <2>1. stack' = [stack EXCEPT ![t] = Front(stack[t])] /\ live' = live
        <3>1. Top(t).depth > Len(CloseParts)
            BY <1>2, <1>4, <1>d
        <3> QED
            BY <3>1 DEF CloseGoesOn
    <2>k. PICK k \in Nat : k = n - 1
        OBVIOUS
    <2>2. Changes(t, n, k)
        BY <1>t, <1>b, <1>n, <2>1, <2>k, Popping
    <2> QED
        BY <1>1, <1>3, <1>4, <1>b, <1>d, <1>n, <1>s, <1>f, <1>g, <2>1, <2>2, <2>k, CloseStep
<1>5. CASE d = 2
    <2>1. live' = live \ {s} /\ Becomes(t, f)
        <3>1. ~(Top(t).depth > Len(CloseParts)) /\ CloseParts[Top(t).depth] = "free"
            BY <1>2, <1>5, <1>d
        <3> QED
            BY <1>5, <1>f, <1>s, <3>1 DEF CloseGoesOn, f0
    <2>k. PICK k \in Nat : k = n
        OBVIOUS
    <2>2. Changes(t, n, k) /\ At(t, n)' = f
        BY <1>t, <1>b, <1>n, <2>1, <2>k, Becoming DEF At
    <2> QED
        BY <1>1, <1>3, <1>5, <1>b, <1>d, <1>n, <1>s, <1>f, <1>g, <2>1, <2>2, <2>k, CloseStep
<1>6. CASE d = 1
    <2>0. ~(Top(t).depth > Len(CloseParts)) /\ CloseParts[Top(t).depth] # "free"
        BY <1>2, <1>6, <1>d
    <2>1. CASE Top(t).other = NoBox
        <3>1. live' = live /\ Becomes(t, f)
            BY <1>6, <1>f, <2>0, <2>1 DEF CloseGoesOn, f0
        <3>k. PICK k \in Nat : k = n
            OBVIOUS
        <3>2. Changes(t, n, k) /\ At(t, n)' = f
            BY <1>t, <1>b, <1>n, <3>1, <3>k, Becoming DEF At
        <3> QED
            BY <1>1, <1>3, <1>6, <1>b, <1>d, <1>n, <1>s, <1>f, <1>g, <2>1, <3>1, <3>2, <3>k, CloseStep
    <2>2. CASE Top(t).other # NoBox
        <3>1. live' = live /\ stack' = [stack EXCEPT ![t] = Front(stack[t]) \o <<f, g>>]
            <4>1. f = [Top(t) EXCEPT !.depth = @ + 1] /\ g = Frame("set", Top(t).slot, NoBox, "load")
                BY <1>6, <1>f, <1>g DEF f0, g0
            <4>2. /\ live' = live
                  /\ stack' = [stack EXCEPT ![t] = Front(stack[t]) \o
                        <<[Top(t) EXCEPT !.depth = @ + 1], Frame("set", Top(t).slot, NoBox, "load")>>]
                BY <2>0, <2>2 DEF CloseGoesOn
            <4> QED
                BY <4>1, <4>2
        <3>k. PICK k \in Nat : k = n + 1
            OBVIOUS
        <3>2. /\ Front(stack[t]) \in Seq(Calls) /\ Len(Front(stack[t])) = n - 1
              /\ \A i \in 1..n - 1 : Front(stack[t])[i] = stack[t][i]
            <4>1. stack[t] # << >>
                BY <1>b DEF Busy
            <4> QED
                BY <1>c, <1>n, <4>1, FrontIs
        <3>p. PICK p \in Seq(Calls) : p = Front(stack[t])
            BY <3>2
        <3>3. /\ p \o <<f, g>> \in Seq(Calls) /\ Len(p \o <<f, g>>) = n + 1
              /\ \A i \in 1..n - 1 : (p \o <<f, g>>)[i] = stack[t][i]
              /\ (p \o <<f, g>>)[n] = f /\ (p \o <<f, g>>)[n + 1] = g
            <4>1. /\ <<f, g>> \in Seq(Calls) /\ Len(<<f, g>>) = 2
                  /\ <<f, g>>[1] = f /\ <<f, g>>[2] = g
                OBVIOUS
            <4>2. Len(p) = n - 1 /\ \A i \in 1..n - 1 : p[i] = stack[t][i]
                BY <3>2, <3>p
            <4> QED
                BY <4>1, <4>2
        <3>4. /\ stack' \in [Threads -> Seq(Calls)] /\ stack'[t] = p \o <<f, g>>
              /\ \A u \in Threads \ {t} : stack'[u] = stack[u]
            BY <1>t, <3>1, <3>3, <3>p DEF TypeOK
        <3>5. Changes(t, n, k)
            BY <1>n, <3>3, <3>4, <3>k DEF Changes
        <3>6. At(t, n)' = f /\ At(t, n + 1)' = g
            BY <3>3, <3>4 DEF At
        <3> QED
            BY <1>1, <1>3, <1>6, <1>b, <1>d, <1>n, <1>s, <1>f, <1>g, <3>1, <3>5, <3>6, <3>k, CloseStep
    <2> QED
        BY <2>1, <2>2
<1> QED
    BY <1>4, <1>5, <1>6

-----------------------------------------------------------------------------
(* The invariant, and what follows from it                                 *)

\* No call, no policy.
LEMMA InitInv == Init => IInv
<1> SUFFICES ASSUME Init PROVE IInv
    OBVIOUS
<1>1. /\ lock = NoMutex /\ table = << >> /\ default = NoBox
      /\ given = [s \in Slots |-> NoBox] /\ threadPolicy = [t \in Threads |-> NoBox]
      /\ refs = [b \in Boxes |-> 0] /\ made = 0 /\ live = {}
      /\ stack = [t \in Threads |-> << >>]
    BY DEF Init
<1>2. Len(table) = 0 /\ 1..0 = {} /\ \A t \in Threads : stack[t] = << >> /\ Len(stack[t]) = 0
    BY <1>1
<1>3. \A t \in Threads : Depths(t) = {} /\ ~Busy(t)
    BY <1>2 DEF Depths, Busy
<1>4. \A s : InSlot(s) = NoBox
    <2>1. table \in Seq(Entries) /\ Single(table)
        BY <1>1, <1>2 DEF Single
    <2>2. \A s : BoxIn(table, s) = NoBox
        BY <1>2, <2>1, BoxInIs
    <2> QED
        BY <1>1, <2>2, SlotIs
<1>5. TypeOK
    <2>1. made \in 0..MaxBoxes
        BY <1>1, Assumptions
    <2>2. stack \in [Threads -> Seq(Calls)]
        BY <1>1
    <2> QED
        BY <1>1, <2>1, <2>2, Assumptions DEF TypeOK
<1>6. Nested /\ OneMutex /\ OneInside /\ OneUser /\ OneEntry
    BY <1>2, <1>3 DEF Nested, OneMutex, OneInside, OneUser, OneEntry, Inside, Locking
<1>7. AsGiven
    BY <1>1, <1>3, <1>4, Assumptions DEF AsGiven, Slots
<1>8. Stacked
    <2>1. \A t \in Threads : Opens(t) = {}
        BY <1>3 DEF Opens
    <2> QED
        BY <1>1, <1>3, <2>1 DEF Stacked, Restores
<1>9. Counted
    <2> SUFFICES ASSUME NEW b \in Boxes
                 PROVE  /\ IsFiniteSet(Keeping(b)) /\ IsFiniteSet(Holding(b))
                        /\ refs[b] = Cardinality(Keeping(b)) + Cardinality(Holding(b))
                        /\ b > made => refs[b] = 0
        BY DEF Counted
    <2>1. Keeping(b) = {}
        BY <1>4, Assumptions DEF Keeping
    <2>2. Holding(b) = {}
        <3>1. \A t \in Threads, i \in Nat : HeldAt(t, i) # b
            BY <1>3, Assumptions DEF HeldAt
        <3> QED
            BY <3>1 DEF Holding
    <2>3. IsFiniteSet({}) /\ Cardinality({}) = 0
        BY FS_EmptySet
    <2> QED
        BY <1>1, <2>1, <2>2, <2>3
<1> QED
    BY <1>5, <1>6, <1>7, <1>8, <1>9 DEF IInv

\* Every action keeps the invariant.
LEMMA IInvStep == IInv /\ [Next]_vars => IInv'
<1> SUFFICES ASSUME IInv, [Next]_vars PROVE IInv'
    OBVIOUS
<1>1. ASSUME NEW t \in Threads, LoadLock(t) \/ PublishLock(t) \/ EnterLock(t) PROVE IInv'
    BY <1>1, LoadLockInv, PublishLockInv, EnterLockInv
<1>2. ASSUME NEW t \in Threads, FindPolicy(t) \/ StorePolicy(t) \/ ReleaseReplaced(t) PROVE IInv'
    BY <1>2, FindPolicyInv, StorePolicyInv, ReleaseReplacedInv
<1>3. ASSUME NEW t \in Threads, NEW allowed \in BOOLEAN, AnswerInclude(t, allowed) PROVE IInv'
    BY <1>3, AnswerIncludeInv
<1>4. ASSUME NEW t \in Threads, NEW s \in Slots, NEW n \in 0..1, SetPolicy(t, s, n) PROVE IInv'
    BY <1>4, SetPolicyInv
<1>5. ASSUME NEW t \in Threads, NEW r \in Repos, ReadConfig(t, r) \/ CloseBegins(t, r) PROVE IInv'
    BY <1>5, ReadConfigInv, CloseBeginsInv
<1>6. ASSUME NEW t \in Threads, NEW r \in Repos, NEW n \in 0..1, OpenBegins(t, r, n) PROVE IInv'
    BY <1>6, OpenBeginsInv
<1>7. ASSUME NEW t \in Threads, OpenRegisters(t) \/ OpenEnds(t) \/ CloseGoesOn(t) PROVE IInv'
    BY <1>7, OpenRegistersInv, OpenEndsInv, CloseGoesOnInv
<1>8. ASSUME UNCHANGED vars PROVE IInv'
    <2>1. /\ lock' = lock /\ table' = table /\ default' = default /\ given' = given
          /\ threadPolicy' = threadPolicy /\ refs' = refs /\ made' = made /\ live' = live
          /\ stack' = stack
        BY <1>8 DEF vars, policies, payloads
    <2>2. \A s : InSlot(s)' = InSlot(s)
        BY <2>1, SlotsKept
    <2>3. TypeOK' /\ OneInside' /\ OneEntry'
        BY <2>1 DEF IInv, TypeOK, OneInside, OneEntry, Inside, Locking, Busy, Top
    <2>4. Nested'
        BY <2>1 DEF IInv, Nested, NestedAt, Reading, Setting, Opening, Ending, At, Depths, IsTop
    <2>5. OneMutex' /\ OneUser'
        BY <2>1 DEF IInv, OneMutex, OneUser, Uses, At, Depths
    <2>6. AsGiven'
        BY <2>1, <2>2 DEF IInv, AsGiven, GivenAt, Unset, At, Depths, IsTop
    <2>7. Stacked'
        BY <2>1 DEF IInv, Stacked, Restores, Lent, Opens, At, Depths
    <2>8. Counted'
        <3>1. \A b : Keeping(b)' = Keeping(b)
            BY <2>2 DEF Keeping
        <3>2. \A b : Holding(b)' = Holding(b)
            BY <2>1 DEF Holding, HeldAt, At, Depths
        <3> QED
            BY <2>1, <3>1, <3>2 DEF IInv, Counted
    <2> QED
        BY <2>3, <2>4, <2>5, <2>6, <2>7, <2>8 DEF IInv
<1> QED
    BY <1>1, <1>2, <1>3, <1>4, <1>5, <1>6, <1>7, <1>8 DEF Next

\* At all times: the calls are nested as the code nests them, whoever waits
\* for the mutex has the published one, a handle is in one thread's hands, a
\* slot holds what it was last given, the threads' policies are those of
\* their opens, and the references of a payload are those that are held.
THEOREM Invariant == Spec => []IInv
BY InitInv, IInvStep, PTL DEF Spec

\* However many threads race to make the mutex of gitkit_policy_lock, no two
\* of them are inside it together.
THEOREM OneThreadInside == Spec => []OneInside
<1>1. IInv => OneInside
    BY DEF IInv
<1> QED
    BY <1>1, Invariant, PTL

\* What the table, the default, a thread's policy or a running callback
\* refers to has a reference, and an idle program keeps what is registered.
LEMMA PayloadsHeld == IInv => PayloadsKept
<1> SUFFICES ASSUME IInv PROVE PayloadsKept
    OBVIOUS
<1>t. TypeOK /\ Counted /\ Stacked
    BY DEF IInv
<1>1. table \in Seq(Entries) /\ Single(table)
    BY DEF IInv, TypeOK, Entries, OneEntry, Single
\* What is registered is what the slots hold.
<1>2. \A b \in Boxes : b \in {e.box : e \in ToSet(table)} \cup {default} <=>
                         \E s \in Slots : InSlot(s) = b
    <2> SUFFICES ASSUME NEW b \in Boxes
                 PROVE  b \in {e.box : e \in ToSet(table)} \cup {default} <=>
                          \E s \in Slots : InSlot(s) = b
        OBVIOUS
    <2>0. ToSet(table) = {table[i] : i \in 1..Len(table)}
        BY <1>1 DEF ToSet
    <2>1. ASSUME NEW i \in 1..Len(table), table[i].box = b PROVE \E s \in Slots : InSlot(s) = b
        <3>1. table[i] \in Entries
            BY <1>1, ElementOfSeq
        <3>2. table[i].repo \in Slots /\ table[i].repo # Default
            BY <3>1, Assumptions DEF Entries, Slots
        <3>3. BoxIn(table, table[i].repo) = b
            BY <1>1, <2>1, BoxInIs
        <3> QED
            BY <3>2, <3>3, SlotIs
    <2>2. b = default => InSlot(Default) = b /\ Default \in Slots
        BY DEF InSlot, Slots
    <2>3. ASSUME NEW s \in Slots, InSlot(s) = b
          PROVE  b \in {e.box : e \in ToSet(table)} \cup {default}
        <3>1. CASE s = Default
            BY <2>3, <3>1 DEF InSlot
        <3>2. CASE s # Default
            <4>1. EntryOf(s) # 0 /\ b = table[EntryOf(s)].box
                BY <2>3, <3>2, Assumptions DEF InSlot
            <4>2. EntryOf(s) \in 1..Len(table)
                BY <1>t, <4>1, EntryIs
            <4> QED
                BY <2>0, <4>1, <4>2
        <3> QED
            BY <3>1, <3>2
    <2> QED
        BY <2>0, <2>1, <2>2, <2>3
\* An open holds the policy it was given, a call its own.
<1>3. ASSUME NEW t \in Threads, NEW j \in Opens(t), At(t, j).box \in Boxes
      PROVE  refs[At(t, j).box] > 0
    <2>1. j \in Nat /\ HeldAt(t, j) = At(t, j).box
        BY DEF Opens, Depths, HeldAt, Held
    <2> QED
        BY <1>3, <1>t, <2>1, Referenced
<1>4. ASSUME NEW t \in Threads, NEW i \in Depths(t), At(t, i).box \in Boxes
      PROVE  refs[At(t, i).box] > 0
    <2>1. At(t, i) \in Calls /\ i \in Nat /\ NestedAt(t, i) /\ Lent(t, i) /\ At(t, i).box # NoBox
        <3>1. stack[t] \in Seq(Calls)
            BY <1>t DEF TypeOK
        <3>2. At(t, i) \in Calls /\ i \in Nat
            BY <3>1, ElementOfSeq DEF At, Depths
        <3> QED
            BY <1>4, <3>2, Assumptions DEF IInv, Nested, Stacked
    <2>2. CASE HeldAt(t, i) = At(t, i).box
        BY <1>4, <1>t, <2>1, <2>2, Referenced
    <2>3. CASE At(t, i).op = "read" /\ At(t, i).other = NoBox
        <3>1. PICK j \in Opens(t) : At(t, j).box = At(t, i).box
            BY <2>1, <2>3 DEF Lent
        <3> QED
            BY <1>3, <1>4, <3>1
    <2>4. HeldAt(t, i) = At(t, i).box \/ (At(t, i).op = "read" /\ At(t, i).other = NoBox)
        <3>1. At(t, i).op \in {"read", "set", "open", "close"}
            BY <2>1 DEF Calls
        <3> QED
            BY <2>1, <3>1 DEF NestedAt, Reading, Setting, Ending, HeldAt, Held
    <2> QED
        BY <2>2, <2>3, <2>4
<1>5. ASSUME NEW b \in Boxes, b \in {e.box : e \in ToSet(table)} \cup {default} PROVE refs[b] > 0
    BY <1>2, <1>5, <1>t, Referenced
<1>6. ASSUME NEW t \in Threads, NEW f \in Frames(t), f.box \in Boxes PROVE refs[f.box] > 0
    <2>1. PICK i \in Depths(t) : f = At(t, i)
        <3>1. stack[t] \in Seq(Calls)
            BY <1>t DEF TypeOK
        <3> QED
            BY <3>1 DEF Frames, ToSet, At, Depths
    <2> QED
        BY <1>4, <1>6, <2>1
<1>7. ASSUME NEW t \in Threads, threadPolicy[t] \in Boxes PROVE refs[threadPolicy[t]] > 0
    <2>1. threadPolicy[t] # NoBox
        BY <1>7, Assumptions
    <2>2. PICK j \in Opens(t) : At(t, j).box = threadPolicy[t]
        BY <1>t, <2>1, LentByOpen
    <2> QED
        BY <1>3, <1>7, <2>2
\* An idle program holds nothing outside the slots.
<1>8. ASSUME \A t \in Threads : ~Busy(t), NEW b \in Boxes
      PROVE  (refs[b] > 0) <=> b \in {e.box : e \in ToSet(table)} \cup {default}
    <2>1. Holding(b) = {}
        <3>1. \A t \in Threads : Depths(t) = {}
            BY <1>8 DEF Busy, Depths
        <3>2. \A t \in Threads, i \in Nat : HeldAt(t, i) # b
            BY <3>1, Assumptions DEF HeldAt
        <3> QED
            BY <3>2 DEF Holding
    <2>2. refs[b] = Cardinality(Keeping(b)) /\ IsFiniteSet(Keeping(b)) /\ Cardinality(Keeping(b)) \in Nat
        BY <1>t, <2>1, FS_EmptySet, FS_CardinalityType DEF Counted
    <2>3. refs[b] > 0 <=> Keeping(b) # {}
        BY <2>2, FS_EmptySet
    <2>4. Keeping(b) # {} <=> \E s \in Slots : InSlot(s) = b
        BY DEF Keeping
    <2> QED
        BY <1>2, <2>3, <2>4
<1>9. /\ \A b \in {e.box : e \in ToSet(table)} \cup {default} : b \in Boxes \/ b = NoBox
      /\ \A t \in Threads : /\ threadPolicy[t] \in Boxes \/ threadPolicy[t] = NoBox
                            /\ \A f \in Frames(t) : f.box \in Boxes \/ f.box = NoBox
    <2>1. \A e \in ToSet(table) : e.box \in Boxes
        <3>1. ToSet(table) = {table[i] : i \in 1..Len(table)}
            BY <1>1 DEF ToSet
        <3>2. \A i \in 1..Len(table) : table[i] \in Entries
            BY <1>1, ElementOfSeq
        <3> QED
            BY <3>1, <3>2 DEF Entries
    <2>2. \A t \in Threads : \A f \in Frames(t) : f.box \in Boxed
        <3> SUFFICES ASSUME NEW t \in Threads, NEW f \in Frames(t) PROVE f.box \in Boxed
            OBVIOUS
        <3>1. stack[t] \in Seq(Calls)
            BY <1>t DEF TypeOK
        <3>2. f \in Calls
            BY <3>1, ElementOfSeq DEF Frames, ToSet
        <3> QED
            BY <3>2 DEF Calls
    <2> QED
        BY <1>t, <2>1, <2>2 DEF TypeOK, Boxed
<1> QED
    BY <1>5, <1>6, <1>7, <1>8, <1>9 DEF PayloadsKept

\* A payload in use is never freed, whoever replaces or removes it meanwhile,
\* and none is kept for ever: PayloadsKept.
THEOREM PayloadsAlive == Spec => []PayloadsKept
BY PayloadsHeld, Invariant, PTL

\* What gitkit_policy_for hands out: the repository's policy, or that of the
\* innermost open on this thread that has one, or the default.
Rightful(t) ==
    LET i == SelectLastInSeq(stack[t], LAMBDA f : f.op = "open" /\ f.box # NoBox)
    IN  IF given[Top(t).slot] # NoBox THEN given[Top(t).slot]
        ELSE IF i # 0 THEN stack[t][i].box
        ELSE given[Default]

\* gitkit_policy_for finds what the repository, or the open around the call,
\* was given.
LEMMA FoundRightful ==
    ASSUME IInv, NEW t \in Threads, FindPolicy(t)
    PROVE  Last(stack'[t]).box = Rightful(t)
<1>t. TypeOK /\ AsGiven /\ Stacked /\ Restores(t)
    BY DEF IInv, Stacked
<1> DEFINE r == Top(t).slot
           g == [Top(t) EXCEPT !.at = "asking", !.box = PolicyFor(t, r),
                     !.other = IF Retained(t, r) THEN PolicyFor(t, r) ELSE NoBox]
<1>1. Busy(t) /\ Top(t).op = "read" /\ Becomes(t, g)
    BY DEF FindPolicy, Inside, Locking
<1>n. PICK n \in Nat \ {0} : n = Len(stack[t])
    BY <1>t, <1>1, TopIs
<1>c. /\ n \in Depths(t) /\ Depths(t) = 1..n /\ Top(t) = At(t, n) /\ Top(t) \in Calls
      /\ NestedAt(t, n) /\ stack[t] \in Seq(Calls)
    BY <1>t, <1>1, <1>n, TopIs DEF Depths, IInv, Nested, TypeOK
<1>s. PICK s \in Repos : s = r
    BY <1>1, <1>c DEF NestedAt, Reading
<1>2. Last(stack'[t]).box = PolicyFor(t, s)
    <2>1. stack'[t] = Append(Front(stack[t]), g)
        BY <1>1, <1>t DEF Becomes, TypeOK
    <2>2. g.box = PolicyFor(t, s)
        BY <1>c, <1>s DEF Calls
    <2> HIDE DEF g
    <2>3. Front(stack[t]) \in Seq(Calls)
        BY <1>1, <1>c, FrontIs DEF Busy
    <2>4. Last(Append(Front(stack[t]), g)) = g
        BY <2>3 DEF Last
    <2> QED
        BY <2>1, <2>2, <2>4
\* The repository is t's, which is not closing it.
<1>3. InSlot(s) = given[s]
    <2>1. Uses(t, n, s)
        BY <1>1, <1>c, <1>s DEF Uses
    <2>2. s \in live
        BY <1>c, <2>1 DEF IInv, OneUser
    <2>3. \A u \in Threads : ~Unset(u, s)
        <3> SUFFICES ASSUME NEW u \in Threads, NEW i \in Depths(u), At(u, i).op = "close",
                            At(u, i).slot = s, At(u, i).depth = 2
                     PROVE  FALSE
            BY DEF Unset
        <3>1. Uses(u, i, s)
            BY DEF Uses
        <3>2. u = t
            BY <1>c, <2>1, <3>1 DEF IInv, OneUser
        <3>3. i # n /\ i \in 1..n /\ NestedAt(t, i)
            BY <1>1, <1>c, <3>2 DEF IInv, Nested
        <3>4. ~IsTop(t, i)
            BY <1>n, <3>3 DEF IsTop
        <3>5. i + 1 \in Depths(t) /\ At(t, i + 1).op = "set"
            BY <1>c, <3>2, <3>3, <3>4 DEF NestedAt, Ending
        <3>6. NestedAt(t, i + 1)
            BY <3>5 DEF IInv, Nested
        <3>7. IsTop(t, i + 1)
            BY <3>5, <3>6 DEF NestedAt, Setting
        <3>8. i + 1 = n
            BY <1>n, <3>7 DEF IsTop
        <3> QED
            BY <1>1, <1>c, <3>5, <3>8
    <2> QED
        BY <1>t, <2>2, <2>3 DEF AsGiven
<1>4. /\ EntryOf(s) # 0 => PolicyFor(t, s) = InSlot(s) /\ InSlot(s) # NoBox
      /\ EntryOf(s) = 0 => InSlot(s) = NoBox
      /\ default = given[Default]
    <2>1. s \in Slots /\ s # Default
        BY Assumptions DEF Slots
    <2>2. EntryOf(s) # 0 => InSlot(s) = table[EntryOf(s)].box /\ InSlot(s) # NoBox
        BY <1>t, <2>1, SlotType, Assumptions
    <2> QED
        BY <1>t, <2>1, <2>2 DEF PolicyFor, InSlot, AsGiven
\* The innermost open that has a policy.
<1> DEFINE i == SelectLastInSeq(stack[t], LAMBDA f : f.op = "open" /\ f.box # NoBox)
<1>5. i = IF Opens(t) # {} THEN Max(Opens(t)) ELSE 0
    <2>1. Opens(t) = {j \in 1..Len(stack[t]) : stack[t][j].op = "open" /\ stack[t][j].box # NoBox}
        BY DEF Opens, Depths, At
    <2> QED
        BY <2>1, Zenon DEF SelectLastInSeq
<1>6. /\ Opens(t) = {} => i = 0 /\ threadPolicy[t] = NoBox
      /\ Opens(t) # {} => i # 0 /\ threadPolicy[t] = stack[t][i].box /\ threadPolicy[t] # NoBox
    <2>1. Opens(t) = {} => i = 0 /\ threadPolicy[t] = NoBox
        BY <1>5, <1>t DEF Restores
    <2>2. ASSUME Opens(t) # {}
          PROVE  i # 0 /\ threadPolicy[t] = stack[t][i].box /\ threadPolicy[t] # NoBox
        <3>1. Opens(t) \subseteq 1..n
            BY <1>c DEF Opens
        <3>2. PICK m \in Opens(t) : \A j \in Opens(t) : j <= m
            BY <2>2, <3>1, Latest
        <3>3. Max(Opens(t)) \in Opens(t) /\ \A j \in Opens(t) : j <= Max(Opens(t))
            BY <3>1, <3>2 DEF Max
        <3>4. i \in Opens(t) /\ \A j \in Opens(t) : j <= i
            BY <1>5, <2>2, <3>3
        <3> HIDE DEF i
        <3>5. threadPolicy[t] = At(t, i).box
            BY <1>t, <3>4 DEF Restores
        <3> QED
            BY <3>1, <3>4, <3>5 DEF Opens, At
    <2> QED
        BY <2>1, <2>2
<1>7. Rightful(t) = IF given[s] # NoBox THEN given[s] ELSE IF i # 0 THEN stack[t][i].box ELSE given[Default]
    BY <1>s DEF Rightful
<1> HIDE DEF i
<1> QED
    BY <1>2, <1>3, <1>4, <1>6, <1>7 DEF PolicyFor

\* Unless it borrows the policy of an open it is inside of, that is the one
\* the repository is owed: its own open is the innermost that has one.
LEMMA FoundOwed ==
    ASSUME IInv, NEW t \in Threads, FindPolicy(t), ~Borrows(t)
    PROVE  Rightful(t) \in Owed(t)
<1> DEFINE i == SelectLastInSeq(stack[t], LAMBDA f : f.op = "open" /\ f.box # NoBox)
<1>t. TypeOK
    BY DEF IInv
<1>1. Busy(t) /\ Top(t).op = "read"
    BY DEF FindPolicy, Inside, Locking
<1>n. PICK n \in Nat \ {0} : n = Len(stack[t])
    BY <1>t, <1>1, TopIs
<1>c. /\ n \in Depths(t) /\ Depths(t) = 1..n /\ Top(t) = At(t, n)
      /\ stack[t] \in Seq(Calls) /\ NestedAt(t, n)
    BY <1>t, <1>1, <1>n, TopIs DEF Depths, IInv, Nested, TypeOK
<1>s. PICK s \in Repos : s = Top(t).slot
    BY <1>1, <1>c DEF NestedAt, Reading
<1>2. i = IF Opens(t) # {} THEN Max(Opens(t)) ELSE 0
    <2>1. Opens(t) = {j \in 1..Len(stack[t]) : stack[t][j].op = "open" /\ stack[t][j].box # NoBox}
        BY DEF Opens, Depths, At
    <2> QED
        BY <2>1, Zenon DEF SelectLastInSeq
<1>3. Rightful(t) = IF given[s] # NoBox THEN given[s] ELSE IF i # 0 THEN stack[t][i].box ELSE given[Default]
    BY <1>s DEF Rightful
<1>4. Opens(t) # {} => i \in Opens(t) /\ \A j \in Opens(t) : j <= i
    <2> SUFFICES ASSUME Opens(t) # {} PROVE i \in Opens(t) /\ \A j \in Opens(t) : j <= i
        OBVIOUS
    <2>1. Opens(t) \subseteq 1..n
        BY <1>c DEF Opens
    <2>2. PICK m \in Opens(t) : \A j \in Opens(t) : j <= m
        BY <2>1, Latest
    <2>3. Max(Opens(t)) \in Opens(t) /\ \A j \in Opens(t) : j <= Max(Opens(t))
        BY <2>1, <2>2 DEF Max
    <2> QED
        BY <1>2, <2>3
<1> HIDE DEF i
\* The opens of some repositories that have a policy.
<1>5. ASSUME NEW R
      PROVE  OpenedWith(t, R) = {At(t, j).box : j \in {k \in Opens(t) : At(t, k).slot \in R}}
    <2>1. Frames(t) = {At(t, j) : j \in 1..n}
        <3>1. DOMAIN stack[t] = 1..n
            BY <1>n, <1>c
        <3> QED
            BY <3>1 DEF Frames, ToSet, At
    <2> QED
        BY <1>c, <2>1 DEF OpenedWith, Opens
<1>6. \A j \in Opens(t) : At(t, j).slot \in Repos
    <2> SUFFICES ASSUME NEW j \in Opens(t) PROVE At(t, j).slot \in Repos
        OBVIOUS
    <2>1. NestedAt(t, j) /\ At(t, j).op = "open"
        BY DEF Opens, IInv, Nested
    <2> QED
        BY <2>1 DEF NestedAt, Opening
<1>7. OpenedWith(t, Repos) = {} <=> Opens(t) = {}
    BY <1>5, <1>6
\* An open of this repository has it with this read alone.
<1>8. ASSUME NEW j \in Opens(t), At(t, j).slot = s
      PROVE  j = i
    <2>1. j \in Depths(t) /\ At(t, j).op = "open"
        BY DEF Opens
    <2>2. Uses(t, j, s) /\ Uses(t, n, s)
        BY <1>1, <1>8, <1>c, <1>s, <2>1 DEF Uses
    <2>3. n \in {j, j + 1}
        BY <1>c, <2>1, <2>2 DEF IInv, OneUser
    <2>4. j # n /\ i # n /\ i \in Opens(t) /\ j <= i
        BY <1>1, <1>4, <1>c, <2>1 DEF Opens
    <2>5. i \in 1..n /\ j \in 1..n
        BY <1>c, <2>1, <2>4 DEF Opens
    <2> QED
        BY <2>3, <2>4, <2>5
<1>9. CASE given[s] # NoBox
    BY <1>3, <1>9, <1>s DEF Owed
<1>10. CASE given[s] = NoBox /\ OpenedWith(t, {s}) # {}
    <2>1. PICK j \in Opens(t) : At(t, j).slot = s
        BY <1>10, <1>5
    <2>2. j = i /\ i # 0
        BY <1>8, <1>c, <2>1 DEF Opens
    <2>3. Rightful(t) = At(t, j).box
        BY <1>3, <1>10, <2>2 DEF At
    <2>4. At(t, j).box \in OpenedWith(t, {s})
        BY <1>5, <2>1
    <2> QED
        BY <1>10, <1>s, <2>3, <2>4 DEF Owed
<1>11. CASE given[s] = NoBox /\ OpenedWith(t, {s}) = {}
    <2>1. OpenedWith(t, Repos) = {}
        BY <1>11, <1>s DEF Borrows
    <2>2. i = 0
        BY <1>2, <1>7, <2>1
    <2> QED
        BY <1>3, <1>11, <1>s, <2>2 DEF Owed
<1> QED
    BY <1>9, <1>10, <1>11

\* What an include is asked of is the policy its repository was last given,
\* or the one it is being opened with, or the default: PolicyInForce, at any
\* nesting of callbacks, reads and closes inside them included.
THEOREM PolicyOfOwner == Spec => PolicyInForce
<1>1. IInv /\ [Next]_vars =>
        [\A t \in Threads :
            FindPolicy(t) /\ ~Borrows(t) => Last(stack'[t]).box \in Owed(t)]_vars
    BY FoundRightful, FoundOwed
<1> QED
    BY <1>1, Invariant, PTL DEF Spec, PolicyInForce
=============================================================================
