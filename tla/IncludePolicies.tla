-------------------------- MODULE IncludePolicies --------------------------
(***************************************************************************)
(* The policies that authorise `[include]` files: the table, its lazily    *)
(* made mutex and the retained payloads of config_file_patched.c, with     *)
(* ConfigIncludePolicy.swift and the open and deinit of Repository.swift,  *)
(* which register and remove them.                                         *)
(*                                                                         *)
(* Every repository's config names a file, which names another: its read   *)
(* asks about the first at depth 1 and about the second at depth 2.  A     *)
(* repository is its address, which the next one opened may get.  A        *)
(* payload is the box of a policy, numbered as it is made; a callback      *)
(* answers as it likes; the path it is told is left out.  A handle is used *)
(* by one thread at a time, as Repository.swift asks.                      *)
(***************************************************************************)
EXTENDS Naturals, Sequences, SequencesExt, FiniteSets

CONSTANTS
    Threads,   \* the threads of the program, model values
    Repos,     \* the addresses of repositories, model values
    Default,   \* the slot of the process-wide default, a model value
    NoMutex,   \* the NULL of the mutex's pointer, a model value
    Worlds,    \* what may be called in a behaviour: sets of Happenings
    MaxBoxes,  \* bound: the payloads made
    MaxCalls   \* bound: the calls made, nested ones included

\* "default": setDefault is called; "nested": a callback calls in turn.
Happenings == {"default", "nested"}

ASSUME IncludeAssumption ==
    /\ Default \notin Repos /\ NoMutex \notin Threads
    /\ Worlds \subseteq SUBSET Happenings
    /\ MaxBoxes \in Nat /\ MaxCalls \in Nat

NoBox == 0
Boxes == 1..MaxBoxes
Slots == Repos \cup {Default}

VARIABLES
    lock,         \* the published mutex: the thread that made it
    table,        \* gitkit_policies: a sequence of [repo, box]
    default,      \* gitkit_default_policy
    threadPolicy, \* gitkit_thread_policy of each thread
    refs,         \* the references to each payload
    made,         \* how many payloads were made
    live,         \* the addresses that are allocated
    given,        \* what was last set for each slot's present owner
    stack,        \* the calls each thread is in, the innermost last
    calls,        \* how many calls were made
    world         \* what may be called, chosen once

policies == <<table, default, given>>
payloads == <<refs, made>>
vars == <<lock, policies, threadPolicy, payloads, live, stack, calls, world>>

Init ==
    /\ lock = NoMutex
    /\ table = << >> /\ default = NoBox
    /\ given = [s \in Slots |-> NoBox]
    /\ threadPolicy = [t \in Threads |-> NoBox]
    /\ refs = [b \in Boxes |-> 0] /\ made = 0
    /\ live = {}
    /\ stack = [t \in Threads |-> << >>]
    /\ calls = 0
    /\ world \in Worlds

(***************************************************************************)
(* Calls.  A frame is a call in progress: "read" asks about the includes   *)
(* of slot's config, "set" stores box in slot, "open" and "close" are the  *)
(* Swift calls around them.  at is where it is, depth the include being    *)
(* asked about, mutex what gitkit_policy_lock gave it, other the box to    *)
(* let go or the thread policy to restore.                                 *)
(***************************************************************************)
Frame(op, slot, box, at) ==
    [op |-> op, slot |-> slot, box |-> box, at |-> at, depth |-> 1,
     mutex |-> NoMutex, other |-> NoBox]

Busy(t) == stack[t] # << >>
Top(t) == Last(stack[t])
In(t, op, at) == Busy(t) /\ Top(t).op = op /\ Top(t).at = at
Locking(t, at) == Busy(t) /\ Top(t).op \in {"read", "set"} /\ Top(t).at = at
Frames(t) == ToSet(stack[t])

Pushed(t, frames) == stack' = [stack EXCEPT ![t] = @ \o frames]
Becomes(t, f) == stack' = [stack EXCEPT ![t] = Append(Front(@), f)]
Goes(t, at) == Becomes(t, [Top(t) EXCEPT !.at = at])

\* The call ends, and the one it was made from continues at `at`.
Returns(t, at) ==
    LET rest == Front(stack[t])
    IN  stack' = [stack EXCEPT ![t] =
            IF rest = << >> \/ Last(rest).op = "read" THEN rest
            ELSE Append(Front(rest), [Last(rest) EXCEPT !.at = at])]

\* A thread may call when it is idle or inside a callback that calls.
Free(t) ==
    /\ calls < MaxCalls
    /\ \/ ~Busy(t)
       \/ In(t, "read", "asking") /\ Top(t).box # NoBox /\ "nested" \in world
    /\ calls' = calls + 1

\* The handle of r exists and no other thread is using it.
Usable(t, r) ==
    /\ r \in live
    /\ \A u \in Threads : \A f \in Frames(u) :
        f.slot = r => u = t /\ f.op \notin {"open", "close"}

\* A payload is made with the reference of whoever holds it.
Makes(n) ==
    /\ made + n <= MaxBoxes
    /\ made' = made + n
    /\ refs' = [b \in Boxes |-> IF b \in made + 1..made + n THEN 1
                                ELSE refs[b]]
Released(b) == refs' = [refs EXCEPT ![b] = @ - 1]

(***************************************************************************)
(* gitkit_policy_lock                                                      *)
(***************************************************************************)
LoadLock(t) ==
    /\ Locking(t, "load")
    /\ Becomes(t, IF lock # NoMutex
                  THEN [Top(t) EXCEPT !.at = "enter", !.mutex = lock]
                  ELSE [Top(t) EXCEPT !.at = "publish", !.mutex = t])
    /\ UNCHANGED <<lock, policies, threadPolicy, payloads, live, calls,
                   world>>

\* Mutant: the made mutex is stored without looking.
StoredLock(found, own) == own

\* The compare and swap leaves the mutex another thread published first.
SwappedLock(found, own) == IF found = NoMutex THEN own ELSE found

PublishLock(t) ==
    /\ Locking(t, "publish")
    /\ lock' = SwappedLock(lock, t)
    /\ Becomes(t, [Top(t) EXCEPT !.at = "enter", !.mutex = lock'])
    /\ UNCHANGED <<policies, threadPolicy, payloads, live, calls, world>>

Inside(t) == Locking(t, "inside")

EnterLock(t) ==
    /\ Locking(t, "enter")
    /\ \A u \in Threads : ~(Inside(u) /\ Top(u).mutex = Top(t).mutex)
    /\ Goes(t, "inside")
    /\ UNCHANGED <<lock, policies, threadPolicy, payloads, live, calls,
                   world>>

(***************************************************************************)
(* gitkit_include_stat: a config is read                                   *)
(***************************************************************************)
EntryOf(r) == SelectInSeq(table, LAMBDA e : e.repo = r)

\* gitkit_policy_for: the repository's, the thread's, the default.
PolicyFor(t, r) ==
    IF EntryOf(r) # 0 THEN table[EntryOf(r)].box
    ELSE IF threadPolicy[t] # NoBox THEN threadPolicy[t]
    ELSE default

\* Mutant: the payload is handed out as it is.
NeverRetained(t, r) == FALSE

\* The thread's policy comes without a retain function.
Retained(t, r) == EntryOf(r) # 0 \/ threadPolicy[t] = NoBox

FindPolicy(t) ==
    /\ Inside(t) /\ Top(t).op = "read"
    /\ LET r == Top(t).slot
           found == PolicyFor(t, r)
           kept == IF Retained(t, r) THEN found ELSE NoBox
       IN  /\ refs' = IF kept = NoBox THEN refs
                       ELSE [refs EXCEPT ![kept] = @ + 1]
           /\ Becomes(t, [Top(t) EXCEPT !.at = "asking", !.box = found,
                  !.other = kept])
    /\ UNCHANGED <<lock, policies, threadPolicy, made, live, calls, world>>

\* The callback, if there is one, has answered and its payload is let go; a
\* refusal fails the whole read.
AnswerInclude(t, allowed) ==
    /\ In(t, "read", "asking")
    /\ allowed \/ Top(t).box # NoBox
    /\ IF Top(t).other = NoBox THEN UNCHANGED refs ELSE Released(Top(t).other)
    /\ IF ~allowed THEN Returns(t, "refused")
       ELSE IF Top(t).depth = 2 THEN Returns(t, "opened")
       ELSE Becomes(t, [Frame("read", Top(t).slot, NoBox, "load")
                            EXCEPT !.depth = 2])
    /\ UNCHANGED <<lock, policies, threadPolicy, made, live, calls, world>>

\* A call that reads r's config; a callback may make it as well.
ReadConfig(t, r) ==
    /\ Usable(t, r) /\ Free(t)
    /\ Pushed(t, <<Frame("read", r, NoBox, "load")>>)
    /\ UNCHANGED <<lock, policies, threadPolicy, payloads, live, world>>

(***************************************************************************)
(* gitkit_config_set_include_policy                                        *)
(***************************************************************************)
\* The removed entry's place is taken by the last one.
Without(i) == Front([table EXCEPT ![i] = Last(table)])

InSlot(s) ==
    IF s = Default THEN default
    ELSE IF EntryOf(s) # 0 THEN table[EntryOf(s)].box ELSE NoBox

Stored(s, box) ==
    LET i == EntryOf(s)
    IN  IF i # 0 THEN IF box = NoBox THEN Without(i)
                      ELSE [table EXCEPT ![i].box = box]
        ELSE IF box = NoBox THEN table
        ELSE Append(table, [repo |-> s, box |-> box])

Closing(t) == \E f \in Frames(t) : f.op = "close"

StorePolicy(t) ==
    /\ Inside(t) /\ Top(t).op = "set"
    /\ LET s == Top(t).slot
           box == Top(t).box
       IN  /\ IF s = Default THEN default' = box /\ UNCHANGED table
              ELSE table' = Stored(s, box) /\ UNCHANGED default
           /\ given' = IF Closing(t) THEN given
                       ELSE [given EXCEPT ![s] = box]
           /\ Becomes(t, [Top(t) EXCEPT !.at = "replaced", !.box = NoBox,
                                        !.other = InSlot(s)])
    /\ UNCHANGED <<lock, threadPolicy, payloads, live, calls, world>>

\* What was replaced is let go outside the lock.
ReleaseReplaced(t) ==
    /\ In(t, "set", "replaced")
    /\ IF Top(t).other = NoBox THEN UNCHANGED refs ELSE Released(Top(t).other)
    /\ Returns(t, "stored")
    /\ UNCHANGED <<lock, policies, threadPolicy, made, live, calls, world>>

\* setIncludePolicy and setDefault, with a policy (n = 1) or nil.
SetPolicy(t, s, n) ==
    /\ IF s = Default THEN "default" \in world ELSE Usable(t, s)
    /\ Free(t) /\ Makes(n)
    /\ Pushed(t, <<Frame("set", s, IF n = 1 THEN made' ELSE NoBox, "load")>>)
    /\ UNCHANGED <<lock, policies, threadPolicy, live, world>>

(***************************************************************************)
(* Repository.open and deinit                                              *)
(***************************************************************************)
\* The thread's policy is set, and the open's own read is asked about.
OpenBegins(t, r, n) ==
    /\ r \notin live
    /\ Free(t) /\ Makes(n)
    /\ live' = live \cup {r}
    /\ given' = [given EXCEPT ![r] = NoBox]
    /\ LET box == IF n = 1 THEN made' ELSE NoBox
       IN  /\ threadPolicy' = IF n = 1 THEN [threadPolicy EXCEPT ![t] = box]
                              ELSE threadPolicy
           /\ Pushed(t, <<[Frame("open", r, box, "reading")
                               EXCEPT !.other = threadPolicy[t]],
                          Frame("read", r, NoBox, "load")>>)
    /\ UNCHANGED <<lock, table, default, world>>

\* The repository is open: it gets the policy as its own.
OpenRegisters(t) ==
    /\ In(t, "open", "opened") /\ Top(t).box # NoBox
    /\ Makes(1)
    /\ Pushed(t, <<Frame("set", Top(t).slot, made', "load")>>)
    /\ UNCHANGED <<lock, policies, threadPolicy, live, calls, world>>

\* The defer puts the thread's previous policy back.
OpenEnds(t) ==
    /\ \/ In(t, "open", "stored")
       \/ In(t, "open", "refused")
       \/ In(t, "open", "opened") /\ Top(t).box = NoBox
    /\ IF Top(t).box = NoBox THEN UNCHANGED <<threadPolicy, refs>>
       ELSE /\ threadPolicy' = [threadPolicy EXCEPT ![t] = Top(t).other]
            /\ Released(Top(t).box)
    /\ live' = IF Top(t).at = "refused" THEN live \ {Top(t).slot} ELSE live
    /\ Returns(t, "none")
    /\ UNCHANGED <<lock, policies, made, calls, world>>

\* Mutant: the repository is freed before its policy is removed.
FreeFirst == <<"free", "unset">>

CloseParts == <<"unset", "free">>

\* The last reference goes, which may be inside a callback.
CloseBegins(t, r) ==
    /\ Usable(t, r) /\ Free(t)
    /\ \A f \in Frames(t) : f.slot # r
    /\ Pushed(t, <<[Frame("close", r, NoBox, "stored")
                       EXCEPT !.other = given[r]]>>)
    /\ UNCHANGED <<lock, policies, threadPolicy, payloads, live, world>>

\* The next part of deinit; a handle without a policy removes none.
CloseGoesOn(t) ==
    /\ In(t, "close", "stored")
    /\ LET f == Top(t)
           counted == [f EXCEPT !.depth = @ + 1]
           rest == Front(stack[t])
       IN  IF f.depth > Len(CloseParts)
           THEN stack' = [stack EXCEPT ![t] = rest] /\ UNCHANGED live
           ELSE IF CloseParts[f.depth] = "free"
           THEN live' = live \ {f.slot} /\ Becomes(t, counted)
           ELSE /\ UNCHANGED live
                /\ IF f.other = NoBox THEN Becomes(t, counted)
                   ELSE stack' = [stack EXCEPT ![t] = rest \o
                           <<counted, Frame("set", f.slot, NoBox, "load")>>]
    /\ UNCHANGED <<lock, policies, threadPolicy, payloads, calls, world>>

Next ==
    \E t \in Threads :
        \/ LoadLock(t) \/ PublishLock(t) \/ EnterLock(t)
        \/ FindPolicy(t) \/ StorePolicy(t) \/ ReleaseReplaced(t)
        \/ \E allowed \in BOOLEAN : AnswerInclude(t, allowed)
        \/ \E s \in Slots, n \in 0..1 : SetPolicy(t, s, n)
        \/ \E r \in Repos : ReadConfig(t, r) \/ CloseBegins(t, r)
        \/ \E r \in Repos, n \in 0..1 : OpenBegins(t, r, n)
        \/ OpenRegisters(t) \/ OpenEnds(t) \/ CloseGoesOn(t)

Spec == Init /\ [][Next]_vars

----------------------------------------------------------------------------
\* The mutex is made on first use by whichever threads come first, and two
\* of them are still never inside it together: the losers of the race throw
\* theirs away (gitkit_policy_lock).
OneInside ==
    \A t, u \in Threads : Inside(t) /\ Inside(u) => t = u

\* A payload the table, the default, a thread's policy or a running callback
\* refers to is never freed, whoever replaces or removes it meanwhile; and
\* once no call is in progress only what is registered is still kept.
PayloadsKept ==
    LET registered == {e.box : e \in ToSet(table)} \cup {default}
        asked == UNION {{f.box : f \in Frames(t)} : t \in Threads}
        thread == {threadPolicy[t] : t \in Threads}
        used == (registered \cup asked \cup thread) \ {NoBox}
    IN  /\ \A b \in used : refs[b] > 0
        /\ (\A t \in Threads : ~Busy(t)) =>
            \A b \in Boxes : (refs[b] > 0) <=> b \in registered

\* What an include is asked of: the policy its repository was last given;
\* while it is being opened, the one it is opened with; or the default;
\* never a policy of an earlier repository at the same address, and never
\* that of a repository another thread opens.  Nothing is claimed of a
\* repository without a policy of its own that is read inside the callback
\* of another one's open: gitkit_policy_for gives it that open's.
OpenedWith(t, repos) ==
    {f.box : f \in {g \in Frames(t) : g.op = "open" /\ g.slot \in repos}}
        \ {NoBox}

Owed(t) ==
    LET r == Top(t).slot
    IN  IF given[r] # NoBox THEN {given[r]}
        ELSE IF OpenedWith(t, {r}) # {} THEN OpenedWith(t, {r})
        ELSE {given[Default]}

Borrows(t) ==
    /\ given[Top(t).slot] = NoBox
    /\ OpenedWith(t, {Top(t).slot}) = {} /\ OpenedWith(t, Repos) # {}

PolicyInForce ==
    [][\A t \in Threads :
           FindPolicy(t) /\ ~Borrows(t) => Last(stack'[t]).box \in Owed(t)]_vars

----------------------------------------------------------------------------
(* What the proofs add to the properties.                                  *)

Boxed == {NoBox} \cup Boxes
Moments == {"load", "publish", "enter", "inside", "asking", "replaced",
            "reading", "opened", "refused", "stored"}
Calls == [op : {"read", "set", "open", "close"}, slot : Slots, box : Boxed,
          at : Moments, depth : 1..3, mutex : Threads \cup {NoMutex},
          other : Boxed]

TypeOK ==
    /\ lock \in Threads \cup {NoMutex}
    /\ table \in Seq([repo : Repos, box : Boxes])
    /\ default \in Boxed
    /\ threadPolicy \in [Threads -> Boxed]
    /\ refs \in [Boxes -> Nat]
    /\ made \in 0..MaxBoxes
    /\ live \subseteq Repos
    /\ given \in [Slots -> Boxed]
    /\ stack \in [Threads -> Seq(Calls)]

At(t, i) == stack[t][i]
Depths(t) == 1..Len(stack[t])
IsTop(t, i) == i = Len(stack[t])

\* How the calls a thread is in are nested: a lookup or an update is made
\* from a callback, or is the part of an open or a close that goes on.
Locked == {"load", "publish", "enter", "inside"}

Reading(t, i) ==
    LET f == At(t, i)
    IN  /\ f.slot \in Repos
        /\ f.at \in Locked \cup {"asking"}
        /\ f.at # "asking" => f.box = NoBox
        /\ f.other \in {NoBox, f.box}
        /\ ~IsTop(t, i) => f.at = "asking" /\ f.box # NoBox

Setting(t, i) ==
    LET f == At(t, i)
    IN  /\ f.at \in Locked \cup {"replaced"}
        /\ IsTop(t, i)
        /\ f.at = "replaced" => f.box = NoBox

Opening(t, i) ==
    LET f == At(t, i)
    IN  /\ f.slot \in Repos
        /\ f.at \in {"reading", "opened", "refused", "stored"}
        /\ IF IsTop(t, i) THEN f.at # "reading"
           ELSE /\ At(t, i + 1).slot = f.slot
                /\ \/ f.at = "reading" /\ At(t, i + 1).op = "read"
                   \/ f.at = "opened" /\ At(t, i + 1).op = "set"

Ending(t, i) ==
    LET f == At(t, i)
    IN  /\ f.slot \in Repos
        /\ f.at = "stored" /\ f.box = NoBox
        /\ ~IsTop(t, i) => /\ f.depth = 2
                           /\ At(t, i + 1).op = "set" /\ At(t, i + 1).slot = f.slot
                           /\ At(t, i + 1).box = NoBox

NestedAt(t, i) ==
    /\ At(t, i).op = "read" => Reading(t, i)
    /\ At(t, i).op = "set" => Setting(t, i)
    /\ At(t, i).op = "open" => Opening(t, i)
    /\ At(t, i).op = "close" => Ending(t, i)

Nested == \A t \in Threads : \A i \in Depths(t) : NestedAt(t, i)

\* Whoever waits for the mutex or is inside has the one that was published.
OneMutex ==
    \A t \in Threads : \A i \in Depths(t) :
        At(t, i).at \in {"enter", "inside"} => lock # NoMutex /\ At(t, i).mutex = lock

\* A repository is in the hands of one thread, and is not freed while it is;
\* one that is being opened or closed is in the hands of that call alone.  A
\* close that has freed it has let it go.
Uses(t, i, r) ==
    /\ i \in Depths(t) /\ At(t, i).slot = r
    /\ ~(At(t, i).op = "close" /\ At(t, i).depth = 3)

OneUser ==
    \A t \in Threads : \A i \in Depths(t) : \A r \in Repos : Uses(t, i, r) =>
        /\ r \in live
        /\ \A u \in Threads : \A j \in Depths(u) : Uses(u, j, r) =>
            u = t /\ (At(t, i).op \in {"open", "close"} => j \in {i, i + 1})

\* The table has one entry of a repository.
OneEntry ==
    \A i, j \in 1..Len(table) : table[i].repo = table[j].repo => i = j

\* A slot holds what it was last given, and what is closed is out of the
\* table before its address is free.
Unset(t, r) ==
    \E i \in Depths(t) : /\ At(t, i).op = "close" /\ At(t, i).slot = r
                         /\ At(t, i).depth = 2

GivenAt(t, i) ==
    LET f == At(t, i)
    IN  /\ f.op = "open" /\ f.at \in {"reading", "refused"} => given[f.slot] = NoBox
        /\ f.op = "close" /\ f.depth = 1 => f.other = given[f.slot]
        /\ f.op = "close" /\ f.depth = 2 /\ (IsTop(t, i) \/ At(t, i + 1).at = "replaced") =>
            InSlot(f.slot) = NoBox

AsGiven ==
    /\ default = given[Default]
    /\ \A r \in Repos \ live : InSlot(r) = NoBox
    /\ \A r \in live : (\A t \in Threads : ~Unset(t, r)) => InSlot(r) = given[r]
    /\ \A t \in Threads : \A i \in Depths(t) : GivenAt(t, i)

\* A thread's policy is that of its innermost open that has one, and each
\* such open keeps the one it replaced.
Opens(t) == {i \in Depths(t) : At(t, i).op = "open" /\ At(t, i).box # NoBox}

Restores(t) ==
    /\ Opens(t) = {} => threadPolicy[t] = NoBox
    /\ \A i \in Opens(t) :
        /\ (\A j \in Opens(t) : j <= i) => threadPolicy[t] = At(t, i).box
        /\ (\A j \in Opens(t) : j >= i) => At(t, i).other = NoBox
        /\ \A j \in Opens(t) :
            i < j /\ (\A k \in Opens(t) : k <= i \/ k >= j) => At(t, j).other = At(t, i).box

\* A callback that was handed a payload without a reference is run inside
\* the open that has it.
Lent(t, i) ==
    At(t, i).op = "read" /\ At(t, i).box # NoBox /\ At(t, i).other = NoBox =>
        \E j \in Opens(t) : j < i /\ At(t, j).box = At(t, i).box

Stacked == \A t \in Threads : Restores(t) /\ \A i \in Depths(t) : Lent(t, i)

\* Every reference to a payload is held by a slot or by one call.
Held(f) ==
    CASE f.op = "read"  -> f.other
      [] f.op = "set"   -> IF f.at = "replaced" THEN f.other ELSE f.box
      [] f.op = "open"  -> f.box
      [] f.op = "close" -> NoBox

Keeping(b) == {s \in Slots : InSlot(s) = b}
HeldAt(t, i) == IF i \in Depths(t) THEN Held(At(t, i)) ELSE NoBox
Holding(b) == {c \in Threads \X Nat : HeldAt(c[1], c[2]) = b}

Counted ==
    \A b \in Boxes :
        /\ IsFiniteSet(Keeping(b)) /\ IsFiniteSet(Holding(b))
        /\ refs[b] = Cardinality(Keeping(b)) + Cardinality(Holding(b))
        /\ b > made => refs[b] = 0

IInv ==
    /\ TypeOK /\ Nested /\ OneMutex /\ OneInside /\ OneUser
    /\ OneEntry /\ AsGiven /\ Stacked /\ Counted
============================================================================
