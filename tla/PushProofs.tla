------------------------------- MODULE PushProofs -------------------------------
(***************************************************************************)
(* Push, for any clients, refs, commits and requests: PInv is inductive,   *)
(* so no push takes from the remote what it was not shown, and what it     *)
(* tells its caller in the end is true.                                    *)
(***************************************************************************)
EXTENDS Push, TLAPS

-----------------------------------------------------------------------------
(* Types.                                                                  *)

\* A push starts from a record of a call.
LEMMA NewCallType ==
    ASSUME NEW r \in AllRequests
    PROVE  NewCall(r) \in Calls
<1>1. Absent \in Values /\ Uncovered \in Values \cup {Uncovered}
    BY DEF Values
<1>2. /\ r.want \in [Refs -> Wishes] /\ r.mode \in {"none", "one", "many"}
      /\ r.short \in SUBSET Refs
      /\ r.lease \in [Refs -> Expectations] /\ r.setUpstream \in BOOLEAN
    BY DEF AllRequests
<1>3. "none" \in Reasons
    BY DEF Reasons
<1> QED
    BY <1>1, <1>2, <1>3 DEF NewCall, Calls

\* So does the record of no call.
LEMMA NoCallType == NoCall \in Calls
<1> DEFINE r == [want |-> [d \in Refs |-> "no"], short |-> {}, mode |-> "none",
                 lease |-> [d \in Refs |-> Uncovered], setUpstream |-> FALSE]
<1>1. r \in AllRequests
    BY DEF AllRequests, Wishes, Expectations
<1> HIDE DEF r
<1>2. NewCall(r) \in Calls
    BY <1>1, NewCallType
<1> QED
    BY <1>2 DEF NoCall, r

\* The locals of one call are assigned values of their types.
LEMMA CallType ==
    ASSUME TypeOK, NEW c \in Clients, NEW k \in Calls, call' = [call EXCEPT ![c] = k]
    PROVE  call' \in [Clients -> Calls]
BY DEF TypeOK

\* A client that goes on is somewhere the code has a name for.
LEMMA GotoType ==
    ASSUME TypeOK, NEW c \in Clients, NEW l \in Control, Goto(c, l)
    PROVE  pc' \in [Clients -> Control] /\ pc'[c] = l
BY DEF TypeOK, Goto

\* Returning keeps the types: what was sent stays sent.
LEMMA ReturnType ==
    ASSUME TypeOK, NEW c \in Clients, Return(c)
    PROVE  TypeOK'
<1>1. call' \in [Clients -> Calls]
    BY NoCallType, CallType DEF Return
<1>2. flight' \in SUBSET Updates
    <2>1. ASSUME NEW u \in flight PROVE [u EXCEPT !.live = FALSE] \in Updates
        BY DEF TypeOK, Updates
    <2> QED
        BY <2>1 DEF Return, TypeOK
<1>3. pc' \in [Clients -> Control]
    BY GotoType DEF Return, Control
<1> QED
    BY <1>1, <1>2, <1>3 DEF Return, TypeOK, clientVars

\* What an update of d sends is a value.
LEMMA SourceType ==
    ASSUME TypeOK, NEW c \in Clients, NEW d \in Refs
    PROVE  Source(c, d) \in Values /\ local[c][d] \in Values /\ call[c].adv[d] \in Values
BY DEF TypeOK, Source, Values, Calls

\* What a lease expects is a value, or it covers nothing.
LEMMA ExpectationType ==
    ASSUME TypeOK, NEW c \in Clients, NEW d \in Refs
    PROVE  Expectation(c, d) \in Values \cup {Uncovered}
<1>1. call[c].lease[d] \in Expectations
    BY DEF TypeOK, Calls
<1>2. d \in Tracked => tracking[c][d] \in Values
    BY DEF TypeOK
<1> QED
    BY <1>1, <1>2 DEF Expectation, Expectations, Values

\* git's rules give a reason.
LEMMA RejectionType ==
    ASSUME NEW c, NEW d
    PROVE  Rejection(c, d) \in Reasons
BY DEF Rejection, Reasons

-----------------------------------------------------------------------------
(* What one client's step leaves of the others.                            *)

\* The part of TrueVerdict, and of the invariant, that is about one client.
Verdict(c) ==
    pc[c] = "upstream" =>
        /\ call[c].pushed = Open(c)
        /\ Reporting => call[c].pushed = call[c].took
        /\ \A d \in call[c].took : call[c].why[d] \in {"none", "remoteFailure"}

Good(c) == Settling(c) /\ Reported(c) /\ Verdict(c)

\* The invariant, client by client.
LEMMA PInvParts ==
    /\ PInv <=> TypeOK /\ (\A c \in Clients : Good(c)) /\ \A u \in flight : Flying(u)
    /\ PInv' <=> TypeOK' /\ (\A c \in Clients : Good(c)') /\ \A u \in flight' : Flying(u)'
BY DEF PInv, Good, Verdict, TrueVerdict, Open

\* A client is as it was when its call is, and what it has in flight.
LEMMA GoodFrame ==
    ASSUME NEW b \in Clients, Good(b), pc'[b] = pc[b], call'[b] = call[b],
           \A u \in flight : u.client = b /\ u.live => u \in flight'
    PROVE  Good(b)'
<1>1. Settling(b)' /\ Verdict(b)'
    BY DEF Good, Settling, Verdict, Open, Wanted
<1>2. Reported(b)'
    BY DEF Good, Reported, Open, Wanted, Update
<1> QED
    BY <1>1, <1>2 DEF Good

\* So is an update under way.
LEMMA FlyingFrame ==
    ASSUME NEW u, Flying(u), u.live => pc'[u.client] = pc[u.client] /\ call'[u.client] = call[u.client]
    PROVE  Flying(u)'
BY DEF Flying, Licensed, Update

\* A step of a client that waits for nothing, and sends nothing.
LEMMA Advance ==
    ASSUME PInv, TypeOK', NEW c \in Clients, pc[c] # "wait",
           \A b \in Clients \ {c} : pc'[b] = pc[b] /\ call'[b] = call[b],
           flight' = flight, Good(c)'
    PROVE  PInv'
<1>1. \A b \in Clients : Good(b)'
    BY GoodFrame, PInvParts
<1>2. ASSUME NEW u \in flight PROVE Flying(u)'
    <2>1. u.client \in Clients /\ Flying(u)
        BY PInvParts DEF TypeOK, Updates
    <2>2. u.live => u.client # c
        BY <2>1 DEF Flying
    <2> QED
        BY <2>1, <2>2, FlyingFrame
<1> QED
    BY <1>1, <1>2, PInvParts

\* A step that is nothing to any call.
LEMMA Aside ==
    ASSUME PInv, TypeOK', UNCHANGED <<pc, call, flight>>
    PROVE  PInv'
<1>1. \A b \in Clients : Good(b)'
    BY GoodFrame, PInvParts
<1>2. \A u \in flight : Flying(u)'
    BY FlyingFrame, PInvParts
<1> QED
    BY <1>1, <1>2, PInvParts

\* A call that returns leaves what it sent without an answer, licensed.
LEMMA ReturnInv ==
    ASSUME PInv, NEW c \in Clients, Return(c)
    PROVE  PInv'
<1>t. TypeOK /\ TypeOK'
    BY ReturnType, PInvParts
<1>1. pc'[c] = "idle" /\ \A b \in Clients \ {c} : pc'[b] = pc[b] /\ call'[b] = call[b]
    BY <1>t DEF Return, Goto, TypeOK
<1>2. flight' = {u \in flight : u.client # c}
                    \cup {[u EXCEPT !.live = FALSE] : u \in {v \in flight : v.client = c}}
    BY DEF Return
<1>3. Good(c)'
    BY <1>1 DEF Good, Settling, Reported, Verdict
<1>4. ASSUME NEW b \in Clients \ {c} PROVE Good(b)'
    BY <1>1, <1>2, GoodFrame, PInvParts
<1>5. ASSUME NEW u \in flight' PROVE Flying(u)'
    <2>1. CASE u \in flight /\ u.client # c
        <3>1. u.client \in Clients
            BY <2>1, <1>t DEF TypeOK, Updates
        <3> QED
            BY <2>1, <3>1, <1>1, FlyingFrame, PInvParts
    <2>2. ASSUME NEW v \in flight, v.client = c, u = [v EXCEPT !.live = FALSE] PROVE Flying(u)'
        <3>1. v \in Updates /\ Licensed(v)
            BY <1>t, PInvParts DEF TypeOK, Flying
        <3>2. /\ ~u.live /\ u.old = v.old /\ u.new = v.new /\ u.wish = v.wish
              /\ u.expected = v.expected
            BY <2>2, <3>1 DEF Updates
        <3> QED
            BY <3>1, <3>2 DEF Flying, Licensed
    <2> QED
        BY <1>2, <2>1, <2>2
<1> QED
    BY <1>t, <1>3, <1>4, <1>5, PInvParts

-----------------------------------------------------------------------------
(* The steps of a push.                                                    *)

\* pushPlan.
LEMMA BeginInv ==
    ASSUME PInv, NEW c \in Clients, NEW r \in Requests, Begin(c, r)
    PROVE  PInv'
<1>t. TypeOK /\ NewCall(r) \in Calls
    BY NewCallType, PushAssumption, PInvParts
<1>1. CASE UNCHANGED <<pc, call>>
    <2>1. TypeOK'
        BY <1>1, <1>t DEF Begin, TypeOK, clientVars
    <2> QED
        BY <1>1, <2>1, Aside DEF Begin
<1>2. CASE call' = [call EXCEPT ![c] = NewCall(r)] /\ Goto(c, "connect")
    <2>1. pc' \in [Clients -> Control] /\ pc'[c] = "connect" /\ call' \in [Clients -> Calls]
        BY <1>2, <1>t, GotoType, CallType DEF Control
    <2>2. TypeOK'
        BY <1>t, <2>1 DEF Begin, TypeOK, clientVars
    <2>3. call'[c] = NewCall(r)
        BY <1>2, <1>t DEF TypeOK
    <2>4. Good(c)'
        <3>1. /\ call'[c].took = {} /\ \A d \in Refs : call'[c].reports[d] = "none"
              /\ call'[c].want = r.want /\ call'[c].mode = r.mode
              /\ call'[c].plus = {d \in Refs : r.want[d] = "force" \/ (r.mode = "one" /\ r.want[d] # "no")}
            BY <2>3 DEF NewCall
        <3> QED
            BY <2>1, <3>1 DEF Good, Settling, Reported, Verdict
    <2>5. \A b \in Clients \ {c} : pc'[b] = pc[b] /\ call'[b] = call[b]
        BY <1>2, <1>t DEF TypeOK, Goto
    <2> QED
        BY <2>2, <2>4, <2>5, Advance DEF Begin
<1> QED
    BY <1>1, <1>2 DEF Begin

\* git_remote_connect.
LEMMA ConnectInv ==
    ASSUME PInv, NEW c \in Clients, Connect(c)
    PROVE  PInv'
<1>t. TypeOK /\ call[c] \in Calls /\ Good(c)
    BY PInvParts DEF TypeOK
<1>1. CASE Return(c)
    BY <1>1, ReturnInv
<1>2. CASE ~Return(c)
    <2> DEFINE k == [call[c] EXCEPT !.adv = remote]
    <2>1. /\ call' = [call EXCEPT ![c] = k] /\ Goto(c, "leases") /\ pc[c] = "connect"
          /\ UNCHANGED <<remote, clientVars, flight, moves>>
        BY <1>2 DEF Connect
    <2>2. /\ k \in Calls
          /\ k.want = call[c].want /\ k.mode = call[c].mode /\ k.plus = call[c].plus
          /\ k.took = call[c].took /\ k.reports = call[c].reports
        BY <1>t DEF Calls, TypeOK
    <2> HIDE DEF k
    <2>3. pc'[c] = "leases" /\ call'[c] = k /\ TypeOK'
        BY <2>1, <2>2, <1>t, GotoType, CallType DEF TypeOK, Control, clientVars
    <2>4. Good(c)'
        BY <2>1, <2>2, <2>3, <1>t DEF Good, Settling, Reported, Verdict
    <2>5. \A b \in Clients \ {c} : pc'[b] = pc[b] /\ call'[b] = call[b]
        BY <2>1, <1>t DEF TypeOK, Goto
    <2> QED
        BY <2>1, <2>3, <2>4, <2>5, Advance
<1> QED
    BY <1>1, <1>2

\* leasedPushRefspecs: a lease forces an update only where it holds.
LEMMA SettleLeasesInv ==
    ASSUME PInv, NEW c \in Clients, SettleLeases(c)
    PROVE  PInv'
<1>t. TypeOK /\ call[c] \in Calls /\ Good(c)
    BY PInvParts DEF TypeOK
<1> DEFINE kept  == {d \in Leased(c) : Holds(c, d)}
           stale == Leased(c) \ kept
           noted == Leased(c) \cup (IF call[c].mode = "one" THEN Wanted(c) ELSE {})
           why   == [d \in Refs |-> IF d \in stale THEN "stale" ELSE "none"]
           exp   == [d \in Refs |-> IF d \in noted THEN Expectation(c, d) ELSE Uncovered]
           k == [call[c] EXCEPT !.plus = call[c].plus \cup kept, !.why = why, !.expected = exp]
<1>0. Wanted(c) \subseteq Refs /\ Leased(c) \subseteq Wanted(c)
    BY DEF Wanted, Leased
<1>1. /\ call' = [call EXCEPT ![c] = k] /\ Goto(c, "rules") /\ pc[c] = "leases"
      /\ UNCHANGED <<remote, clientVars, flight, moves>>
    BY DEF SettleLeases
<1>2. why \in [Refs -> Reasons] /\ exp \in [Refs -> Values \cup {Uncovered}]
    BY <1>t, ExpectationType DEF Reasons
<1>3. /\ k \in Calls
      /\ k.want = call[c].want /\ k.mode = call[c].mode /\ k.adv = call[c].adv
      /\ k.plus = call[c].plus \cup kept /\ k.why = why /\ k.expected = exp
      /\ k.took = call[c].took /\ k.reports = call[c].reports
    <2>1. call[c].plus \cup kept \in SUBSET Refs
        BY <1>t, <1>0 DEF Calls
    <2> HIDE DEF why, exp, kept
    <2> QED
        BY <1>t, <1>2, <2>1 DEF Calls
<1> HIDE DEF k
<1>4. pc'[c] = "rules" /\ call'[c] = k /\ TypeOK'
    BY <1>1, <1>3, <1>t, GotoType, CallType DEF TypeOK, Control, clientVars
<1>5. Good(c)'
    <2>1. ASSUME NEW d \in Wanted(c), why[d] = "none"
          PROVE  /\ \/ k.mode = "one"
                    \/ k.expected[d] = Uncovered
                    \/ d \in k.plus /\ k.expected[d] = k.adv[d]
                 /\ d \in k.plus => \/ k.want[d] = "force"
                                    \/ k.mode = "one"
                                    \/ k.expected[d] = k.adv[d]
        <3>1. d \in Refs /\ d \notin stale
            BY <2>1, <1>0
        <3>2. CASE d \in kept
            <4>1. exp[d] = Expectation(c, d) /\ Expectation(c, d) = call[c].adv[d]
                BY <3>1, <3>2 DEF Holds
            <4> QED
                BY <3>2, <4>1, <1>3
        <3>3. CASE d \notin kept
            <4>1. d \notin Leased(c)
                BY <3>1, <3>3
            <4>2. call[c].mode # "one" => exp[d] = Uncovered
                BY <3>1, <4>1
            <4>3. d \in call[c].plus => call[c].want[d] = "force" \/ call[c].mode = "one"
                BY <1>1, <1>t DEF Good, Settling
            <4> QED
                BY <3>3, <4>2, <4>3, <1>3
        <3> QED
            BY <3>2, <3>3
    <2>2. Open(c)' = {d \in Wanted(c) : why[d] = "none"}
        BY <1>3, <1>4 DEF Open, Wanted
    <2> HIDE DEF why, exp, kept, stale, noted
    <2>3. Settling(c)'
        BY <2>1, <2>2, <1>4 DEF Settling
    <2> QED
        BY <2>3, <1>1, <1>3, <1>4, <1>t DEF Good, Reported, Verdict
<1>6. \A b \in Clients \ {c} : pc'[b] = pc[b] /\ call'[b] = call[b]
    BY <1>1, <1>t DEF TypeOK, Goto
<1> QED
    BY <1>1, <1>4, <1>5, <1>6, Advance

\* partitionedPushRefspecs.
LEMMA ApplyRulesInv ==
    ASSUME PInv, NEW c \in Clients, ApplyRules(c)
    PROVE  PInv'
<1>t. TypeOK /\ call[c] \in Calls /\ Good(c)
    BY PInvParts DEF TypeOK
<1>1. CASE Return(c)
    BY <1>1, ReturnInv
<1>2. CASE ~Return(c)
    <2> DEFINE accepted == {d \in Open(c) : Rejection(c, d) = "none"}
               why == [d \in Refs |-> IF d \in Open(c) THEN Rejection(c, d) ELSE call[c].why[d]]
               k == [call[c] EXCEPT !.accepted = accepted, !.why = why]
    <2>0. Wanted(c) \subseteq Refs /\ Open(c) \subseteq Wanted(c)
        BY DEF Wanted, Open
    <2>1. /\ call' = [call EXCEPT ![c] = k] /\ pc[c] = "rules"
          /\ Goto(c, IF accepted = {} THEN "settle" ELSE "send")
          /\ UNCHANGED <<remote, clientVars, flight, moves>>
        BY <1>2 DEF ApplyRules, Open
    <2>2. why \in [Refs -> Reasons]
        BY <1>t, RejectionType DEF Calls
    <2>3. /\ k \in Calls
          /\ k.want = call[c].want /\ k.mode = call[c].mode /\ k.adv = call[c].adv
          /\ k.plus = call[c].plus /\ k.expected = call[c].expected
          /\ k.took = call[c].took /\ k.reports = call[c].reports
          /\ k.why = why /\ k.accepted = accepted
        <3>1. accepted \in SUBSET Refs
            BY <2>0
        <3> HIDE DEF why, accepted
        <3> QED
            BY <1>t, <2>2, <3>1 DEF Calls
    <2>4. Open(c)' = {d \in Wanted(c) : k.why[d] = "none"}
        BY <2>1, <2>3, <1>t DEF Open, Wanted, TypeOK
    <2>5. accepted = {d \in Wanted(c) : why[d] = "none"}
        <3>1. ASSUME NEW d \in Wanted(c) PROVE why[d] = "none" <=> d \in accepted
            <4>1. d \in Open(c) => why[d] = Rejection(c, d)
                BY <2>0
            <4>2. d \notin Open(c) => why[d] = call[c].why[d] /\ call[c].why[d] # "none"
                BY <2>0 DEF Open
            <4> QED
                BY <4>1, <4>2
        <3> QED
            BY <2>0, <3>1
    <2>6. k.accepted = Open(c)'
        BY <2>3, <2>4, <2>5
    <2> HIDE DEF k, why
    <2>7. /\ pc'[c] = IF accepted = {} THEN "settle" ELSE "send"
          /\ pc' \in [Clients -> Control] /\ call'[c] = k /\ call' \in [Clients -> Calls]
        BY <2>1, <2>3, <1>t, GotoType, CallType DEF TypeOK, Control
    <2>8. TypeOK'
        BY <2>1, <2>7, <1>t DEF TypeOK, clientVars
    <2>9. accepted \subseteq Open(c)
        OBVIOUS
    <2>10. Settling(c)'
        <3>1. \A d \in Open(c)' : d \in Open(c)
            BY <2>3, <2>6, <2>9
        <3>2. \A d \in Open(c) :
                /\ \/ k.mode = "one"
                   \/ k.expected[d] = Uncovered
                   \/ d \in k.plus /\ k.expected[d] = k.adv[d]
                /\ d \in k.plus => \/ k.want[d] = "force"
                                   \/ k.mode = "one"
                                   \/ k.expected[d] = k.adv[d]
            BY <2>1, <2>3, <1>t DEF Good, Settling
        <3> QED
            BY <2>7, <3>1, <3>2 DEF Settling
    <2>11. Reported(c)'
        <3>1. call[c].took = {} /\ \A d \in Refs : call[c].reports[d] = "none"
            BY <2>1, <1>t DEF Good, Reported
        <3> QED
            BY <2>3, <2>6, <2>7, <3>1 DEF Reported
    <2>12. Good(c)'
        BY <2>7, <2>10, <2>11 DEF Good, Verdict
    <2>13. \A b \in Clients \ {c} : pc'[b] = pc[b] /\ call'[b] = call[b]
        BY <2>1, <1>t DEF TypeOK, Goto
    <2> QED
        BY <2>1, <2>8, <2>12, <2>13, Advance
<1> QED
    BY <1>1, <1>2

\* sendPush: with leases and rules settled on the advertised values, what is
\* sent is licensed.
LEMMA SendInv ==
    ASSUME PInv, NEW c \in Clients, Send(c)
    PROVE  PInv'
<1>t. TypeOK /\ call[c] \in Calls /\ Good(c)
    BY PInvParts DEF TypeOK
<1>1. CASE Return(c)
    BY <1>1, ReturnInv
<1>2. CASE ~Return(c)
    <2> DEFINE sent == [d \in Refs |-> Source(c, d)]
               k == [call[c] EXCEPT !.sent = sent]
    <2>1. /\ call' = [call EXCEPT ![c] = k] /\ Goto(c, "wait") /\ pc[c] = "send"
          /\ flight' = flight \cup Sent(c)
          /\ UNCHANGED <<remote, clientVars, moves>>
          /\ ~Gone(c, call[c].accepted) /\ ~RefusedByLibgit2(c) /\ LeaseVerified(c)
        BY <1>2 DEF Send
    <2>a. call[c].accepted = Open(c) /\ Open(c) \subseteq Refs /\ Open(c) \subseteq Wanted(c)
        BY <2>1, <1>t DEF Good, Reported, Open, Wanted
    <2>2. sent \in [Refs -> Values]
        BY <1>t, SourceType
    <2>3. /\ k \in Calls
          /\ k.want = call[c].want /\ k.mode = call[c].mode /\ k.adv = call[c].adv
          /\ k.plus = call[c].plus /\ k.expected = call[c].expected /\ k.why = call[c].why
          /\ k.took = call[c].took /\ k.reports = call[c].reports
          /\ k.accepted = call[c].accepted /\ k.sent = sent
        <3> HIDE DEF sent
        <3> QED
            BY <1>t, <2>2 DEF Calls
    <2> HIDE DEF k
    <2>4. /\ pc'[c] = "wait" /\ pc' \in [Clients -> Control]
          /\ call'[c] = k /\ call' \in [Clients -> Calls]
        BY <2>1, <2>3, <1>t, GotoType, CallType DEF TypeOK, Control
    <2> DEFINE upd(d) == [client |-> c, live |-> TRUE, dst |-> d, old |-> call[c].adv[d],
                          new |-> Source(c, d), wish |-> call[c].want[d],
                          expected |-> call[c].expected[d]]
    <2>5. /\ Sent(c) = {upd(d) : d \in call[c].accepted}
          /\ \A d \in call[c].accepted : Update(c, d)' = upd(d)
        BY <2>a, <2>3, <2>4 DEF Update, Sent
    <2>6. ASSUME NEW d \in call[c].accepted, NEW u, u = upd(d)
          PROVE  u \in Updates /\ Flying(u)'
        <3>1. /\ u.client = c /\ u.live /\ u.dst = d /\ u.old = call[c].adv[d]
              /\ u.new = Source(c, d) /\ u.wish = call[c].want[d]
              /\ u.expected = call[c].expected[d]
            BY <2>6
        <3>2. /\ d \in Refs /\ call[c].adv[d] \in Values /\ Source(c, d) \in Values
              /\ call[c].want[d] \in Wishes /\ call[c].expected[d] \in Values \cup {Uncovered}
              /\ call[c].want[d] # "no" /\ call[c].why[d] = "none"
            BY <2>a, <1>t, SourceType DEF Calls, Open, Wanted
        <3>3. u \in Updates
            BY <2>6, <3>2 DEF Updates
        <3>4. Licensed(u)
            <4>1. CASE call[c].adv[d] = Absent
                BY <3>1, <4>1 DEF Licensed
            <4>2. ASSUME Source(c, d) = call[c].adv[d], call[c].adv[d] # Absent PROVE Licensed(u)
                BY <3>1, <4>2 DEF Licensed, FastForward
            <4>3. CASE call[c].expected[d] = call[c].adv[d]
                BY <3>1, <4>3 DEF Licensed
            <4>4. CASE call[c].mode = "one"
                BY <2>1, <4>1, <4>2, <4>3, <4>4 DEF LeaseVerified
            <4>5. CASE /\ call[c].mode # "one" /\ call[c].adv[d] # Absent
                       /\ call[c].expected[d] # call[c].adv[d]
                <5>1. call[c].expected[d] = Uncovered
                    BY <2>1, <2>a, <4>5, <1>t DEF Good, Settling
                <5>2. d \in call[c].plus => call[c].want[d] = "force"
                    BY <2>1, <2>a, <4>5, <1>t DEF Good, Settling
                <5>3. CASE call[c].want[d] \in {"force", "delete"}
                    BY <3>1, <5>1, <5>3 DEF Licensed
                <5>4. CASE call[c].want[d] \notin {"force", "delete"}
                    <6>1. d \notin call[c].plus /\ ~Deletes(c, d)
                        BY <5>2, <5>4 DEF Deletes
                    <6>2. FastForward(call[c].adv[d], local[c][d]) /\ local[c][d] # Absent
                        BY <2>1, <4>5, <6>1 DEF RefusedByLibgit2, Gone
                    <6> QED
                        BY <3>1, <6>1, <6>2 DEF Licensed, Source
                <5> QED
                    BY <5>3, <5>4
            <4> QED
                BY <4>1, <4>3, <4>4, <4>5
        <3>5. call'[c].accepted = call[c].accepted /\ call'[c].reports[d] = "none"
            BY <2>1, <2>3, <2>4, <3>2, <1>t DEF Good, Reported
        <3>6. u = Update(u.client, u.dst)'
            <4>1. u = Update(c, d)'
                BY <2>5, <2>6
            <4> QED
                BY <3>1, <4>1
        <3>7. Flying(u)'
            BY <2>4, <3>1, <3>4, <3>5, <3>6 DEF Flying, Licensed
        <3> QED
            BY <3>3, <3>7
    <2> HIDE DEF upd
    <2>7. TypeOK'
        <3>1. flight' \in SUBSET Updates
            <4>1. \A d \in call[c].accepted : upd(d) \in Updates
                BY <2>6
            <4> QED
                BY <2>1, <2>5, <4>1, <1>t DEF TypeOK
        <3> QED
            BY <2>1, <2>4, <3>1, <1>t DEF TypeOK, clientVars
    <2>8. \A b \in Clients \ {c} : pc'[b] = pc[b] /\ call'[b] = call[b]
        BY <2>1, <1>t DEF TypeOK, Goto
    <2>9. Good(c)'
        <3>1. /\ call[c].took = {} /\ \A d \in Refs : call[c].reports[d] = "none"
            BY <2>1, <1>t DEF Good, Reported
        <3>2. Open(c)' = Open(c)
            BY <2>3, <2>4 DEF Open, Wanted
        <3>3. \A d \in call[c].accepted : Update(c, d)' \in flight'
            BY <2>1, <2>5
        <3> QED
            BY <2>a, <2>3, <2>4, <3>1, <3>2, <3>3 DEF Good, Settling, Reported, Verdict
    <2>10. ASSUME NEW b \in Clients \ {c} PROVE Good(b)'
        BY <2>1, <2>8, GoodFrame, PInvParts
    <2>11. ASSUME NEW u \in flight PROVE Flying(u)'
        <3>1. u.client \in Clients /\ Flying(u)
            BY <1>t, PInvParts DEF TypeOK, Updates
        <3>2. u.live => u.client # c
            BY <2>1, <3>1 DEF Flying
        <3> QED
            BY <2>8, <3>1, <3>2, FlyingFrame
    <2>12. ASSUME NEW u \in flight' PROVE Flying(u)'
        BY <2>1, <2>5, <2>6, <2>11
    <2> QED
        BY <2>7, <2>9, <2>10, <2>12, PInvParts
<1> QED
    BY <1>1, <1>2

\* The remote's answer: the report on a live update is noted with its push.
LEMMA AnswerInv ==
    ASSUME PInv, NEW u \in flight, RemoteTakes(u) \/ RemoteRefuses(u)
    PROVE  PInv'
<1>t. /\ TypeOK /\ u \in Updates /\ u.client \in Clients /\ u.dst \in Refs
      /\ u.old \in Values /\ u.new \in Values /\ Flying(u)
    BY PInvParts DEF TypeOK, Updates
<1>1. PICK status \in {"ok", "ng"} : Answer(u, status)
    BY DEF RemoteTakes, RemoteRefuses
<1>2. remote' \in [Refs -> Values]
    BY <1>t DEF RemoteTakes, RemoteRefuses, TypeOK
<1>3. CASE ~u.live
    <2>1. /\ flight' = flight \ {u} /\ UNCHANGED <<call, clientVars, pc, moves>>
        BY <1>1, <1>3 DEF Answer
    <2>2. TypeOK'
        BY <2>1, <1>2, <1>t DEF TypeOK, clientVars
    <2>3. \A b \in Clients : Good(b)'
        BY <2>1, <1>3, GoodFrame, PInvParts
    <2>4. \A v \in flight' : Flying(v)'
        BY <2>1, FlyingFrame, PInvParts
    <2> QED
        BY <2>2, <2>3, <2>4, PInvParts
<1>4. CASE u.live
    <2> DEFINE c == u.client
               d == u.dst
               reports == [call[c].reports EXCEPT ![d] = status]
               took == IF status = "ok" THEN call[c].took \cup {d} ELSE call[c].took
               k == [call[c] EXCEPT !.reports = reports, !.took = took]
    <2>0. call[c] \in Calls /\ Good(c)
        BY <1>t, PInvParts DEF TypeOK
    <2>1. /\ flight' = flight \ {u} /\ UNCHANGED <<clientVars, pc, moves>>
          /\ call' = [call EXCEPT ![c] = k]
        BY <1>1, <1>4 DEF Answer
    <2>2. /\ k \in Calls
          /\ k.want = call[c].want /\ k.mode = call[c].mode /\ k.adv = call[c].adv
          /\ k.plus = call[c].plus /\ k.expected = call[c].expected /\ k.why = call[c].why
          /\ k.accepted = call[c].accepted /\ k.sent = call[c].sent
          /\ k.reports = reports /\ k.took = took
        <3>1. reports \in [Refs -> {"none", "ok", "ng"}] /\ took \in SUBSET Refs
            BY <2>0, <1>t DEF Calls
        <3> HIDE DEF reports, took
        <3> QED
            BY <2>0, <3>1 DEF Calls
    <2>3. \A e \in Refs : reports[e] = IF e = d THEN status ELSE call[c].reports[e]
        BY <2>0, <1>t DEF Calls
    <2> HIDE DEF k
    <2>4. /\ pc[c] = "wait" /\ d \in call[c].accepted /\ call[c].reports[d] = "none"
          /\ u = Update(c, d)
        BY <1>4, <1>t DEF Flying
    <2>5. /\ call'[c] = k /\ call' \in [Clients -> Calls]
          /\ \A b \in Clients \ {c} : call'[b] = call[b]
        BY <2>1, <2>2, <1>t, CallType DEF TypeOK
    <2>6. TypeOK'
        BY <2>1, <2>5, <1>2, <1>t DEF TypeOK, clientVars
    <2>7. \A e \in Refs : Update(c, e)' = Update(c, e)
        BY <2>2, <2>5 DEF Update
    <2>8. Open(c)' = Open(c)
        BY <2>2, <2>5 DEF Open, Wanted
    <2>r. /\ call[c].accepted = Open(c)
          /\ call[c].took \subseteq call[c].accepted
          /\ \A e \in Refs : call[c].reports[e] # "none" => e \in call[c].accepted
          /\ \A e \in Refs : call[c].reports[e] = "ok" <=> e \in call[c].took
          /\ \A e \in call[c].accepted : call[c].reports[e] = "none" => Update(c, e) \in flight
          /\ call[c].accepted \subseteq Refs
        BY <2>0, <2>4 DEF Good, Reported, Calls
    <2>9. Reported(c)'
        <3>1. k.accepted = Open(c)' /\ k.took \subseteq k.accepted
            BY <2>2, <2>4, <2>8, <2>r
        <3>2. \A e \in Refs : k.reports[e] # "none" => e \in k.accepted
            BY <2>2, <2>3, <2>4, <2>r
        <3>3. \A e \in Refs : k.reports[e] = "ok" <=> e \in k.took
            BY <2>2, <2>3, <2>4, <2>r
        <3>4. ASSUME NEW e \in k.accepted, k.reports[e] = "none" PROVE Update(c, e)' \in flight'
            <4>1. e \in Refs /\ e \in call[c].accepted
                BY <2>2, <2>r
            <4>2. e # d /\ call[c].reports[e] = "none"
                BY <2>2, <2>3, <3>4, <4>1, <1>1
            <4>3. Update(c, e) \in flight /\ Update(c, e).dst = e
                BY <2>r, <4>1, <4>2 DEF Update
            <4> QED
                BY <2>1, <2>7, <4>1, <4>2, <4>3
        <3>5. pc'[c] = "wait"
            BY <2>1, <2>4
        <3> HIDE DEF c, d, took, reports
        <3> QED
            BY <2>5, <3>1, <3>2, <3>3, <3>4, <3>5 DEF Reported
    <2>10. Good(c)'
        <3>1. pc'[c] = "wait"
            BY <2>1, <2>4
        <3> QED
            BY <2>9, <3>1 DEF Good, Settling, Verdict
    <2>11. ASSUME NEW b \in Clients \ {c} PROVE Good(b)'
        <3>1. \A v \in flight : v.client = b /\ v.live => v \in flight'
            BY <2>1, <2>11
        <3> QED
            BY <2>1, <2>5, <3>1, GoodFrame, PInvParts
    <2>12. ASSUME NEW v \in flight' PROVE Flying(v)'
        <3>1. v \in flight /\ v # u /\ v \in Updates /\ Flying(v)
            BY <2>1, <1>t, PInvParts DEF TypeOK
        <3>2. v.client \in Clients /\ v.dst \in Refs
            BY <3>1 DEF Updates
        <3>3. CASE v.live /\ v.client = c
            <4>1. /\ v.dst \in call[c].accepted /\ call[c].reports[v.dst] = "none"
                  /\ v = Update(c, v.dst)
                BY <3>1, <3>3 DEF Flying
            <4>2. v.dst # d
                BY <2>4, <3>1, <4>1
            <4>3. call'[c].reports[v.dst] = "none" /\ v.dst \in call'[c].accepted
                BY <2>2, <2>3, <2>5, <3>2, <4>1, <4>2
            <4>4. v = Update(c, v.dst)'
                BY <2>7, <3>2, <4>1
            <4>5. v = Update(v.client, v.dst)'
                BY <3>3, <4>4 DEF Update
            <4> QED
                BY <2>1, <2>4, <3>1, <3>3, <4>3, <4>5 DEF Flying, Licensed
        <3>4. CASE ~(v.live /\ v.client = c)
            BY <2>1, <2>5, <3>1, <3>2, <3>4, FlyingFrame
        <3> QED
            BY <3>3, <3>4
    <2> QED
        BY <2>6, <2>10, <2>11, <2>12, PInvParts
<1> QED
    BY <1>3, <1>4

\* git_remote_push returns once every update sent is answered.
LEMMA ReturnsInv ==
    ASSUME PInv, NEW c \in Clients, Returns(c)
    PROVE  PInv'
<1>t. TypeOK /\ call[c] \in Calls /\ Good(c)
    BY PInvParts DEF TypeOK
<1>1. /\ pc[c] = "wait" /\ Goto(c, "settle")
      /\ \A u \in flight : ~(u.client = c /\ u.live)
      /\ UNCHANGED <<remote, local, odb, upstream, flight, moves>>
    BY DEF Returns
<1>2. pc'[c] = "settle" /\ pc' \in [Clients -> Control]
    BY <1>1, <1>t, GotoType DEF Control
<1>r. /\ call[c].accepted = Open(c)
      /\ call[c].took \subseteq call[c].accepted
      /\ \A e \in Refs : call[c].reports[e] # "none" => e \in call[c].accepted
      /\ \A e \in Refs : call[c].reports[e] = "ok" <=> e \in call[c].took
      /\ \A e \in call[c].accepted : call[c].reports[e] = "none" => Update(c, e) \in flight
      /\ call[c].accepted \subseteq Refs
    BY <1>1, <1>t DEF Good, Reported, Calls
<1>3. \A e \in call[c].accepted : call[c].reports[e] # "none"
    BY <1>1, <1>r DEF Update
<1>4. ASSUME TypeOK', Good(c)', \A b \in Clients \ {c} : call'[b] = call[b]
      PROVE  PInv'
    <2>1. \A b \in Clients \ {c} : pc'[b] = pc[b]
        BY <1>1, <1>t DEF Goto, TypeOK
    <2>2. \A b \in Clients : Good(b)'
        BY <1>1, <1>4, <2>1, GoodFrame, PInvParts
    <2>3. ASSUME NEW u \in flight PROVE Flying(u)'
        <3>1. u.client \in Clients /\ Flying(u) /\ (u.live => u.client # c)
            BY <1>1, <1>t, PInvParts DEF TypeOK, Updates
        <3> QED
            BY <1>4, <2>1, <3>1, FlyingFrame
    <2> QED
        BY <1>1, <1>4, <2>2, <2>3, PInvParts
<1>5. CASE Reporting
    <2>1. /\ call' = call
          /\ tracking' = [tracking EXCEPT ![c] =
                [d \in Tracked |-> IF call[c].reports[d] = "ok" THEN call[c].sent[d] ELSE tracking[c][d]]]
        BY <1>5, <1>t DEF Returns, TypeOK
    <2>2. \A d \in Tracked : d \in Refs
        BY PushAssumption DEF Refs
    <2>3. \A d \in Tracked : tracking[c][d] \in Values /\ call[c].sent[d] \in Values
        BY <2>2, <1>t DEF TypeOK, Calls
    <2>4. tracking' \in [Clients -> [Tracked -> Values]]
        BY <2>1, <2>3, <1>t DEF TypeOK
    <2>5. TypeOK'
        BY <2>1, <2>4, <1>1, <1>2, <1>t DEF TypeOK
    <2>6. Good(c)'
        <3>1. Open(c)' = Open(c)
            BY <2>1 DEF Open, Wanted
        <3> QED
            BY <2>1, <3>1, <1>2, <1>3, <1>5, <1>r DEF Good, Settling, Reported, Verdict
    <2> QED
        BY <2>1, <2>5, <2>6, <1>4
<1>6. CASE ~Reporting
    <2> DEFINE reports == [d \in Refs |-> "none"]
               k == [call[c] EXCEPT !.reports = reports]
    <2>1. call' = [call EXCEPT ![c] = k] /\ UNCHANGED tracking
        BY <1>6 DEF Returns
    <2>2. /\ k \in Calls
          /\ k.want = call[c].want /\ k.accepted = call[c].accepted /\ k.why = call[c].why
          /\ k.took = call[c].took /\ k.reports = reports
        BY <1>t DEF Calls
    <2> HIDE DEF k
    <2>3. call'[c] = k /\ TypeOK' /\ \A b \in Clients \ {c} : call'[b] = call[b]
        BY <2>1, <2>2, <1>1, <1>2, <1>t, CallType DEF TypeOK
    <2>4. Good(c)'
        <3>1. Open(c)' = Open(c)
            BY <2>2, <2>3 DEF Open, Wanted
        <3> QED
            BY <2>2, <2>3, <3>1, <1>2, <1>6, <1>r DEF Good, Settling, Reported, Verdict
    <2> QED
        BY <2>3, <2>4, <1>4
<1> QED
    BY <1>5, <1>6

\* What the caller is told.
LEMMA SettleInv ==
    ASSUME PInv, NEW c \in Clients, Settle(c)
    PROVE  PInv'
<1>t. TypeOK /\ call[c] \in Calls /\ Good(c)
    BY PInvParts DEF TypeOK
<1> DEFINE why == [d \in Refs |-> IF d \in Refused(c) THEN "remoteRejected"
                                  ELSE IF d \in Unreported(c) THEN "remoteFailure"
                                  ELSE call[c].why[d]]
           pushed == WentThrough(c)
           todo == Upstreamed(c, WentThrough(c))
           k == [call[c] EXCEPT !.pushed = pushed, !.todo = todo, !.why = why]
<1>1. /\ call' = [call EXCEPT ![c] = k] /\ Goto(c, "upstream") /\ pc[c] = "settle"
      /\ UNCHANGED <<remote, clientVars, flight, moves>>
    BY DEF Settle
<1>2. /\ call[c].accepted = Open(c) /\ call[c].accepted \subseteq Refs
      /\ call[c].took \subseteq call[c].accepted
      /\ \A d \in Refs : call[c].reports[d] # "none" => d \in call[c].accepted
      /\ Reporting => \A d \in Refs : call[c].reports[d] = "ok" <=> d \in call[c].took
      /\ \A d \in call[c].accepted : call[c].reports[d] # "none" <=> Reporting
    BY <1>1, <1>t DEF Good, Reported, Calls
<1>3. /\ why \in [Refs -> Reasons] /\ pushed \in SUBSET Refs /\ todo \in SUBSET Refs
      /\ todo \subseteq pushed
    BY <1>2, <1>t DEF Calls, Reasons, WentThrough, Upstreamed
<1>4. /\ k \in Calls
      /\ k.want = call[c].want /\ k.took = call[c].took
      /\ k.why = why /\ k.pushed = pushed /\ k.todo = todo
    <2> HIDE DEF why, pushed, todo
    <2> QED
        BY <1>3, <1>t DEF Calls
<1> HIDE DEF k
<1>5. pc'[c] = "upstream" /\ call'[c] = k /\ TypeOK'
    BY <1>1, <1>4, <1>t, GotoType, CallType DEF TypeOK, Control, clientVars
<1>6. pushed = Open(c)'
    <2>1. ASSUME NEW d \in Refs
          PROVE  d \in pushed <=> d \in Wanted(c) /\ why[d] = "none"
        <3>1. d \in call[c].accepted <=> d \in Wanted(c) /\ call[c].why[d] = "none"
            BY <1>2 DEF Open
        <3>2. d \in Refused(c) \/ d \in Unreported(c) => d \in call[c].accepted /\ d \notin pushed
            BY <1>2 DEF Refused, Unreported, WentThrough
        <3>3. ~(d \in Refused(c) \/ d \in Unreported(c)) =>
                (d \in pushed <=> d \in call[c].accepted) /\ why[d] = call[c].why[d]
            BY DEF WentThrough
        <3>4. d \in Refused(c) \/ d \in Unreported(c) => why[d] # "none"
            OBVIOUS
        <3> HIDE DEF why, pushed
        <3> QED
            BY <3>1, <3>2, <3>3, <3>4
    <2>2. Open(c)' = {d \in Wanted(c) : why[d] = "none"}
        BY <1>4, <1>5 DEF Open, Wanted
    <2>3. Wanted(c) \subseteq Refs
        BY DEF Wanted
    <2> HIDE DEF why, pushed
    <2> QED
        BY <1>3, <2>1, <2>2, <2>3
<1>7. Reporting => pushed = call[c].took
    <2> SUFFICES ASSUME Reporting, NEW d \in Refs
                 PROVE  d \in pushed <=> d \in call[c].took
        BY <1>2, <1>3
    <2>1. call[c].reports[d] \in {"none", "ok", "ng"}
        BY <1>t DEF Calls
    <2>2. d \in pushed <=> /\ d \in call[c].accepted
                           /\ ~(call[c].reports[d] = "none" /\ ~UpToDate(c, d))
                           /\ call[c].reports[d] # "ng"
        BY DEF WentThrough, Unreported, Refused
    <2> HIDE DEF pushed
    <2> QED
        BY <1>2, <2>1, <2>2
<1>8. ASSUME NEW d \in call[c].took PROVE why[d] \in {"none", "remoteFailure"}
    <2>1. d \in Refs /\ call[c].why[d] = "none" /\ d \notin Refused(c)
        BY <1>2, <1>8 DEF Open, Refused
    <2> QED
        BY <2>1
<1>9. Good(c)'
    <2> HIDE DEF why, pushed, todo
    <2> QED
        BY <1>3, <1>4, <1>5, <1>6, <1>7, <1>8 DEF Good, Settling, Reported, Verdict
<1>10. \A b \in Clients \ {c} : pc'[b] = pc[b] /\ call'[b] = call[b]
    BY <1>1, <1>t DEF TypeOK, Goto
<1> QED
    BY <1>1, <1>5, <1>9, <1>10, Advance

\* git_branch_set_upstream.
LEMMA SetUpstreamInv ==
    ASSUME PInv, NEW c \in Clients, NEW d \in Branches, SetUpstream(c, d)
    PROVE  PInv'
<1>t. TypeOK /\ call[c] \in Calls /\ Good(c)
    BY PInvParts DEF TypeOK
<1>1. CASE Return(c)
    BY <1>1, ReturnInv
<1>2. CASE ~Return(c)
    <2> DEFINE k == [call[c] EXCEPT !.todo = call[c].todo \ {d}]
    <2>1. /\ pc[c] = "upstream" /\ call' = [call EXCEPT ![c] = k]
          /\ upstream' = [upstream EXCEPT
                ![c] = IF local[c][d] # Absent THEN upstream[c] \cup {d} ELSE upstream[c]]
          /\ UNCHANGED <<remote, local, tracking, odb, pc, flight, moves>>
        BY <1>2 DEF SetUpstream
    <2>2. /\ k \in Calls
          /\ k.want = call[c].want /\ k.why = call[c].why /\ k.took = call[c].took
          /\ k.pushed = call[c].pushed /\ k.todo = call[c].todo \ {d}
        BY <1>t DEF Calls
    <2> HIDE DEF k
    <2>3. upstream' \in [Clients -> SUBSET Branches]
        BY <2>1, <1>t DEF TypeOK
    <2>4. call'[c] = k /\ TypeOK' /\ \A b \in Clients \ {c} : call'[b] = call[b]
        BY <2>1, <2>2, <2>3, <1>t, CallType DEF TypeOK
    <2>5. Good(c)'
        <3>1. Open(c)' = Open(c)
            BY <2>2, <2>4 DEF Open, Wanted
        <3> QED
            BY <2>1, <2>2, <2>4, <3>1, <1>t DEF Good, Settling, Reported, Verdict
    <2> QED
        BY <2>1, <2>4, <2>5, Advance
<1> QED
    BY <1>1, <1>2

\* The other processes touch no call, and nothing sent.
LEMMA OthersInv ==
    ASSUME PInv,
           \/ \E c \in Clients : \/ \E d \in Refs, v \in Values : LocalMove(c, d, v)
                                 \/ Fetch(c)
           \/ \E d \in Refs, v \in Values : OthersPush(d, v)
    PROVE  PInv'
<1>t. TypeOK
    BY PInvParts
<1>1. ASSUME NEW c \in Clients, NEW d \in Refs, NEW v \in Values, LocalMove(c, d, v)
      PROVE  TypeOK'
    <2>1. local' = [local EXCEPT ![c] = [local[c] EXCEPT ![d] = v]]
        BY <1>1 DEF LocalMove
    <2>2. local' \in [Clients -> [Refs -> Values]]
        BY <2>1, <1>t DEF TypeOK
    <2>3. v # Absent => v \in Commits /\ Before[v] \in SUBSET Commits
        BY PushAssumption DEF Values
    <2>4. odb' \in [Clients -> SUBSET Commits]
        BY <1>1, <2>3, <1>t DEF LocalMove, TypeOK
    <2> QED
        BY <1>1, <2>2, <2>4, <1>t DEF LocalMove, Move, TypeOK
<1>2. ASSUME NEW c \in Clients, Fetch(c) PROVE TypeOK'
    <2>1. \A d \in Tracked : remote[d] \in Values
        BY PushAssumption, <1>t DEF Refs, TypeOK
    <2>2. tracking' \in [Clients -> [Tracked -> Values]]
        BY <1>2, <2>1, <1>t DEF Fetch, TypeOK
    <2> DEFINE got == UNION {{remote[d]} \cup Before[remote[d]] : d \in {e \in Tracked : remote[e] # Absent}}
    <2>3. got \in SUBSET Commits
        <3>1. ASSUME NEW e \in Tracked, remote[e] # Absent
              PROVE  {remote[e]} \cup Before[remote[e]] \subseteq Commits
            BY <2>1, <3>1, PushAssumption DEF Values
        <3> QED
            BY <3>1
    <2>4. odb' = [odb EXCEPT ![c] = odb[c] \cup got]
        BY <1>2 DEF Fetch
    <2> HIDE DEF got
    <2>5. odb' \in [Clients -> SUBSET Commits]
        BY <2>3, <2>4, <1>t DEF TypeOK
    <2> QED
        BY <1>2, <2>2, <2>5, <1>t DEF Fetch, Move, TypeOK
<1>3. ASSUME NEW d \in Refs, NEW v \in Values, OthersPush(d, v) PROVE TypeOK'
    BY <1>3, <1>t DEF OthersPush, Move, TypeOK, clientVars
<1>4. UNCHANGED <<pc, call, flight>>
    BY DEF LocalMove, Fetch, OthersPush
<1> QED
    BY <1>1, <1>2, <1>3, <1>4, Aside

-----------------------------------------------------------------------------
(* The invariant and what follows from it.                                 *)

\* Every step keeps the invariant.
LEMMA PInvStep == PInv /\ [Next]_vars => PInv'
<1> SUFFICES ASSUME PInv, [Next]_vars
             PROVE  PInv'
    OBVIOUS
<1>1. CASE UNCHANGED vars
    <2>1. TypeOK'
        BY <1>1, PInvParts DEF TypeOK, vars, clientVars
    <2> QED
        BY <1>1, <2>1, Aside DEF vars
<1>2. ASSUME NEW c \in Clients,
             \/ Connect(c) \/ SettleLeases(c) \/ ApplyRules(c) \/ Send(c)
             \/ Returns(c) \/ Drops(c) \/ Settle(c) \/ Finish(c)
      PROVE  PInv'
    BY <1>2, ReturnInv, ConnectInv, SettleLeasesInv, ApplyRulesInv, SendInv, ReturnsInv, SettleInv
       DEF Drops, Finish
<1> QED
    BY <1>1, <1>2, BeginInv, SetUpstreamInv, AnswerInv, OthersInv DEF Next

\* The invariant holds at first.
LEMMA InitPInv == Init => PInv
<1> SUFFICES ASSUME Init
             PROVE  PInv
    OBVIOUS
<1>1. FirstCommit \in Commits /\ Before[FirstCommit] \in SUBSET Commits /\ Tracked \subseteq Refs
    BY PushAssumption DEF Refs
<1>2. remote \in [Refs -> Values]
    BY <1>1 DEF Init, Values
<1>3. TypeOK
    BY <1>1, <1>2, NoCallType DEF Init, TypeOK, Control
<1>4. \A c \in Clients : pc[c] = "idle"
    BY DEF Init
<1>5. \A c \in Clients : Good(c)
    BY <1>4 DEF Good, Settling, Reported, Verdict
<1> QED
    BY <1>3, <1>5, PInvParts DEF Init

\* What the steps of pushImpl rely on holds throughout, for any clients and
\* any requests, whatever others do to the remote and the repositories.
THEOREM Invariant == Spec => []PInv
BY InitPInv, PInvStep, PTL DEF Spec

\* Every variable keeps its type.
THEOREM TypeCorrect == Spec => []TypeOK
<1>1. PInv => TypeOK
    BY DEF PInv
<1> QED
    BY Invariant, <1>1, PTL

\* What a push reports in the end is what the remote did: neither an update
\* that went through called rejected nor the other way round.
THEOREM VerdictsTrue == Spec => []TrueVerdict
<1>1. PInv => TrueVerdict
    BY DEF PInv
<1> QED
    BY Invariant, <1>1, PTL

\* No push takes from the remote a value that it was not shown and that
\* nothing in the request licenses it to replace, but for the deletion by its
\* full name of a ref that was not there.
THEOREM WorkKept == Spec => NoLostWork
<1> DEFINE Shown == \A d \in Refs : remote'[d] # remote[d] /\ moves' = moves =>
                \E u \in flight : /\ u.dst = d /\ u.new = remote'[d]
                                  /\ u.old = remote[d] \/ DeletesNothing(u)
                                  /\ Licensed(u)
                                  /\ u.live => u.old = call[u.client].adv[d]
<1>1. PInv /\ [Next]_vars => [Shown]_vars
    <2> SUFFICES ASSUME PInv, Next, NEW d \in Refs, remote'[d] # remote[d], moves' = moves
                 PROVE  \E u \in flight : /\ u.dst = d /\ u.new = remote'[d]
                                          /\ u.old = remote[d] \/ DeletesNothing(u)
                                          /\ Licensed(u)
                                          /\ u.live => u.old = call[u.client].adv[d]
        OBVIOUS
    <2>t. TypeOK /\ remote \in [Refs -> Values] /\ moves \in Nat
        BY PInvParts DEF TypeOK
    <2>1. PICK u \in flight : RemoteTakes(u)
        <3>1. ASSUME NEW c \in Clients PROVE ~Return(c)
            BY DEF Return
        <3>2. \A e \in Refs, v \in Values : ~OthersPush(e, v)
            BY <2>t DEF OthersPush, Move
        <3> QED
            BY <3>1, <3>2 DEF Next, Begin, Connect, SettleLeases, ApplyRules, Send, Returns,
                Drops, Settle, SetUpstream, Finish, LocalMove, Fetch, RemoteRefuses
    <2>2. Flying(u) /\ u \in Updates /\ u.dst \in Refs
        BY <2>t, PInvParts DEF TypeOK, Updates
    <2>3. u.dst = d /\ u.new = remote'[d] /\ (u.old = remote[d] \/ DeletesNothing(u))
        BY <2>1, <2>2, <2>t DEF RemoteTakes
    <2>4. u.live => u.old = call[u.client].adv[d]
        <3>1. u.live => u = Update(u.client, d)
            BY <2>2, <2>3 DEF Flying
        <3> QED
            BY <3>1 DEF Update
    <2> QED
        BY <2>2, <2>3, <2>4 DEF Flying
<1> QED
    BY Invariant, <1>1, PTL DEF Spec, NoLostWork

\* A branch gets an upstream only when its push went through.
THEOREM UpstreamsEarned == Spec => UpstreamWentThrough
<1> DEFINE Earned == \A c \in Clients : \A d \in upstream'[c] \ upstream[c] :
                        Reporting => d \in call[c].took
<1>1. PInv /\ [Next]_vars => [Earned]_vars
    <2> SUFFICES ASSUME PInv, Next, NEW c \in Clients, NEW d \in upstream'[c] \ upstream[c],
                        Reporting
                 PROVE  d \in call[c].took
        OBVIOUS
    <2>t. TypeOK /\ Good(c) /\ upstream \in [Clients -> SUBSET Branches]
        BY PInvParts DEF TypeOK
    <2>1. PICK b \in Clients, e \in Branches :
            /\ pc[b] = "upstream" /\ e \in call[b].todo
            /\ upstream' = [upstream EXCEPT ![b] = IF local[b][e] # Absent THEN @ \cup {e} ELSE @]
        <3>1. upstream' # upstream
            OBVIOUS
        <3>2. \A b \in Clients : ~Return(b)
            BY <3>1 DEF Return, clientVars
        <3> QED
            BY <3>1, <3>2 DEF Next, Begin, Connect, SettleLeases, ApplyRules, Send, Returns,
                Drops, Settle, SetUpstream, Finish, LocalMove, Fetch, OthersPush, RemoteTakes,
                RemoteRefuses, Answer, clientVars
    <2>2. b = c /\ e = d
        BY <2>1, <2>t
    <2> QED
        BY <2>1, <2>2, <2>t DEF Good, Reported, Verdict
<1> QED
    BY Invariant, <1>1, PTL DEF Spec, UpstreamWentThrough

=============================================================================
