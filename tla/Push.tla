---------------------------------- MODULE Push ----------------------------------
(***************************************************************************)
(* Repository.pushImpl: several clients push to one remote, each beside    *)
(* other processes that move the refs of its repository.  A push connects, *)
(* settles its refspecs against the refs the remote advertised (leases,    *)
(* then git's fast-forward rules), sends what is left on that connection,  *)
(* and settles the remote's reports into what it tells the caller.         *)
(***************************************************************************)
EXTENDS Naturals

CONSTANTS
    Clients,    \* repositories that push to the remote, one handle each
    Branches,   \* branches
    Tags,       \* tags
    Tracked,    \* the branches the remote's fetch refspecs map
    Commits,
    Before,     \* the proper ancestors of each commit
    FirstCommit,
    Reporting,  \* whether the remote supports report-status
    Requests,   \* the pushes callers ask for
    MaxMoves    \* bound: steps of others

Absent    == "absent"     \* no such ref
Uncovered == "uncovered"  \* no lease covers the ref

Refs   == Branches \cup Tags
Values == Commits \cup {Absent}

\* What a push asks of a ref: nothing, a plain refspec, one with `+`, or a
\* deletion.
Wishes == {"no", "push", "force", "delete"}

\* A lease's expectation: an object, no ref at all, or what the tracking ref
\* says.
Expectations == Values \cup {"tracking", Uncovered}

\* short: the destinations given by a short name, not as refs/....
\* mode: no leases, the single lease of push(refspec:forceWithLease:), or the
\* PushLeases of push(refspecs:leases:).
AllRequests == [want : [Refs -> Wishes], short : SUBSET Refs, mode : {"none", "one", "many"},
                lease : [Refs -> Expectations], setUpstream : BOOLEAN]

Reasons == {"none", "stale", "alreadyExists", "fetchFirst", "nonFastForward",
            "remoteRejected", "remoteFailure"}

ASSUME PushAssumption ==
    /\ MaxMoves \in Nat
    /\ Reporting \in BOOLEAN
    /\ Branches \cap Tags = {}
    /\ Tracked \subseteq Branches
    /\ FirstCommit \in Commits
    /\ {Absent, Uncovered, "tracking"} \cap Commits = {}
    /\ Before \in [Commits -> SUBSET Commits]
    /\ \A c \in Commits : c \notin Before[c] /\ \A b \in Before[c] : Before[b] \subseteq Before[c]
    /\ Requests \subseteq AllRequests
    /\ \A r \in Requests :
        /\ \E d \in Refs : r.want[d] # "no"
        /\ r.mode = "one" =>
            \A d \in Refs : (r.want[d] # "no") <=> (r.lease[d] # Uncovered)
        /\ r.mode = "one" =>
            \A d, e \in Refs : r.want[d] # "no" /\ r.want[e] # "no" => d = e

VARIABLES
    remote,    \* the remote's refs
    local,     \* each client's own refs
    tracking,  \* each client's remote-tracking refs
    odb,       \* the commits each client has
    upstream,  \* the branches with an upstream configured
    pc,        \* where each client's push is
    call,      \* its locals
    flight,    \* updates sent, that the remote has not dealt with
    moves      \* steps of others so far

clientVars == <<local, tracking, odb, upstream>>
vars       == <<remote, clientVars, pc, call, flight, moves>>

\* took is history, not code: the refs the remote took from this push.
Calls == [want        : [Refs -> Wishes],
          short       : SUBSET Refs,
          mode        : {"none", "one", "many"},
          lease       : [Refs -> Expectations],
          setUpstream : BOOLEAN,
          adv         : [Refs -> Values],               \* remoteRefs
          expected    : [Refs -> Values \cup {Uncovered}],
          plus        : SUBSET Refs,                    \* forced with `+`
          accepted    : SUBSET Refs,
          why         : [Refs -> Reasons],              \* rejected, and why
          sent        : [Refs -> Values],
          reports     : [Refs -> {"none", "ok", "ng"}],
          pushed      : SUBSET Refs,
          todo        : SUBSET Refs,                    \* upstreams to set
          took        : SUBSET Refs]

Updates == [client : Clients, live : BOOLEAN, dst : Refs, old : Values, new : Values,
            wish : Wishes, expected : Values \cup {Uncovered}]

Control == {"idle", "connect", "leases", "rules", "send", "wait", "settle", "upstream"}

TypeOK ==
    /\ remote \in [Refs -> Values]
    /\ local \in [Clients -> [Refs -> Values]]
    /\ tracking \in [Clients -> [Tracked -> Values]]
    /\ odb \in [Clients -> SUBSET Commits]
    /\ upstream \in [Clients -> SUBSET Branches]
    /\ pc \in [Clients -> Control]
    /\ call \in [Clients -> Calls]
    /\ flight \in SUBSET Updates
    /\ moves \in Nat

NewCall(r) ==
    [want |-> r.want, short |-> r.short, mode |-> r.mode, lease |-> r.lease,
     setUpstream |-> r.setUpstream,
     adv |-> [d \in Refs |-> Absent], expected |-> [d \in Refs |-> Uncovered],
     plus |-> {d \in Refs : r.want[d] = "force" \/ (r.mode = "one" /\ r.want[d] # "no")},
     accepted |-> {}, why |-> [d \in Refs |-> "none"], sent |-> [d \in Refs |-> Absent],
     reports |-> [d \in Refs |-> "none"], pushed |-> {}, todo |-> {}, took |-> {}]

NoCall == NewCall([want |-> [d \in Refs |-> "no"], short |-> {}, mode |-> "none",
                   lease |-> [d \in Refs |-> Uncovered], setUpstream |-> FALSE])

\* Everyone has just cloned a remote whose refs are all at one commit, or
\* are not there yet.
Init ==
    /\ remote \in [Refs -> {FirstCommit, Absent}]
    /\ local = [c \in Clients |-> remote]
    /\ tracking = [c \in Clients |-> [d \in Tracked |-> remote[d]]]
    /\ odb = [c \in Clients |-> {FirstCommit} \cup Before[FirstCommit]]
    /\ upstream = [c \in Clients |-> {}]
    /\ pc = [c \in Clients |-> "idle"]
    /\ call = [c \in Clients |-> NoCall]
    /\ flight = {}
    /\ moves = 0

-----------------------------------------------------------------------------

Goto(c, l) == pc' = [pc EXCEPT ![c] = l]

\* The refs the push asks something of.
Wanted(c) == {d \in Refs : call[c].want[d] # "no"}

Deletes(c, d) == call[c].want[d] = "delete"

\* The source of the update of d, as the name resolves now.
Source(c, d) == IF Deletes(c, d) THEN Absent ELSE local[c][d]

\* git_revparse_single finds nothing to push any more.
Gone(c, ds) == \E d \in ds : ~Deletes(c, d) /\ local[c][d] = Absent

\* The call is over; what it sent without an answer is on its own.
Return(c) ==
    /\ Goto(c, "idle")
    /\ call' = [call EXCEPT ![c] = NoCall]
    /\ flight' = {u \in flight : u.client # c}
                    \cup {[u EXCEPT !.live = FALSE] : u \in {v \in flight : v.client = c}}
    /\ UNCHANGED <<remote, clientVars, moves>>

\* pushPlan: a source that matches nothing is refused before connecting, and
\* nothing changes.
Begin(c, r) ==
    /\ pc[c] = "idle"
    /\ IF \E d \in Refs : r.want[d] \in {"push", "force"} /\ local[c][d] = Absent
       THEN UNCHANGED <<pc, call>>
       ELSE /\ call' = [call EXCEPT ![c] = NewCall(r)]
            /\ Goto(c, "connect")
    /\ UNCHANGED <<remote, clientVars, flight, moves>>

\* qualifiedDestination: a deletion by a short name needs a ref of the
\* remote's to name; one by a full name goes on as it is, whether there is
\* such a ref or not.
Qualified(c, d) == d \in call[c].short /\ Deletes(c, d) => remote[d] # Absent

\* git_remote_connect and git_remote_ls: the values the whole push works
\* from.
Connect(c) ==
    /\ pc[c] = "connect"
    /\ \/ /\ \A d \in Refs : Qualified(c, d)
          /\ call' = [call EXCEPT ![c].adv = remote]
          /\ Goto(c, "leases")
          /\ UNCHANGED <<remote, clientVars, flight, moves>>
       \/ Return(c)

-----------------------------------------------------------------------------
(* Settling the refspecs                                                   *)

\* Pushing d leaves the remote as it is.
UpToDate(c, d) ==
    IF call[c].adv[d] = Absent
    THEN Deletes(c, d)
    ELSE ~Deletes(c, d) /\ local[c][d] = call[c].adv[d]

\* What d's lease expects of the remote, read now.
Expectation(c, d) ==
    IF call[c].lease[d] = "tracking"
    THEN IF d \in Tracked THEN tracking[c][d] ELSE Absent
    ELSE call[c].lease[d]

\* The updates whose lease is looked at: not a forced one, nor one that
\* changes nothing.
Leased(c) ==
    IF call[c].mode # "many" THEN {}
    ELSE {d \in Wanted(c) : /\ call[c].want[d] # "force"
                            /\ call[c].lease[d] # Uncovered
                            /\ Deletes(c, d) \/ ~UpToDate(c, d)}

IgnoresMissing(c, d) ==             \* mutant: a lease without a value holds
    Expectation(c, d) \in {call[c].adv[d], Absent}

Holds(c, d) == Expectation(c, d) = call[c].adv[d]

\* leasedPushRefspecs: the leases force the updates they cover, or refuse
\* them as stale.  The single lease only notes what it expects.
SettleLeases(c) ==
    /\ pc[c] = "leases"
    /\ LET kept  == {d \in Leased(c) : Holds(c, d)}
           stale == Leased(c) \ kept
           noted == Leased(c) \cup (IF call[c].mode = "one" THEN Wanted(c) ELSE {})
       IN  call' = [call EXCEPT
             ![c].plus     = @ \cup kept,
             ![c].why      = [d \in Refs |-> IF d \in stale THEN "stale" ELSE "none"],
             ![c].expected = [d \in Refs |-> IF d \in noted THEN Expectation(c, d)
                                             ELSE Uncovered]]
    /\ Goto(c, "rules")
    /\ UNCHANGED <<remote, clientVars, flight, moves>>

\* git_graph_descendant_of, or the same commit.
FastForward(old, new) == new = old \/ old \in Before[new]

\* pushRejection: git's rules for an update without force.
Rejection(c, d) ==
    LET old == call[c].adv[d]
    IN  IF d \in call[c].plus \/ old = Absent \/ Deletes(c, d) \/ local[c][d] = old
        THEN "none"
        ELSE IF d \in Tags THEN "alreadyExists"
        ELSE IF old \notin odb[c] THEN "fetchFirst"
        ELSE IF FastForward(old, local[c][d]) THEN "none" ELSE "nonFastForward"

\* partitionedPushRefspecs; with nothing accepted the push is over.
ApplyRules(c) ==
    /\ pc[c] = "rules"
    /\ LET open     == {d \in Wanted(c) : call[c].why[d] = "none"}
           accepted == {d \in open : Rejection(c, d) = "none"}
       IN  IF Gone(c, {d \in open : d \notin call[c].plus /\ call[c].adv[d] # Absent})
           THEN Return(c)
           ELSE /\ call' = [call EXCEPT
                     ![c].accepted = accepted,
                     ![c].why      = [d \in Refs |-> IF d \in open THEN Rejection(c, d) ELSE @[d]]]
                /\ Goto(c, IF accepted = {} THEN "settle" ELSE "send")
                /\ UNCHANGED <<remote, clientVars, flight, moves>>

-----------------------------------------------------------------------------
(* git_remote_push and the remote                                          *)

\* libgit2 resolves each source again, by name; it fails the whole push for
\* an update that is not forced and would drop commits.
RefusedByLibgit2(c) ==
    \E d \in call[c].accepted \ call[c].plus :
        /\ call[c].adv[d] # Absent
        /\ ~Deletes(c, d)
        /\ \/ call[c].adv[d] \notin odb[c]
           \/ ~FastForward(call[c].adv[d], local[c][d])

\* PushLeaseCheck.verify, at the negotiation: the value the remote
\* advertised is the one the single lease expects, or the one pushed.
LeaseVerified(c) ==
    call[c].mode = "one" =>
        \A d \in call[c].accepted :
            call[c].adv[d] \in {call[c].expected[d], Source(c, d)}

Sent(c) ==
    {[client |-> c, live |-> TRUE, dst |-> d, old |-> call[c].adv[d], new |-> Source(c, d),
      wish |-> call[c].want[d], expected |-> call[c].expected[d]] : d \in call[c].accepted}

\* sendPush: on the connection that advertised the refs.
Send(c) ==
    /\ pc[c] = "send"
    /\ IF Gone(c, call[c].accepted) \/ RefusedByLibgit2(c) \/ ~LeaseVerified(c)
       THEN Return(c)
       ELSE /\ flight' = flight \cup Sent(c)
            /\ call' = [call EXCEPT ![c].sent = [d \in Refs |-> Source(c, d)]]
            /\ Goto(c, "wait")
            /\ UNCHANGED <<remote, clientVars, moves>>

\* The remote takes an update of a ref that is still where the push was told
\* it is, or refuses it: a ref that moved, or a hook.
Answer(u, status) ==
    /\ flight' = flight \ {u}
    /\ call' = IF u.live
               THEN [call EXCEPT ![u.client].reports[u.dst] = status,
                                 ![u.client].took = IF status = "ok" THEN @ \cup {u.dst} ELSE @]
               ELSE call
    /\ UNCHANGED <<clientVars, pc, moves>>

\* A deletion of a ref that was not there has no old value to compare: the
\* remote deletes whatever it finds by then.
DeletesNothing(u) == u.old = Absent /\ u.new = Absent

RemoteTakes(u) ==
    /\ remote[u.dst] = u.old \/ DeletesNothing(u)
    /\ remote' = [remote EXCEPT ![u.dst] = u.new]
    /\ Answer(u, "ok")

RemoteRefuses(u) ==
    /\ UNCHANGED remote
    /\ Answer(u, "ng")

\* git_remote_push returns: the reports are in (all of them, or none from a
\* remote without report-status), and libgit2 has moved the tracking refs of
\* the updates that went through.
Returns(c) ==
    /\ pc[c] = "wait"
    /\ \A u \in flight : ~(u.client = c /\ u.live)
    /\ IF Reporting
       THEN /\ tracking' = [tracking EXCEPT ![c] =
                  [d \in Tracked |-> IF call[c].reports[d] = "ok" THEN call[c].sent[d] ELSE @[d]]]
            /\ UNCHANGED call
       ELSE /\ call' = [call EXCEPT ![c].reports = [d \in Refs |-> "none"]]
            /\ UNCHANGED tracking
    /\ Goto(c, "settle")
    /\ UNCHANGED <<remote, local, odb, upstream, flight, moves>>

\* The connection drops, or the process dies: the remote may still take what
\* was sent, or part of it.
Drops(c) ==
    /\ pc[c] = "wait"
    /\ Return(c)

-----------------------------------------------------------------------------
(* What the caller is told                                                 *)

\* An update the remote never reported on failed, unless it changes nothing.
Unreported(c) ==
    {d \in call[c].accepted : call[c].reports[d] = "none" /\ ~UpToDate(c, d)}

Refused(c) == {d \in Refs : call[c].reports[d] = "ng"}

ForgetsRefused(c) ==                \* mutant: only the unreported are dropped
    call[c].accepted \ Unreported(c)

WentThrough(c) == call[c].accepted \ (Unreported(c) \cup Refused(c))

UpstreamsAccepted(c, ds) ==         \* mutant: whatever became of the update
    {d \in call[c].accepted \cap Branches : call[c].setUpstream /\ ~Deletes(c, d)}

\* The branches among ds that get an upstream: local ones, not deletions.
Upstreamed(c, ds) ==
    {d \in ds \cap Branches : call[c].setUpstream /\ ~Deletes(c, d)}

Settle(c) ==
    /\ pc[c] = "settle"
    /\ call' = [call EXCEPT
         ![c].pushed = WentThrough(c),
         ![c].todo   = Upstreamed(c, WentThrough(c)),
         ![c].why    = [d \in Refs |-> IF d \in Refused(c) THEN "remoteRejected"
                                       ELSE IF d \in Unreported(c) THEN "remoteFailure"
                                       ELSE @[d]]]
    /\ Goto(c, "upstream")
    /\ UNCHANGED <<remote, clientVars, flight, moves>>

\* git_branch_set_upstream, one branch at a time: it needs the tracking ref,
\* and a branch that is gone is passed over.
SetUpstream(c, d) ==
    /\ pc[c] = "upstream"
    /\ d \in call[c].todo
    /\ IF local[c][d] # Absent /\ (d \notin Tracked \/ tracking[c][d] = Absent)
       THEN Return(c)
       ELSE /\ upstream' = [upstream EXCEPT
                  ![c] = IF local[c][d] # Absent THEN @ \cup {d} ELSE @]
            /\ call' = [call EXCEPT ![c].todo = @ \ {d}]
            /\ UNCHANGED <<remote, local, tracking, odb, pc, flight, moves>>

\* pushImpl returns what was pushed, or throws it with the rejections in a
\* PushRejectedError.
Finish(c) ==
    /\ pc[c] = "upstream"
    /\ call[c].todo = {}
    /\ Return(c)

-----------------------------------------------------------------------------
(* The other processes at work in a client's repository, and others who    *)
(* push to the remote.                                                     *)

Move == moves < MaxMoves /\ moves' = moves + 1

\* A commit, a reset, a branch or a tag made, moved or deleted.
LocalMove(c, d, v) ==
    /\ Move
    /\ v # local[c][d]
    /\ local' = [local EXCEPT ![c][d] = v]
    /\ odb' = [odb EXCEPT ![c] = IF v = Absent THEN @ ELSE @ \cup {v} \cup Before[v]]
    /\ UNCHANGED <<remote, tracking, upstream, pc, call, flight>>

\* A fetch that prunes, with the configured refspecs.
Fetch(c) ==
    /\ Move
    /\ tracking' = [tracking EXCEPT ![c] = [d \in Tracked |-> remote[d]]]
    /\ odb' = [odb EXCEPT ![c] = @ \cup
                 UNION {{remote[d]} \cup Before[remote[d]] : d \in {e \in Tracked : remote[e] # Absent}}]
    /\ UNCHANGED <<remote, local, upstream, pc, call, flight>>

\* Someone else's push, forced or not.
OthersPush(d, v) ==
    /\ Move
    /\ v # remote[d]
    /\ remote' = [remote EXCEPT ![d] = v]
    /\ UNCHANGED <<clientVars, pc, call, flight>>

Next ==
    \/ \E c \in Clients :
        \/ \E r \in Requests : Begin(c, r)
        \/ Connect(c) \/ SettleLeases(c) \/ ApplyRules(c) \/ Send(c)
        \/ Returns(c) \/ Drops(c)
        \/ Settle(c) \/ (\E d \in Branches : SetUpstream(c, d)) \/ Finish(c)
        \/ (\E d \in Refs, v \in Values : LocalMove(c, d, v)) \/ Fetch(c)
    \/ \E u \in flight : RemoteTakes(u) \/ RemoteRefuses(u)
    \/ \E d \in Refs, v \in Values : OthersPush(d, v)

Spec == Init /\ [][Next]_vars

-----------------------------------------------------------------------------
(* Properties                                                              *)

\* What may happen to a ref the remote has, when it takes an update: the
\* caller asked for force or a deletion, or the ref moves forward, or it is
\* where the lease expects it; and a lease, where there is one and force was
\* not asked for, is never overridden by a deletion.
Licensed(u) ==
    \/ u.old = Absent
    \/ u.wish = "force" /\ u.expected = Uncovered
    \/ u.wish = "delete" /\ u.expected = Uncovered
    \/ u.new # Absent /\ FastForward(u.old, u.new)
    \/ u.expected = u.old

\* No push takes away from the remote a value it was not shown: the leases
\* and the fast-forward rules are applied to the advertised values, and the
\* updates go to the remote against those very values.  All but one kind: the
\* deletion, by its full name, of a ref that the remote did not advertise.
NoLostWork ==
    [][\A d \in Refs : remote'[d] # remote[d] /\ moves' = moves =>
        \E u \in flight : /\ u.dst = d /\ u.new = remote'[d]
                          /\ u.old = remote[d] \/ DeletesNothing(u)
                          /\ Licensed(u)
                          /\ u.live => u.old = call[u.client].adv[d]]_vars

\* What a push tells its caller in the end is true: each ref asked for went
\* through or was left alone, not both; what it calls pushed the remote took,
\* with the value sent; what the rules or the remote refused, it did not.
TrueVerdict ==
    \A c \in Clients : pc[c] = "upstream" =>
        /\ call[c].pushed = {d \in Wanted(c) : call[c].why[d] = "none"}
        /\ Reporting => call[c].pushed = call[c].took
        /\ \A d \in call[c].took : call[c].why[d] \in {"none", "remoteFailure"}

\* Only a branch that went through gets an upstream.
UpstreamWentThrough ==
    [][\A c \in Clients : \A d \in upstream'[c] \ upstream[c] :
        Reporting => d \in call[c].took]_vars

\* What the proofs add to TypeOK.  The refs of a push that are still to go
\* through:
Open(c) == {d \in Wanted(c) : call[c].why[d] = "none"}

\* an update is forced, or covered by a lease, only as its caller asked;
Settling(c) ==
    /\ pc[c] \in {"connect", "leases"} =>
        \A d \in call[c].plus : call[c].want[d] = "force" \/ call[c].mode = "one"
    /\ pc[c] \in {"rules", "send"} => \A d \in Open(c) :
        /\ \/ call[c].mode = "one"
           \/ call[c].expected[d] = Uncovered
           \/ d \in call[c].plus /\ call[c].expected[d] = call[c].adv[d]
        /\ d \in call[c].plus => \/ call[c].want[d] = "force"
                                 \/ call[c].mode = "one"
                                 \/ call[c].expected[d] = call[c].adv[d]

\* an update the remote may still take is licensed, and while the push waits
\* it is the one that the locals tell of;
Update(c, d) ==
    [client |-> c, live |-> TRUE, dst |-> d, old |-> call[c].adv[d], new |-> call[c].sent[d],
     wish |-> call[c].want[d], expected |-> call[c].expected[d]]

Flying(u) ==
    /\ Licensed(u)
    /\ u.live => /\ pc[u.client] = "wait"
                 /\ u.dst \in call[u.client].accepted
                 /\ call[u.client].reports[u.dst] = "none"
                 /\ u = Update(u.client, u.dst)

\* and each update is under way, or its report says what became of it.
Reported(c) ==
    /\ pc[c] \in {"connect", "leases", "rules", "send"} =>
        call[c].took = {} /\ \A d \in Refs : call[c].reports[d] = "none"
    /\ pc[c] \in {"send", "wait", "settle"} =>
        /\ call[c].accepted = Open(c)
        /\ call[c].took \subseteq call[c].accepted
        /\ \A d \in Refs : call[c].reports[d] # "none" => d \in call[c].accepted
    /\ pc[c] = "wait" \/ (pc[c] = "settle" /\ Reporting) =>
        \A d \in Refs : call[c].reports[d] = "ok" <=> d \in call[c].took
    /\ pc[c] = "wait" => \A d \in call[c].accepted :
        call[c].reports[d] = "none" => Update(c, d) \in flight
    /\ pc[c] = "settle" => \A d \in call[c].accepted : call[c].reports[d] # "none" <=> Reporting
    /\ pc[c] = "upstream" => call[c].todo \subseteq call[c].pushed

PInv ==
    /\ TypeOK
    /\ \A c \in Clients : Settling(c) /\ Reported(c)
    /\ \A u \in flight : Flying(u)
    /\ TrueVerdict

=============================================================================
