---------------------------- MODULE ProcessReap ----------------------------
(***************************************************************************)
(* The reaping of the `ssh` children that libgit2's ssh_exec transport     *)
(* starts: gitkit_process_reap of gitkit_process_reap.h, called when a     *)
(* connection closes (ssh_exec_patched.c) and again when its git_process   *)
(* is freed (process_patched.c), by several threads of one program, under  *)
(* a kernel that hands the numbers of reaped children out again.           *)
(*                                                                         *)
(* A child is what the kernel's table has under its number, until somebody *)
(* waits for it.  A poll stands for one turn of 20 ms.                     *)
(***************************************************************************)
EXTENDS Naturals, FiniteSets

CONSTANTS
    Threads,   \* the threads with connections, model values
    PidMax,    \* the kernel's numbers are 1..PidMax, handed out in turn
    Grace,     \* bound: the polls of a grace period, 50 in the code
    MaxStarts, \* bound: the connections of a thread
    Worlds     \* what the host program does besides: sets of Happenings

Happenings == {"hostReaps", "interrupt"}

Nobody == "nobody"

ASSUME ReapAssumption ==
    /\ PidMax \in Nat \ {0} /\ Grace \in Nat \ {0} /\ MaxStarts \in Nat
    /\ Worlds \subseteq SUBSET Happenings
    /\ IsFiniteSet(Threads) /\ Nobody \notin Threads

Pids == 1..PidMax
NoPid == 0

\* What the kernel's table says of a child.
Children == [state : {"gone", "running", "zombie"},
             of : Threads \cup {Nobody},
             signal : {"none", "term", "kill"}]

Gone == [state |-> "gone", of |-> Nobody, signal |-> "none"]

VARIABLES
    child,    \* the kernel's table of the program's children, by number
    last,     \* the number handed out last
    passed,   \* the numbers handed out in the time of each connection
    round,    \* have the numbers come round in the time of one connection?
    process,  \* the git_process of each thread's connection: its pid
    pc,       \* what each thread does next
    within,   \* whose reap it is in: of the close, or of the free
    polls,    \* the turns of this grace period
    starts,   \* how many connections the thread has had
    world     \* what else may happen, chosen once

vars == <<child, last, passed, round, process, pc, within, polls, starts, world>>

Init ==
    /\ child = [n \in {NoPid} \cup Pids |-> Gone]
    /\ last = NoPid
    /\ passed = [t \in Threads |-> 0]
    /\ round = FALSE
    /\ process = [t \in Threads |-> NoPid]
    /\ pc = [t \in Threads |-> "idle"]
    /\ within = [t \in Threads |-> "close"]
    /\ polls = [t \in Threads |-> 0]
    /\ starts = [t \in Threads |-> 0]
    /\ world \in Worlds

-----------------------------------------------------------------------------
At(t, label) == pc[t] = label
GoTo(t, label) == pc' = [pc EXCEPT ![t] = label]
Child(t) == child[process[t]]
Running(n) == child[n].state = "running"
Zombie(n) == child[n].state = "zombie"
Own(t) == {n \in Pids : child[n].of = t}

\* The next free number after the last one, round to 1 past the end.
Turn(n) == (n + PidMax - last - 1) % PidMax
Free == {n \in Pids : child[n] = Gone}
NextPid == CHOOSE n \in Free : \A m \in Free : Turn(n) <= Turn(m)

\* The next number is handed out.  The numbers come round in the time of a
\* connection when all but one for each thread's child have been: past that
\* the connection's own, which it keeps for the second reap of it, may be
\* handed out anew.
HandOut ==
    /\ Free # {}
    /\ last' = NextPid
    /\ round' = (round \/ \E t \in Threads :
                    process[t] # NoPid /\ passed[t] + Cardinality(Threads) >= PidMax)
    /\ passed' = [t \in Threads |->
                     IF round' \/ process[t] = NoPid THEN 0 ELSE passed[t] + 1]

\* git_process_start, for the ssh of a connection; a fork that fails leaves
\* a git_process without a pid.
Start(t) ==
    /\ At(t, "idle") /\ starts[t] < MaxStarts
    /\ starts' = [starts EXCEPT ![t] = @ + 1]
    /\ \/ /\ HandOut
          /\ child' = [child EXCEPT ![NextPid] =
                          [state |-> "running", of |-> t, signal |-> "none"]]
          /\ process' = [process EXCEPT ![t] = NextPid]
       \/ UNCHANGED <<child, last, passed, round, process>>
    /\ GoTo(t, "open")
    /\ UNCHANGED <<within, polls, world>>

\* pid <= 0 leaves gitkit_process_reap at once.
EnterReap(t, where) ==
    /\ within' = [within EXCEPT ![t] = where]
    /\ polls' = [polls EXCEPT ![t] = 0]
    /\ GoTo(t, IF process[t] = NoPid THEN "reaped" ELSE "poll")

\* A connection is closed, or its git_process is freed without a close: the
\* pipes are closed, which the child may take as its end, and the reap begins.
Close(t) ==
    /\ At(t, "open")
    /\ \E where \in {"close", "free"} : EnterReap(t, where)
    /\ UNCHANGED <<child, last, passed, round, process, starts, world>>

-----------------------------------------------------------------------------
\* gitkit_process_reap: what waitpid(WNOHANG) answers, the pid or ECHILD.
\* Mutant: only the pid is taken for an answer.
AnswersWithPid(t) == Zombie(process[t])

Answers(t) == ~Running(process[t])

Polling(t) == At(t, "poll") \/ At(t, "pollAgain")

\* A zombie leaves the kernel's table with the answer.
Polled(t) ==
    /\ Polling(t) /\ Answers(t)
    /\ child' = [child EXCEPT ![process[t]] = Gone]
    /\ GoTo(t, "reaped")
    /\ UNCHANGED <<last, passed, round, process, within, polls, starts, world>>

Sleep(t) ==
    /\ Polling(t) /\ ~Answers(t)
    /\ IF polls[t] + 1 < Grace
       THEN /\ polls' = [polls EXCEPT ![t] = @ + 1]
            /\ UNCHANGED pc
       ELSE /\ polls' = [polls EXCEPT ![t] = 0]
            /\ GoTo(t, IF At(t, "poll") THEN "term" ELSE "kill")
    /\ UNCHANGED <<child, last, passed, round, process, within, starts, world>>

\* kill(pid, ...) does something to a child that is running.
Signalled(t, signal) ==
    child' = IF Running(process[t])
             THEN [child EXCEPT ![process[t]].signal = signal]
             ELSE child

Terminate(t) ==
    /\ At(t, "term")
    /\ Signalled(t, "term")
    /\ GoTo(t, "pollAgain")
    /\ UNCHANGED <<last, passed, round, process, within, polls, starts, world>>

\* Mutant: SIGTERM once more.
TerminateAgain(t) ==
    /\ At(t, "kill")
    /\ Signalled(t, "term")
    /\ GoTo(t, "wait")
    /\ UNCHANGED <<last, passed, round, process, within, polls, starts, world>>

Kill(t) ==
    /\ At(t, "kill")
    /\ Signalled(t, "kill")
    /\ GoTo(t, "wait")
    /\ UNCHANGED <<last, passed, round, process, within, polls, starts, world>>

\* The blocking waitpid.
Waited(t) ==
    /\ At(t, "wait") /\ ~Running(process[t])
    /\ child' = [child EXCEPT ![process[t]] = Gone]
    /\ GoTo(t, "reaped")
    /\ UNCHANGED <<last, passed, round, process, within, polls, starts, world>>

\* Mutant: a signal's arrival ends the wait.
InterruptEnds(t) ==
    /\ "interrupt" \in world
    /\ At(t, "wait") /\ Running(process[t])
    /\ GoTo(t, "reaped")
    /\ UNCHANGED <<child, last, passed, round, process, within, polls, starts, world>>

\* EINTR: wait again.
Interrupted(t) ==
    /\ "interrupt" \in world
    /\ At(t, "wait") /\ Running(process[t])
    /\ GoTo(t, "wait")
    /\ UNCHANGED <<child, last, passed, round, process, within, polls, starts, world>>

\* The reap of the close is followed by git_process_free, which reaps the pid
\* once more, the close having left it set; then the git_process is gone.
Reaped(t) ==
    /\ At(t, "reaped")
    /\ IF within[t] = "close"
       THEN EnterReap(t, "free") /\ UNCHANGED process
       ELSE /\ process' = [process EXCEPT ![t] = NoPid]
            /\ GoTo(t, "idle")
            /\ UNCHANGED <<within, polls>>
    /\ UNCHANGED <<child, last, passed, round, starts, world>>

-----------------------------------------------------------------------------
\* The children and the host program.
\* A child may end at any time, and may take no notice of the end of its
\* input or of SIGTERM.
Ends(n) ==
    /\ Running(n)
    /\ child' = [child EXCEPT ![n].state = "zombie"]
    /\ UNCHANGED <<last, passed, round, process, pc, within, polls, starts, world>>

\* A handler of the host's waits for any child.
HostReaps(n) ==
    /\ "hostReaps" \in world /\ Zombie(n)
    /\ child' = [child EXCEPT ![n] = Gone]
    /\ UNCHANGED <<last, passed, round, process, pc, within, polls, starts, world>>

\* A process of another program is given the next number, or has it, and the
\* kernel goes past.
Elsewhere ==
    /\ HandOut
    /\ UNCHANGED <<child, process, pc, within, polls, starts, world>>

gitkit_process_reap(t) ==
    Polled(t) \/ Sleep(t) \/ Terminate(t) \/ Kill(t) \/ Waited(t) \/ Reaped(t)

Next ==
    \/ \E t \in Threads :
          \/ Start(t) \/ Close(t) \/ gitkit_process_reap(t) \/ Interrupted(t)
    \/ \E n \in Pids : Ends(n) \/ HostReaps(n)
    \/ Elsewhere

\* A thread in the reap runs on, and SIGKILL ends a child.  Connections need
\* not close, and no child need end by itself, nor at SIGTERM.
Fairness ==
    /\ \A t \in Threads : WF_vars(gitkit_process_reap(t))
    /\ \A n \in Pids : WF_vars(child[n].signal = "kill" /\ Ends(n))

Spec == Init /\ [][Next]_vars /\ Fairness

-----------------------------------------------------------------------------
TypeOK ==
    /\ child \in [{NoPid} \cup Pids -> Children]
    /\ child[NoPid] = Gone
    /\ last \in {NoPid} \cup Pids
    /\ process \in [Threads -> {NoPid} \cup Pids]
    /\ \A t \in Threads :
          /\ polls[t] < Grace
          /\ At(t, "idle") => process[t] = NoPid

\* The close is bounded (gitkit_process_reap.h, lines 4-11): whatever the
\* child does, and whoever else waits for it, a connection that is being
\* closed is closed in the end.  Once the numbers have come round the last
\* wait may be for another connection's child, which lives as it likes.
CloseReturns ==
    \A t \in Threads :
        ~At(t, "idle") /\ ~At(t, "open") ~> At(t, "idle") \/ round

\* No child outlives its connection: once the close has returned the kernel
\* holds nothing of the thread's, running or zombie.
NoChildLeft == \A t \in Threads : At(t, "idle") => Own(t) = {}

\* A signal goes to the thread's own child, still there to take it: never to
\* a number that was reaped and may be another's by then.  So it is until the
\* numbers have come round in the time of one connection, and where the host
\* does not reap too: then the number can change hands between two reaps, or
\* between a poll and the signal.
Strikes(t) == (At(t, "term") \/ At(t, "kill")) /\ pc'[t] # pc[t]

OwnChildStruck ==
    [][\A t \in Threads :
          "hostReaps" \notin world /\ ~round /\ Strikes(t) => Child(t).of = t]_vars
-----------------------------------------------------------------------------
(***************************************************************************)
(* The invariant the proof rests on.                                       *)
(***************************************************************************)
\* A thread's children are at most the one its git_process names, and none
\* once a reap has come to its end.
OwnInvariant ==
    /\ child \in [{NoPid} \cup Pids -> Children]
    /\ DOMAIN pc = Threads /\ DOMAIN process = Threads
    /\ \A t \in Threads :
          /\ Own(t) \subseteq {process[t]}
          /\ At(t, "idle") \/ At(t, "reaped") => Own(t) = {}

\* The numbers that are not to be had for t's connection: those handed out
\* since its own was, and those the others' children have.
Taken(t) == {n \in Pids : Turn(n) > Turn(process[t]) \/ child[n].of \in Threads \ {t}}

\* Numbers are handed out in turn, so until they come round a number that was
\* reaped is not handed out again while its git_process still names it; and
\* where only the reap waits for a child, what is about to be struck is still
\* there.
StrikeInvariant ==
    /\ last \in {NoPid} \cup Pids
    /\ passed \in [Threads -> Nat]
    /\ process \in [Threads -> {NoPid} \cup Pids]
    /\ \A n \in {NoPid} \cup Pids :
          child[n] = Gone \/ (n \in Pids /\ child[n].of \in Threads)
    /\ \A t \in Threads :
          /\ At(t, "idle") => process[t] = NoPid
          /\ ~round /\ process[t] # NoPid =>
                /\ child[process[t]].of \in {t, Nobody}
                /\ Cardinality(Taken(t)) + 1 <= passed[t] + Cardinality(Threads)
          /\ ~round /\ "hostReaps" \notin world /\ (At(t, "term") \/ At(t, "kill")) =>
                child[process[t]].of = t

=============================================================================
