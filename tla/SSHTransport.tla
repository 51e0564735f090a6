---------------------------- MODULE SSHTransport ----------------------------
(***************************************************************************)
(* The SSH transport a program supplies: its registration in               *)
(* SSHTransport.swift, and SSHTransportBridge.swift, which gives every     *)
(* git_smart_subtransport a context kept under its address and every       *)
(* connection one channel.  The operations run on several threads; an      *)
(* address that is freed is soon another operation's.                      *)
(*                                                                         *)
(* libgit2's smart transport is the caller: it lists once per connection,  *)
(* asks for the service afterwards, and resets (frees the stream, closes)  *)
(* before it connects again and before it frees the subtransport.          *)
(***************************************************************************)
EXTENDS Naturals, Sequences, FiniteSets, SequencesExt

CONSTANTS
    Callers,    \* the threads that fetch and push, model values
    Addresses,  \* where the allocator puts subtransports, model values
    MaxOpens    \* bound: the channels opened

Schemes == <<"ssh", "ssh+git", "git+ssh">>
Services == {"uploadPack", "receivePack"}

Absent == "absent"  \* no service asked for, no address, nobody

\* A context without channel or stream, and what stands in the registry
\* where there is none.
Fresh(t) == [of |-> t, channel |-> 0, stream |-> FALSE, action |-> Absent]
NoContext == Fresh(Absent)

ASSUME SSHAssumption ==
    /\ IsFiniteSet(Callers) /\ IsFiniteSet(Addresses)
    /\ Absent \notin Callers \cup Addresses
    /\ MaxOpens \in Nat

VARIABLES
    transports,  \* libgit2's registry: whose each scheme is
    state,       \* GitSSHTransport.state: whether a provider is registered
    registering, \* how many schemes the registration under way has taken
    used,        \* the addresses in use
    contexts,    \* SSHSubtransportRegistry: [of, channel, stream, action]
    channels,    \* every channel opened: [of, service, open]
    address,     \* the subtransport of each thread's operation
    asked,       \* the service it is connected for
    doing        \* what each thread does next

registration == <<transports, state, registering>>
operation == <<used, contexts, channels, address, asked, doing>>
sshVars == <<registration, operation>>

SSHInit ==
    /\ transports \in [ToSet(Schemes) -> {"builtin", "host"}]
    /\ state = FALSE /\ registering = 0
    /\ used = {}
    /\ contexts = [a \in Addresses |-> NoContext]
    /\ channels = << >>
    /\ address = [t \in Callers |-> Absent]
    /\ asked = [t \in Callers |-> Absent]
    /\ doing = [t \in Callers |-> "idle"]

-----------------------------------------------------------------------------
\* register and unregister, called while nothing is in flight, as their
\* contract says, and behind one lock.
NothingInFlight == \A t \in Callers : doing[t] = "idle"

Ours(scheme) == transports[scheme] = "gitkit"

RegisterStarts ==
    /\ NothingInFlight /\ ~state /\ registering = 0
    /\ ~Ours("ssh") /\ transports["ssh"] # "host"
    /\ transports' = [transports EXCEPT !["ssh"] = "gitkit"]
    /\ registering' = 1
    /\ UNCHANGED <<state, operation>>

NextScheme == Schemes[registering + 1]

\* git_transport_register takes a scheme nobody has registered.
RegisterTakes ==
    /\ registering # 0 /\ registering < Len(Schemes)
    /\ transports[NextScheme] = "builtin"
    /\ transports' = [transports EXCEPT ![NextScheme] = "gitkit"]
    /\ registering' = registering + 1
    /\ UNCHANGED <<state, operation>>

\* Mutant: only the scheme taken last is given back.
GivesBackLast(n) ==
    transports' = [transports EXCEPT ![Schemes[n]] = "builtin"]

\* The first n schemes are libgit2's again.
GivesBack(n) ==
    transports' = [s \in ToSet(Schemes) |->
                      IF \E i \in 1..n : Schemes[i] = s THEN "builtin"
                      ELSE transports[s]]

RegisterFails ==
    /\ registering # 0 /\ registering < Len(Schemes)
    /\ transports[NextScheme] = "host"
    /\ GivesBack(registering)
    /\ registering' = 0
    /\ UNCHANGED <<state, operation>>

RegisterEnds ==
    /\ registering = Len(Schemes)
    /\ state' = TRUE /\ registering' = 0
    /\ UNCHANGED <<transports, operation>>

Unregister ==
    /\ NothingInFlight /\ state
    /\ GivesBack(Len(Schemes))
    /\ state' = FALSE
    /\ UNCHANGED <<registering, operation>>

\* The host registers or unregisters a transport of its own.
HostTransport ==
    /\ NothingInFlight /\ registering = 0
    /\ \E scheme \in ToSet(Schemes) :
          /\ ~Ours(scheme)
          /\ \E owner \in {"builtin", "host"} :
                transports' = [transports EXCEPT ![scheme] = owner]
    /\ UNCHANGED <<state, registering, operation>>

-----------------------------------------------------------------------------
Doing(t, label) == doing[t] = label
GoesOn(t, label) == doing' = [doing EXCEPT ![t] = label]

\* gitkitSSHSubtransportCreate: the allocation, and the context put under
\* the address.
Allocate(t) ==
    /\ Doing(t, "idle") /\ registering = 0
    /\ \E scheme \in ToSet(Schemes) : Ours(scheme)
    /\ \E a \in Addresses \ used :
          /\ used' = used \cup {a}
          /\ address' = [address EXCEPT ![t] = a]
    /\ GoesOn(t, "create")
    /\ UNCHANGED <<registration, contexts, channels, asked>>

Create(t) ==
    /\ Doing(t, "create")
    /\ contexts' = [contexts EXCEPT ![address[t]] = Fresh(t)]
    /\ GoesOn(t, "made")
    /\ UNCHANGED <<registration, used, channels, address, asked>>

\* SSHSubtransportRegistry.context(for:), and a change of what it returns.
Found(t) == contexts[address[t]] # NoContext
Context(t) == contexts[address[t]]
Sets(t, context) == contexts' = [contexts EXCEPT ![address[t]] = context]

\* gitkitSSHSubtransportAction for a listing: openChannel, which leaves all
\* as it was when it throws, and a new stream.
List(t, service) ==
    /\ Doing(t, "made") /\ Found(t) /\ Len(channels) < MaxOpens
    /\ channels' =
          Append(channels, [of |-> t, service |-> service, open |-> TRUE])
    /\ Sets(t, [of |-> Context(t).of, channel |-> Len(channels'),
                stream |-> TRUE, action |-> service])
    /\ asked' = [asked EXCEPT ![t] = service]
    /\ GoesOn(t, "connected")
    /\ UNCHANGED <<registration, used, address>>

Follows(context, service) ==
    /\ context.stream
    /\ context.action = service

\* ... and for a service, on the stream and the channel of the listing.
Serve(t, service) ==
    /\ Doing(t, "connected") /\ Found(t)
    /\ Follows(Context(t), service)
    /\ Sets(t, [Context(t) EXCEPT !.action = service])
    /\ asked' = [asked EXCEPT ![t] = service]
    /\ UNCHANGED <<registration, used, channels, address, doing>>

\* Mutant: the channel is only let go of.
ForgetChannel(context) == channels

\* gitkitSSHSubtransportClose closes the channel it has.
CloseChannel(context) ==
    IF context.channel = 0 THEN channels
    ELSE [channels EXCEPT ![context.channel].open = FALSE]

\* git_smart__reset_stream: gitkitSSHStreamFree, then the close.
Reset(t) ==
    /\ Doing(t, "made") \/ Doing(t, "connected")
    /\ IF Found(t)
       THEN /\ channels' = CloseChannel(Context(t))
            /\ Sets(t, Fresh(Context(t).of))
       ELSE UNCHANGED <<channels, contexts>>
    /\ asked' = [asked EXCEPT ![t] = Absent]
    /\ \E next \in {"made", "free"} : GoesOn(t, next)
    /\ UNCHANGED <<registration, used, address>>

\* Mutant: the memory goes first.
FreePartsSwapped == <<"deallocate", "remove">>

\* gitkitSSHSubtransportFree: the context goes, then the memory.
FreeParts == <<"remove", "deallocate">>

FreePart(t, part) ==
    IF part = "remove"
    THEN /\ contexts' = [contexts EXCEPT ![address[t]] = NoContext]
         /\ UNCHANGED used
    ELSE /\ used' = used \ {address[t]}
         /\ UNCHANGED contexts

FreeBegins(t) ==
    /\ Doing(t, "free")
    /\ FreePart(t, FreeParts[1])
    /\ GoesOn(t, "freeing")
    /\ UNCHANGED <<registration, channels, address, asked>>

FreeEnds(t) ==
    /\ Doing(t, "freeing")
    /\ FreePart(t, FreeParts[2])
    /\ address' = [address EXCEPT ![t] = Absent]
    /\ GoesOn(t, "idle")
    /\ UNCHANGED <<registration, channels, asked>>

SSHNext ==
    \/ RegisterStarts \/ RegisterTakes \/ RegisterFails \/ RegisterEnds
    \/ Unregister \/ HostTransport
    \/ \E t \in Callers :
          \/ Allocate(t) \/ Create(t) \/ Reset(t)
          \/ FreeBegins(t) \/ FreeEnds(t)
          \/ \E service \in Services : List(t, service) \/ Serve(t, service)

SSHSpec == SSHInit /\ [][SSHNext]_sshVars

-----------------------------------------------------------------------------
\* The stream of a connection leads to its own channel, open and running the
\* command that was asked for: the map, its lock and the address that comes
\* back into use never give a thread another one's context, or none.
ReachesOwnChannel ==
    \A t \in Callers :
        Doing(t, "connected") =>
            /\ Found(t) /\ Context(t).of = t /\ Context(t).channel # 0
            /\ channels[Context(t).channel] =
                  [of |-> t, service |-> asked[t], open |-> TRUE]

\* A channel is open only while a connection holds it (GitSSHChannel.close:
\* "Called at most once per channel, always after the last read/write").
NoChannelLeftOpen ==
    \A c \in DOMAIN channels :
        channels[c].open =>
            \E t \in Callers : /\ Doing(t, "connected") /\ Found(t)
                               /\ Context(t).channel = c

\* Each scheme is the provider's, or none is: what a registration took before
\* it failed is given back, and what the host had is left alone.
SchemesWhole ==
    registering = 0 =>
        \A scheme \in ToSet(Schemes) : Ours(scheme) <=> state

-----------------------------------------------------------------------------
(***************************************************************************)
(* The invariant the proofs rest on.                                       *)
(***************************************************************************)
Labels == {"idle", "create", "made", "connected", "free", "freeing"}

\* What each variable may hold.
SSHTypeOK ==
    /\ transports \in [ToSet(Schemes) -> {"builtin", "host", "gitkit"}]
    /\ state \in BOOLEAN
    /\ used \subseteq Addresses
    /\ contexts \in [Addresses ->
                       [of : Callers \cup {Absent}, channel : Nat,
                        stream : BOOLEAN, action : Services \cup {Absent}]]
    /\ channels \in Seq([of : Callers, service : Services, open : BOOLEAN])
    /\ address \in [Callers -> Addresses \cup {Absent}]
    /\ asked \in [Callers -> Services \cup {Absent}]
    /\ doing \in [Callers -> Labels]

\* A thread has an address from the allocation to the end of the free, and
\* nobody else has it.
AddressesOwned ==
    \A t \in Callers :
        doing[t] # "idle" =>
            /\ address[t] \in used
            /\ \A u \in Callers \ {t} :
                  doing[u] # "idle" => address[u] # address[t]

\* What stands under the address of a thread, in each phase.
Holds(t) ==
    LET context == contexts[address[t]]
    IN  /\ doing[t] = "made" \/ doing[t] = "free" =>
              context = Fresh(t)
        /\ doing[t] = "connected" =>
              /\ context.of = t /\ context.stream
              /\ context.action = asked[t]
              /\ context.channel \in DOMAIN channels
              /\ channels[context.channel] =
                    [of |-> t, service |-> asked[t], open |-> TRUE]

ContextsOwned == \A t \in Callers : Holds(t)

\* The thread that holds an open channel, connected.
Connected(t, c) == doing[t] = "connected" /\ contexts[address[t]].channel = c

ChannelsHeld ==
    \A c \in DOMAIN channels :
        channels[c].open => \E t \in Callers : Connected(t, c)

\* Between two schemes of a registration, those it has taken are ours.
SchemesTaken ==
    /\ registering \in 0..Len(Schemes)
    /\ registering # 0 => ~state
    /\ \A i \in DOMAIN Schemes :
          Ours(Schemes[i]) <=> state \/ i <= registering

SSHInv ==
    /\ SSHTypeOK /\ AddressesOwned /\ ContextsOwned /\ ChannelsHeld
    /\ SchemesTaken
=============================================================================
