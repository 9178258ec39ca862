------------------------------ MODULE PhoneSos ------------------------------
(***************************************************************************)
(* The SOS of the Android app: the ladder (Emergency.raise), the queue on  *)
(* the phone (Emergency.queue, SosQueue), its replay (Emergency.flush) and *)
(* the trigger that runs it (SosReplay, ReplayTrigger), against            *)
(* POST /v1/sos and its confirm.                                           *)
(*                                                                         *)
(* A request is one action and uses the session of its moment; a post and  *)
(* its confirm are two.  ReplayTrigger is modelled flag by flag, since     *)
(* pokes come from several threads.  The session is the account signed in  *)
(* or NoUser; how it is kept is module PhoneSession.                       *)
(***************************************************************************)
EXTENDS Naturals, Sequences, Filter

CONSTANTS
    Refs,           \* client references, one per SOS
    Users, NoUser,
    Jobs,           \* coroutines a poke may launch
    MaxSwitches,    \* bound on sign-ins and sign-outs
    MaxFaults,      \* bound on failed requests, lost networks and killed processes
    SwitchInFlight  \* whether the account may change while its SOS is being raised or replayed

ASSUME PhoneAssumption ==
    /\ NoUser \notin Users /\ "nobody yet" \notin Users \cup {NoUser}
    /\ MaxSwitches \in Nat /\ MaxFaults \in Nat
    /\ SwitchInFlight \in BOOLEAN

VARIABLES
    user, online,       \* Api.userId with its tokens; hasData
    ladder,             \* the SOS in flight: SosGate and the ladder's coroutine
    queue, dead,        \* QUEUE_KEY: [ref, owner]; DEAD_KEY: references
    running, again, retry,  \* ReplayTrigger
    poking,             \* threads between poke's two statements
    job,                \* launched replays
    seen,               \* the last sessionLive the collector of SosReplay has handled
    server,             \* incidents by client_incident_id
    raisedBy,           \* whose SOS a reference is
    killed,             \* SOS whose ladder died with the process
    switches, faults

phone == <<queue, dead>>
trigger == <<running, again, retry, poking, job, seen>>
ghosts == <<raisedBy, killed>>
vars == <<user, online, ladder, phone, trigger, server, ghosts, switches, faults>>

Pokers == {"ladder", "network", "session", "launch", "timer", "end"}
NotThere == [status |-> "NONE", owner |-> NoUser]
Idle == [pc |-> "idle"]
Off == [pc |-> "off"]
NotRaised == "nobody yet"

Entries == [ref : Refs, owner : Users \cup {NoUser}]
Steps == {"loop", "post", "confirm", "write", "release", "ending"}

TypeOK ==
    /\ user \in Users \cup {NoUser} /\ online \in BOOLEAN
    /\ ladder = Idle \/ ladder \in [pc : {"start", "post", "confirm", "queue", "poke"}, ref : Refs]
    /\ queue \in Seq(Entries) /\ dead \subseteq Refs
    /\ running \in BOOLEAN /\ again \in BOOLEAN /\ retry \in BOOLEAN /\ seen \in BOOLEAN
    /\ poking \subseteq Pokers
    /\ \A j \in Jobs : job[j].pc \in Steps \cup {"off"}
    /\ server \in [Refs -> [status : {"CONFIRMED", "RESPONDING", "CLOSED"}, owner : Users] \cup {NotThere}]
    /\ raisedBy \in [Refs -> Users \cup {NoUser, NotRaised}] /\ killed \subseteq Refs
    /\ switches \in 0..MaxSwitches /\ faults \in 0..MaxFaults

\* The app is launched with the session and the queue an earlier process left.
Init ==
    /\ user \in Users \cup {NoUser} /\ online \in BOOLEAN
    /\ ladder = Idle
    /\ dead = {}
    /\ \/ queue = <<>> /\ raisedBy = [r \in Refs |-> NotRaised]
       \/ \E left \in Refs, owner \in Users \cup {NoUser} :
            /\ queue = <<[ref |-> left, owner |-> owner]>>
            /\ raisedBy = [r \in Refs |-> IF r = left THEN owner ELSE NotRaised]
    /\ running = FALSE /\ again = FALSE /\ retry = FALSE
    /\ poking = {"launch"}
    /\ job = [j \in Jobs |-> Off]
    /\ seen = FALSE
    /\ server = [r \in Refs |-> NotThere]
    /\ killed = {}
    /\ switches = 0 /\ faults = 0

Fault == faults < MaxFaults /\ faults' = faults + 1
HasSession == user # NoUser
Queued == {queue[i].ref : i \in DOMAIN queue}

-----------------------------------------------------------------------------
(* The server, as one account sees it *)

\* POST /v1/sos under the session: created, or converged on; of another account, 409.
RaisedFor(r) == server' = IF server[r] = NotThere
                          THEN [server EXCEPT ![r] = [status |-> "CONFIRMED", owner |-> user]]
                          ELSE server
Takes(r) == server[r] = NotThere \/ server[r].owner = user

\* POST /v1/sos/:id/confirm: repeated, it answers again; closed, it is a 409.
ConfirmedFor(r) == server' = [server EXCEPT ![r].status = IF @ = "CONFIRMED" THEN "RESPONDING" ELSE @]
Confirms(r) == server[r] # NotThere /\ server[r].owner = user /\ server[r].status # "CLOSED"

\* The owner stands it down, on this phone's card or elsewhere.
CloseIncident(r) ==
    /\ server[r].status \in {"CONFIRMED", "RESPONDING"}
    /\ server' = [server EXCEPT ![r].status = "CLOSED"]
    /\ UNCHANGED <<user, online, ladder, phone, trigger, ghosts, switches, faults>>

-----------------------------------------------------------------------------
(* The ladder *)

\* fireSos: one SOS at a time (SosGate), then up to 8 s for a fix.
Fire(r) ==
    /\ ladder = Idle
    /\ raisedBy[r] = NotRaised
    /\ ladder' = [pc |-> "start", ref |-> r]
    /\ raisedBy' = [raisedBy EXCEPT ![r] = user]
    /\ UNCHANGED <<user, online, phone, trigger, server, killed, switches, faults>>

LadderAt(pc) == ladder.pc = pc
LadderTo(pc) == ladder' = [ladder EXCEPT !.pc = pc]

\* Rung 1 only with data and a session.
ChooseRung ==
    /\ LadderAt("start")
    /\ LadderTo(IF online /\ HasSession THEN "post" ELSE "queue")
    /\ UNCHANGED <<user, online, phone, trigger, server, ghosts, switches, faults>>

DataPost ==
    /\ LadderAt("post")
    /\ HasSession /\ online /\ Takes(ladder.ref)
    /\ RaisedFor(ladder.ref)
    /\ LadderTo("confirm")
    /\ UNCHANGED <<user, online, phone, trigger, ghosts, switches, faults>>

DataConfirm ==
    /\ LadderAt("confirm")
    /\ HasSession /\ online /\ Confirms(ladder.ref)
    /\ ConfirmedFor(ladder.ref)
    /\ ladder' = Idle
    /\ UNCHANGED <<user, online, phone, trigger, ghosts, switches, faults>>

\* apiSos threw: refused or signed out, ...
DataRefused ==
    /\ \/ LadderAt("post") /\ ~(HasSession /\ Takes(ladder.ref))
       \/ LadderAt("confirm") /\ ~(HasSession /\ Confirms(ladder.ref))
       \/ LadderAt("post") /\ ~online
       \/ LadderAt("confirm") /\ ~online
    /\ LadderTo("queue")
    /\ UNCHANGED <<user, online, phone, trigger, server, ghosts, switches, faults>>

\* ... or unanswered, whether or not the server has acted on it.
DataUnanswered ==
    /\ HasSession /\ Fault
    /\ \/ LadderAt("post") /\ Takes(ladder.ref) /\ (RaisedFor(ladder.ref) \/ UNCHANGED server)
       \/ LadderAt("confirm") /\ Confirms(ladder.ref) /\ (ConfirmedFor(ladder.ref) \/ UNCHANGED server)
    /\ LadderTo("queue")
    /\ UNCHANGED <<user, online, phone, trigger, ghosts, switches>>

\* queue(): tagged with the account signed in now, appended to what is stored now.
Queue ==
    /\ LadderAt("queue")
    /\ queue' = Append(queue, [ref |-> ladder.ref, owner |-> user])
    /\ LadderTo("poke")
    /\ UNCHANGED <<user, online, dead, trigger, server, ghosts, switches, faults>>

-----------------------------------------------------------------------------
(* ReplayTrigger *)

\* poke: again.set(true), ...
PokeBy(p) == again' = TRUE /\ poking' = poking \cup {p}

LadderPokes ==
    /\ LadderAt("poke")
    /\ "ladder" \notin poking
    /\ PokeBy("ladder")
    /\ ladder' = Idle
    /\ UNCHANGED <<user, online, phone, running, retry, job, seen, server, ghosts, switches, faults>>


\* ... then running.compareAndSet(false, true), and the winner launches the loop.
Claim(p) ==
    /\ p \in poking
    /\ poking' = poking \ {p}
    /\ IF running THEN UNCHANGED <<running, job>>
       ELSE \E j \in Jobs :
              /\ job[j] = Off
              /\ running' = TRUE
              /\ job' = [job EXCEPT ![j] = [pc |-> "loop"]]
    /\ UNCHANGED <<user, online, ladder, phone, again, retry, seen, server, ghosts, switches, faults>>

JobTo(j, pc) == job' = [job EXCEPT ![j].pc = pc]
Ready == HasSession /\ queue # <<>>

\* again.getAndSet(false), ready(), and flush's own checks, snapshot and userId.
Pass(j) ==
    /\ job[j].pc = "loop"
    /\ again' = FALSE
    /\ IF ~again THEN JobTo(j, "release")
       ELSE IF Ready /\ online
       THEN job' = [job EXCEPT ![j] = [pc |-> "post", todo |-> queue, as |-> user, sent |-> {}, dropped |-> {}]]
       ELSE UNCHANGED job
    /\ UNCHANGED <<user, online, ladder, phone, running, retry, poking, seen, server, ghosts, switches, faults>>

Release(j) ==
    /\ job[j].pc = "release"
    /\ running' = FALSE
    /\ JobTo(j, "ending")
    /\ UNCHANGED <<user, online, ladder, phone, again, retry, poking, seen, server, ghosts, switches, faults>>

\* Variant: the loop does not look again once it has released the flag.
EndForgets(j) ==
    /\ job[j].pc = "ending"
    /\ job' = [job EXCEPT ![j] = Off]
    /\ UNCHANGED <<user, online, ladder, phone, running, again, retry, poking, seen, server, ghosts, switches, faults>>

\* After the release: another poke came in, or there is still something to send.
End(j) ==
    /\ job[j].pc = "ending"
    /\ IF again THEN "end" \notin poking /\ PokeBy("end") /\ UNCHANGED retry
       ELSE retry' = (retry \/ Ready) /\ UNCHANGED <<again, poking>>
    /\ job' = [job EXCEPT ![j] = Off]
    /\ UNCHANGED <<user, online, ladder, phone, running, seen, server, ghosts, switches, faults>>

TimerPokes ==
    /\ retry /\ "timer" \notin poking
    /\ retry' = FALSE
    /\ PokeBy("timer")
    /\ UNCHANGED <<user, online, ladder, phone, running, job, seen, server, ghosts, switches, faults>>

\* The collector of sessionLive, a StateFlow: it sees the latest value only.
SessionPokes ==
    /\ seen # HasSession
    /\ seen' = HasSession
    /\ IF HasSession THEN "session" \notin poking /\ PokeBy("session") ELSE UNCHANGED <<again, poking>>
    /\ UNCHANGED <<user, online, ladder, phone, running, retry, job, server, ghosts, switches, faults>>

-----------------------------------------------------------------------------
(* One pass of the replay: Emergency.flush and SosQueue.replay *)

\* Variant: whoever is signed in replays whatever is queued.
AnyIsMine(entry, u) == TRUE

Mine(entry, u) == entry.owner = NoUser \/ entry.owner = u

Entry(j) == Head(job[j].todo)
InPass(j, pc) == job[j].pc = pc
Done(j, sent, dropped) ==
    job' = [job EXCEPT ![j].pc = "post", ![j].todo = Tail(@), ![j].sent = sent, ![j].dropped = dropped]

Skip(j) ==
    /\ InPass(j, "post") /\ job[j].todo # <<>>
    /\ ~Mine(Entry(j), job[j].as)
    /\ job' = [job EXCEPT ![j].todo = Tail(@)]
    /\ UNCHANGED <<user, online, ladder, phone, running, again, retry, poking, seen, server, ghosts, switches, faults>>

Sending(j) == InPass(j, "post") /\ job[j].todo # <<>> /\ Mine(Entry(j), job[j].as) /\ online

Post(j) ==
    /\ Sending(j)
    /\ HasSession /\ Takes(Entry(j).ref)
    /\ RaisedFor(Entry(j).ref)
    /\ JobTo(j, "confirm")
    /\ UNCHANGED <<user, online, ladder, phone, running, again, retry, poking, seen, ghosts, switches, faults>>

Confirm(j) ==
    /\ InPass(j, "confirm") /\ online
    /\ HasSession /\ Confirms(Entry(j).ref)
    /\ ConfirmedFor(Entry(j).ref)
    /\ Done(j, job[j].sent \cup {Entry(j).ref}, job[j].dropped)
    /\ UNCHANGED <<user, online, ladder, phone, running, again, retry, poking, seen, ghosts, switches, faults>>

\* afterFailure: a 4xx is about the entry, which is dropped; ...
Drop(j) ==
    /\ HasSession
    /\ \/ Sending(j) /\ ~Takes(Entry(j).ref)
       \/ InPass(j, "confirm") /\ online /\ ~Confirms(Entry(j).ref)
    /\ Done(j, job[j].sent, job[j].dropped \cup {Entry(j).ref})
    /\ UNCHANGED <<user, online, ladder, phone, running, again, retry, poking, seen, server, ghosts, switches, faults>>

\* ... a 401 or no network says nothing of it, and the pass stops, ...
Stop(j) ==
    /\ \/ InPass(j, "post") /\ job[j].todo # <<>> /\ Mine(Entry(j), job[j].as)
       \/ InPass(j, "confirm")
    /\ ~HasSession \/ ~online
    /\ JobTo(j, "write")
    /\ UNCHANGED <<user, online, ladder, phone, running, again, retry, poking, seen, server, ghosts, switches, faults>>

\* ... as does a request without an answer, whatever the server did with it.
Unanswered(j) ==
    /\ HasSession /\ Fault
    /\ \/ Sending(j) /\ Takes(Entry(j).ref) /\ (RaisedFor(Entry(j).ref) \/ UNCHANGED server)
       \/ InPass(j, "confirm") /\ Confirms(Entry(j).ref) /\ (ConfirmedFor(Entry(j).ref) \/ UNCHANGED server)
    /\ JobTo(j, "write")
    /\ UNCHANGED <<user, online, ladder, phone, running, again, retry, poking, seen, ghosts, switches>>

\* Variant: what the pass did not get to, of the queue it started with.
RemainingOfSnapshot(j) == job[j].todo

\* remaining(): by identity, against the queue as it is now.
Remaining(j) == Filtered(queue, {entry \in Entries : entry.ref \notin job[j].sent \cup job[j].dropped})

Write(j) ==
    /\ \/ InPass(j, "write")
       \/ InPass(j, "post") /\ job[j].todo = <<>>
    /\ queue' = Remaining(j)
    /\ dead' = dead \cup job[j].dropped
    /\ job' = [job EXCEPT ![j] = [pc |-> "loop"]]
    /\ UNCHANGED <<user, online, ladder, running, again, retry, poking, seen, server, ghosts, switches, faults>>

-----------------------------------------------------------------------------
(* The account, the network and the process *)

InFlight == ladder # Idle \/ \E j \in Jobs : job[j].pc \in {"post", "confirm", "write"}

Switch == (SwitchInFlight \/ ~InFlight) /\ switches < MaxSwitches /\ switches' = switches + 1

SignOut ==
    /\ HasSession
    /\ Switch
    /\ user' = NoUser
    /\ UNCHANGED <<online, ladder, phone, trigger, server, ghosts, faults>>

\* A sign-in is a request away from the sign-out, which the collector has seen by then.
SignIn(u) ==
    /\ ~HasSession /\ ~seen
    /\ Switch
    /\ user' = u
    /\ UNCHANGED <<online, ladder, phone, trigger, server, ghosts, faults>>

NetworkLost ==
    /\ online
    /\ Fault
    /\ online' = FALSE
    /\ UNCHANGED <<user, ladder, phone, trigger, server, ghosts, switches>>

NetworkBack ==
    /\ ~online
    /\ "network" \notin poking
    /\ online' = TRUE
    /\ PokeBy("network")
    /\ UNCHANGED <<user, ladder, phone, running, retry, job, seen, server, ghosts, switches, faults>>

\* The process is killed and started again: start() pokes; session and queue are stored.
Restart ==
    /\ Fault
    /\ ladder' = Idle
    /\ killed' = IF ladder = Idle \/ LadderAt("poke") THEN killed ELSE killed \cup {ladder.ref}
    /\ running' = FALSE /\ again' = FALSE /\ retry' = FALSE /\ seen' = FALSE
    /\ poking' = {"launch"}
    /\ job' = [j \in Jobs |-> Off]
    /\ UNCHANGED <<user, online, phone, server, raisedBy, switches>>

Ladder == ChooseRung \/ DataPost \/ DataConfirm \/ DataRefused \/ Queue \/ LadderPokes
Replay(j) == Pass(j) \/ Release(j) \/ End(j) \/ Skip(j) \/ Post(j) \/ Confirm(j) \/ Drop(j) \/ Stop(j) \/ Write(j)

Next ==
    \/ \E r \in Refs : Fire(r) \/ CloseIncident(r)
    \/ Ladder \/ DataUnanswered
    \/ \E p \in Pokers : Claim(p)
    \/ \E j \in Jobs : Replay(j) \/ Unanswered(j)
    \/ TimerPokes \/ SessionPokes
    \/ SignOut \/ \E u \in Users : SignIn(u)
    \/ NetworkLost \/ NetworkBack \/ Restart

Spec == Init /\ [][Next]_vars

-----------------------------------------------------------------------------
(* Properties *)

Delivered(r) == server[r].status \in {"RESPONDING", "CLOSED"}

\* An SOS whose ladder has run is with the server, in the queue or among the refused,
\* also when it was queued while a pass was in the air (SosQueue: "a brand-new
\* emergency, silently deleted").
NoneErased ==
    \A r \in Refs :
        raisedBy[r] # NotRaised /\ r \notin killed /\ (ladder = Idle \/ ladder.ref # r)
            => Delivered(r) \/ r \in Queued \cup dead

\* An emergency is on the record of the account it was raised under, whoever has
\* signed in before it was sent (SosQueue.isMine).
RightRecord ==
    \A r \in Refs :
        server[r] # NotThere /\ raisedBy[r] \in Users => server[r].owner = raisedBy[r]

\* Both of the above: a queued emergency is kept, and is sent for its own account.
QueueIsKept == NoneErased /\ RightRecord

\* One replay runs at a time, whoever pokes it, and one is never missing: while the
\* phone is online and signed in, something is under way that will run the
\* queue: a pass, a poke, a timer, or the session's collector.  No interleaving of the
\* trigger's flags and nothing a pass meets leaves the queue to the next change of the
\* network (ReplayTrigger: "until the network happened to change").
QueueIsWatched ==
    /\ \A j, k \in Jobs :
         job[j].pc \notin {"off", "ending"} /\ job[k].pc \notin {"off", "ending"} => j = k
    /\ Ready /\ online =>
        \/ poking # {} \/ retry \/ ~seen
        \/ \E j \in Jobs : job[j] # Off
        \/ ladder # Idle /\ LadderAt("poke")

\* A queued emergency is kept for its account, and something is coming to send it.
QueueHolds == QueueIsKept /\ QueueIsWatched
=============================================================================
