------------------------------- MODULE Server -------------------------------
(***************************************************************************)
(* The BatteryOS V3 server (class BOS) with the poll loop of NetService,   *)
(* the FIFO and TLS acceptors, BatteryConnection and the clients Admin and *)
(* ClientBattery.                                                          *)
(*                                                                         *)
(* The server is one thread: it polls everything registered, then runs the *)
(* handlers of what was ready, one after the other, and polls again.  A    *)
(* client is one thread too: it writes a command and reads the response.   *)
(* In FIFO mode all clients of a battery share its pair of FIFOs, in       *)
(* network mode each has a socket of its own.                              *)
(***************************************************************************)
EXTENDS Naturals, Sequences, FiniteSets, SequencesExt

CONSTANTS
    Modes,        \* the values of BOSMode considered: "Fifo", "Network"
    Clients,
    Target,       \* what each client is for: "admin" or the name of a battery
    Creations,    \* what an admin may ask to create: [op, names]
    ManagerNames, \* the sequence "pManager1", "pManager2", ...
    BatteryCmds,  \* the commands sent to batteries
    Discipline,   \* what is assumed of the clients, see Leave and Send
    MaxSends,     \* bound on the number of commands
    MaxStarts     \* bound on the number of times the server is started

Cmds == {"Get_Status", "Set_Status", "Schedule_Set_Current"}
CreateCmds == {"Create_Physical", "Create_Dynamic", "Create_Aggregate", "Create_Partition",
               "Create_Secure"}
Assumptions == {"stay", "alone", "fresh", "last"}

ASSUME ServerAssumption ==
    /\ Modes \subseteq {"Fifo", "Network"}
    /\ BatteryCmds \subseteq Cmds
    /\ Discipline \subseteq Assumptions
    /\ \A q \in Creations :
         /\ q.op \in CreateCmds /\ q.names # << >>
         /\ q.names \in Seq(Range(q.names)) /\ IsInjective(q.names)
         /\ Len(q.names) > 1 => q.op = "Create_Partition"
    /\ ManagerNames \in Seq(Range(ManagerNames)) /\ IsInjective(ManagerNames)
    /\ MaxSends \in Nat /\ MaxStarts \in Nat

VARIABLES
    mode,       \* BOS::mode, fixed when the server is made
    server,     \* "off", "running", "stuck" in a read, "dead", "stopped", "nostart"
    quitPoll,
    pollables,  \* NetService::pollables, in the order they were added
    round,      \* positions of those found ready by poll whose handlers have not run yet
    directory,  \* names the directory manager knows
    pManagerCounter,
    fifoFiles,  \* names whose FIFOs exist in the file system
    idleFd,     \* FIFO mode: names whose FifoAcceptor holds the input descriptor
    admin,      \* channel of adminConnection
    backlog,    \* network mode: clients the kernel has connected, not yet accepted
    client,     \* "out", "connecting", "in", "waiting" for a response, "gone"
    requests,   \* channel -> commands written and not yet read
    responses,  \* channel -> responses written and not yet read
    sends, starts, ending   \* ending: a Shutdown has been sent

vars == <<mode, server, quitPoll, pollables, round, directory, pManagerCounter, fifoFiles, idleFd, admin, backlog,
          client, requests, responses, sends, starts, ending>>

counters == <<sends, starts, ending>>
serverVars == <<mode, server, quitPoll, pollables, round, directory, pManagerCounter, fifoFiles, idleFd, admin>>

Targets == {Target[c] : c \in Clients}
Channels == IF mode = "Fifo" THEN {"admin"} \cup Targets \cup UNION {Range(q.names) : q \in Creations}
            ELSE Clients
Channel(c) == IF mode = "Fifo" THEN Target[c] ELSE c
None == "none"
Managers == Range(ManagerNames)

\* What poll watches: an acceptor, or the connection on a channel to a target.
Listener(t) == [what |-> "listener", on |-> t, to |-> t]
Connection(ch, t) == [what |-> "connection", on |-> ch, to |-> t]

Present == {c \in Clients : client[c] \in {"connecting", "in", "waiting"}}
On(ch) == {c \in Clients : Channel(c) = ch}

\* The peer end of a channel: somebody has it open, or had and closed it.
Open(ch) == On(ch) \cap Present # {}
HungUp(ch) == ~Open(ch) /\ \E c \in On(ch) : client[c] = "gone"

Init ==
    /\ mode \in Modes
    /\ server = "off" /\ quitPoll = FALSE
    /\ pollables = << >> /\ round = {}
    /\ directory = {} /\ pManagerCounter = 1 /\ fifoFiles = {} /\ idleFd = {}
    /\ admin = None /\ backlog = {}
    /\ client = [c \in Clients |-> "out"]
    /\ requests = [ch \in Channels |-> << >>] /\ responses = [ch \in Channels |-> << >>]
    /\ sends = 0 /\ starts = 0 /\ ending = FALSE

-----------------------------------------------------------------------------
mkfifo(ns) == fifoFiles \cup ns

\* startFifos and startSockets up to the poll loop.  mkfifo fails on a FIFO
\* that is left over, and the exception ends the process.
Start ==
    /\ server \in {"off", "stopped", "dead"} /\ starts < MaxStarts
    /\ starts' = starts + 1
    /\ quitPoll' = FALSE /\ round' = {} /\ admin' = None
    /\ directory' = {} /\ pManagerCounter' = 1
    /\ \/ /\ mode = "Fifo" /\ "admin" \in fifoFiles
          /\ server' = "nostart"
          /\ pollables' = << >> /\ idleFd' = {}
          /\ UNCHANGED fifoFiles
       \/ /\ mode = "Fifo" /\ "admin" \notin fifoFiles
          /\ server' = "running"
          /\ pollables' = <<Listener("admin")>> /\ idleFd' = {"admin"}
          /\ fifoFiles' = mkfifo({"admin"})
       \/ /\ mode = "Network" /\ server = "off"
          /\ server' = "running"
          /\ pollables' = <<Listener("admin"), Listener("battery")>>
          /\ UNCHANGED <<fifoFiles, idleFd>>
    /\ UNCHANGED <<mode, backlog, client, requests, responses, sends, ending>>

-----------------------------------------------------------------------------
\* NetService::poll.  The pointers it keeps are weak: an admin connection that
\* has been replaced is gone, and an entry for it is skipped.
Expired(p) == p.what = "connection" /\ p.to = "admin" /\ p.on # admin

Arriving(p) == {c \in backlog : p.to = IF Target[c] = "admin" THEN "admin" ELSE "battery"}

Ready(p) ==
    /\ ~Expired(p)
    /\ \/ /\ p.what = "listener" /\ mode = "Fifo"
          /\ p.on \in idleFd
          /\ requests[p.on] # << >> \/ HungUp(p.on)
       \/ p.what = "listener" /\ mode = "Network" /\ Arriving(p) # {}
       \/ p.what = "connection" /\ (requests[p.on] # << >> \/ HungUp(p.on))

\* Mutant: the loop does not look at quitPoll.
pollFDs_Forever ==
    /\ server = "running" /\ round = {}
    /\ \E p \in Range(pollables) : Ready(p)
    /\ round' = {i \in DOMAIN pollables : Ready(pollables[i])}
    /\ UNCHANGED <<mode, server, quitPoll, pollables, directory, pManagerCounter, fifoFiles, idleFd, admin, backlog,
                   client, requests, responses, counters>>

\* One turn of the loop in pollFDs: the handlers to run are fixed by the poll.
pollFDs ==
    /\ server = "running" /\ round = {}
    /\ \/ /\ quitPoll /\ server' = "stopped" /\ UNCHANGED round
       \/ /\ ~quitPoll /\ \E p \in Range(pollables) : Ready(p)
          /\ round' = {i \in DOMAIN pollables : Ready(pollables[i])}
          /\ UNCHANGED server
    /\ UNCHANGED <<mode, quitPoll, pollables, directory, pManagerCounter, fifoFiles, idleFd, admin, backlog, client,
                   requests, responses, counters>>

\* The next handler of the round is of this kind and still there.
Subject == pollables[Min(round)]
Turn(what) == server = "running" /\ round # {} /\ Subject.what = what /\ ~Expired(Subject)
Done == round' = round \ {Min(round)}

SkipExpired ==
    /\ server = "running" /\ round # {} /\ Expired(Subject)
    /\ Done
    /\ UNCHANGED <<mode, server, quitPoll, pollables, directory, pManagerCounter, fifoFiles, idleFd, admin, backlog,
                   client, requests, responses, counters>>

\* The process ends, or never comes back from a read.
GoesDown(how) ==
    /\ server' = how
    /\ UNCHANGED <<mode, quitPoll, pollables, round, directory, pManagerCounter, fifoFiles, idleFd, admin, backlog,
                   client, requests, responses, counters>>

-----------------------------------------------------------------------------
\* Mutant: the new connection is not given to netServicer.
accept_NotPolled(ch, t) ==
    IF t = "admin" THEN admin' = ch /\ pollables' = Append(pollables, Connection(ch, t))
                   ELSE UNCHANGED <<admin, pollables>>

\* acceptAdminConnection replaces the admin there was; acceptBatteryConnection
\* adds to the connections, which are never given up.
accept(ch, t) ==
    /\ pollables' = Append(pollables, Connection(ch, t))
    /\ admin' = IF t = "admin" THEN ch ELSE admin

\* Mutant: the acceptor keeps the descriptor it hands to the pipe.
released_Kept(t) == idleFd

\* FifoAcceptor::fd is empty while the pipe made of it lives.
released(t) == idleFd \ {t}

\* FifoAcceptor::pollHandler.  Opening the output FIFO fails, and the exception
\* ends the process, when no client has it open for reading.
FifoAccepts ==
    /\ mode = "Fifo" /\ Turn("listener")
    /\ LET t == Subject.on
       IN  IF Open(t)
           THEN /\ idleFd' = released(t)
                /\ accept(t, t)
                /\ Done
                /\ UNCHANGED <<mode, server, quitPoll, directory, pManagerCounter, fifoFiles, backlog, client, requests,
                               responses, counters>>
           ELSE GoesDown("dead")

\* BatteryDirectoryManager::getBattery(n) # nullptr.
getBattery(n) == n \in directory

\* The status_code of ConnectResponse.
connectStatus(n) == IF getBattery(n) THEN "Success" ELSE "DoesNotExist"

\* What the constructor of a client comes to: a client whose battery does not
\* exist exits.
connected(c) ==
    IF Target[c] = "admin" \/ connectStatus(Target[c]) = "Success" THEN "in" ELSE "gone"

\* TLSAcceptor::pollHandler and the lambdas given to it: accept, handshake and,
\* for a battery, read its name and answer.  A peer that has gone fails the
\* handshake, which exits the server, or leaves it reading a name that never comes.
TLSAccepts ==
    /\ mode = "Network" /\ Turn("listener")
    /\ \E c \in Arriving(Subject) :
         \/ /\ client[c] = "connecting"
            /\ backlog' = backlog \ {c}
            /\ client' = [client EXCEPT ![c] = connected(c)]
            /\ \/ connected(c) = "in" /\ accept(c, Target[c])
               \/ connected(c) = "gone" /\ UNCHANGED <<pollables, admin>>
            /\ Done
            /\ UNCHANGED <<mode, server, quitPoll, directory, pManagerCounter, fifoFiles, idleFd, requests, responses,
                           counters>>
         \/ client[c] = "gone" /\ GoesDown("dead")
         \/ client[c] = "gone" /\ Target[c] # "admin" /\ GoesDown("stuck")

-----------------------------------------------------------------------------
\* BatteryConnection::read: with nothing to read and the peer gone, read_exact
\* loops for ever on reads of zero bytes; SSL_read_exact may abort instead.
ReadsNothing ==
    /\ Turn("connection") /\ requests[Subject.on] = << >>
    /\ \/ GoesDown("stuck")
       \/ mode = "Network" /\ GoesDown("dead")

Command == Head(requests[Subject.on])
Reading == Turn("connection") /\ requests[Subject.on] # << >>
Consumed == requests' = [requests EXCEPT ![Subject.on] = Tail(@)]

Response(ok) == [for |-> Command.from, op |-> Command.op, ok |-> ok]

\* Mutant: an error response is followed by a second one.
write_Twice(ok) ==
    /\ responses' = [responses EXCEPT ![Subject.on] =
                       @ \o IF ok THEN <<Response(ok)>> ELSE <<Response(ok), Response(ok)>>]
    /\ UNCHANGED server

\* BatteryConnection::write.  Nobody reading a FIFO is SIGPIPE; a closed socket
\* may take one more write.
write(ok) ==
    \/ /\ Open(Subject.on) \/ mode = "Network"
       /\ responses' = [responses EXCEPT ![Subject.on] = Append(@, Response(ok))]
       /\ UNCHANGED server
    \/ ~Open(Subject.on) /\ server' = "dead" /\ UNCHANGED responses

\* handleBatteryCommand.  getStatus and scheduleSetCurrent use the battery they
\* look up without a test, setStatus tests it; whether a schedule is accepted
\* is the battery's business.
handleBatteryCommand ==
    /\ Reading /\ Subject.to # "admin"
    /\ IF getBattery(Subject.to)
       THEN \/ Command.op # "Schedule_Set_Current" /\ write(TRUE)
            \/ Command.op = "Schedule_Set_Current" /\ \E ok \in BOOLEAN : write(ok)
       ELSE \/ Command.op = "Set_Status" /\ write(FALSE)
            \/ Command.op # "Set_Status" /\ server' = "dead" /\ UNCHANGED responses
    /\ Consumed /\ Done
    /\ UNCHANGED <<mode, quitPoll, pollables, directory, pManagerCounter, fifoFiles, idleFd, admin, backlog, client,
                   counters>>

\* Mutant: of the batteries of one command only the first gets its FIFOs.
fifosFor_First(ns) == <<Head(ns)>>

fifosFor(ns) == ns

\* The names of ns that are in a directory d.
Taken(d, ns) == {i \in DOMAIN ns : ns[i] \in d}
Refused == write(FALSE) /\ UNCHANGED <<directory, pManagerCounter, fifoFiles, idleFd, pollables>>

\* The end of every handler that creates: the batteries are entered in the
\* directory d, in FIFO mode each one gets its FIFOs, and a FIFO that exists
\* already ends the process.
Created(d, ns) ==
    /\ Taken(d, ns) = {}
    /\ directory' = d \cup Range(ns)
    /\ \/ /\ mode = "Network" /\ write(TRUE)
          /\ UNCHANGED <<fifoFiles, idleFd, pollables>>
       \/ /\ mode = "Fifo" /\ Range(ns) \cap fifoFiles = {}
          /\ fifoFiles' = mkfifo(Range(fifosFor(ns)))
          /\ idleFd' = idleFd \cup Range(fifosFor(ns))
          /\ pollables' = pollables \o [i \in DOMAIN fifosFor(ns) |-> Listener(ns[i])]
          /\ write(TRUE)
       \/ /\ mode = "Fifo" /\ Range(ns) \cap fifoFiles # {}
          /\ server' = "dead"
          /\ UNCHANGED <<fifoFiles, idleFd, pollables, responses>>

Made(ns) == Created(directory, ns) /\ UNCHANGED pManagerCounter

createPhysicalBattery(ns) ==
    \/ Made(ns)
    \/ Taken(directory, ns) # {} /\ Refused

\* The functions may be missing in the dynamic library.
createDynamicBattery(ns) == Made(ns) \/ Refused

\* The parents may be missing or in use.
createAggregateBattery(ns) == Made(ns) \/ Refused

createPartitionManagerName(k) == ManagerNames[k]

\* Refused when the source or the proportions are unsuitable.  Otherwise the
\* manager is entered first, under a name of the server's own choice, and never
\* gets FIFOs; ERROR() ends the process when that name is taken.  When a later
\* name is taken the manager and the earlier names stay, without FIFOs.
createPartitionBattery(ns) ==
    \/ Refused
    \/ /\ pManagerCounter <= Len(ManagerNames)
       /\ pManagerCounter' = pManagerCounter + 1
       /\ LET pManager == createPartitionManagerName(pManagerCounter)
              entered == directory \cup {pManager}
          IN  \/ /\ pManager \in directory
                 /\ server' = "dead"
                 /\ UNCHANGED <<directory, fifoFiles, idleFd, pollables, responses>>
              \/ pManager \notin directory /\ Created(entered, ns)
              \/ /\ pManager \notin directory /\ Taken(entered, ns) # {}
                 /\ directory' = entered \cup Range(SubSeq(ns, 1, Min(Taken(entered, ns)) - 1))
                 /\ write(FALSE) /\ UNCHANGED <<fifoFiles, idleFd, pollables>>

\* The battery is made, and connects to the aggregator, before its name is
\* looked at; without an aggregator that exits the process.
createSecureBattery(ns) ==
    \/ createPhysicalBattery(ns)
    \/ server' = "dead" /\ UNCHANGED <<directory, pManagerCounter, fifoFiles, idleFd, pollables, responses>>

createBattery(q) ==
    \/ q.op = "Create_Physical" /\ createPhysicalBattery(q.names)
    \/ q.op = "Create_Dynamic" /\ createDynamicBattery(q.names)
    \/ q.op = "Create_Aggregate" /\ createAggregateBattery(q.names)
    \/ q.op = "Create_Partition" /\ createPartitionBattery(q.names)
    \/ q.op = "Create_Secure" /\ createSecureBattery(q.names)

\* shutdown: destroyDirectory, and the loop ends after this round.  fileNames
\* is never filled, so that no FIFO is deleted.  There is no response.
shutdown ==
    /\ quitPoll' = TRUE
    /\ directory' = {}
    /\ UNCHANGED <<server, pManagerCounter, fifoFiles, idleFd, pollables, responses>>

handleAdminCommand ==
    /\ Reading /\ Subject.to = "admin"
    /\ \/ Command.op = "Shutdown" /\ shutdown
       \/ createBattery(Command) /\ UNCHANGED quitPoll
    /\ Consumed /\ Done
    /\ UNCHANGED <<mode, admin, backlog, client, counters>>

-----------------------------------------------------------------------------
\* FifoPipe::connect needs the FIFO and its reader.
ConnectFifo(c) ==
    /\ mode = "Fifo" /\ Target[c] \in fifoFiles
    /\ client' = [client EXCEPT ![c] = "in"]
    /\ UNCHANGED backlog

\* TLSSocket::connect is done by the kernel first; the handshake waits for the server.
ConnectNetwork(c) ==
    /\ mode = "Network"
    /\ client' = [client EXCEPT ![c] = "connecting"]
    /\ backlog' = backlog \cup {c}

Connect(c) ==
    /\ client[c] = "out" /\ server = "running"
    /\ "alone" \in Discipline =>
         \A d \in Clients \ {c} : Target[d] = Target[c] => client[d] = "out"
    /\ ConnectFifo(c) \/ ConnectNetwork(c)
    /\ UNCHANGED <<serverVars, requests, responses, counters>>

Request(c, op, names) == [from |-> c, op |-> op, names |-> names]

\* The assumptions about clients.
\*  "stay":  a client does not close its connection and its process goes on
\*  "alone": there is one client for the admin and for each battery
\*  "fresh": an admin asks for names that are free, not being asked for, and
\*           not of the form the server gives its partition managers
\*  "last":  Shutdown is the last command sent, with every other one answered
MaySend ==
    /\ sends < MaxSends
    /\ "last" \in Discipline => ~ending

Puts(c, q) ==
    /\ requests' = [requests EXCEPT ![Channel(c)] = Append(@, q)]
    /\ sends' = sends + 1
    /\ UNCHANGED <<serverVars, backlog, responses, starts>>

\* The calls of ClientBattery.
CallBattery(c) ==
    /\ client[c] = "in" /\ Target[c] # "admin" /\ MaySend
    /\ \E op \in BatteryCmds : Puts(c, Request(c, op, << >>))
    /\ client' = [client EXCEPT ![c] = "waiting"]
    /\ UNCHANGED ending

Asked == UNION {Range(q.names) : q \in UNION {Range(requests[ch]) : ch \in Channels}}

\* An admin sends a command that creates and waits.
CallCreate(c, op) ==
    /\ client[c] = "in" /\ Target[c] = "admin" /\ MaySend
    /\ \E q \in Creations :
         /\ q.op = op
         /\ "fresh" \in Discipline =>
              Range(q.names) \cap (directory \cup Managers \cup Asked) = {}
         /\ Puts(c, Request(c, q.op, q.names))
    /\ client' = [client EXCEPT ![c] = "waiting"]
    /\ UNCHANGED ending

\* The calls of Admin.  Its createDynamicBattery returns true and sends nothing;
\* the command has to come from another program that speaks the protocol.
CallPhysical(c) == CallCreate(c, "Create_Physical")
CallAggregate(c) == CallCreate(c, "Create_Aggregate")
CallPartition(c) == CallCreate(c, "Create_Partition")
CallSecure(c) == CallCreate(c, "Create_Secure")
CallDynamic(c) == CallCreate(c, "Create_Dynamic")

\* Admin::shutdown does not wait for a response.
CallShutdown(c) ==
    /\ client[c] = "in" /\ Target[c] = "admin" /\ MaySend
    /\ "last" \in Discipline => \A d \in Clients : client[d] # "waiting"
    /\ Puts(c, Request(c, "Shutdown", << >>))
    /\ ending' = TRUE
    /\ UNCHANGED client

\* The response is read and the call returns (schedule_set_current: true,
\* whatever the return code says).
Receive(c) ==
    /\ client[c] = "waiting" /\ responses[Channel(c)] # << >>
    /\ responses' = [responses EXCEPT ![Channel(c)] = Tail(@)]
    /\ client' = [client EXCEPT ![c] = "in"]
    /\ UNCHANGED <<serverVars, backlog, requests, counters>>

\* The client closes its connection, ends or loses its network.
Leave(c) ==
    /\ "stay" \notin Discipline /\ c \in Present
    /\ client' = [client EXCEPT ![c] = "gone"]
    /\ UNCHANGED <<serverVars, backlog, requests, responses, counters>>

-----------------------------------------------------------------------------
Serve ==
    \/ pollFDs \/ SkipExpired
    \/ FifoAccepts \/ TLSAccepts
    \/ ReadsNothing \/ handleBatteryCommand \/ handleAdminCommand

Next ==
    \/ Start
    \/ Serve
    \/ \E c \in Clients :
         \/ Connect(c) \/ CallBattery(c)
         \/ CallPhysical(c) \/ CallAggregate(c) \/ CallPartition(c) \/ CallSecure(c) \/ CallDynamic(c)
         \/ CallShutdown(c) \/ Receive(c) \/ Leave(c)

Spec == Init /\ [][Next]_vars

\* The server's thread runs, and a client reads the response it waits for.
Fairness == WF_vars(Serve) /\ \A c \in Clients : WF_vars(Receive(c))
FairSpec == Spec /\ Fairness

-----------------------------------------------------------------------------
IsRequest(q) == q.from \in Clients /\ q.op \in Cmds \cup CreateCmds \cup {"Shutdown"}

TypeOK ==
    /\ mode \in Modes
    /\ server \in {"off", "running", "stuck", "dead", "stopped", "nostart"}
    /\ quitPoll \in BOOLEAN /\ ending \in BOOLEAN
    /\ \A p \in Range(pollables) : p.what \in {"listener", "connection"}
    /\ round \subseteq DOMAIN pollables
    /\ pManagerCounter \in 1 .. Len(ManagerNames) + 1
    /\ idleFd \subseteq fifoFiles
    /\ admin \in Channels \cup {None} /\ backlog \subseteq Clients
    /\ client \in [Clients -> {"out", "connecting", "in", "waiting", "gone"}]
    /\ \A ch \in Channels : \A q \in Range(requests[ch]) : IsRequest(q)
    /\ sends \in 0 .. MaxSends /\ starts \in 0 .. MaxStarts

\* Every FIFO is read by one object only: its acceptor holds the descriptor
\* exactly as long as no pipe was made of it, and no pipe is made twice.
\* (FifoAcceptor::pollHandler, createBatteryFifos, startFifos.)
OneReaderPerFifo ==
    (mode = "Fifo" /\ server = "running") =>
        \A t \in fifoFiles :
            Cardinality({i \in DOMAIN pollables : pollables[i] = Connection(t, t)})
                = IF t \in idleFd THEN 0 ELSE 1

\* Every battery that was asked for and is in the directory can be called: a
\* client finds its FIFO, and the server polls it.  (The managers of partitions
\* are in the directory too, and createPartitionBattery makes no FIFOs for them.)
BatteriesReachable ==
    (mode = "Fifo" /\ server = "running") =>
        \A b \in directory \ Managers : b \in fifoFiles /\ Listener(b) \in Range(pollables)

\* The commands of c to be answered, and the answers it has not read, by position.
Pending(c) ==
    LET sent == requests[Channel(c)]
    IN  {i \in DOMAIN sent : sent[i].from = c /\ sent[i].op # "Shutdown"}
Answered(c) ==
    LET written == responses[Channel(c)]
    IN  {i \in DOMAIN written : written[i].for = c}

\* A client that waits has exactly one command under way or one response on
\* its way back, and a client that does not wait has neither: no handler
\* forgets to answer and none answers twice.  (In FIFO mode this is about a
\* client that has the pair of FIFOs to itself.)
AnswersOwed ==
    \A c \in Clients :
        /\ server = "running" /\ client[c] # "gone"
        /\ \A d \in On(Channel(c)) \ {c} : client[d] = "out"
        => Cardinality(Pending(c)) + Cardinality(Answered(c)) = IF client[c] = "waiting" THEN 1 ELSE 0

\* The server ends by Shutdown only: it never waits for ever in a read and is
\* never ended by an exception, a signal or a null pointer.
NeverDown == server \notin {"stuck", "dead"}

\* Every command is answered in the end, or the server is shut down.
EveryCommandAnswered ==
    \A c \in Clients : (client[c] = "waiting") ~> (client[c] # "waiting" \/ quitPoll)

\* A Shutdown that was sent stops the server, whoever is still connected or
\* waits to be accepted.
ShutdownStops == (ending /\ server = "running") ~> (server = "stopped")

\* With clients that behave the server stays up through every interleaving of
\* connections, commands and creations within and between poll rounds.
StaysUp == TypeOK /\ NeverDown

\* As long as the server runs it listens to every battery that was asked for,
\* through one reader.
Listening == OneReaderPerFifo /\ BatteriesReachable

-----------------------------------------------------------------------------
(***************************************************************************)
(* The invariants above as inductive ones.                                 *)
(***************************************************************************)
Ops == Cmds \cup CreateCmds \cup {"Shutdown"}
RequestSet == [from : Clients, op : Ops, names : {<< >>} \cup {q.names : q \in Creations}]
ResponseSet == [for : Clients, op : Ops, ok : BOOLEAN]
PollableSet == [what : {"listener", "connection"}, on : Channels \cup {"admin", "battery"},
                to : Channels \cup Targets \cup {"admin", "battery"}]

\* A client that has been let in, now or once.
Began(c) == client[c] \notin {"out", "connecting"}

\* Admins and others each have commands of their own.
Proper(q) ==
    /\ q.op \in IF Target[q.from] = "admin" THEN CreateCmds \cup {"Shutdown"} ELSE Cmds
    /\ q.op \in CreateCmds => \E k \in Creations : k.op = q.op /\ k.names = q.names
    /\ q.op \notin CreateCmds => q.names = << >>

\* What is under way on a channel is from clients of that channel that were let in.
Queued ==
    /\ requests \in [Channels -> Seq(RequestSet)] /\ responses \in [Channels -> Seq(ResponseSet)]
    /\ \A ch \in Channels : \A i \in DOMAIN requests[ch] :
         LET q == requests[ch][i] IN Channel(q.from) = ch /\ Began(q.from) /\ Proper(q)
    /\ \A ch \in Channels : \A i \in DOMAIN responses[ch] :
         LET r == responses[ch][i] IN Channel(r.for) = ch /\ Began(r.for)

\* An acceptor and a connection are polled once each.
Polled ==
    /\ pollables \in Seq(PollableSet)
    /\ \A i, j \in DOMAIN pollables : pollables[i] = pollables[j] => i = j
    /\ \A i \in DOMAIN pollables :
         LET p == pollables[i]
         IN  /\ p.what = "listener" => p.to = p.on /\ (mode = "Fifo" => p.on \in fifoFiles)
             /\ p.what = "connection" =>
                  IF mode = "Fifo" THEN p.to = p.on /\ p.on \in fifoFiles \ idleFd
                                   ELSE p.on \in Clients /\ p.to = Target[p.on] /\ Began(p.on)
    /\ round \subseteq DOMAIN pollables
    /\ mode = "Fifo" => \A i \in round : pollables[i].what = "listener" => pollables[i].on \in idleFd

\* A server that has run does not run again: its FIFOs are in the way, or its port.
Files ==
    /\ idleFd \subseteq fifoFiles /\ fifoFiles \subseteq Channels
    /\ server = "off" => pollables = << >> /\ \A c \in Clients : client[c] = "out"
    /\ mode = "Network" => fifoFiles = {}
    /\ mode = "Fifo" /\ server = "off" => fifoFiles = {}
    /\ mode = "Fifo" /\ server # "off" => "admin" \in fifoFiles
    /\ mode = "Fifo" /\ server = "running" =>
         \A t \in fifoFiles :
             /\ \E i \in DOMAIN pollables : pollables[i] = Listener(t)
             /\ t \notin idleFd => \E i \in DOMAIN pollables : pollables[i] = Connection(t, t)

\* AnswersOwed, without counting.
Single(S) == \E i \in S : S = {i}
Owing(c) ==
    IF client[c] = "waiting"
    THEN (Single(Pending(c)) /\ Answered(c) = {}) \/ (Pending(c) = {} /\ Single(Answered(c)))
    ELSE Pending(c) = {} /\ Answered(c) = {}
Sole(c) == client[c] # "gone" /\ \A d \in On(Channel(c)) \ {c} : client[d] = "out"
Owed == server = "running" => \A c \in Clients : Sole(c) => Owing(c)

\* Names that are asked for are free, and asked for once ("fresh"); so are the
\* names that the server has still to give.
Free ==
    /\ \A ch \in Channels : \A i \in DOMAIN requests[ch] :
         /\ Range(requests[ch][i].names) \cap (directory \cup Managers) = {}
         /\ \A dh \in Channels : \A j \in DOMAIN requests[dh] :
              <<ch, i>> # <<dh, j>> =>
                  Range(requests[ch][i].names) \cap Range(requests[dh][j].names) = {}
    /\ \A k \in DOMAIN ManagerNames : k >= pManagerCounter => ManagerNames[k] \notin directory
    /\ mode = "Fifo" /\ server = "running" => directory \ Managers \subseteq fifoFiles

\* With clients that stay, come alone and shut down last: whoever has a command or
\* a connection is there to be answered, and its battery in the directory.
There(c) == client[c] \in {"in", "waiting"}
Attended ==
    /\ \A c \in backlog : client[c] = "connecting"
    /\ mode = "Fifo" => \A c \in Clients : client[c] # "gone"
    /\ \A ch \in Channels : \A i \in DOMAIN requests[ch] :
         LET q == requests[ch][i]
         IN  There(q.from) /\ (q.op # "Shutdown" => client[q.from] = "waiting")
    /\ \A i \in DOMAIN pollables :
         mode = "Network" /\ pollables[i].what = "connection" => There(pollables[i].on)
    /\ \A c, d \in Clients :
         Target[c] = Target[d] /\ client[c] # "out" /\ client[d] # "out" => c = d

\* What poll found ready is ready when its turn comes.
StillReady ==
    server = "running" =>
        \A i \in round : mode = "Fifo" \/ pollables[i].what = "connection" =>
                             requests[pollables[i].on] # << >>

\* The one Shutdown is sent when nobody waits, and read after every other command.
ShutDownLast ==
    /\ quitPoll \/ server \in {"stopped", "nostart"} => ending
    /\ ending => \A c \in Clients : client[c] # "waiting"
    /\ \A ch \in Channels : \A i \in DOMAIN requests[ch] :
         /\ requests[ch][i].op = "Shutdown" => ending
         /\ ending => /\ requests[ch][i].op = "Shutdown" /\ ~quitPoll
                      /\ \A dh \in Channels : \A j \in DOMAIN requests[dh] : <<ch, i>> = <<dh, j>>

\* Until then the directory has every battery that has a FIFO or a connection.
Complete ==
    server = "running" /\ ~quitPoll =>
        /\ mode = "Fifo" => fifoFiles \subseteq directory \cup {"admin"}
        /\ \A i \in DOMAIN pollables :
             mode = "Network" /\ pollables[i].what = "connection" /\ pollables[i].to # "admin" =>
                 pollables[i].to \in directory
=============================================================================
