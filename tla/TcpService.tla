----------------------------- MODULE TcpService -----------------------------
(***************************************************************************)
(* Version 2: the server's TCP mode (BOS.cpp) and remote batteries         *)
(* (Remote.hpp).  A node's one thread serves one connection at a time:     *)
(* accept, read a tag, echo it, read a message, handle it, answer, wait    *)
(* for the caller to close.  When the battery asked for is a remote one,   *)
(* handling the message is itself a call to another node.  Nodes may so    *)
(* form chains (chain_remote in main.cpp); a program at the end of a chain *)
(* calls through a remote battery of its own.                              *)
(*                                                                         *)
(* Clocks of nodes are one clock.  A status is its timestamp, set by the   *)
(* node that has the battery; every node keeps the last one it has seen    *)
(* and gives it out as long as it is younger than its max_staleness.       *)
(***************************************************************************)
EXTENDS Integers, Sequences, FiniteSets, SequencesExt

CONSTANTS
    Nodes, Clients,
    Link,        \* the node a node's battery is at, or Local
    Target,      \* the node a client calls
    Staleness,   \* max_staleness of a node's battery
    Misnamed,    \* callers whose remote_name is unknown at the other side
    MayHang,     \* clients that may stop in the middle of a call
    MaxClock, MaxCalls, MaxFaults

Local == "local"
Callers == Nodes \cup Clients
Dest == [x \in Callers |-> IF x \in Nodes THEN Link[x] ELSE Target[x]]

\* Nobody checks that links form no cycle; nodes on one would wait for each other.
ASSUME TcpAssumption ==
    /\ Link \in [Nodes -> Nodes \cup {Local}] /\ Target \in [Clients -> Nodes]
    /\ Staleness \in [Nodes -> Nat] /\ Misnamed \subseteq Callers /\ MayHang \subseteq Clients
    /\ Nodes \cap Clients = {} /\ "nobody" \notin Callers /\ Local \notin Nodes
    /\ MaxClock \in Nat /\ MaxCalls \in Nat /\ MaxFaults \in Nat
    /\ \E rank \in [Nodes -> 0 .. Cardinality(Nodes)] :
           \A n \in Nodes : Link[n] # Local => rank[Link[n]] < rank[n]

VARIABLES
    clock,
    \* the nodes as servers
    pc,            \* what the thread of bootup_tcp_socket is doing
    backlog,       \* connections that wait to be accepted
    serving,       \* the connection at hand
    should_quit,
    reply,         \* the answer at hand
    status,        \* timestamp of the status of the node's battery
    scheduled,     \* calls whose window a device's node has accepted
    \* callers: clients, and nodes on behalf of the call they serve
    at,            \* what each is waiting for
    request,       \* what it asks for
    inbox,         \* what was sent to it on its connection
    result, since, \* for clients: how the last call ended, and when it began
    \* bounds and history
    calls, faults

nodeVars == <<pc, backlog, serving, should_quit, reply, status, scheduled>>
callerVars == <<at, request, inbox, result, since>>
bounds == <<calls, faults>>
vars == <<clock, nodeVars, callerVars, bounds>>

Nothing == [kind |-> "nothing"]
Tag == [kind |-> "tag"]
Echo == [kind |-> "echo"]
Failed == [kind |-> "failed"]
Status(t) == [kind |-> "status", time |-> t]
Response(r) == [kind |-> "response", value |-> r]
NoConnection == [who |-> "nobody", sent |-> Nothing, gone |-> TRUE]

Init ==
    /\ clock = 1
    /\ pc = [n \in Nodes |-> "accept"] /\ backlog = [n \in Nodes |-> <<>>]
    /\ serving = [n \in Nodes |-> NoConnection] /\ should_quit = [n \in Nodes |-> FALSE]
    /\ reply = [n \in Nodes |-> Nothing]
    /\ status = [n \in Nodes |-> 0] /\ scheduled = {}
    /\ at = [x \in Callers |-> "idle"] /\ request = [x \in Callers |-> Nothing]
    /\ inbox = [x \in Callers |-> Nothing]
    /\ result = [c \in Clients |-> Nothing] /\ since = [c \in Clients |-> 0]
    /\ calls = 0 /\ faults = 0

-----------------------------------------------------------------------------
(***************************************************************************)
(* Connections.  A caller has at most one that is not gone.                *)
(***************************************************************************)
IsOf(k, x) == k.who = x /\ ~k.gone
Connected(x) ==
    Dest[x] \in Nodes /\
    (IsOf(serving[Dest[x]], x) \/ \E i \in DOMAIN backlog[Dest[x]] : IsOf(backlog[Dest[x]][i], x))

\* The caller x changes its side of its connection.
OnConnection(x, change(_)) ==
    LET touched(k) == IF IsOf(k, x) THEN change(k) ELSE k
        d == Dest[x]
    IN  /\ serving' = [serving EXCEPT ![d] = touched(@)]
        /\ backlog' = [backlog EXCEPT ![d] = [i \in DOMAIN @ |-> touched(@[i])]]

\* The caller closes its socket.
disconnect(x) == OnConnection(x, LAMBDA k : [k EXCEPT !.gone = TRUE])

Listening(n) == pc[n] # "down" /\ ~should_quit[n]

-----------------------------------------------------------------------------
(***************************************************************************)
(* Callers: RemoteBattery::refresh and RemoteBattery::schedule_set_current.*)
(***************************************************************************)
\* A program calls manual_refresh or schedule_set_current of its remote battery.
Call(c, r) ==
    /\ at[c] = "idle" /\ calls < MaxCalls /\ calls' = calls + 1
    /\ at' = [at EXCEPT ![c] = "connect"] /\ request' = [request EXCEPT ![c] = r]
    /\ result' = [result EXCEPT ![c] = Nothing] /\ since' = [since EXCEPT ![c] = clock]
    /\ UNCHANGED <<clock, nodeVars, inbox, faults>>

\* connect, and the tag is sent.
Connect(x) ==
    /\ at[x] = "connect" /\ Listening(Dest[x])
    /\ backlog' = [backlog EXCEPT ![Dest[x]] =
                     Append(@, [who |-> x, sent |-> Tag, gone |-> FALSE])]
    /\ at' = [at EXCEPT ![x] = "echo"]
    /\ UNCHANGED <<clock, pc, serving, should_quit, reply, status, scheduled, request, inbox,
                   result, since, bounds>>

\* The echo is read and the message sent.
SendMessage(x) ==
    /\ at[x] = "echo" /\ inbox[x] = Echo
    /\ OnConnection(x, LAMBDA k : [k EXCEPT !.sent = request[x]])
    /\ inbox' = [inbox EXCEPT ![x] = Nothing]
    /\ at' = [at EXCEPT ![x] = "answer"]
    /\ UNCHANGED <<clock, pc, should_quit, reply, status, scheduled, request, result, since,
                   bounds>>

\* Mutant: a schedule whose connection breaks off is taken for a success.
Returned_Optimist(x, answer) ==
    IF x \in Clients
    THEN /\ result' = [result EXCEPT ![x] = IF answer = Failed /\ request[x].kind = "schedule"
                                            THEN Response(1) ELSE answer]
         /\ UNCHANGED <<pc, reply, status>>
    ELSE /\ status' = IF answer.kind = "status" THEN [status EXCEPT ![x] = answer.time] ELSE status
         /\ reply' = [reply EXCEPT ![x] = IF request[x].kind = "schedule"
                                          THEN Response(IF answer.kind = "response" THEN answer.value ELSE 1)
                                          ELSE Status(status'[x])]
         /\ pc' = [pc EXCEPT ![x] = "respond"]
         /\ UNCHANGED result

\* What becomes of a call's answer, or of Failed.  A program gets what refresh or
\* schedule_set_current returns.  A node's get_status returns the battery's status,
\* which refresh has replaced or, when it failed, left as it was.
Returned(x, answer) ==
    IF x \in Clients
    THEN /\ result' = [result EXCEPT ![x] = answer]
         /\ UNCHANGED <<pc, reply, status>>
    ELSE /\ status' = IF answer.kind = "status" THEN [status EXCEPT ![x] = answer.time] ELSE status
         /\ reply' = [reply EXCEPT ![x] = IF request[x].kind = "schedule"
                                          THEN Response(IF answer.kind = "response" THEN answer.value ELSE 0)
                                          ELSE Status(status'[x])]
         /\ pc' = [pc EXCEPT ![x] = "respond"]
         /\ UNCHANGED result

\* Mutant: the caller keeps its connection.
ReadAnswer_StaysOpen(x) ==
    /\ at[x] = "answer" /\ inbox[x] # Nothing
    /\ Returned(x, inbox[x])
    /\ inbox' = [inbox EXCEPT ![x] = Nothing] /\ at' = [at EXCEPT ![x] = "idle"]
    /\ UNCHANGED <<clock, backlog, serving, should_quit, scheduled, request, since, bounds>>

\* The answer is read, and the caller disconnects.
ReadAnswer(x) ==
    /\ at[x] = "answer" /\ inbox[x] # Nothing
    /\ disconnect(x)
    /\ Returned(x, inbox[x])
    /\ inbox' = [inbox EXCEPT ![x] = Nothing] /\ at' = [at EXCEPT ![x] = "idle"]
    /\ UNCHANGED <<clock, should_quit, scheduled, request, since, bounds>>

\* Nobody listens, or the connection was closed by the other side.
CallFails(x) ==
    /\ \/ at[x] = "connect" /\ ~Listening(Dest[x])
       \/ at[x] \in {"echo", "answer"} /\ inbox[x] = Nothing /\ ~Connected(x)
    /\ Returned(x, Failed)
    /\ at' = [at EXCEPT ![x] = "idle"]
    /\ UNCHANGED <<clock, backlog, serving, should_quit, scheduled, request, inbox, since, bounds>>

\* A program is killed in the middle of a call.
Leave(c) ==
    /\ c \in MayHang /\ at[c] # "idle"
    /\ at' = [at EXCEPT ![c] = "idle"] /\ inbox' = [inbox EXCEPT ![c] = Nothing]
    /\ disconnect(c)
    /\ request' = [request EXCEPT ![c] = Nothing]
    /\ UNCHANGED <<clock, pc, should_quit, reply, status, scheduled, result, since, bounds>>

-----------------------------------------------------------------------------
(***************************************************************************)
(* Nodes: bootup_tcp_socket.                                               *)
(***************************************************************************)
Deliver(k, what) ==
    inbox' = IF k.gone THEN inbox ELSE [inbox EXCEPT ![k.who] = what]

\* A connection is accepted; its tag, always sent, is read and echoed.
Accept(n) ==
    /\ pc[n] = "accept" /\ ~should_quit[n] /\ backlog[n] # <<>>
    /\ serving' = [serving EXCEPT ![n] = [Head(backlog[n]) EXCEPT !.sent = Nothing]]
    /\ backlog' = [backlog EXCEPT ![n] = Tail(@)]
    /\ Deliver(serving'[n], Echo)
    /\ pc' = [pc EXCEPT ![n] = "msg"]
    /\ UNCHANGED <<clock, should_quit, reply, status, scheduled, at, request, result, since, bounds>>

\* Mutant: a connection that breaks off is waited for.
Closed_Waits(n) ==
    /\ pc[n] = "eof" /\ serving[n].gone
    /\ serving' = [serving EXCEPT ![n] = NoConnection]
    /\ pc' = [pc EXCEPT ![n] = "accept"]
    /\ UNCHANGED <<clock, backlog, should_quit, reply, status, scheduled, callerVars, bounds>>

\* The caller has closed: in place of a message, or after the answer.
Closed(n) ==
    /\ serving[n].gone
    /\ pc[n] = "eof" \/ (pc[n] = "msg" /\ serving[n].sent = Nothing)
    /\ serving' = [serving EXCEPT ![n] = NoConnection]
    /\ pc' = [pc EXCEPT ![n] = "accept"]
    /\ UNCHANGED <<clock, backlog, should_quit, reply, status, scheduled, callerVars, bounds>>

\* A message has been read: get_battery for the name it gives.
Handles(n, m) == pc[n] = "msg" /\ serving[n].sent # Nothing /\ m = serving[n].sent

\* The name is not known here.
HandleUnknown(n) ==
    /\ Handles(n, serving[n].sent) /\ serving[n].who \in Misnamed
    /\ reply' = [reply EXCEPT ![n] = Failed] /\ pc' = [pc EXCEPT ![n] = "respond"]
    /\ UNCHANGED <<clock, backlog, serving, should_quit, status, scheduled, callerVars, bounds>>

\* Mutant: a status of exactly max_staleness is kept.
Stale_Beyond(n) == clock - status[n] > Staleness[n]
\* check_staleness_and_refresh.
Stale(n) == clock - status[n] >= Staleness[n]

\* handle_battery_msg at the node that has the battery.
HandleHere(n, m) ==
    /\ Handles(n, m) /\ serving[n].who \notin Misnamed /\ Link[n] = Local
    /\ IF m.kind = "schedule"
       THEN LET taken == m.when >= clock
            IN  /\ scheduled' = IF taken THEN scheduled \cup {m.id} ELSE scheduled
                /\ reply' = [reply EXCEPT ![n] = Response(IF taken THEN 1 ELSE 0)]
                /\ UNCHANGED status
       ELSE /\ status' = IF Stale(n) THEN [status EXCEPT ![n] = clock] ELSE status
            /\ reply' = [reply EXCEPT ![n] = Status(status'[n])]
            /\ UNCHANGED scheduled
    /\ pc' = [pc EXCEPT ![n] = "respond"]
    /\ UNCHANGED <<clock, backlog, serving, should_quit, callerVars, bounds>>

\* The same for a remote battery: a status that is not stale is at hand, everything
\* else is asked of the node it is at.
HandleThere(n, m) ==
    /\ Handles(n, m) /\ serving[n].who \notin Misnamed /\ Link[n] # Local
    /\ IF m.kind = "get_status" /\ ~Stale(n)
       THEN /\ reply' = [reply EXCEPT ![n] = Status(status[n])]
            /\ pc' = [pc EXCEPT ![n] = "respond"]
            /\ UNCHANGED <<at, request>>
       ELSE /\ at' = [at EXCEPT ![n] = "connect"] /\ request' = [request EXCEPT ![n] = m]
            /\ pc' = [pc EXCEPT ![n] = "forward"]
            /\ UNCHANGED reply
    /\ UNCHANGED <<clock, backlog, serving, should_quit, status, scheduled, inbox, result, since,
                   bounds>>

Respond(n) ==
    /\ pc[n] = "respond"
    /\ Deliver(serving[n], reply[n])
    /\ pc' = [pc EXCEPT ![n] = "eof"]
    /\ reply' = [reply EXCEPT ![n] = Nothing]
    /\ request' = [request EXCEPT ![n] = Nothing]
    /\ UNCHANGED <<clock, backlog, serving, should_quit, status, scheduled, at, result, since, bounds>>

\* notify_should_quit, by SIGINT or an admin's message: the listening socket is
\* closed at once, and with it the connections that were not accepted.
Notify(n) ==
    /\ Listening(n) /\ faults < MaxFaults /\ faults' = faults + 1
    /\ should_quit' = [should_quit EXCEPT ![n] = TRUE]
    /\ backlog' = [backlog EXCEPT ![n] = <<>>]
    /\ UNCHANGED <<clock, pc, serving, reply, status, scheduled, callerVars, calls>>

\* accept fails, and should_quit is the reason.
Quit(n) ==
    /\ pc[n] = "accept" /\ should_quit[n]
    /\ pc' = [pc EXCEPT ![n] = "down"]
    /\ should_quit' = [should_quit EXCEPT ![n] = FALSE] /\ status' = [status EXCEPT ![n] = 0]
    /\ UNCHANGED <<clock, backlog, serving, reply, scheduled, callerVars, bounds>>

\* A node is killed: all its connections are closed, its own call among them.
Crash(n) ==
    /\ pc[n] # "down" /\ faults < MaxFaults /\ faults' = faults + 1
    /\ pc' = [pc EXCEPT ![n] = "down"] /\ should_quit' = [should_quit EXCEPT ![n] = FALSE]
    /\ LET closed(k) == IF IsOf(k, n) THEN [k EXCEPT !.gone = TRUE] ELSE k
       IN  /\ serving' = [d \in Nodes |-> IF d = n THEN NoConnection ELSE closed(serving[d])]
           /\ backlog' = [d \in Nodes |-> IF d = n THEN <<>>
                                          ELSE [i \in DOMAIN backlog[d] |-> closed(backlog[d][i])]]
    /\ reply' = [reply EXCEPT ![n] = Nothing]
    /\ at' = [at EXCEPT ![n] = "idle"] /\ inbox' = [inbox EXCEPT ![n] = Nothing]
    /\ request' = [request EXCEPT ![n] = Nothing] /\ status' = [status EXCEPT ![n] = 0]
    /\ UNCHANGED <<clock, scheduled, result, since, calls>>

\* The program is started again: bootup_tcp_socket with a new battery.
Restart(n) ==
    /\ pc[n] = "down" /\ pc' = [pc EXCEPT ![n] = "accept"]
    /\ UNCHANGED <<clock, backlog, serving, should_quit, reply, status, scheduled, callerVars,
                   bounds>>

-----------------------------------------------------------------------------
Tick == clock < MaxClock /\ clock' = clock + 1 /\ UNCHANGED <<nodeVars, callerVars, bounds>>

\* A window is asked for from now on: it is refused when the message takes too long.
Requests == {[kind |-> "get_status"], [kind |-> "schedule", id |-> calls, when |-> clock]}

Proceed(x) == Connect(x) \/ SendMessage(x) \/ ReadAnswer(x) \/ CallFails(x)

Work(n) ==
    \/ Accept(n) \/ Closed(n) \/ Respond(n) \/ Quit(n)
    \/ HandleUnknown(n)
    \/ \E m \in {serving[n].sent} : HandleHere(n, m) \/ HandleThere(n, m)

Next ==
    \/ Tick
    \/ \E x \in Callers : Proceed(x)
    \/ \E c \in Clients : Leave(c) \/ \E r \in Requests : Call(c, r)
    \/ \E n \in Nodes : Work(n) \/ Notify(n) \/ Crash(n) \/ Restart(n)

\* Nodes run, and so do the programs that are not allowed to hang.
Spec ==
    /\ Init /\ [][Next]_vars
    /\ \A n \in Nodes : WF_vars(Work(n))
    /\ \A x \in Callers \ MayHang : WF_vars(Proceed(x))

-----------------------------------------------------------------------------
Live(n) == {i \in DOMAIN backlog[n] : ~backlog[n][i].gone}

\* The state has its shape; a node has a call of its own exactly while it forwards
\* one, and nobody has two connections.
TypeOK ==
    /\ pc \in [Nodes -> {"accept", "msg", "forward", "respond", "eof", "down"}]
    /\ \A n \in Nodes : (pc[n] = "forward") <=> (at[n] # "idle")
    /\ \A n \in Nodes : (serving[n] = NoConnection) <=> (pc[n] \in {"accept", "down"})
    /\ \A n \in Nodes : status[n] \in 0 .. clock
    /\ \A n \in Nodes : \A i, j \in Live(n) : backlog[n][i].who = backlog[n][j].who => i = j
    /\ \A x \in Callers : Connected(x) => at[x] \in {"echo", "answer"}

\* The nodes a call of x may pass: the smallest set that has the node it calls
\* and, with a node, the one that node's battery is at.
Path(x) ==
    {n \in Nodes : \A S \in SUBSET Nodes :
        Dest[x] \in S /\ (\A m \in S : Link[m] # Local => Link[m] \in S) => n \in S}

\* What a chain returns is, unless a node failed, not older than the laziest node
\* on the way allows, however many nodes there are: staleness does not add up,
\* for the timestamp travels with the status (Remote.hpp, check_staleness_and_refresh).
Fresh(c, t) == \E n \in Path(c) : t >= since[c] \/ t > since[c] - Staleness[n]
WellNamed(c) == Misnamed \cap ({c} \cup Path(c)) = {}

FreshEnough ==
    \A c \in Clients :
        (faults = 0 /\ result[c].kind = "status" /\ WellNamed(c)) => Fresh(c, result[c].time)

\* A schedule call that returns 1 has reached the device in time; one that returns
\* 0 has not, unless a node failed on the way back.
Truthful ==
    \A c \in Clients :
        (at[c] = "idle" /\ result[c] # Nothing /\ request[c].kind = "schedule") =>
            /\ result[c] = Response(1) => request[c].id \in scheduled
            /\ (faults = 0 /\ result[c] # Response(1)) => request[c].id \notin scheduled

\* Unless somebody hangs, every call returns, whatever nodes fail on its way, and
\* a node that was told to quit does so after the call at hand.
CallsReturn ==
    (\A h \in MayHang : []<>(at[h] = "idle")) =>
        /\ \A x \in Callers : (at[x] # "idle") ~> (at[x] = "idle")
        /\ \A n \in Nodes : should_quit[n] ~> ~should_quit[n]

\* Connections, calls and answers belong together, and an answer is true.
AnswersTrue == TypeOK /\ Truthful

-----------------------------------------------------------------------------
(***************************************************************************)
(* AnswersTrue as an inductive invariant.                                  *)
(***************************************************************************)
Messages == {[kind |-> "get_status"]} \cup [kind : {"schedule"}, id : Nat, when : Nat]
Answers ==
    {Echo, Failed} \cup [kind : {"status"}, time : Nat] \cup [kind : {"response"}, value : {0, 1}]
Connections == [who : Callers, sent : Messages \cup {Nothing, Tag}, gone : BOOLEAN]

Shapes ==
    /\ clock \in Nat /\ calls \in Nat /\ faults \in Nat
    /\ pc \in [Nodes -> {"accept", "msg", "forward", "respond", "eof", "down"}]
    /\ should_quit \in [Nodes -> BOOLEAN] /\ status \in [Nodes -> Nat]
    /\ serving \in [Nodes -> Connections \cup {NoConnection}]
    /\ backlog \in [Nodes -> Seq(Connections)]
    /\ reply \in [Nodes -> Answers \cup {Nothing}]
    /\ at \in [Callers -> {"idle", "connect", "echo", "answer"}]
    /\ request \in [Callers -> Messages \cup {Nothing}]
    /\ inbox \in [Callers -> Answers \cup {Nothing}]
    /\ result \in [Clients -> Answers \cup {Nothing}]

\* A caller under way has somebody to call and something to ask, and timestamps
\* are of the past.
Sensible ==
    /\ \A x \in Callers : at[x] # "idle" => Dest[x] \in Nodes /\ request[x] # Nothing
    /\ \A n \in Nodes : (pc[n] = "forward") <=> (at[n] # "idle")
    /\ \A n \in Nodes : (serving[n] = NoConnection) <=> (pc[n] \in {"accept", "down"})
    /\ \A n \in Nodes : status[n] <= clock /\ (reply[n].kind = "status" => reply[n].time <= clock)
    /\ \A n \in Nodes : pc[n] = "respond" => reply[n] \notin {Nothing, Echo}
    /\ \A x \in Callers : inbox[x].kind = "status" => inbox[x].time <= clock
    /\ \A x \in Callers : at[x] \in {"idle", "connect"} => inbox[x] = Nothing

\* What the two ends of a connection know of each other: one that waits has only
\* sent its tag, and the one at hand is as far as the node's thread is.
Waiting(n, x) == Dest[x] = n /\ at[x] = "echo" /\ inbox[x] = Nothing

InStep(n, x) ==
    /\ Dest[x] = n
    /\ \/ pc[n] = "msg" /\ serving[n].sent = Nothing /\ at[x] = "echo" /\ inbox[x] = Echo
       \/ /\ pc[n] \in {"msg", "forward", "respond"} /\ at[x] = "answer" /\ inbox[x] = Nothing
          /\ pc[n] = "msg" => serving[n].sent = request[x]
          /\ pc[n] = "forward" => request[n] = request[x]
       \/ pc[n] = "eof" /\ at[x] = "answer" /\ inbox[x] \notin {Nothing, Echo}

Wired ==
    \A n \in Nodes :
        /\ ~serving[n].gone => InStep(n, serving[n].who)
        /\ \A i \in Live(n) : Waiting(n, backlog[n][i].who)
        /\ \A i, j \in Live(n) : backlog[n][i].who = backlog[n][j].who => i = j
        /\ serving[n].sent # Tag

\* The places from which a schedule call is still to go on to the device.
Asks(x) == at[x] \in {"connect", "echo"} /\ request[x].kind = "schedule"
Reads(n) == pc[n] = "msg" /\ serving[n].sent.kind = "schedule"

Pending ==
    {request[x].id : x \in {y \in Callers : Asks(y)}}
    \cup {serving[n].sent.id : n \in {m \in Nodes : Reads(m)}}

\* Each call is in one such place at most, and not scheduled yet.
Single ==
    /\ \A i \in scheduled \cup Pending : i \in Nat /\ i < calls
    /\ \A x \in Callers : request[x].kind = "schedule" => request[x].id < calls
    /\ Pending \cap scheduled = {}
    /\ \A x, y \in Callers : Asks(x) /\ Asks(y) /\ request[x].id = request[y].id => x = y
    /\ \A n, m \in Nodes : Reads(n) /\ Reads(m) /\ serving[n].sent.id = serving[m].sent.id => n = m
    /\ \A x \in Callers, n \in Nodes : Asks(x) /\ Reads(n) => request[x].id # serving[n].sent.id

\* A 1 on its way back is the answer to a call that was scheduled.
Earned(x, answer) ==
    request[x].kind = "schedule" /\ answer = Response(1) => request[x].id \in scheduled

Backed ==
    /\ \A n \in Nodes : pc[n] = "respond" /\ ~serving[n].gone => Earned(serving[n].who, reply[n])
    /\ \A x \in Callers : at[x] = "answer" => Earned(x, inbox[x])
    /\ \A c \in Clients : at[c] = "idle" => Earned(c, result[c])

\* As long as no node has failed: everybody is connected, and a call with an
\* answer is in none of these places any more, nor scheduled unless that is a 1.
Over(x, answer) ==
    request[x].kind = "schedule" =>
        request[x].id \notin Pending /\ (answer # Response(1) => request[x].id \notin scheduled)

Faultless ==
    faults = 0 =>
        /\ \A n \in Nodes : pc[n] # "down" /\ ~should_quit[n]
        /\ \A x \in Callers : at[x] \in {"echo", "answer"} => Connected(x)
        /\ \A n \in Nodes : pc[n] = "respond" /\ ~serving[n].gone => Over(serving[n].who, reply[n])
        /\ \A n \in Nodes : pc[n] = "eof" /\ ~serving[n].gone =>
                               Over(serving[n].who, inbox[serving[n].who])
        /\ \A c \in Clients : at[c] = "idle" => Over(c, result[c])

Inv == Shapes /\ Sensible /\ Wired /\ Single /\ Backed /\ Faultless

-----------------------------------------------------------------------------
(***************************************************************************)
(* FreshEnough as an inductive invariant.                                  *)
(***************************************************************************)
\* The nodes that are at work on the call of client c: the one that serves it and,
\* with a node, the one that serves that node.
Serves(n, x) == Dest[x] = n /\ IsOf(serving[n], x)

Behind(c) ==
    {n \in Nodes : \A S \in SUBSET Nodes :
        (\A m \in Nodes : Serves(m, c) \/ (\E k \in S : Serves(m, k)) => m \in S) => n \in S}

\* An answer on its way to x in a call of c.
Good(c, x, answer) ==
    IF request[x].kind = "schedule" THEN answer.kind # "status"
    ELSE answer.kind = "status" /\ Fresh(c, answer.time)

Fresher ==
    /\ since \in [Clients -> Nat] /\ \A c \in Clients : since[c] <= clock
    /\ faults = 0 =>
         \A c \in Clients : WellNamed(c) =>
           /\ \A n \in Behind(c) :
                /\ pc[n] = "respond" => Good(c, serving[n].who, reply[n])
                /\ pc[n] = "eof" => Good(c, serving[n].who, inbox[serving[n].who])
           /\ result[c].kind = "status" => Fresh(c, result[c].time)
=============================================================================
