---------------------------- MODULE FifoService -----------------------------
(***************************************************************************)
(* Version 2: the server's FIFO mode (BOS.cpp) and its clients             *)
(* (example_client.cpp).  The admin and every battery have a pair of       *)
(* FIFOs.  A client writes a request into the input FIFO, closes it, and   *)
(* reads the answer from the output FIFO until its end.  The server polls  *)
(* the input FIFOs; for each it reads all there is, opens the output FIFO, *)
(* which waits for a reader, answers, closes both ends and opens the input *)
(* FIFO again.  A battery made by a message gets its FIFOs at once; of a   *)
(* splitter and its children only the children do.                         *)
(*                                                                         *)
(* The kernel's rules matter: opening one end waits for the other, what    *)
(* nobody has open loses its contents, an end of file means that the last  *)
(* writer has closed, and writing without a reader kills the writer.       *)
(***************************************************************************)
EXTENDS Naturals, Sequences, FiniteSets, SequencesExt

CONSTANTS
    Clients,
    Aim,           \* the FIFO a client talks to: Admin or a battery
    Programs,      \* the sets of batteries that programs make before bootup_fifo
    NewNames,      \* the batteries an admin may create
    Creations,     \* what it may ask for: a name, and the children of a splitter
    MayLeave,      \* clients that may be killed at any moment
    MaxCalls, MaxStarts, MaxCrashes

Admin == "admin"
BootNames == UNION Programs
Fifos == BootNames \cup NewNames \cup {Admin}

ASSUME FifoAssumption ==
    /\ Aim \in [Clients -> Fifos] /\ MayLeave \subseteq Clients
    /\ Admin \notin BootNames \cup NewNames /\ IsFiniteSet(BootNames) /\ IsFiniteSet(NewNames)
    /\ Creations \subseteq [name : NewNames, children : SUBSET NewNames]
    /\ \A m \in Creations : m.name \notin m.children
    /\ MaxCalls \in Nat /\ MaxStarts \in Nat /\ MaxCrashes \in Nat

VARIABLES
    \* the file system and the kernel
    files,      \* the FIFOs whose pair of files exists
    input,      \* requests in each input FIFO
    writers,    \* clients that have the input FIFO open
    output,     \* answers in each output FIFO
    listeners,  \* clients that have the output FIFO open
    \* the server
    pc,         \* what its thread is doing
    ifds,       \* admin_fifo_ifd and battery_ifds: the input FIFOs it has open
    round,      \* the FIFOs still to handle in this round, first the one at hand
    answer,     \* the answer at hand
    names,      \* the batteries of its directory
    splitters,  \* those of them that are splitters made by a message
    should_quit,
    \* the clients
    at,         \* what each is doing
    request,    \* what it asks for
    got,        \* the answer it got
    \* bounds and history
    calls, starts, crashes,
    leftover,   \* files that outlived a server that did not shut down
    sins        \* what the service is not prepared for has happened

serverVars == <<pc, ifds, round, answer, names, splitters, should_quit>>
kernel == <<files, input, writers, output, listeners>>
clientVars == <<at, request, got>>
bounds == <<calls, starts, crashes>>
vars == <<kernel, serverVars, clientVars, bounds, leftover, sins>>

Nothing == [op |-> "nothing", client |-> "nobody"]
Requests(c) ==
    IF Aim[c] = Admin
    THEN {[op |-> "make", client |-> c, name |-> m.name, children |-> m.children] : m \in Creations}
             \cup {[op |-> "shutdown", client |-> c]}
    ELSE {[op |-> "get_status", client |-> c]}

Init ==
    /\ files = {} /\ input = [f \in Fifos |-> <<>>] /\ output = [f \in Fifos |-> <<>>]
    /\ writers = [f \in Fifos |-> {}] /\ listeners = [f \in Fifos |-> {}]
    /\ pc = "down" /\ ifds = {} /\ round = <<>> /\ answer = Nothing /\ names = {}
    /\ splitters = {} /\ should_quit = FALSE
    /\ at = [c \in Clients |-> "idle"] /\ request = [c \in Clients |-> Nothing]
    /\ got = [c \in Clients |-> Nothing]
    /\ calls = 0 /\ starts = 0 /\ crashes = 0 /\ leftover = {} /\ sins = {}

-----------------------------------------------------------------------------
(***************************************************************************)
(* The server.                                                             *)
(***************************************************************************)
\* single_battery_fifo_init for one battery after the other, up to the first
\* whose files exist already; the name of a pair stands for both files.
BatteriesOpened(order) ==
    LET taken == {i \in DOMAIN order : order[i] \in files}
        upto == IF taken = {} THEN Len(order) ELSE (CHOOSE i \in taken : \A j \in taken : i <= j) - 1
    IN  {order[i] : i \in 1 .. upto}

\* bootup_fifo when admin_fifo_init and battery_fifo_init succeed: poll_fifos.
Start(order) ==
    /\ pc = "down" /\ starts < MaxStarts /\ starts' = starts + 1
    /\ Admin \notin files /\ BatteriesOpened(order) = Range(order)
    /\ files' = files \cup Range(order) \cup {Admin} /\ ifds' = Range(order) \cup {Admin}
    /\ names' = Range(order)
    /\ pc' = "poll"
    /\ UNCHANGED <<input, writers, output, listeners, round, answer, splitters, should_quit, clientVars,
                   calls, crashes, leftover, sins>>

\* Mutant: a start that fails leaves the files as they are.
StartFails_Leaves(order) ==
    /\ pc = "down" /\ starts < MaxStarts /\ starts' = starts + 1
    /\ ~(Admin \notin files /\ BatteriesOpened(order) = Range(order))
    /\ UNCHANGED <<kernel, serverVars, clientVars, calls, crashes, leftover, sins>>

\* Otherwise shutdown_fifo: it removes the admin's files in any case, and those
\* of the batteries it has opened, but not those it found.
StartFails(order) ==
    /\ pc = "down" /\ starts < MaxStarts /\ starts' = starts + 1
    /\ ~(Admin \notin files /\ BatteriesOpened(order) = Range(order))
    /\ files' = files \ {Admin} /\ leftover' = leftover \ {Admin}
    /\ UNCHANGED <<input, writers, output, listeners, serverVars, clientVars, calls, crashes, sins>>

\* poll_fifos looks at should_quit and then waits in poll.
Watch ==
    /\ pc = "poll" /\ ~should_quit /\ pc' = "wait"
    /\ UNCHANGED <<kernel, ifds, round, answer, names, splitters, should_quit, clientVars, bounds, leftover, sins>>

\* The input FIFOs for which poll reports something.
Ready == {f \in ifds : input[f] # <<>>}

\* Mutant: a round handles every FIFO, whether poll reported it or not.
Poll_All(order) ==
    /\ pc = "wait" /\ Ready # {}
    /\ \E all \in SetToSeqs(ifds \ {Admin}) : round' = all \o <<Admin>>
    /\ pc' = "read"
    /\ UNCHANGED <<kernel, ifds, answer, names, splitters, should_quit, clientVars, bounds, leftover, sins>>

\* One round: batteries in the order of their names, the admin last.
Poll(order) ==
    /\ pc = "wait" /\ Ready # {}
    /\ round' = order \o IF Admin \in Ready THEN <<Admin>> ELSE <<>>
    /\ pc' = "read"
    /\ UNCHANGED <<kernel, ifds, answer, names, splitters, should_quit, clientVars, bounds, leftover, sins>>

Handled == Head(round)

Received(f) == IF input[f] = <<>> THEN Nothing ELSE Last(input[f])

\* The batteries a message asks for, and those of them for which the handler calls
\* battery_post_creation: of a splitter and its children, the children.
Wanted(msg) == IF msg.op = "make" THEN {msg.name} \cup msg.children ELSE {}
PostCreated(msg) ==
    IF msg.op = "make" THEN IF msg.children = {} THEN {msg.name} ELSE msg.children ELSE {}

\* Those of a set of new batteries that get their FIFOs: not those of which files
\* exist, which nobody is told.
battery_post_creation(ns) == ns \ files

\* Mutant: battery_post_creation is not called.
ReadAndHandle_NoPostCreation ==
    /\ pc = "read"
    /\ LET msg == Received(Handled)
       IN  /\ answer' = msg
           /\ names' = names \cup Wanted(msg)
           /\ splitters' = splitters \cup (Wanted(msg) \ PostCreated(msg))
           /\ should_quit' = (should_quit \/ msg.op = "shutdown")
    /\ input' = [input EXCEPT ![Handled] = <<>>]
    /\ pc' = "open"
    /\ UNCHANGED <<files, ifds, writers, output, listeners, round, clientVars, bounds, leftover, sins>>

\* handle_admin and handle_battery up to the answer.  ParseFromFileDescriptor reads
\* all there is; of several requests the fields of the last one remain.  A creation
\* is refused if one of its names is taken, or for a reason of its own (a source, a
\* library or scales that do not fit).  The new batteries get their FIFOs at once.
ReadAndHandle ==
    /\ pc = "read"
    /\ \E granted \in BOOLEAN :
          LET msg == Received(Handled)
              made == IF granted THEN Wanted(msg) ELSE {}
              reached == battery_post_creation(made \cap PostCreated(msg))
          IN  /\ made \cap names = {}
              /\ answer' = msg
              /\ names' = names \cup made
              /\ splitters' = splitters \cup (made \ PostCreated(msg))
              /\ files' = files \cup reached /\ ifds' = ifds \cup reached
              /\ should_quit' = (should_quit \/ msg.op = "shutdown")
    /\ input' = [input EXCEPT ![Handled] = <<>>]
    /\ pc' = "open"
    /\ UNCHANGED <<writers, output, listeners, round, clientVars, bounds, leftover, sins>>

\* Mutant: the output FIFO is opened with O_NONBLOCK; without a reader the answer
\* is dropped.
OpenOutput_NonBlocking ==
    /\ pc = "open"
    /\ LET waiting == {c \in Clients : Aim[c] = Handled /\ at[c] = "openOutput"}
       IN  /\ listeners' = [listeners EXCEPT ![Handled] = @ \cup waiting]
           /\ at' = [c \in Clients |-> IF c \in waiting THEN "read" ELSE at[c]]
           /\ pc' = IF waiting = {} THEN "close" ELSE "answer"
    /\ UNCHANGED <<files, input, writers, output, ifds, round, answer, names, splitters, should_quit, request,
                   got, bounds, leftover, sins>>

\* open(output, O_WRONLY) waits for a reader, and lets all who wait for a writer in.
OpenOutput ==
    /\ pc = "open"
    /\ LET waiting == {c \in Clients : Aim[c] = Handled /\ at[c] = "openOutput"}
       IN  /\ listeners[Handled] \cup waiting # {}
           /\ listeners' = [listeners EXCEPT ![Handled] = @ \cup waiting]
           /\ at' = [c \in Clients |-> IF c \in waiting THEN "read" ELSE at[c]]
    /\ pc' = "answer"
    /\ UNCHANGED <<files, input, writers, output, ifds, round, answer, names, splitters, should_quit, request,
                   got, bounds, leftover, sins>>

\* Mutant: a server that is to quit does not answer any more.
Answer_NotOnQuit ==
    /\ pc = "answer" /\ pc' = "close" /\ answer' = Nothing
    /\ output' = IF should_quit THEN output ELSE [output EXCEPT ![Handled] = Append(@, answer)]
    /\ UNCHANGED <<files, input, writers, listeners, ifds, round, names, splitters, should_quit, clientVars,
                   bounds, leftover, sins>>

\* The answer is written and the output FIFO closed.  SIGPIPE is not handled: a
\* reader that has gone takes the server with it.
Answer ==
    /\ pc = "answer"
    /\ IF listeners[Handled] = {}
       THEN /\ pc' = "down" /\ ifds' = {} /\ round' = <<>> /\ names' = {} /\ splitters' = {} /\ should_quit' = FALSE
            /\ input' = [f \in Fifos |-> IF writers[f] = {} THEN <<>> ELSE input[f]]
            /\ leftover' = files
            /\ UNCHANGED output
       ELSE /\ output' = [output EXCEPT ![Handled] = Append(@, answer)]
            /\ pc' = "close"
            /\ UNCHANGED <<ifds, round, names, splitters, should_quit, input, leftover>>
    /\ answer' = Nothing
    /\ UNCHANGED <<files, writers, listeners, clientVars, bounds, sins>>

\* close(fd): what came in meanwhile is lost if its writers have closed.
CloseInput ==
    /\ pc = "close"
    /\ input' = [input EXCEPT ![Handled] = IF writers[Handled] = {} THEN <<>> ELSE @]
    /\ pc' = "reopen"
    /\ UNCHANGED <<files, writers, output, listeners, ifds, round, answer, names, splitters, should_quit,
                   clientVars, bounds, leftover, sins>>

\* The input FIFO is opened again.
Reopen ==
    /\ pc = "reopen"
    /\ round' = Tail(round)
    /\ pc' = IF round' = <<>> THEN "poll" ELSE "read"
    /\ UNCHANGED <<kernel, ifds, answer, names, splitters, should_quit, clientVars, bounds, leftover,
                   sins>>

\* The server has the input FIFO open for reading: it is one of its own, and not
\* the one it has closed and not yet opened again.
Readable(f) == f \in ifds /\ ~(pc = "reopen" /\ Handled = f)

\* Mutant: the FIFOs of batteries stay.
ShutDown_AdminOnly ==
    /\ pc = "quit" \/ (pc = "poll" /\ should_quit)
    /\ pc' = "down" /\ ifds' = {} /\ names' = {} /\ splitters' = {} /\ should_quit' = FALSE
    /\ files' = files \ {Admin}
    /\ leftover' = leftover \ {Admin}
    /\ input' = [f \in Fifos |-> IF writers[f] = {} THEN <<>> ELSE input[f]]
    /\ UNCHANGED <<writers, output, listeners, round, answer, clientVars, bounds, sins>>

\* Mutant: battery_ifds still names the batteries after the shutdown.
ShutDown_KeepsIfds ==
    /\ pc = "quit" \/ (pc = "poll" /\ should_quit)
    /\ pc' = "down" /\ ifds' = ifds \ {Admin} /\ names' = {} /\ splitters' = {} /\ should_quit' = FALSE
    /\ files' = files \ (ifds \cup {Admin})
    /\ leftover' = leftover \ (ifds \cup {Admin})
    /\ input' = [f \in Fifos |-> IF writers[f] = {} THEN <<>> ELSE input[f]]
    /\ UNCHANGED <<writers, output, listeners, round, answer, clientVars, bounds, sins>>

\* shutdown_fifo.
ShutDown ==
    /\ pc = "quit" \/ (pc = "poll" /\ should_quit)
    /\ pc' = "down" /\ ifds' = {} /\ names' = {} /\ splitters' = {} /\ should_quit' = FALSE
    /\ files' = files \ (ifds \cup {Admin})
    /\ leftover' = leftover \ (ifds \cup {Admin})
    /\ input' = [f \in Fifos |-> IF writers[f] = {} THEN <<>> ELSE input[f]]
    /\ UNCHANGED <<writers, output, listeners, round, answer, clientVars, bounds, sins>>

\* The server is killed.
Crash ==
    /\ pc # "down" /\ crashes < MaxCrashes /\ crashes' = crashes + 1
    /\ pc' = "down" /\ ifds' = {} /\ names' = {} /\ splitters' = {} /\ round' = <<>> /\ answer' = Nothing
    /\ should_quit' = FALSE /\ leftover' = files
    /\ input' = [f \in Fifos |-> IF writers[f] = {} THEN <<>> ELSE input[f]]
    /\ sins' = sins \cup {"crash"}
    /\ UNCHANGED <<files, writers, output, listeners, clientVars, calls, starts>>

\* SIGINT: sigint_handler sets should_quit.  A poll that waits is interrupted, and
\* the loop ends; a signal between the look at should_quit and poll does not
\* wake it.  Other system calls are restarted.
Interrupt(wakes) ==
    /\ pc # "down" /\ crashes < MaxCrashes /\ crashes' = crashes + 1
    /\ wakes => pc = "wait"
    /\ pc' = IF wakes THEN "quit" ELSE pc
    /\ should_quit' = TRUE /\ sins' = sins \cup {"interrupt"}
    /\ UNCHANGED <<kernel, ifds, round, answer, names, splitters, clientVars, calls, starts, leftover>>

-----------------------------------------------------------------------------
(***************************************************************************)
(* The clients.                                                            *)
(***************************************************************************)
ShutdownAsked == \E d \in Clients : at[d] # "idle" /\ request[d].op = "shutdown"
Sharing(c) == \E d \in Clients \ {c} : Aim[d] = Aim[c] /\ at[d] # "idle"

\* get_status, make_pseudo, ask_shutdown ... of example_client.cpp begin.
Call(c, r) ==
    /\ at[c] = "idle" /\ calls < MaxCalls /\ calls' = calls + 1
    /\ Aim[c] \in files                     \* otherwise open fails at once
    /\ at' = [at EXCEPT ![c] = "open"]
    /\ request' = [request EXCEPT ![c] = r] /\ got' = [got EXCEPT ![c] = Nothing]
    /\ sins' = sins \cup (IF Sharing(c) THEN {"shared"} ELSE {})
                    \cup (IF should_quit \/ Aim[c] \notin ifds \/ ShutdownAsked
                          THEN {"unserved"} ELSE {})
                    \cup (IF \/ pc = "close" /\ Handled = Aim[c]
                             \/ ~Readable(Aim[c]) /\ r.op = "shutdown"
                          THEN {"hasty"} ELSE {})
                    \cup (IF r.op = "shutdown" /\ \E d \in Clients \ {c} : at[d] # "idle"
                          THEN {"unserved"} ELSE {})
    /\ UNCHANGED <<kernel, serverVars, starts, crashes, leftover>>

\* open(input, O_WRONLY) waits for the server to have it open.
OpenInput(c) ==
    /\ at[c] = "open" /\ Readable(Aim[c])
    /\ writers' = [writers EXCEPT ![Aim[c]] = @ \cup {c}]
    /\ at' = [at EXCEPT ![c] = "write"]
    /\ UNCHANGED <<files, input, output, listeners, serverVars, request, got, bounds, leftover, sins>>

\* Not so ask_shutdown, which opens with O_NONBLOCK and gives up.
GiveUp(c) ==
    /\ at[c] = "open" /\ request[c].op = "shutdown" /\ ~Readable(Aim[c])
    /\ at' = [at EXCEPT ![c] = "idle"]
    /\ UNCHANGED <<kernel, serverVars, request, got, bounds, leftover, sins>>

\* One write, and SIGPIPE if the server has gone or has just closed its end.
Write(c) ==
    /\ at[c] = "write"
    /\ IF Readable(Aim[c])
       THEN /\ input' = [input EXCEPT ![Aim[c]] = Append(@, request[c])]
            /\ at' = [at EXCEPT ![c] = "close"]
            /\ UNCHANGED writers
       ELSE /\ writers' = [writers EXCEPT ![Aim[c]] = @ \ {c}]
            /\ at' = [at EXCEPT ![c] = "idle"]
            /\ UNCHANGED input
    /\ UNCHANGED <<files, output, listeners, serverVars, request, got, bounds, leftover, sins>>

Close(c) ==
    /\ at[c] = "close"
    /\ writers' = [writers EXCEPT ![Aim[c]] = @ \ {c}]
    /\ input' = [input EXCEPT ![Aim[c]] =
                   IF writers'[Aim[c]] = {} /\ ~Readable(Aim[c]) THEN <<>> ELSE @]
    /\ at' = [at EXCEPT ![c] = "openOutput"]
    /\ UNCHANGED <<files, output, listeners, serverVars, request, got, bounds, leftover, sins>>

ServerWrites(f) == pc = "answer" /\ Handled = f

\* open(output, O_RDONLY) waits for the server, unless it has the FIFO open already.
OpenOutputNow(c) ==
    /\ at[c] = "openOutput" /\ ServerWrites(Aim[c])
    /\ listeners' = [listeners EXCEPT ![Aim[c]] = @ \cup {c}]
    /\ at' = [at EXCEPT ![c] = "read"]
    /\ UNCHANGED <<files, input, writers, output, serverVars, request, got, bounds, leftover, sins>>

\* The client reads to the end of the file: the answers there are, or none.
Read(c) ==
    /\ at[c] = "read" /\ ~ServerWrites(Aim[c])
    /\ got' = [got EXCEPT ![c] = IF output[Aim[c]] = <<>> THEN Nothing ELSE Last(output[Aim[c]])]
    /\ output' = [output EXCEPT ![Aim[c]] = <<>>]
    /\ listeners' = [listeners EXCEPT ![Aim[c]] = @ \ {c}]
    /\ at' = [at EXCEPT ![c] = "idle"]
    /\ UNCHANGED <<files, input, writers, serverVars, request, bounds, leftover, sins>>

\* A client is killed; the kernel closes what it has open.
Leave(c) ==
    /\ c \in MayLeave /\ at[c] # "idle"
    /\ at' = [at EXCEPT ![c] = "idle"]
    /\ writers' = [writers EXCEPT ![Aim[c]] = @ \ {c}]
    /\ listeners' = [listeners EXCEPT ![Aim[c]] = @ \ {c}]
    /\ output' = [output EXCEPT ![Aim[c]] =
                    IF listeners'[Aim[c]] = {} /\ ~ServerWrites(Aim[c]) THEN <<>> ELSE @]
    /\ sins' = sins \cup {"left"}
    /\ UNCHANGED <<files, input, serverVars, request, got, bounds, leftover>>

-----------------------------------------------------------------------------
Orders == SetToSeqs(Ready \ {Admin})
BootOrders == UNION {SetToSeqs(boot) : boot \in Programs}

Serve == Watch \/ (\E order \in Orders : Poll(order)) \/ ReadAndHandle \/ OpenOutput \/ Answer
         \/ CloseInput \/ Reopen \/ ShutDown

Proceed(c) ==
    OpenInput(c) \/ GiveUp(c) \/ Write(c) \/ Close(c) \/ OpenOutputNow(c) \/ Read(c)

Next ==
    \/ \E order \in BootOrders : Start(order) \/ StartFails(order)
    \/ Serve \/ Crash \/ \E wakes \in BOOLEAN : Interrupt(wakes)
    \/ \E c \in Clients : Proceed(c) \/ Leave(c) \/ \E r \in Requests(c) : Call(c, r)

\* The server's thread and the clients run whenever the kernel lets them.
Spec == Init /\ [][Next]_vars /\ WF_vars(Serve) /\ \A c \in Clients : WF_vars(Proceed(c))

-----------------------------------------------------------------------------
\* The state has its shape, and who has a FIFO open is where that is possible.
TypeOK ==
    /\ files \subseteq Fifos /\ ifds \subseteq files /\ leftover \subseteq files
    /\ pc \in {"down", "poll", "wait", "read", "open", "answer", "close", "reopen", "quit"}
    /\ (round = <<>>) <=> (pc \in {"down", "poll", "wait", "quit"})
    /\ \A f \in Fifos : writers[f] = {c \in Clients : Aim[c] = f /\ at[c] \in {"write", "close"}}
    /\ \A f \in Fifos : listeners[f] = {c \in Clients : Aim[c] = f /\ at[c] = "read"}

\* A client whose call is over has the answer to its own request: requests of
\* clients that do not share a FIFO are neither lost between closing and
\* reopening it nor mixed up (handle_battery, handle_admin).
AnswerIsOwn ==
    sins = {} => \A c \in Clients : at[c] = "idle" => got[c] = request[c]

\* The server waits for a reader only if one is on its way: every answer has a
\* client that has yet to open the output FIFO.
SomeoneListens ==
    (pc = "open" /\ {"shared", "left"} \cap sins = {}) =>
        \E c \in Clients : Aim[c] = Handled /\ at[c] \in {"close", "openOutput", "read"}

\* A server that shuts down leaves no files but those it could not make its own
\* because an earlier one had left them (shutdown_fifo).
ShutdownCleans == pc = "down" => files \subseteq leftover

\* Between two rounds every battery that the program or a message has made can be
\* reached, unless files of its name were left over; but a splitter that a message
\* has made cannot, for only its children get FIFOs (battery_post_creation,
\* kMakeSplitter).
Reachable ==
    pc = "poll" =>
        \A n \in names : IF n \in splitters THEN n \notin ifds ELSE n \in ifds \cup leftover

\* A start fails only after a server has died, and what is in the way of the
\* second is no longer the admin's FIFO (bootup_fifo).
StartsAgain ==
    [][(\E order \in BootOrders : StartFails(order)) =>
          leftover # {} /\ Admin \notin files' /\ files' \subseteq leftover]_vars

\* Every call returns, so that its client is idle again and again, as long as
\* clients do not share FIFOs, nobody is killed or interrupts the server, no one
\* calls a server that is about to shut down, and no one calls between the answer
\* before and the close of the input FIFO after it.
CallsReturn ==
    \A c \in Clients : []<>(at[c] = "idle" \/ sins # {})

\* The server and its clients agree on who is at which end of which FIFO, and the
\* server never waits for a reader that will not come.
EndsMeet == TypeOK /\ SomeoneListens

\* The files are those of the batteries that are to have them: each of these can be
\* reached between two rounds unless its files were left over, and no file of theirs
\* stays behind a server that shuts down.
FilesInOrder == ShutdownCleans /\ Reachable

-----------------------------------------------------------------------------
(***************************************************************************)
(* The invariants above as an inductive one.                               *)
(***************************************************************************)
Messages ==
    {Nothing} \cup [op : {"make"}, client : Clients, name : NewNames, children : SUBSET NewNames]
    \cup [op : {"shutdown", "get_status"}, client : Clients]

Shapes ==
    /\ files \subseteq Fifos /\ ifds \subseteq files /\ leftover \subseteq files
    /\ names \subseteq BootNames \cup NewNames /\ splitters \subseteq names /\ should_quit \in BOOLEAN
    /\ pc \in {"down", "poll", "wait", "read", "open", "answer", "close", "reopen", "quit"}
    /\ input \in [Fifos -> Seq(Messages)] /\ output \in [Fifos -> Seq(Messages)]
    /\ writers \in [Fifos -> SUBSET Clients] /\ listeners \in [Fifos -> SUBSET Clients]
    /\ at \in [Clients -> {"idle", "open", "write", "close", "openOutput", "read"}]
    /\ request \in [Clients -> Messages] /\ got \in [Clients -> Messages] /\ answer \in Messages
    /\ sins \subseteq {"crash", "interrupt", "shared", "unserved", "hasty", "left"}

\* Who has which end open.
Ends ==
    /\ \A f \in Fifos : writers[f] = {c \in Clients : Aim[c] = f /\ at[c] \in {"write", "close"}}
    /\ \A f \in Fifos : listeners[f] = {c \in Clients : Aim[c] = f /\ at[c] = "read"}

\* A round has each FIFO once, and those still to be read are not empty.
Rounds ==
    /\ round \in Seq(ifds)
    /\ (round = <<>>) <=> (pc \in {"down", "poll", "wait", "quit"})
    /\ \A i, j \in DOMAIN round : round[i] = round[j] => i = j
    /\ \A i \in DOMAIN round : i # 1 \/ pc = "read" => input[round[i]] # <<>>

\* Files the server has not open were there before it, and those it has open are
\* those of the batteries that are to have them.
Files ==
    /\ files \subseteq ifds \cup leftover /\ names \ splitters \subseteq ifds \cup leftover
    /\ ifds \subseteq names \cup {Admin} /\ splitters \cap ifds = {}
    /\ pc = "down" => ifds = {} /\ names = {} /\ splitters = {}
    /\ pc = "quit" => "interrupt" \in sins

Busy(c) == at[c] # "idle"

Alone ==
    "shared" \notin sins => \A c, d \in Clients : Busy(c) /\ Busy(d) /\ Aim[c] = Aim[d] => c = d

\* A request that was sent, or is being handled, has its client waiting.
Heard ==
    {"shared", "left"} \cap sins = {} =>
        /\ \A f \in Fifos : input[f] # <<>> =>
              \E c \in Clients : Aim[c] = f /\ at[c] \in {"close", "openOutput"}
        /\ pc = "open" => /\ input[Handled] = <<>>
                          /\ \E c \in Clients : Aim[c] = Handled /\ at[c] \in {"close", "openOutput"}
        /\ pc = "answer" => \E c \in Clients : Aim[c] = Handled /\ at[c] = "read"

\* Where the call of a client is.
Before(c) == at[c] \in {"open", "write"}
Under(c) == at[c] \in {"close", "openOutput"}
InRound(f) == \E i \in DOMAIN round : round[i] = f
AtHand(f) == round # <<>> /\ Handled = f

Sent(c) ==
    /\ Aim[c] \in ifds /\ output[Aim[c]] = <<>>
    /\ \/ input[Aim[c]] = <<request[c]>> /\ (AtHand(Aim[c]) => pc = "read")
       \/ input[Aim[c]] = <<>> /\ AtHand(Aim[c]) /\ pc = "open" /\ answer = request[c]

Answered(c) ==
    /\ input[Aim[c]] = <<>>
    /\ \/ AtHand(Aim[c]) /\ pc = "answer" /\ answer = request[c] /\ output[Aim[c]] = <<>>
       \/ /\ output[Aim[c]] = <<request[c]>>
          /\ InRound(Aim[c]) => AtHand(Aim[c]) /\ pc \in {"close", "reopen"}

Quiet(f) ==
    input[f] = <<>> /\ output[f] = <<>> /\ (InRound(f) => AtHand(f) /\ pc \in {"close", "reopen"})

\* A client may begin to open the FIFO that is being opened again.
Waits(c) == pc = "reopen" /\ at[c] = "open" /\ request[c].op # "shutdown"

Placed(c) ==
    /\ at[c] = "idle" => got[c] = request[c]
    /\ Before(c) => Aim[c] \in ifds /\ Quiet(Aim[c]) /\ (InRound(Aim[c]) => Waits(c))
    /\ Under(c) => Sent(c)
    /\ at[c] = "read" => Answered(c)

Unused(f) == \A c \in Clients : Aim[c] = f => ~Busy(c)

Settled == (\A c \in Clients : Placed(c)) /\ (\A f \in Fifos : Unused(f) => Quiet(f))

Own == sins = {} => Settled

\* A shutdown is asked for by the only client there is.
LastWord ==
    sins = {} =>
        /\ \A c, d \in Clients : Busy(c) /\ Busy(d) /\ request[c].op = "shutdown" => c = d
        /\ should_quit =>
              \A c \in Clients : Busy(c) => at[c] = "read" \/ (Under(c) /\ input[Aim[c]] = <<>>)

Inv == Shapes /\ Ends /\ Rounds /\ Files /\ Alone /\ Heard /\ Own /\ LastWord
=============================================================================
