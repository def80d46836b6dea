-------------------------- MODULE TcpService_proofs -------------------------
(***************************************************************************)
(* Proofs about TcpService, for every set of nodes linked to each other    *)
(* without a cycle, every set of programs and every bound.                 *)
(***************************************************************************)
EXTENDS TcpService, TLAPS

-----------------------------------------------------------------------------
\* What the proofs use of the constants.
LEMMA Constants ==
    /\ Callers = Nodes \cup Clients /\ "nobody" \notin Callers
    /\ \A n \in Nodes : n \in Callers /\ n \notin Clients /\ Dest[n] = Link[n]
    /\ \A n \in Nodes : Link[n] # Local => Link[n] \in Nodes
    /\ \A c \in Clients : c \in Callers /\ c \notin Nodes /\ Dest[c] \in Nodes
    /\ MayHang \subseteq Clients
BY TcpAssumption DEF Callers, Dest

\* The records of the protocol tell themselves apart.
LEMMA Kinds ==
    /\ Nothing.kind = "nothing" /\ Tag.kind = "tag" /\ Echo.kind = "echo" /\ Failed.kind = "failed"
    /\ \A t : Status(t).kind = "status" /\ Status(t).time = t
    /\ \A r : Response(r).kind = "response" /\ Response(r).value = r
    /\ NoConnection.who = "nobody" /\ NoConnection.sent = Nothing /\ NoConnection.gone = TRUE
BY DEF Nothing, Tag, Echo, Failed, Status, Response, NoConnection

LEMMA MessageKinds ==
    /\ \A m \in Messages : m.kind \in {"get_status", "schedule"} /\ m # Nothing /\ m # Tag
    /\ \A m \in Messages : m.kind = "schedule" => m.id \in Nat /\ m.when \in Nat
    /\ \A a \in Answers : a # Nothing /\ a.kind \in {"echo", "failed", "status", "response"}
    /\ \A a \in Answers : a.kind = "status" => a.time \in Nat
    /\ \A a \in Answers : a.kind = "response" => a.value \in {0, 1} /\ a = Response(a.value)
    /\ \A t \in Nat : Status(t) \in Answers
    /\ Response(0) \in Answers /\ Response(1) \in Answers /\ Failed \in Answers /\ Echo \in Answers
    /\ Response(0) # Response(1) /\ Failed # Response(1) /\ \A t : Status(t) # Response(1)
    /\ Echo # Response(1) /\ Nothing # Response(1) /\ Failed # Echo /\ Failed # Nothing
    /\ Echo # Nothing /\ Tag # Nothing
    /\ \A t : Status(t) \notin {Nothing, Echo}
    /\ \A r : Response(r) \notin {Nothing, Echo}
BY DEF Messages, Answers, Nothing, Tag, Echo, Failed, Status, Response

LEMMA ConnectionKinds ==
    /\ NoConnection \notin Connections
    /\ \A k \in Connections : /\ k.who \in Callers /\ k.sent \in Messages \cup {Nothing, Tag}
                              /\ k.gone \in BOOLEAN
                              /\ k = [who |-> k.who, sent |-> k.sent, gone |-> k.gone]
BY Constants DEF Connections, NoConnection

\* The type invariant follows.
LEMMA InvTypeOK == ASSUME Inv PROVE TypeOK
<1>1. \A n \in Nodes : status[n] \in 0 .. clock
  BY DEF Inv, Shapes, Sensible
<1>2. \A x \in Callers : Connected(x) => at[x] \in {"echo", "answer"}
  <2> SUFFICES ASSUME NEW x \in Callers, Connected(x) PROVE at[x] \in {"echo", "answer"}
    OBVIOUS
  <2>1. CASE IsOf(serving[Dest[x]], x)
    BY <2>1 DEF Connected, IsOf, Inv, Wired, InStep
  <2>2. CASE \E i \in DOMAIN backlog[Dest[x]] : IsOf(backlog[Dest[x]][i], x)
    BY <2>2 DEF Connected, IsOf, Inv, Wired, Waiting, Live
  <2> QED BY <2>1, <2>2 DEF Connected
<1> QED BY <1>1, <1>2 DEF TypeOK, Inv, Shapes, Sensible, Wired

LEMMA InvTruthful == ASSUME Inv PROVE Truthful
BY DEF Inv, Truthful, Backed, Earned, Faultless, Over

\* Nobody has called when the nodes boot.
LEMMA InitInv == Init => Inv
<1> SUFFICES ASSUME Init PROVE Inv
  OBVIOUS
<1>1. Shapes
  BY DEF Init, Shapes, Callers
<1>2. Sensible
  BY Kinds, Constants DEF Init, Sensible
<1>3. Wired
  <2>1. \A n \in Nodes : /\ serving[n] = NoConnection /\ serving[n].gone
                         /\ Live(n) = {} /\ serving[n].sent # Tag
    BY Kinds, MessageKinds DEF Init, Live
  <2> QED BY <2>1 DEF Wired
<1>4. Single
  <2>1. /\ \A x \in Callers : ~Asks(x) /\ request[x].kind # "schedule"
        /\ \A n \in Nodes : ~Reads(n)
    BY Kinds DEF Init, Asks, Reads
  <2>2. Pending = {} /\ scheduled = {}
    BY <2>1 DEF Init, Pending
  <2> QED BY <2>1, <2>2 DEF Single
<1>5. Backed
  BY Kinds DEF Init, Backed, Earned, Callers
<1>6. Faultless
  BY Kinds DEF Init, Faultless, Over, Callers
<1> QED BY <1>1, <1>2, <1>3, <1>4, <1>5, <1>6 DEF Inv

-----------------------------------------------------------------------------
\* A sequence changed element by element is one.
LEMMA MapType ==
    ASSUME NEW S, NEW s \in Seq(S), NEW f, f \in [DOMAIN s -> S]
    PROVE  f \in Seq(S)
<1>1. DOMAIN s = 1 .. Len(s) /\ Len(s) \in Nat
  OBVIOUS
<1>2. f \in [1 .. Len(s) -> S]
  BY <1>1
<1> QED BY <1>1, <1>2

\* disconnect closes the caller's side of its connection and nothing else.
LEMMA DisconnectEffect ==
    ASSUME Shapes, NEW x \in Callers, Dest[x] \in Nodes, disconnect(x)
    PROVE  /\ serving' \in [Nodes -> Connections \cup {NoConnection}]
           /\ backlog' \in [Nodes -> Seq(Connections)]
           /\ \A n \in Nodes :
                /\ serving'[n].who = serving[n].who /\ serving'[n].sent = serving[n].sent
                /\ serving'[n].gone <=> serving[n].gone \/ (n = Dest[x] /\ serving[n].who = x)
                /\ serving'[n] = NoConnection <=> serving[n] = NoConnection
                /\ DOMAIN backlog'[n] = DOMAIN backlog[n]
           /\ \A n \in Nodes : \A i \in DOMAIN backlog[n] :
                /\ backlog'[n][i].who = backlog[n][i].who
                /\ backlog'[n][i].gone <=> backlog[n][i].gone \/ (n = Dest[x] /\ backlog[n][i].who = x)
<1> DEFINE shut(k) == IF IsOf(k, x) THEN [k EXCEPT !.gone = TRUE] ELSE k
           d == Dest[x]
<1>1. /\ serving' = [serving EXCEPT ![d] = shut(serving[d])]
      /\ backlog' = [backlog EXCEPT ![d] = [i \in DOMAIN backlog[d] |-> shut(backlog[d][i])]]
  BY DEF disconnect, OnConnection
<1>2. \A k \in Connections :
         /\ shut(k) \in Connections /\ shut(k).who = k.who /\ shut(k).sent = k.sent
         /\ shut(k).gone <=> k.gone \/ k.who = x
  BY DEF IsOf, Connections
<1>3. shut(NoConnection) = NoConnection /\ x # "nobody"
  <2>1. NoConnection.gone
    BY Kinds
  <2> QED BY <2>1, Constants, Zenon DEF IsOf
<1>4. NoConnection.who = "nobody" /\ NoConnection \notin Connections
  BY Kinds, ConnectionKinds
<1> HIDE DEF shut
<1>5. [i \in DOMAIN backlog[d] |-> shut(backlog[d][i])] \in Seq(Connections)
  <2>1. backlog[d] \in Seq(Connections)
    BY DEF Shapes
  <2>2. \A i \in DOMAIN backlog[d] : backlog[d][i] \in Connections
    BY <2>1
  <2>3. [i \in DOMAIN backlog[d] |-> shut(backlog[d][i])] \in [DOMAIN backlog[d] -> Connections]
    BY <1>2, <2>2
  <2> QED BY <2>1, <2>3, MapType
<1>6. serving' \in [Nodes -> Connections \cup {NoConnection}] /\ backlog' \in [Nodes -> Seq(Connections)]
  BY <1>1, <1>2, <1>3, <1>5 DEF Shapes
<1>7. \A n \in Nodes :
                /\ serving'[n].who = serving[n].who /\ serving'[n].sent = serving[n].sent
                /\ serving'[n].gone <=> serving[n].gone \/ (n = Dest[x] /\ serving[n].who = x)
                /\ serving'[n] = NoConnection <=> serving[n] = NoConnection
  BY <1>1, <1>2, <1>3, <1>4 DEF Shapes
<1>8. \A n \in Nodes : DOMAIN backlog'[n] = DOMAIN backlog[n]
  BY <1>1 DEF Shapes
<1>9. \A n \in Nodes : \A i \in DOMAIN backlog[n] : backlog[n][i] \in Connections
  BY DEF Shapes
<1>10. \A n \in Nodes : \A i \in DOMAIN backlog[n] :
                /\ backlog'[n][i].who = backlog[n][i].who
                /\ backlog'[n][i].gone <=> backlog[n][i].gone \/ (n = Dest[x] /\ backlog[n][i].who = x)
  BY <1>1, <1>2, <1>8, <1>9 DEF Shapes
<1> QED BY <1>6, <1>7, <1>8, <1>10

-----------------------------------------------------------------------------
\* Types the steps below keep referring to.
LEMMA Types ==
    ASSUME Inv
    PROVE  /\ \A n \in Nodes : /\ serving[n] \in Connections \cup {NoConnection}
                               /\ ~serving[n].gone => serving[n] \in Connections
                               /\ serving[n].gone \in BOOLEAN
                               /\ \A i \in DOMAIN backlog[n] : backlog[n][i] \in Connections
           /\ \A n \in Nodes : ~serving[n].gone => serving[n].who \in Callers
           /\ \A n \in Nodes : \A i \in Live(n) : backlog[n][i].who \in Callers
           /\ \A x \in Callers : request[x].kind = "schedule" => request[x].id \in Nat
           /\ \A n \in Nodes : Reads(n) => serving[n].sent \in Messages /\ serving[n].sent.id \in Nat
           /\ calls \in Nat /\ clock \in Nat /\ faults \in Nat
<1>1. Shapes
  BY DEF Inv
<1>2. \A n \in Nodes : /\ serving[n] \in Connections \cup {NoConnection}
                       /\ ~serving[n].gone => serving[n] \in Connections
                       /\ serving[n].gone \in BOOLEAN
                       /\ \A i \in DOMAIN backlog[n] : backlog[n][i] \in Connections
  <2> SUFFICES ASSUME NEW n \in Nodes
               PROVE  /\ serving[n] \in Connections \cup {NoConnection}
                      /\ ~serving[n].gone => serving[n] \in Connections
                      /\ serving[n].gone \in BOOLEAN
                      /\ \A i \in DOMAIN backlog[n] : backlog[n][i] \in Connections
    OBVIOUS
  <2>1. serving[n] \in Connections \cup {NoConnection} /\ backlog[n] \in Seq(Connections)
    BY <1>1 DEF Shapes
  <2>2. \A i \in DOMAIN backlog[n] : backlog[n][i] \in Connections
    BY <2>1
  <2>3. (~serving[n].gone => serving[n] \in Connections) /\ serving[n].gone \in BOOLEAN
    BY <2>1, Kinds, ConnectionKinds, Zenon
  <2> QED BY <2>1, <2>2, <2>3
<1>3. \A n \in Nodes : Reads(n) => serving[n].sent \in Messages
  BY <1>2, Kinds, ConnectionKinds DEF Reads
<1> QED BY <1>1, <1>2, <1>3, Kinds, MessageKinds, ConnectionKinds DEF Shapes, Live, Reads

\* A step that takes no call on to a further place.
Calm ==
    /\ scheduled' = scheduled /\ calls' = calls
    /\ \A x \in Callers : request'[x] = request[x] \/ request'[x] = Nothing
    /\ \A x \in Callers : Asks(x)' => Asks(x) /\ request'[x] = request[x]
    /\ \A n \in Nodes : Reads(n)' => Reads(n) /\ serving'[n].sent = serving[n].sent

LEMMA CalmSingle == ASSUME Single, Calm PROVE Single' /\ Pending' \subseteq Pending
<1>1. Pending' \subseteq Pending
  BY DEF Calm, Pending
<1>2. \A x \in Callers : request'[x].kind = "schedule" => request'[x].id < calls'
  BY Kinds DEF Calm, Single
<1>3. /\ \A x, y \in Callers : Asks(x)' /\ Asks(y)' /\ request'[x].id = request'[y].id => x = y
      /\ \A n, m \in Nodes :
            Reads(n)' /\ Reads(m)' /\ serving'[n].sent.id = serving'[m].sent.id => n = m
      /\ \A x \in Callers, n \in Nodes : Asks(x)' /\ Reads(n)' => request'[x].id # serving'[n].sent.id
  BY DEF Calm, Single
<1>4. /\ \A i \in scheduled' \cup Pending' : i \in Nat /\ i < calls'
      /\ Pending' \cap scheduled' = {}
  BY <1>1 DEF Calm, Single
<1> QED BY <1>1, <1>2, <1>3, <1>4 DEF Single

\* What is over stays so.
LEMMA OverKept ==
    ASSUME NEW x, NEW a, Over(x, a), Pending' \subseteq Pending, scheduled' = scheduled,
           request'[x] = request[x]
    PROVE  request'[x].kind = "schedule" =>
              /\ request'[x].id \notin Pending'
              /\ a # Response(1) => request'[x].id \notin scheduled'
BY DEF Over

\* Nothing but the clock, or nothing at all.
LEMMA TickInv == ASSUME Inv, Tick \/ UNCHANGED vars PROVE Inv'
<1>1. /\ UNCHANGED <<pc, backlog, serving, should_quit, reply, status, scheduled>>
      /\ UNCHANGED <<at, request, inbox, result, calls, faults>>
      /\ clock' \in Nat /\ clock <= clock' /\ clock \in Nat
  BY DEF Tick, vars, nodeVars, callerVars, bounds, Inv, Shapes
<1>2. Shapes'
  BY <1>1 DEF Inv, Shapes
<1>3. Sensible'
  <2>1. /\ \A n \in Nodes : status[n] \in Nat /\ (reply[n].kind = "status" => reply[n].time \in Nat)
        /\ \A x \in Callers : inbox[x].kind = "status" => inbox[x].time \in Nat
    BY Kinds, MessageKinds DEF Inv, Shapes
  <2> QED BY <1>1, <2>1 DEF Inv, Sensible
<1>4. Wired'
  BY <1>1 DEF Inv, Wired, InStep, Waiting, Live
<1>5. Single' /\ Pending' = Pending
  BY <1>1 DEF Inv, Single, Asks, Reads, Pending
<1>6. Backed'
  BY <1>1 DEF Inv, Backed, Earned
<1>7. Faultless'
  BY <1>1, <1>5 DEF Inv, Faultless, Over, Connected, IsOf
<1> QED BY <1>2, <1>3, <1>4, <1>5, <1>6, <1>7 DEF Inv

\* A program begins a call, with a number no call has had.
LEMMA CallInv == ASSUME Inv, NEW c \in Clients, NEW r \in Requests, Call(c, r) PROVE Inv'
<1>0. /\ UNCHANGED <<clock, pc, backlog, serving, should_quit, reply, status, scheduled, inbox, faults>>
      /\ at[c] = "idle" /\ at' = [at EXCEPT ![c] = "connect"] /\ request' = [request EXCEPT ![c] = r]
      /\ result' = [result EXCEPT ![c] = Nothing] /\ calls' = calls + 1
  BY DEF Call, nodeVars
<1>1. /\ r \in Messages /\ (r.kind = "schedule" => r.id = calls)
      /\ calls \in Nat /\ clock \in Nat
  BY DEF Inv, Shapes, Requests, Messages
<1>2. c \in Callers /\ c \notin Nodes /\ Dest[c] \in Nodes /\ r # Nothing
  BY <1>1, Constants, MessageKinds
<1>3. /\ at'[c] = "connect" /\ request'[c] = r
      /\ \A x \in Callers : x # c => at'[x] = at[x] /\ request'[x] = request[x]
      /\ \A x \in Clients : x # c => result'[x] = result[x]
  BY <1>0, <1>2 DEF Inv, Shapes
<1>4. Shapes'
  BY <1>0, <1>1, <1>2 DEF Inv, Shapes
<1>5. Sensible'
  BY <1>0, <1>2, <1>3, Constants DEF Inv, Sensible
<1>6. \A n \in Nodes : /\ ~serving[n].gone => serving[n].who # c /\ serving[n].who \in Callers
                       /\ \A i \in Live(n) : backlog[n][i].who # c /\ backlog[n][i].who \in Callers
  BY <1>0, <1>2, Types DEF Inv, Wired, InStep, Waiting
<1>7. Wired'
  BY <1>0, <1>2, <1>3, <1>6, Constants DEF Inv, Wired, InStep, Waiting, Live
<1>8. /\ \A x \in Callers : x # c => (Asks(x)' <=> Asks(x))
      /\ \A n \in Nodes : (Reads(n)' <=> Reads(n)) /\ serving'[n] = serving[n]
      /\ Asks(c)' <=> r.kind = "schedule"
  BY <1>0, <1>3 DEF Asks, Reads
<1>9. \A i \in Pending' : i \in Pending \/ i = calls
  BY <1>1, <1>3, <1>8 DEF Pending
<1>10. \A i \in scheduled \cup Pending : i \in Nat /\ i < calls
  BY DEF Inv, Single
<1>11. calls \notin Pending /\ calls \notin scheduled
  BY <1>1, <1>10
<1>12. \A x \in Callers : Asks(x) => request[x].id # calls
  BY <1>11 DEF Pending
<1>13. \A n \in Nodes : Reads(n) => serving[n].sent.id # calls
  BY <1>11 DEF Pending
<1>14. Single'
  <2>1. \A i \in scheduled' \cup Pending' : i \in Nat /\ i < calls'
    BY <1>0, <1>1, <1>9, <1>10
  <2>2. Pending' \cap scheduled' = {}
    BY <1>0, <1>9, <1>11 DEF Inv, Single
  <2>3. \A x \in Callers : request'[x].kind = "schedule" => request'[x].id < calls'
    BY <1>0, <1>1, <1>3, Types DEF Inv, Single
  <2>4. \A x, y \in Callers : Asks(x)' /\ Asks(y)' /\ request'[x].id = request'[y].id => x = y
    BY <1>1, <1>3, <1>8, <1>12 DEF Inv, Single
  <2>5. \A n, m \in Nodes : Reads(n)' /\ Reads(m)' /\ serving'[n].sent.id = serving'[m].sent.id => n = m
    BY <1>8 DEF Inv, Single
  <2>6. \A x \in Callers, n \in Nodes : Asks(x)' /\ Reads(n)' => request'[x].id # serving'[n].sent.id
    BY <1>1, <1>3, <1>8, <1>13 DEF Inv, Single
  <2> QED BY <2>1, <2>2, <2>3, <2>4, <2>5, <2>6 DEF Single
<1>15. Backed'
  <2>1. \A n \in Nodes : pc'[n] = "respond" /\ ~serving'[n].gone => Earned(serving[n].who, reply[n])'
    BY <1>0, <1>3, <1>6 DEF Inv, Backed, Earned
  <2>2. \A x \in Callers : at'[x] = "answer" => Earned(x, inbox[x])'
    BY <1>0, <1>3 DEF Inv, Backed, Earned
  <2>3. \A x \in Clients : at'[x] = "idle" => Earned(x, result[x])'
    BY <1>0, <1>3, Constants DEF Inv, Backed, Earned
  <2> QED BY <2>1, <2>2, <2>3 DEF Backed
<1>16. Faultless'
  <2> SUFFICES ASSUME faults = 0 PROVE Faultless'
    BY <1>0 DEF Faultless
  <2>1. ASSUME NEW x \in Callers, x # c, NEW a, Over(x, a)
        PROVE  request'[x].kind = "schedule" =>
                 request'[x].id \notin Pending' /\ (a # Response(1) => request'[x].id \notin scheduled')
    <3>1. request[x].kind = "schedule" => request[x].id \in Nat /\ request[x].id < calls
      BY Types DEF Inv, Single
    <3> QED BY <1>0, <1>1, <1>3, <1>9, <2>1, <3>1 DEF Over
  <2>2. \A n \in Nodes : pc'[n] # "down" /\ ~should_quit'[n]
    BY <1>0 DEF Inv, Faultless
  <2>3. \A x \in Callers : at'[x] \in {"echo", "answer"} => Connected(x)'
    BY <1>0, <1>3 DEF Inv, Faultless, Connected, IsOf
  <2>4. \A n \in Nodes : pc'[n] = "respond" /\ ~serving'[n].gone => Over(serving[n].who, reply[n])'
    BY <1>0, <1>6, <2>1 DEF Inv, Faultless, Over
  <2>5. \A n \in Nodes : pc'[n] = "eof" /\ ~serving'[n].gone =>
                           Over(serving[n].who, inbox[serving[n].who])'
    BY <1>0, <1>6, <2>1 DEF Inv, Faultless, Over
  <2>6. ASSUME NEW x \in Clients, at'[x] = "idle" PROVE Over(x, result[x])'
    <3>1. x # c /\ x \in Callers /\ at[x] = "idle" /\ result'[x] = result[x]
      BY <1>3, <2>6, Constants
    <3>2. Over(x, result[x])
      BY <3>1 DEF Inv, Faultless
    <3> QED BY <2>1, <3>1, <3>2 DEF Over
  <2> QED BY <2>2, <2>3, <2>4, <2>5, <2>6 DEF Faultless
<1> QED BY <1>4, <1>5, <1>7, <1>14, <1>15, <1>16 DEF Inv

-----------------------------------------------------------------------------
\* A caller connects and sends its tag.
LEMMA ConnectInv == ASSUME Inv, NEW x \in Callers, Connect(x) PROVE Inv'
<1>1. PICK d \in Nodes : d = Dest[x]
  BY DEF Connect, Inv, Sensible
<1> DEFINE k == [who |-> x, sent |-> Tag, gone |-> FALSE]
<1>2. /\ UNCHANGED <<clock, pc, serving, should_quit, reply, status, scheduled, request, inbox, result>>
      /\ UNCHANGED <<calls, faults>> /\ at[x] = "connect" /\ at' = [at EXCEPT ![x] = "echo"]
      /\ backlog' = [backlog EXCEPT ![d] = Append(backlog[d], k)]
  BY <1>1 DEF Connect, bounds
<1>3. k \in Connections /\ k.who = x /\ ~k.gone
  BY DEF Connections
<1> HIDE DEF k
<1>4. /\ at'[x] = "echo" /\ \A y \in Callers : y # x => at'[y] = at[y]
  BY <1>2 DEF Inv, Shapes
<1>5. backlog[d] \in Seq(Connections) /\ Len(backlog[d]) \in Nat
  BY DEF Inv, Shapes
<1>6. /\ \A n \in Nodes : n # d => backlog'[n] = backlog[n]
      /\ DOMAIN backlog'[d] = DOMAIN backlog[d] \cup {Len(backlog[d]) + 1}
      /\ backlog'[d][Len(backlog[d]) + 1] = k
      /\ \A i \in DOMAIN backlog[d] : backlog'[d][i] = backlog[d][i]
      /\ Len(backlog[d]) + 1 \notin DOMAIN backlog[d]
  BY <1>2, <1>3, <1>5 DEF Inv, Shapes
<1>7. Shapes'
  <2>1. backlog' \in [Nodes -> Seq(Connections)]
    BY <1>2, <1>3, <1>5 DEF Inv, Shapes
  <2> QED BY <1>2, <2>1 DEF Inv, Shapes
<1>8. Sensible'
  <2>1. \A n \in Nodes : (pc'[n] = "forward") <=> (at'[n] # "idle")
    BY <1>2, <1>4, Constants DEF Inv, Sensible
  <2> QED BY <1>1, <1>2, <1>4, <2>1 DEF Inv, Sensible
<1>9. inbox[x] = Nothing
  BY <1>2 DEF Inv, Sensible
<1>10. \A n \in Nodes : /\ ~serving[n].gone => serving[n].who # x /\ serving[n].who \in Callers
                        /\ \A i \in Live(n) : backlog[n][i].who # x /\ backlog[n][i].who \in Callers
  BY <1>2, Types DEF Inv, Wired, InStep, Waiting
<1>11. /\ \A n \in Nodes : n # d => Live(n)' = Live(n)
       /\ Live(d)' = Live(d) \cup {Len(backlog[d]) + 1}
  BY <1>3, <1>6 DEF Live
<1>12. Wired'
  <2>1. ASSUME NEW n \in Nodes, ~serving'[n].gone PROVE InStep(n, serving[n].who)'
    BY <1>2, <1>4, <1>10, <2>1, Constants DEF Inv, Wired, InStep
  <2>2. ASSUME NEW n \in Nodes, NEW i \in Live(n)' PROVE Waiting(n, backlog[n][i].who)'
    <3>1. CASE i \in Live(n)
      <4>1. backlog'[n][i] = backlog[n][i]
        BY <1>6, <3>1 DEF Live
      <4>2. backlog[n][i].who # x /\ backlog[n][i].who \in Callers /\ Waiting(n, backlog[n][i].who)
        BY <1>10, <3>1 DEF Inv, Wired
      <4> QED BY <1>2, <1>4, <4>1, <4>2 DEF Waiting
    <3>2. CASE n = d /\ i = Len(backlog[d]) + 1
      BY <1>1, <1>2, <1>3, <1>4, <1>6, <1>9, <3>2 DEF Waiting
    <3> QED BY <1>11, <3>1, <3>2
  <2>3. ASSUME NEW n \in Nodes, NEW i \in Live(n)', NEW j \in Live(n)',
               backlog'[n][i].who = backlog'[n][j].who
        PROVE  i = j
    <3>1. Live(n) \subseteq DOMAIN backlog[n]
      BY DEF Live
    <3> QED BY <1>3, <1>6, <1>10, <1>11, <2>3, <3>1 DEF Inv, Wired
  <2>4. \A n \in Nodes : serving'[n].sent # Tag
    BY <1>2 DEF Inv, Wired
  <2> QED BY <2>1, <2>2, <2>3, <2>4 DEF Wired
<1>13. Calm
  BY <1>2, <1>4 DEF Calm, Asks, Reads
<1>14. Single' /\ Pending' \subseteq Pending
  BY <1>13, CalmSingle DEF Inv
<1>15. Backed'
  <2>1. \A y \in Callers : at'[y] = "answer" => at[y] = "answer"
    BY <1>4
  <2>2. \A c \in Clients : at'[c] = "idle" => at[c] = "idle"
    BY <1>4, Constants
  <2> QED BY <1>2, <2>1, <2>2 DEF Inv, Backed, Earned
<1>16. Faultless'
  <2> SUFFICES ASSUME faults = 0 PROVE Faultless'
    BY <1>2 DEF Faultless
  <2>1. ASSUME NEW y \in Callers, at'[y] \in {"echo", "answer"} PROVE Connected(y)'
    <3>1. CASE y = x
      BY <1>1, <1>3, <1>6, <3>1 DEF Connected, IsOf
    <3>2. CASE y # x
      <4>1. Connected(y)
        BY <1>4, <2>1, <3>2 DEF Inv, Faultless
      <4>2. \A n \in Nodes : \A i \in DOMAIN backlog[n] :
               i \in DOMAIN backlog'[n] /\ backlog'[n][i] = backlog[n][i]
        BY <1>6
      <4> QED BY <1>2, <4>1, <4>2 DEF Connected, IsOf
    <3> QED BY <3>1, <3>2
  <2>2. \A c \in Clients : at'[c] = "idle" => at[c] = "idle"
    BY <1>4, Constants
  <2> QED BY <1>2, <1>14, <2>1, <2>2, OverKept DEF Inv, Faultless, Over
<1> QED BY <1>7, <1>8, <1>12, <1>14, <1>15, <1>16 DEF Inv

\* The message goes out on the connection at hand at the other side, if that is
\* still there.
LEMMA SendEffect ==
    ASSUME Inv, NEW x \in Callers, SendMessage(x)
    PROVE  /\ backlog' = backlog
           /\ serving' \in [Nodes -> Connections \cup {NoConnection}]
           /\ \A n \in Nodes : /\ serving'[n].who = serving[n].who
                               /\ serving'[n].gone <=> serving[n].gone
                               /\ serving'[n] = NoConnection <=> serving[n] = NoConnection
           /\ \A n \in Nodes : IF ~serving[n].gone /\ serving[n].who = x
                               THEN serving'[n].sent = request[x] ELSE serving'[n] = serving[n]
<1>1. PICK d \in Nodes : d = Dest[x]
  BY DEF SendMessage, Inv, Sensible
<1>2. at[x] = "echo" /\ inbox[x] = Echo /\ request[x] \in Messages
  BY DEF SendMessage, Inv, Shapes, Sensible
<1> DEFINE sends(k) == IF IsOf(k, x) THEN [k EXCEPT !.sent = request[x]] ELSE k
<1>3. /\ serving' = [serving EXCEPT ![d] = sends(serving[d])]
      /\ backlog' = [backlog EXCEPT ![d] = [i \in DOMAIN backlog[d] |-> sends(backlog[d][i])]]
  BY <1>1 DEF SendMessage, OnConnection
<1>4. \A i \in DOMAIN backlog[d] : sends(backlog[d][i]) = backlog[d][i]
  BY <1>2, MessageKinds DEF Inv, Wired, Waiting, Live, IsOf
<1>5. \A k \in Connections :
         /\ sends(k) \in Connections /\ sends(k).who = k.who /\ (sends(k).gone <=> k.gone)
         /\ IF ~k.gone /\ k.who = x THEN sends(k).sent = request[x] ELSE sends(k) = k
  BY <1>2 DEF IsOf, Connections
<1>6. sends(NoConnection) = NoConnection /\ NoConnection.gone
  <2>1. NoConnection.gone
    BY Kinds
  <2> QED BY <2>1, Zenon DEF IsOf
<1> HIDE DEF sends
<1>7. backlog' = backlog
  <2>1. backlog[d] \in Seq(Connections)
    BY DEF Inv, Shapes
  <2>2. [i \in DOMAIN backlog[d] |-> sends(backlog[d][i])] = backlog[d]
    BY <1>4, <2>1
  <2> QED BY <1>3, <2>2 DEF Inv, Shapes
<1>8. serving' \in [Nodes -> Connections \cup {NoConnection}]
  BY <1>3, <1>5, <1>6 DEF Inv, Shapes
<1>9. \A n \in Nodes : ~serving[n].gone /\ serving[n].who = x => n = d
  BY <1>1 DEF Inv, Wired, InStep
<1>10. /\ serving'[d] = sends(serving[d]) /\ serving[d] \in Connections \cup {NoConnection}
       /\ \A n \in Nodes : n # d => serving'[n] = serving[n]
  BY <1>3 DEF Inv, Shapes
<1>11. /\ serving'[d].who = serving[d].who
       /\ serving'[d].gone <=> serving[d].gone
       /\ serving'[d] = NoConnection <=> serving[d] = NoConnection
       /\ IF ~serving[d].gone /\ serving[d].who = x
          THEN serving'[d].sent = request[x] ELSE serving'[d] = serving[d]
  BY <1>5, <1>6, <1>10, ConnectionKinds
<1> QED BY <1>7, <1>8, <1>9, <1>10, <1>11

LEMMA SendInv == ASSUME Inv, NEW x \in Callers, SendMessage(x) PROVE Inv'
<1>1. /\ UNCHANGED <<clock, pc, should_quit, reply, status, scheduled, request, result, calls, faults>>
      /\ at[x] = "echo" /\ inbox[x] = Echo
      /\ at' = [at EXCEPT ![x] = "answer"] /\ inbox' = [inbox EXCEPT ![x] = Nothing]
  BY DEF SendMessage, bounds
<1>2. /\ at'[x] = "answer" /\ inbox'[x] = Nothing
      /\ \A y \in Callers : y # x => at'[y] = at[y] /\ inbox'[y] = inbox[y]
  BY <1>1 DEF Inv, Shapes
<1>3. /\ backlog' = backlog
      /\ \A n \in Nodes : /\ serving'[n].who = serving[n].who
                          /\ serving'[n].gone <=> serving[n].gone
                          /\ serving'[n] = NoConnection <=> serving[n] = NoConnection
      /\ \A n \in Nodes : IF ~serving[n].gone /\ serving[n].who = x
                          THEN serving'[n].sent = request[x] ELSE serving'[n] = serving[n]
  BY SendEffect
<1>4. Shapes'
  BY <1>1, <1>3, SendEffect DEF Inv, Shapes
<1>5. request[x] \in Messages /\ request[x] # Nothing /\ request[x] # Tag
  BY <1>1, MessageKinds DEF Inv, Shapes, Sensible
<1>6. Sensible'
  <2>1. \A n \in Nodes : (pc'[n] = "forward") <=> (at'[n] # "idle")
    BY <1>1, <1>2, Constants DEF Inv, Sensible
  <2>2. \A n \in Nodes : (serving'[n] = NoConnection) <=> (pc'[n] \in {"accept", "down"})
    BY <1>1, <1>3 DEF Inv, Sensible
  <2> QED BY <1>1, <1>2, <2>1, <2>2, Kinds DEF Inv, Sensible
<1>7. \A n \in Nodes : /\ ~serving[n].gone => serving[n].who \in Callers /\ InStep(n, serving[n].who)
                       /\ \A i \in Live(n) : backlog[n][i].who # x /\ backlog[n][i].who \in Callers
  BY <1>1, Types, MessageKinds DEF Inv, Wired, Waiting
<1>8. Wired'
  <2>1. ASSUME NEW n \in Nodes, ~serving'[n].gone PROVE InStep(n, serving[n].who)'
    <3>0. ~serving[n].gone /\ serving[n].who \in Callers /\ InStep(n, serving[n].who)
      BY <1>3, <1>7, <2>1
    <3>1. CASE serving[n].who = x
      <4>1. pc[n] = "msg" /\ Dest[x] = n
        BY <1>1, <3>0, <3>1 DEF InStep
      <4>2. serving'[n].sent = request[x] /\ serving'[n].who = x
        BY <1>3, <3>0, <3>1
      <4> QED BY <1>1, <1>2, <4>1, <4>2 DEF InStep
    <3>2. CASE serving[n].who # x
      <4>1. serving'[n] = serving[n]
        BY <1>3, <3>2
      <4> QED BY <1>1, <1>2, <3>0, <3>2, <4>1 DEF InStep
    <3> QED BY <3>1, <3>2
  <2>2. \A n \in Nodes : Live(n)' = Live(n)
    BY <1>3 DEF Live
  <2>3. \A n \in Nodes : \A i \in Live(n)' : Waiting(n, backlog[n][i].who)'
    BY <1>2, <1>3, <1>7, <2>2 DEF Inv, Wired, Waiting
  <2>4. \A n \in Nodes : serving'[n].sent # Tag
    BY <1>3, <1>5 DEF Inv, Wired
  <2> QED BY <1>3, <2>1, <2>2, <2>3, <2>4 DEF Inv, Wired
<1>9. ASSUME NEW n \in Nodes, Reads(n)'
      PROVE  \/ Reads(n) /\ serving'[n].sent = serving[n].sent /\ (serving[n].gone \/ serving[n].who # x)
             \/ /\ ~Reads(n) /\ Asks(x) /\ serving'[n].sent = request[x]
                /\ ~serving[n].gone /\ serving[n].who = x /\ Dest[x] = n
  <2>1. CASE ~serving[n].gone /\ serving[n].who = x
    <3>1. serving[n].sent = Nothing /\ Dest[x] = n /\ serving'[n].sent = request[x]
      BY <1>1, <1>3, <1>7, <2>1 DEF InStep
    <3> QED BY <1>1, <1>9, <2>1, <3>1, Kinds DEF Reads, Asks
  <2>2. CASE serving[n].gone \/ serving[n].who # x
    BY <1>1, <1>3, <1>9, <2>2 DEF Reads
  <2> QED BY <2>1, <2>2
<1>10. \A y \in Callers : Asks(y)' => y # x /\ Asks(y)
  BY <1>1, <1>2 DEF Asks
<1>11. Pending' \subseteq Pending
  BY <1>1, <1>9, <1>10 DEF Pending
<1>12. Single'
  <2>1. \A y, z \in Callers : Asks(y)' /\ Asks(z)' /\ request'[y].id = request'[z].id => y = z
    BY <1>1, <1>10 DEF Inv, Single
  <2>2. ASSUME NEW n \in Nodes, NEW m \in Nodes, Reads(n)', Reads(m)',
               serving'[n].sent.id = serving'[m].sent.id
        PROVE  n = m
    <3>1. CASE Reads(n) /\ Reads(m)
      BY <1>9, <2>2, <3>1 DEF Inv, Single
    <3>2. CASE ~Reads(n) /\ ~Reads(m)
      BY <1>9, <2>2, <3>2
    <3>3. CASE Reads(n) /\ ~Reads(m)
      BY <1>9, <2>2, <3>3 DEF Inv, Single
    <3>4. CASE ~Reads(n) /\ Reads(m)
      BY <1>9, <2>2, <3>4 DEF Inv, Single
    <3> QED BY <3>1, <3>2, <3>3, <3>4
  <2>3. ASSUME NEW y \in Callers, NEW n \in Nodes, Asks(y)', Reads(n)'
        PROVE  request'[y].id # serving'[n].sent.id
    BY <1>1, <1>9, <1>10, <2>3 DEF Inv, Single
  <2>4. /\ \A i \in scheduled' \cup Pending' : i \in Nat /\ i < calls'
        /\ Pending' \cap scheduled' = {}
        /\ \A y \in Callers : request'[y].kind = "schedule" => request'[y].id < calls'
    BY <1>1, <1>11 DEF Inv, Single
  <2> QED BY <2>1, <2>2, <2>3, <2>4 DEF Single
<1>13. Backed'
  <2>1. \A n \in Nodes : pc'[n] = "respond" /\ ~serving'[n].gone => Earned(serving[n].who, reply[n])'
    BY <1>1, <1>3 DEF Inv, Backed, Earned
  <2>2. \A y \in Callers : at'[y] = "answer" => Earned(y, inbox[y])'
    BY <1>1, <1>2, MessageKinds DEF Inv, Backed, Earned
  <2>3. \A c \in Clients : at'[c] = "idle" => Earned(c, result[c])'
    BY <1>1, <1>2, Constants DEF Inv, Backed, Earned
  <2> QED BY <2>1, <2>2, <2>3 DEF Backed
<1>14. Faultless'
  <2> SUFFICES ASSUME faults = 0 PROVE Faultless'
    BY <1>1 DEF Faultless
  <2>1. ASSUME NEW y \in Callers, at'[y] \in {"echo", "answer"} PROVE Connected(y)'
    <3>1. Connected(y)
      BY <1>1, <1>2, <2>1 DEF Inv, Faultless
    <3> QED BY <1>3, <3>1 DEF Connected, IsOf
  <2>2. \A n \in Nodes : pc'[n] = "respond" /\ ~serving'[n].gone => Over(serving[n].who, reply[n])'
    BY <1>1, <1>3, <1>11 DEF Inv, Faultless, Over
  <2>3. ASSUME NEW n \in Nodes, pc'[n] = "eof", ~serving'[n].gone
        PROVE  Over(serving[n].who, inbox[serving[n].who])'
    <3>1. pc[n] = "eof" /\ ~serving[n].gone /\ serving'[n].who = serving[n].who
      BY <1>1, <1>3, <2>3
    <3>2. serving[n].who # x /\ serving[n].who \in Callers
      BY <1>1, <1>7, <3>1 DEF InStep
    <3>3. Over(serving[n].who, inbox[serving[n].who])
      BY <3>1 DEF Inv, Faultless
    <3> QED BY <1>1, <1>2, <1>11, <3>1, <3>2, <3>3 DEF Over
  <2>4. ASSUME NEW c \in Clients, at'[c] = "idle" PROVE Over(c, result[c])'
    <3>1. at[c] = "idle"
      BY <1>2, <2>4, Constants
    <3> QED BY <1>1, <1>11, <3>1 DEF Inv, Faultless, Over
  <2> QED BY <1>1, <2>1, <2>2, <2>3, <2>4 DEF Inv, Faultless
<1> QED BY <1>4, <1>6, <1>8, <1>12, <1>13, <1>14 DEF Inv

-----------------------------------------------------------------------------
\* What a caller makes of an answer.
LEMMA ReturnedEffect ==
    ASSUME Inv, NEW x \in Callers, at[x] # "idle", NEW a \in Answers,
           a.kind = "status" => a.time <= clock, Returned(x, a)
    PROVE  /\ pc' \in [Nodes -> {"accept", "msg", "forward", "respond", "eof", "down"}]
           /\ reply' \in [Nodes -> Answers \cup {Nothing}] /\ status' \in [Nodes -> Nat]
           /\ result' \in [Clients -> Answers \cup {Nothing}]
           /\ \A n \in Nodes : /\ n # x => pc'[n] = pc[n] /\ reply'[n] = reply[n]
                               /\ status'[n] <= clock
           /\ \A c \in Clients : c # x => result'[c] = result[c]
           /\ x \in Clients => result'[x] = a
           /\ x \in Nodes => /\ pc[x] = "forward" /\ pc'[x] = "respond"
                             /\ reply'[x].kind = "status" => reply'[x].time <= clock
                             /\ reply'[x] \notin {Nothing, Echo}
                             /\ (reply'[x] = Response(1) /\ request[x].kind = "schedule")
                                   <=> (a = Response(1) /\ request[x].kind = "schedule")
<1>0. x \in Clients \/ x \in Nodes
  BY Constants
<1>1. CASE x \in Clients
  <2>1. /\ result' = [result EXCEPT ![x] = a] /\ UNCHANGED <<pc, reply, status>> /\ x \notin Nodes
    BY <1>1, Constants DEF Returned
  <2> QED BY <1>1, <2>1 DEF Inv, Shapes, Sensible
<1>2. CASE x \in Nodes
  <2> DEFINE new == IF a.kind = "status" THEN [status EXCEPT ![x] = a.time] ELSE status
             ans == IF request[x].kind = "schedule"
                    THEN Response(IF a.kind = "response" THEN a.value ELSE 0)
                    ELSE Status(new[x])
  <2>1. /\ status' = new /\ reply' = [reply EXCEPT ![x] = ans]
        /\ pc' = [pc EXCEPT ![x] = "respond"] /\ result' = result /\ x \notin Clients
    BY <1>2, Constants DEF Returned
  <2>2. clock \in Nat /\ status \in [Nodes -> Nat] /\ \A n \in Nodes : status[n] <= clock
    BY DEF Inv, Shapes, Sensible
  <2>3. new \in [Nodes -> Nat] /\ \A n \in Nodes : new[n] <= clock
    BY <2>2, MessageKinds
  <2> HIDE DEF new
  <2>4. /\ ans \in Answers /\ (ans.kind = "status" => ans.time <= clock) /\ ans \notin {Nothing, Echo}
        /\ (ans = Response(1) /\ request[x].kind = "schedule")
              <=> (a = Response(1) /\ request[x].kind = "schedule")
    <3>1. CASE request[x].kind = "schedule" /\ a.kind = "response"
      <4>1. ans = Response(a.value) /\ a = Response(a.value) /\ a.value \in {0, 1}
        BY <3>1, MessageKinds
      <4> QED BY <4>1, Kinds, MessageKinds
    <3>2. CASE request[x].kind = "schedule" /\ a.kind # "response"
      <4>1. ans = Response(0) /\ a # Response(1)
        BY <3>2, Kinds
      <4> QED BY <4>1, Kinds, MessageKinds
    <3>3. CASE request[x].kind # "schedule"
      <4>1. ans = Status(new[x]) /\ new[x] \in Nat /\ new[x] <= clock
        BY <1>2, <2>3, <3>3
      <4> QED BY <3>3, <4>1, Kinds, MessageKinds
    <3> QED BY <3>1, <3>2, <3>3
  <2> HIDE DEF ans
  <2>5. pc[x] = "forward"
    BY <1>2 DEF Inv, Sensible
  <2> QED BY <1>2, <2>1, <2>3, <2>4, <2>5 DEF Inv, Shapes
<1> QED BY <1>0, <1>1, <1>2

\* The answer is read and the connection closed.
LEMMA ReadInv == ASSUME Inv, NEW x \in Callers, ReadAnswer(x) PROVE Inv'
<1>1. PICK a : a = inbox[x]
  OBVIOUS
<1>2. /\ at[x] = "answer" /\ disconnect(x) /\ Returned(x, a)
      /\ at' = [at EXCEPT ![x] = "idle"] /\ inbox' = [inbox EXCEPT ![x] = Nothing]
      /\ UNCHANGED <<clock, should_quit, scheduled, request, calls, faults>>
  BY <1>1 DEF ReadAnswer, bounds
<1>3. /\ a \in Answers /\ (a.kind = "status" => a.time <= clock) /\ Dest[x] \in Nodes
      /\ a # Nothing /\ request[x] # Nothing
  BY <1>1, <1>2, MessageKinds DEF Inv, Shapes, Sensible, ReadAnswer
<1>4. /\ at'[x] = "idle" /\ inbox'[x] = Nothing
      /\ \A y \in Callers : y # x => at'[y] = at[y] /\ inbox'[y] = inbox[y]
  BY <1>2 DEF Inv, Shapes
<1>5. /\ pc' \in [Nodes -> {"accept", "msg", "forward", "respond", "eof", "down"}]
      /\ reply' \in [Nodes -> Answers \cup {Nothing}] /\ status' \in [Nodes -> Nat]
      /\ result' \in [Clients -> Answers \cup {Nothing}]
      /\ \A n \in Nodes : /\ n # x => pc'[n] = pc[n] /\ reply'[n] = reply[n]
                          /\ status'[n] <= clock
      /\ \A c \in Clients : c # x => result'[c] = result[c]
      /\ x \in Clients => result'[x] = a
      /\ x \in Nodes => /\ pc[x] = "forward" /\ pc'[x] = "respond"
                        /\ reply'[x].kind = "status" => reply'[x].time <= clock
                        /\ reply'[x] \notin {Nothing, Echo}
                        /\ (reply'[x] = Response(1) /\ request[x].kind = "schedule")
                              <=> (a = Response(1) /\ request[x].kind = "schedule")
  BY <1>2, <1>3, ReturnedEffect
<1>6. /\ serving' \in [Nodes -> Connections \cup {NoConnection}]
      /\ backlog' \in [Nodes -> Seq(Connections)]
      /\ \A n \in Nodes :
           /\ serving'[n].who = serving[n].who /\ serving'[n].sent = serving[n].sent
           /\ serving'[n].gone <=> serving[n].gone \/ (n = Dest[x] /\ serving[n].who = x)
           /\ serving'[n] = NoConnection <=> serving[n] = NoConnection
           /\ DOMAIN backlog'[n] = DOMAIN backlog[n]
      /\ \A n \in Nodes : \A i \in DOMAIN backlog[n] :
           /\ backlog'[n][i].who = backlog[n][i].who
           /\ backlog'[n][i].gone <=> backlog[n][i].gone \/ (n = Dest[x] /\ backlog[n][i].who = x)
  BY <1>2, <1>3, DisconnectEffect DEF Inv
<1>7. Shapes'
  BY <1>2, <1>5, <1>6 DEF Inv, Shapes
<1>8. Sensible'
  <2>1. \A n \in Nodes : (pc'[n] = "forward") <=> (at'[n] # "idle")
    BY <1>4, <1>5, Constants DEF Inv, Sensible
  <2>2. \A n \in Nodes : (serving'[n] = NoConnection) <=> (pc'[n] \in {"accept", "down"})
    <3> SUFFICES ASSUME NEW n \in Nodes
                 PROVE  (serving'[n] = NoConnection) <=> (pc'[n] \in {"accept", "down"})
      OBVIOUS
    <3>1. (serving[n] = NoConnection) <=> (pc[n] \in {"accept", "down"})
      BY DEF Inv, Sensible
    <3>2. pc'[n] = pc[n] \/ (pc[n] = "forward" /\ pc'[n] = "respond")
      BY <1>5
    <3>3. (serving'[n] = NoConnection) <=> (serving[n] = NoConnection)
      BY <1>6
    <3> QED BY <3>1, <3>2, <3>3
  <2>3. \A n \in Nodes : /\ status'[n] <= clock' /\ (reply'[n].kind = "status" => reply'[n].time <= clock')
                         /\ pc'[n] = "respond" => reply'[n] \notin {Nothing, Echo}
    BY <1>2, <1>5 DEF Inv, Sensible
  <2>4. \A y \in Callers : /\ at'[y] # "idle" => Dest[y] \in Nodes /\ request'[y] # Nothing
                           /\ inbox'[y].kind = "status" => inbox'[y].time <= clock'
                           /\ at'[y] \in {"idle", "connect"} => inbox'[y] = Nothing
    BY <1>2, <1>4, Kinds DEF Inv, Sensible
  <2> QED BY <2>1, <2>2, <2>3, <2>4 DEF Sensible
\* A connection that is alive afterwards was so before, and is another caller's.
<1>9. ASSUME NEW n \in Nodes, ~serving'[n].gone
      PROVE  /\ ~serving[n].gone /\ serving[n].who # x /\ serving[n].who \in Callers
             /\ InStep(n, serving[n].who)
  <2>1. ~serving[n].gone /\ InStep(n, serving[n].who)
    BY <1>6, <1>9 DEF Inv, Wired
  <2> QED BY <1>6, <1>9, <2>1, Types DEF InStep
<1>10. ASSUME NEW n \in Nodes, NEW i \in Live(n)'
       PROVE  /\ i \in Live(n) /\ backlog[n][i].who # x /\ backlog[n][i].who \in Callers
              /\ backlog'[n][i].who = backlog[n][i].who /\ Waiting(n, backlog[n][i].who)
  <2>1. i \in Live(n) /\ backlog'[n][i].who = backlog[n][i].who
    BY <1>6, <1>10 DEF Live
  <2>2. Waiting(n, backlog[n][i].who) /\ backlog[n][i].who \in Callers
    BY <2>1, Types DEF Inv, Wired
  <2> QED BY <1>2, <2>1, <2>2 DEF Waiting
<1>11. Wired'
  <2>1. ASSUME NEW n \in Nodes, ~serving'[n].gone PROVE InStep(n, serving[n].who)'
    <3>1. PICK w : w = serving[n].who
      OBVIOUS
    <3>2. /\ w # x /\ w \in Callers /\ InStep(n, w) /\ serving'[n].who = w
          /\ serving'[n].sent = serving[n].sent
      BY <1>6, <1>9, <2>1, <3>1
    <3>3. CASE n = x
      BY <1>2, <1>4, <1>5, <3>2, <3>3 DEF InStep
    <3>4. CASE n # x
      BY <1>2, <1>4, <1>5, <3>2, <3>4, Constants DEF InStep
    <3> QED BY <3>3, <3>4
  <2>2. ASSUME NEW n \in Nodes, NEW i \in Live(n)' PROVE Waiting(n, backlog[n][i].who)'
    BY <1>4, <1>10 DEF Waiting
  <2>3. ASSUME NEW n \in Nodes, NEW i \in Live(n)', NEW j \in Live(n)',
               backlog'[n][i].who = backlog'[n][j].who
        PROVE  i = j
    BY <1>10, <2>3 DEF Inv, Wired
  <2>4. \A n \in Nodes : serving'[n].sent # Tag
    BY <1>6 DEF Inv, Wired
  <2> QED BY <2>1, <2>2, <2>3, <2>4 DEF Wired
<1>12. Calm
  <2>1. \A y \in Callers : Asks(y)' => Asks(y)
    BY <1>2, <1>4 DEF Asks
  <2>2. \A n \in Nodes : Reads(n)' => Reads(n) /\ serving'[n].sent = serving[n].sent
    BY <1>5, <1>6 DEF Reads
  <2> QED BY <1>2, <2>1, <2>2 DEF Calm
<1>13. Single' /\ Pending' \subseteq Pending
  BY <1>12, CalmSingle DEF Inv
<1>14. Earned(x, a)
  BY <1>1, <1>2 DEF Inv, Backed
<1>15. Backed'
  <2>1. ASSUME NEW n \in Nodes, pc'[n] = "respond", ~serving'[n].gone
        PROVE  Earned(serving[n].who, reply[n])'
    <3>1. ~serving[n].gone /\ serving'[n].who = serving[n].who /\ InStep(n, serving[n].who)
      BY <1>6, <1>9, <2>1
    <3>2. CASE n = x
      <4>1. request[serving[n].who] = request[x]
        BY <1>5, <3>1, <3>2 DEF InStep
      <4> QED BY <1>2, <1>5, <1>14, <3>1, <3>2, <4>1 DEF Earned
    <3>3. CASE n # x
      BY <1>2, <1>5, <2>1, <3>1, <3>3 DEF Inv, Backed, Earned
    <3> QED BY <3>2, <3>3
  <2>2. ASSUME NEW y \in Callers, at'[y] = "answer" PROVE Earned(y, inbox[y])'
    BY <1>2, <1>4, <2>2 DEF Inv, Backed, Earned
  <2>3. ASSUME NEW c \in Clients, at'[c] = "idle" PROVE Earned(c, result[c])'
    BY <1>2, <1>4, <1>5, <1>14, <2>3, Constants DEF Inv, Backed, Earned
  <2> QED BY <2>1, <2>2, <2>3 DEF Backed
<1>16. Faultless'
  <2> SUFFICES ASSUME faults = 0 PROVE Faultless'
    BY <1>2 DEF Faultless
  <2>1. ASSUME NEW y \in Callers, at'[y] \in {"echo", "answer"} PROVE Connected(y)'
    <3>1. y # x /\ Connected(y)
      BY <1>4, <2>1 DEF Inv, Faultless
    <3> DEFINE d == Dest[y]
    <3>2. CASE IsOf(serving[d], y)
      BY <1>6, <3>1, <3>2 DEF Connected, IsOf
    <3>3. ASSUME NEW i \in DOMAIN backlog[d], IsOf(backlog[d][i], y) PROVE Connected(y)'
      BY <1>6, <3>1, <3>3 DEF Connected, IsOf
    <3> QED BY <3>1, <3>2, <3>3 DEF Connected
  <2>2. Over(x, a)
    <3>1. PICK d \in Nodes : d = Dest[x]
      BY <1>3
    <3>2. Connected(x)
      BY <1>2 DEF Inv, Faultless
    <3>3. ~serving[d].gone /\ serving[d].who = x
      BY <1>2, <3>1, <3>2 DEF Connected, IsOf, Inv, Wired, Waiting, Live
    <3>4. pc[d] = "eof"
      BY <1>1, <1>2, <1>3, <3>3 DEF Inv, Wired, InStep
    <3> QED BY <1>1, <3>3, <3>4 DEF Inv, Faultless
  <2>3. ASSUME NEW n \in Nodes, pc'[n] = "respond", ~serving'[n].gone
        PROVE  Over(serving[n].who, reply[n])'
    <3>1. ~serving[n].gone /\ serving'[n].who = serving[n].who /\ InStep(n, serving[n].who)
      BY <1>6, <1>9, <2>3
    <3>2. CASE n = x
      <4>1. request[serving[n].who] = request[x]
        BY <1>5, <3>1, <3>2 DEF InStep
      <4> QED BY <1>2, <1>5, <1>13, <2>2, <3>1, <3>2, <4>1 DEF Over
    <3>3. CASE n # x
      BY <1>2, <1>5, <1>13, <2>3, <3>1, <3>3 DEF Inv, Faultless, Over
    <3> QED BY <3>2, <3>3
  <2>4. ASSUME NEW n \in Nodes, pc'[n] = "eof", ~serving'[n].gone
        PROVE  Over(serving[n].who, inbox[serving[n].who])'
    <3>1. /\ ~serving[n].gone /\ serving'[n].who = serving[n].who /\ serving[n].who # x
          /\ serving[n].who \in Callers /\ pc[n] = "eof"
      BY <1>5, <1>6, <1>9, <2>4
    <3>2. Over(serving[n].who, inbox[serving[n].who])
      BY <3>1 DEF Inv, Faultless
    <3> QED BY <1>2, <1>4, <1>13, <3>1, <3>2 DEF Over
  <2>5. ASSUME NEW c \in Clients, at'[c] = "idle" PROVE Over(c, result[c])'
    <3>1. CASE c = x
      BY <1>2, <1>5, <1>13, <2>2, <3>1 DEF Over
    <3>2. CASE c # x
      <4>1. Over(c, result[c]) /\ result'[c] = result[c]
        BY <1>4, <1>5, <2>5, <3>2, Constants DEF Inv, Faultless
      <4> QED BY <1>2, <1>13, <4>1 DEF Over
    <3> QED BY <3>1, <3>2
  <2>6. \A n \in Nodes : pc'[n] # "down" /\ ~should_quit'[n]
    BY <1>2, <1>5 DEF Inv, Faultless
  <2> QED BY <2>1, <2>3, <2>4, <2>5, <2>6 DEF Faultless
<1> QED BY <1>7, <1>8, <1>11, <1>13, <1>15, <1>16 DEF Inv

\* A call fails: only after a fault, when the caller has no connection.
LEMMA FailInv == ASSUME Inv, NEW x \in Callers, CallFails(x) PROVE Inv'
<1>1. /\ Returned(x, Failed) /\ at' = [at EXCEPT ![x] = "idle"] /\ at[x] # "idle"
      /\ UNCHANGED <<clock, backlog, serving, should_quit, scheduled, request, inbox, calls, faults>>
  BY DEF CallFails, bounds
<1>2. inbox[x] = Nothing
  BY DEF CallFails, Inv, Sensible
<1>3. \A n \in Nodes :
         /\ ~serving[n].gone => /\ serving[n].who # x /\ serving[n].who \in Callers
                                /\ InStep(n, serving[n].who)
         /\ \A i \in Live(n) : /\ backlog[n][i].who # x /\ backlog[n][i].who \in Callers
                               /\ Waiting(n, backlog[n][i].who)
  <2>1. CASE at[x] = "connect"
    BY <2>1, Types DEF Inv, Wired, InStep, Waiting
  <2>2. CASE ~Connected(x)
    BY <2>2, Types DEF Inv, Wired, InStep, Waiting, Connected, IsOf, Live
  <2> QED BY <2>1, <2>2 DEF CallFails
<1>4. faults # 0
  <2> SUFFICES ASSUME faults = 0 PROVE FALSE
    OBVIOUS
  <2>1. Dest[x] \in Nodes
    BY <1>1 DEF Inv, Sensible
  <2>2. Listening(Dest[x])
    BY <2>1 DEF Inv, Faultless, Listening
  <2>3. at[x] \in {"echo", "answer"} => Connected(x)
    BY DEF Inv, Faultless
  <2> QED BY <2>2, <2>3 DEF CallFails
<1>5. /\ at'[x] = "idle" /\ \A y \in Callers : y # x => at'[y] = at[y]
  BY <1>1 DEF Inv, Shapes
<1>6. Failed \in Answers /\ Failed.kind # "status" /\ Failed # Response(1) /\ Failed # Echo
  BY Kinds, MessageKinds
<1>7. /\ pc' \in [Nodes -> {"accept", "msg", "forward", "respond", "eof", "down"}]
      /\ reply' \in [Nodes -> Answers \cup {Nothing}] /\ status' \in [Nodes -> Nat]
      /\ result' \in [Clients -> Answers \cup {Nothing}]
      /\ \A n \in Nodes : /\ n # x => pc'[n] = pc[n] /\ reply'[n] = reply[n]
                          /\ status'[n] <= clock
      /\ \A c \in Clients : c # x => result'[c] = result[c]
      /\ x \in Clients => result'[x] = Failed
      /\ x \in Nodes => /\ pc[x] = "forward" /\ pc'[x] = "respond"
                        /\ reply'[x].kind = "status" => reply'[x].time <= clock
                        /\ reply'[x] \notin {Nothing, Echo}
                        /\ (reply'[x] = Response(1) /\ request[x].kind = "schedule")
                              <=> (Failed = Response(1) /\ request[x].kind = "schedule")
  BY <1>1, <1>6, ReturnedEffect
<1>8. Shapes'
  BY <1>1, <1>7 DEF Inv, Shapes
<1>9. Sensible'
  <2>1. \A n \in Nodes : (pc'[n] = "forward") <=> (at'[n] # "idle")
    BY <1>5, <1>7, Constants DEF Inv, Sensible
  <2>2. ASSUME NEW n \in Nodes
        PROVE  (serving'[n] = NoConnection) <=> (pc'[n] \in {"accept", "down"})
    <3>1. (serving[n] = NoConnection) <=> (pc[n] \in {"accept", "down"})
      BY DEF Inv, Sensible
    <3>2. pc'[n] = pc[n] \/ (pc[n] = "forward" /\ pc'[n] = "respond")
      BY <1>7
    <3> QED BY <1>1, <3>1, <3>2
  <2>3. \A n \in Nodes : /\ status'[n] <= clock' /\ (reply'[n].kind = "status" => reply'[n].time <= clock')
                         /\ pc'[n] = "respond" => reply'[n] \notin {Nothing, Echo}
    BY <1>1, <1>7 DEF Inv, Sensible
  <2>4. \A y \in Callers : /\ at'[y] # "idle" => Dest[y] \in Nodes /\ request'[y] # Nothing
                           /\ inbox'[y].kind = "status" => inbox'[y].time <= clock'
                           /\ at'[y] \in {"idle", "connect"} => inbox'[y] = Nothing
    BY <1>1, <1>2, <1>5 DEF Inv, Sensible
  <2> QED BY <2>1, <2>2, <2>3, <2>4 DEF Sensible
<1>10. Wired'
  <2>1. ASSUME NEW n \in Nodes, ~serving'[n].gone PROVE InStep(n, serving[n].who)'
    <3>1. PICK w : w = serving[n].who
      OBVIOUS
    <3>2. w # x /\ w \in Callers /\ InStep(n, w) /\ serving'[n].who = w /\ serving'[n].sent = serving[n].sent
      BY <1>1, <1>3, <2>1, <3>1
    <3>3. CASE n = x
      BY <1>1, <1>5, <1>7, <3>2, <3>3 DEF InStep
    <3>4. CASE n # x
      BY <1>1, <1>5, <1>7, <3>2, <3>4, Constants DEF InStep
    <3> QED BY <3>3, <3>4
  <2>2. \A n \in Nodes : Live(n)' = Live(n)
    BY <1>1 DEF Live
  <2>3. ASSUME NEW n \in Nodes, NEW i \in Live(n)' PROVE Waiting(n, backlog[n][i].who)'
    BY <1>1, <1>3, <1>5, <2>2 DEF Waiting
  <2> QED BY <1>1, <2>1, <2>2, <2>3 DEF Inv, Wired
<1>11. Calm
  <2>1. \A y \in Callers : Asks(y)' => Asks(y)
    BY <1>1, <1>5 DEF Asks
  <2>2. \A n \in Nodes : Reads(n)' => Reads(n) /\ serving'[n].sent = serving[n].sent
    BY <1>1, <1>7 DEF Reads
  <2> QED BY <1>1, <2>1, <2>2 DEF Calm
<1>12. Single'
  BY <1>11, CalmSingle DEF Inv
<1>13. Backed'
  <2>1. ASSUME NEW n \in Nodes, pc'[n] = "respond", ~serving'[n].gone
        PROVE  Earned(serving[n].who, reply[n])'
    <3>1. ~serving[n].gone /\ serving'[n].who = serving[n].who /\ InStep(n, serving[n].who)
      BY <1>1, <1>3, <2>1
    <3>2. CASE n = x
      <4>1. request[serving[n].who] = request[x]
        BY <1>7, <3>1, <3>2 DEF InStep
      <4> QED BY <1>1, <1>6, <1>7, <3>1, <3>2, <4>1 DEF Earned
    <3>3. CASE n # x
      BY <1>1, <1>7, <2>1, <3>1, <3>3 DEF Inv, Backed, Earned
    <3> QED BY <3>2, <3>3
  <2>2. ASSUME NEW y \in Callers, at'[y] = "answer" PROVE Earned(y, inbox[y])'
    BY <1>1, <1>5, <2>2 DEF Inv, Backed, Earned
  <2>3. ASSUME NEW c \in Clients, at'[c] = "idle" PROVE Earned(c, result[c])'
    BY <1>1, <1>5, <1>6, <1>7, <2>3, Constants DEF Inv, Backed, Earned
  <2> QED BY <2>1, <2>2, <2>3 DEF Backed
<1>14. Faultless'
  BY <1>1, <1>4 DEF Faultless
<1> QED BY <1>8, <1>9, <1>10, <1>12, <1>13, <1>14 DEF Inv

\* A program is killed in the middle of a call.
LEMMA LeaveInv == ASSUME Inv, NEW x \in Clients, Leave(x) PROVE Inv'
<1>0. x \in Callers /\ Dest[x] \in Nodes /\ x \notin Nodes
  BY Constants
<1>1. /\ disconnect(x) /\ at' = [at EXCEPT ![x] = "idle"] /\ inbox' = [inbox EXCEPT ![x] = Nothing]
      /\ request' = [request EXCEPT ![x] = Nothing]
      /\ UNCHANGED <<clock, pc, should_quit, reply, status, scheduled, result, calls, faults>>
  BY DEF Leave, bounds
<1>2. /\ at'[x] = "idle" /\ inbox'[x] = Nothing /\ request'[x] = Nothing
      /\ \A y \in Callers : y # x => at'[y] = at[y] /\ inbox'[y] = inbox[y] /\ request'[y] = request[y]
  BY <1>0, <1>1 DEF Inv, Shapes
<1>3. /\ serving' \in [Nodes -> Connections \cup {NoConnection}]
      /\ backlog' \in [Nodes -> Seq(Connections)]
      /\ \A n \in Nodes :
           /\ serving'[n].who = serving[n].who /\ serving'[n].sent = serving[n].sent
           /\ serving'[n].gone <=> serving[n].gone \/ (n = Dest[x] /\ serving[n].who = x)
           /\ serving'[n] = NoConnection <=> serving[n] = NoConnection
           /\ DOMAIN backlog'[n] = DOMAIN backlog[n]
      /\ \A n \in Nodes : \A i \in DOMAIN backlog[n] :
           /\ backlog'[n][i].who = backlog[n][i].who
           /\ backlog'[n][i].gone <=> backlog[n][i].gone \/ (n = Dest[x] /\ backlog[n][i].who = x)
  BY <1>0, <1>1, DisconnectEffect DEF Inv
<1>4. Shapes'
  BY <1>1, <1>3 DEF Inv, Shapes
<1>5. Sensible'
  <2>1. \A n \in Nodes : (pc'[n] = "forward") <=> (at'[n] # "idle")
    BY <1>0, <1>1, <1>2, Constants DEF Inv, Sensible
  <2>2. \A n \in Nodes : (serving'[n] = NoConnection) <=> (pc'[n] \in {"accept", "down"})
    BY <1>1, <1>3 DEF Inv, Sensible
  <2>3. \A n \in Nodes : /\ status'[n] <= clock' /\ (reply'[n].kind = "status" => reply'[n].time <= clock')
                         /\ pc'[n] = "respond" => reply'[n] \notin {Nothing, Echo}
    BY <1>1 DEF Inv, Sensible
  <2>4. \A y \in Callers : /\ at'[y] # "idle" => Dest[y] \in Nodes /\ request'[y] # Nothing
                           /\ inbox'[y].kind = "status" => inbox'[y].time <= clock'
                           /\ at'[y] \in {"idle", "connect"} => inbox'[y] = Nothing
    BY <1>1, <1>2, Kinds DEF Inv, Sensible
  <2> QED BY <2>1, <2>2, <2>3, <2>4 DEF Sensible
<1>6. ASSUME NEW n \in Nodes, ~serving'[n].gone
      PROVE  /\ ~serving[n].gone /\ serving[n].who # x /\ serving[n].who \in Callers
             /\ InStep(n, serving[n].who)
  <2>1. ~serving[n].gone /\ InStep(n, serving[n].who)
    BY <1>3, <1>6 DEF Inv, Wired
  <2> QED BY <1>3, <1>6, <2>1, Types DEF InStep
<1>7. ASSUME NEW n \in Nodes, NEW i \in Live(n)'
      PROVE  /\ i \in Live(n) /\ backlog[n][i].who # x /\ backlog[n][i].who \in Callers
             /\ backlog'[n][i].who = backlog[n][i].who /\ Waiting(n, backlog[n][i].who)
  <2>1. i \in Live(n) /\ backlog'[n][i].who = backlog[n][i].who /\ ~backlog'[n][i].gone
    BY <1>3, <1>7 DEF Live
  <2>2. Waiting(n, backlog[n][i].who) /\ backlog[n][i].who \in Callers
    BY <2>1, Types DEF Inv, Wired
  <2> QED BY <1>3, <2>1, <2>2 DEF Waiting, Live
<1>8. Wired'
  <2>1. ASSUME NEW n \in Nodes, ~serving'[n].gone PROVE InStep(n, serving[n].who)'
    <3>1. PICK w : w = serving[n].who
      OBVIOUS
    <3>2. /\ w # x /\ w \in Callers /\ InStep(n, w) /\ serving'[n].who = w
          /\ serving'[n].sent = serving[n].sent
      BY <1>3, <1>6, <2>1, <3>1
    <3> QED BY <1>0, <1>1, <1>2, <3>2, Constants DEF InStep
  <2>2. ASSUME NEW n \in Nodes, NEW i \in Live(n)' PROVE Waiting(n, backlog[n][i].who)'
    BY <1>2, <1>7 DEF Waiting
  <2>3. ASSUME NEW n \in Nodes, NEW i \in Live(n)', NEW j \in Live(n)',
               backlog'[n][i].who = backlog'[n][j].who
        PROVE  i = j
    BY <1>7, <2>3 DEF Inv, Wired
  <2>4. \A n \in Nodes : serving'[n].sent # Tag
    BY <1>3 DEF Inv, Wired
  <2> QED BY <2>1, <2>2, <2>3, <2>4 DEF Wired
<1>9. Calm
  <2>1. \A y \in Callers : Asks(y)' => Asks(y) /\ request'[y] = request[y]
    BY <1>2 DEF Asks
  <2>2. \A n \in Nodes : Reads(n)' => Reads(n) /\ serving'[n].sent = serving[n].sent
    BY <1>1, <1>3 DEF Reads
  <2>3. \A y \in Callers : request'[y] = request[y] \/ request'[y] = Nothing
    BY <1>2
  <2> QED BY <1>1, <2>1, <2>2, <2>3 DEF Calm
<1>10. Single' /\ Pending' \subseteq Pending
  BY <1>9, CalmSingle DEF Inv
<1>11. Backed'
  <2>1. ASSUME NEW n \in Nodes, pc'[n] = "respond", ~serving'[n].gone
        PROVE  Earned(serving[n].who, reply[n])'
    <3>1. /\ ~serving[n].gone /\ serving'[n].who = serving[n].who
          /\ request'[serving[n].who] = request[serving[n].who]
      BY <1>2, <1>3, <1>6, <2>1
    <3> QED BY <1>1, <2>1, <3>1 DEF Inv, Backed, Earned
  <2>2. ASSUME NEW y \in Callers, at'[y] = "answer" PROVE Earned(y, inbox[y])'
    BY <1>1, <1>2, <2>2 DEF Inv, Backed, Earned
  <2>3. ASSUME NEW c \in Clients, at'[c] = "idle" PROVE Earned(c, result[c])'
    BY <1>1, <1>2, <2>3, Constants, Kinds DEF Inv, Backed, Earned
  <2> QED BY <2>1, <2>2, <2>3 DEF Backed
<1>12. Faultless'
  <2> SUFFICES ASSUME faults = 0 PROVE Faultless'
    BY <1>1 DEF Faultless
  <2>1. ASSUME NEW y \in Callers, at'[y] \in {"echo", "answer"} PROVE Connected(y)'
    <3>1. y # x /\ Connected(y)
      BY <1>2, <2>1 DEF Inv, Faultless
    <3> DEFINE d == Dest[y]
    <3>2. CASE IsOf(serving[d], y)
      BY <1>3, <3>1, <3>2 DEF Connected, IsOf
    <3>3. ASSUME NEW i \in DOMAIN backlog[d], IsOf(backlog[d][i], y) PROVE Connected(y)'
      BY <1>3, <3>1, <3>3 DEF Connected, IsOf
    <3> QED BY <3>1, <3>2, <3>3 DEF Connected
  <2>2. ASSUME NEW n \in Nodes, pc'[n] = "respond", ~serving'[n].gone
        PROVE  Over(serving[n].who, reply[n])'
    <3>1. /\ ~serving[n].gone /\ serving'[n].who = serving[n].who
          /\ request'[serving[n].who] = request[serving[n].who]
      BY <1>2, <1>3, <1>6, <2>2
    <3>2. Over(serving[n].who, reply[n])
      BY <1>1, <2>2, <3>1 DEF Inv, Faultless
    <3> QED BY <1>1, <1>10, <3>1, <3>2 DEF Over
  <2>3. ASSUME NEW n \in Nodes, pc'[n] = "eof", ~serving'[n].gone
        PROVE  Over(serving[n].who, inbox[serving[n].who])'
    <3>1. /\ ~serving[n].gone /\ serving'[n].who = serving[n].who
          /\ request'[serving[n].who] = request[serving[n].who]
          /\ inbox'[serving[n].who] = inbox[serving[n].who]
      BY <1>2, <1>3, <1>6, <2>3
    <3>2. Over(serving[n].who, inbox[serving[n].who])
      BY <1>1, <2>3, <3>1 DEF Inv, Faultless
    <3> QED BY <1>1, <1>10, <3>1, <3>2 DEF Over
  <2>4. ASSUME NEW c \in Clients, at'[c] = "idle" PROVE Over(c, result[c])'
    <3>1. CASE c = x
      BY <1>2, <3>1, Kinds DEF Over
    <3>2. CASE c # x
      <4>1. Over(c, result[c]) /\ request'[c] = request[c]
        BY <1>2, <2>4, <3>2, Constants DEF Inv, Faultless
      <4> QED BY <1>1, <1>10, <4>1 DEF Over
    <3> QED BY <3>1, <3>2
  <2> QED BY <1>1, <2>1, <2>2, <2>3, <2>4 DEF Inv, Faultless
<1> QED BY <1>4, <1>5, <1>8, <1>10, <1>11, <1>12 DEF Inv

-----------------------------------------------------------------------------
\* A step of one node that no caller notices.  It may schedule the calls S it reads.
Unnoticed(n, S) ==
    /\ UNCHANGED <<clock, at, request, inbox, result, calls>> /\ faults' \in {faults, faults + 1}
    /\ scheduled' = scheduled \cup S
    /\ S # {} => Reads(n) /\ ~Reads(n)' /\ S = {serving[n].sent.id}
    /\ pc' \in [Nodes -> {"accept", "msg", "forward", "respond", "eof", "down"}]
    /\ should_quit' \in [Nodes -> BOOLEAN] /\ status' \in [Nodes -> Nat]
    /\ serving' \in [Nodes -> Connections \cup {NoConnection}]
    /\ backlog' \in [Nodes -> Seq(Connections)] /\ reply' \in [Nodes -> Answers \cup {Nothing}]
    /\ \A m \in Nodes : m # n => /\ pc'[m] = pc[m] /\ should_quit'[m] = should_quit[m]
                                /\ serving'[m] = serving[m] /\ backlog'[m] = backlog[m]
                                /\ reply'[m] = reply[m]
    /\ \A m \in Nodes : status'[m] <= clock
    /\ backlog'[n] = backlog[n] \/ (faults' # 0 /\ backlog'[n] = <<>>)
    /\ serving'[n] = serving[n] \/ (serving[n].gone /\ serving'[n] = NoConnection)
    /\ (serving'[n] = NoConnection) <=> (pc'[n] \in {"accept", "down"})
    /\ pc[n] # "forward" /\ pc'[n] # "forward"
    /\ pc'[n] # "eof"
    /\ reply'[n].kind = "status" => reply'[n].time <= clock
    /\ pc'[n] = "respond" => reply'[n] \notin {Nothing, Echo}
    /\ ~serving'[n].gone => InStep(n, serving[n].who)'
    /\ Reads(n)' => Reads(n)
    /\ pc'[n] = "respond" /\ ~serving'[n].gone => Earned(serving[n].who, reply[n])'
    /\ faults' = 0 /\ pc'[n] = "respond" /\ ~serving'[n].gone => Over(serving[n].who, reply[n])'
    /\ faults' = 0 => pc'[n] # "down" /\ ~should_quit'[n]

LEMMA NodeStep == ASSUME Inv, NEW n \in Nodes, NEW S, Unnoticed(n, S) PROVE Inv'
<1> USE DEF Unnoticed
<1>1. calls \in Nat /\ faults \in Nat /\ clock \in Nat
  BY Types
<1>2. Shapes'
  BY <1>1 DEF Inv, Shapes
<1>3. Sensible'
  <2>1. \A m \in Nodes : (pc'[m] = "forward") <=> (at'[m] # "idle")
    BY DEF Inv, Sensible
  <2>2. ASSUME NEW m \in Nodes
        PROVE  (serving'[m] = NoConnection) <=> (pc'[m] \in {"accept", "down"})
    <3>1. (serving[m] = NoConnection) <=> (pc[m] \in {"accept", "down"})
      BY DEF Inv, Sensible
    <3>2. CASE m = n
      BY <3>2, Zenon
    <3>3. CASE m # n
      BY <3>1, <3>3
    <3> QED BY <3>2, <3>3
  <2>3. \A m \in Nodes : /\ status'[m] <= clock' /\ (reply'[m].kind = "status" => reply'[m].time <= clock')
                         /\ pc'[m] = "respond" => reply'[m] \notin {Nothing, Echo}
    BY DEF Inv, Sensible
  <2> QED BY <2>1, <2>2, <2>3 DEF Inv, Sensible
<1>4. \A m \in Nodes : backlog'[m] = backlog[m] \/ (faults' # 0 /\ backlog'[m] = <<>>)
  OBVIOUS
<1>5. Wired'
  <2>1. ASSUME NEW m \in Nodes, m # n, ~serving'[m].gone PROVE InStep(m, serving[m].who)'
    <3>1. /\ InStep(m, serving[m].who) /\ serving'[m] = serving[m] /\ pc'[m] = pc[m]
          /\ at' = at /\ inbox' = inbox /\ request' = request
      BY <2>1 DEF Inv, Wired
    <3> HIDE DEF Unnoticed
    <3> QED BY <3>1 DEF InStep
  <2>2. ASSUME NEW m \in Nodes
        PROVE  /\ \A i \in Live(m)' : Waiting(m, backlog[m][i].who)'
               /\ \A i, j \in Live(m)' : backlog'[m][i].who = backlog'[m][j].who => i = j
    <3>1. CASE backlog'[m] = backlog[m]
      BY <3>1 DEF Inv, Wired, Waiting, Live
    <3>2. CASE backlog'[m] = <<>>
      BY <3>2 DEF Live
    <3> QED BY <1>4, <3>1, <3>2
  <2>3. ASSUME NEW m \in Nodes PROVE serving'[m].sent # Tag
    <3>1. serving[m].sent # Tag /\ NoConnection.sent # Tag
      BY Kinds, MessageKinds DEF Inv, Wired
    <3>2. serving'[m] = serving[m] \/ serving'[m] = NoConnection
      OBVIOUS
    <3> QED BY <3>1, <3>2
  <2> QED BY <2>1, <2>2, <2>3 DEF Wired
<1>6. /\ \A x \in Callers : (Asks(x)' <=> Asks(x)) /\ request'[x] = request[x]
      /\ \A m \in Nodes : Reads(m)' => Reads(m) /\ serving'[m].sent = serving[m].sent
  <2>1. \A m \in Nodes : m # n => (Reads(m)' <=> Reads(m)) /\ serving'[m].sent = serving[m].sent
    BY DEF Reads
  <2>2. Reads(n)' => serving'[n].sent = serving[n].sent
    BY Kinds DEF Reads
  <2>3. \A x \in Callers : Asks(x)' <=> Asks(x)
    BY DEF Asks
  <2> QED BY <2>1, <2>2, <2>3
<1>7. Pending' \subseteq Pending
  <2> SUFFICES ASSUME NEW i \in Pending' PROVE i \in Pending
    OBVIOUS
  <2>1. CASE \E x \in Callers : Asks(x)' /\ i = request'[x].id
    BY <1>6, <2>1 DEF Pending
  <2>2. CASE \E m \in Nodes : Reads(m)' /\ i = serving'[m].sent.id
    <3>1. PICK m \in Nodes : Reads(m)' /\ i = serving'[m].sent.id
      BY <2>2
    <3>2. Reads(m) /\ i = serving[m].sent.id
      BY <1>6, <3>1
    <3> QED BY <3>2 DEF Pending
  <2> QED BY <2>1, <2>2 DEF Pending
<1>8. S # {} => S \cap Pending' = {} /\ S \subseteq Pending
  <2> SUFFICES ASSUME S # {} PROVE S \cap Pending' = {} /\ S \subseteq Pending
    OBVIOUS
  <2>1. Reads(n) /\ ~Reads(n)' /\ S = {serving[n].sent.id}
    OBVIOUS
  <2>2. serving[n].sent.id \in Pending
    BY <2>1 DEF Pending
  <2>3. \A x \in Callers : Asks(x)' => request'[x].id # serving[n].sent.id
    BY <1>6, <2>1 DEF Inv, Single
  <2>4. ASSUME NEW m \in Nodes, Reads(m)' PROVE serving'[m].sent.id # serving[n].sent.id
    <3>1. Reads(m) /\ serving'[m].sent = serving[m].sent /\ m # n
      BY <1>6, <2>1, <2>4
    <3>2. serving[m].sent.id # serving[n].sent.id
      BY <2>1, <3>1 DEF Inv, Single
    <3> QED BY <3>1, <3>2
  <2>5. serving[n].sent.id \notin Pending'
    BY <2>3, <2>4 DEF Pending
  <2> QED BY <2>1, <2>2, <2>5
<1>9. Single'
  <2>1. \A i \in scheduled' \cup Pending' : i \in Nat /\ i < calls'
    BY <1>7, <1>8 DEF Inv, Single
  <2>2. Pending' \cap scheduled' = {}
    BY <1>7, <1>8 DEF Inv, Single
  <2>3. \A x, y \in Callers : Asks(x)' /\ Asks(y)' /\ request'[x].id = request'[y].id => x = y
    BY <1>6 DEF Inv, Single
  <2>4. \A k, m \in Nodes : Reads(k)' /\ Reads(m)' /\ serving'[k].sent.id = serving'[m].sent.id => k = m
    <3>1. \A k, m \in Nodes : Reads(k) /\ Reads(m) /\ serving[k].sent.id = serving[m].sent.id => k = m
      BY DEF Inv, Single
    <3> QED BY <1>6, <3>1
  <2>5. \A x \in Callers, m \in Nodes : Asks(x)' /\ Reads(m)' => request'[x].id # serving'[m].sent.id
    <3>1. \A x \in Callers, m \in Nodes : Asks(x) /\ Reads(m) => request[x].id # serving[m].sent.id
      BY DEF Inv, Single
    <3> SUFFICES ASSUME NEW x \in Callers, NEW m \in Nodes, Asks(x)', Reads(m)'
                 PROVE  request'[x].id # serving'[m].sent.id
      OBVIOUS
    <3>2. Asks(x) /\ Reads(m) /\ request'[x] = request[x] /\ serving'[m].sent = serving[m].sent
      BY <1>6
    <3> QED BY <3>1, <3>2
  <2>6. \A x \in Callers : request'[x].kind = "schedule" => request'[x].id < calls'
    BY DEF Inv, Single
  <2> QED BY <2>1, <2>2, <2>3, <2>4, <2>5, <2>6 DEF Single
<1>10. Backed'
  <2>1. \A m \in Nodes : m # n /\ pc'[m] = "respond" /\ ~serving'[m].gone => Earned(serving[m].who, reply[m])'
    BY DEF Inv, Backed, Earned
  <2>2. \A x \in Callers : at'[x] = "answer" => Earned(x, inbox[x])'
    BY DEF Inv, Backed, Earned
  <2>3. \A c \in Clients : at'[c] = "idle" => Earned(c, result[c])'
    BY DEF Inv, Backed, Earned
  <2> QED BY <2>1, <2>2, <2>3 DEF Backed
<1>11. ASSUME NEW x, NEW a, Over(x, a)
       PROVE  request'[x].kind = "schedule" =>
                request'[x].id \notin Pending' /\ (a # Response(1) => request'[x].id \notin scheduled')
  BY <1>7, <1>8, <1>11 DEF Over
<1>12. Faultless'
  <2> SUFFICES ASSUME faults' = 0 PROVE Faultless'
    BY DEF Faultless
  <2>0. faults = 0
    BY <1>1
  <2>1. ASSUME NEW y \in Callers, at'[y] \in {"echo", "answer"} PROVE Connected(y)'
    <3>1. Connected(y)
      BY <2>0, <2>1 DEF Inv, Faultless
    <3>2. \A m \in Nodes : /\ backlog'[m] = backlog[m]
                           /\ serving'[m] = serving[m] \/ serving[m].gone
      BY <1>4
    <3> QED BY <3>1, <3>2 DEF Connected, IsOf
  <2>2. ASSUME NEW m \in Nodes, m # n, pc'[m] = "respond", ~serving'[m].gone
        PROVE  Over(serving[m].who, reply[m])'
    <3>1. Over(serving[m].who, reply[m])
      BY <2>0, <2>2 DEF Inv, Faultless
    <3> QED BY <1>11, <2>2, <3>1 DEF Over
  <2>3. ASSUME NEW m \in Nodes, pc'[m] = "eof", ~serving'[m].gone
        PROVE  Over(serving[m].who, inbox[serving[m].who])'
    <3>1. m # n /\ Over(serving[m].who, inbox[serving[m].who])
      BY <2>0, <2>3 DEF Inv, Faultless
    <3> QED BY <1>11, <2>3, <3>1 DEF Over
  <2>4. ASSUME NEW c \in Clients, at'[c] = "idle" PROVE Over(c, result[c])'
    <3>1. Over(c, result[c])
      BY <2>0, <2>4 DEF Inv, Faultless
    <3> QED BY <1>11, <2>4, <3>1 DEF Over
  <2>5. \A m \in Nodes : pc'[m] # "down" /\ ~should_quit'[m]
    BY <2>0 DEF Inv, Faultless
  <2> QED BY <2>1, <2>2, <2>3, <2>4, <2>5 DEF Faultless
<1> QED BY <1>2, <1>3, <1>5, <1>9, <1>10, <1>12 DEF Inv

\* The connection at hand is given up, or the node is notified, ends or starts again.
LEMMA ClosedInv == ASSUME Inv, NEW n \in Nodes, Closed(n) PROVE Inv'
<1>1. /\ UNCHANGED <<clock, at, request, inbox, result, calls>> /\ faults' = faults
      /\ UNCHANGED <<should_quit, status, backlog, reply, scheduled>>
      /\ serving[n].gone /\ pc[n] \in {"eof", "msg"}
      /\ serving' = [serving EXCEPT ![n] = NoConnection] /\ pc' = [pc EXCEPT ![n] = "accept"]
  BY DEF Closed, callerVars, bounds
<1>2. /\ serving'[n] = NoConnection /\ pc'[n] = "accept" /\ serving'[n].gone
      /\ \A m \in Nodes : m # n => pc'[m] = pc[m] /\ serving'[m] = serving[m]
  BY <1>1, Kinds DEF Inv, Shapes
<1>3. /\ pc' \in [Nodes -> {"accept", "msg", "forward", "respond", "eof", "down"}]
      /\ should_quit' \in [Nodes -> BOOLEAN] /\ status' \in [Nodes -> Nat]
      /\ serving' \in [Nodes -> Connections \cup {NoConnection}]
      /\ backlog' \in [Nodes -> Seq(Connections)] /\ reply' \in [Nodes -> Answers \cup {Nothing}]
  BY <1>1 DEF Inv, Shapes
<1>4. /\ \A m \in Nodes : status'[m] <= clock
      /\ reply'[n].kind = "status" => reply'[n].time <= clock
      /\ faults' = 0 => ~should_quit'[n]
  BY <1>1 DEF Inv, Sensible, Faultless
<1>5. ~Reads(n)' /\ scheduled' = scheduled \cup {}
  BY <1>1, <1>2 DEF Reads
<1>6. Unnoticed(n, {})
  BY <1>1, <1>2, <1>3, <1>4, <1>5 DEF Unnoticed
<1> QED BY <1>6, NodeStep

LEMMA QuitInv == ASSUME Inv, NEW n \in Nodes, Quit(n) PROVE Inv'
<1>1. /\ UNCHANGED <<clock, at, request, inbox, result, calls>> /\ faults' = faults
      /\ UNCHANGED <<serving, backlog, reply, scheduled>>
      /\ pc[n] = "accept" /\ should_quit[n] /\ pc' = [pc EXCEPT ![n] = "down"]
      /\ should_quit' = [should_quit EXCEPT ![n] = FALSE] /\ status' = [status EXCEPT ![n] = 0]
  BY DEF Quit, callerVars, bounds
<1>2. faults' # 0
  BY <1>1 DEF Inv, Faultless
<1>3. serving[n] = NoConnection /\ serving[n].gone /\ serving'[n].gone
  BY <1>1, Kinds DEF Inv, Sensible
<1>4. /\ pc' \in [Nodes -> {"accept", "msg", "forward", "respond", "eof", "down"}]
      /\ should_quit' \in [Nodes -> BOOLEAN] /\ status' \in [Nodes -> Nat]
      /\ serving' \in [Nodes -> Connections \cup {NoConnection}]
      /\ backlog' \in [Nodes -> Seq(Connections)] /\ reply' \in [Nodes -> Answers \cup {Nothing}]
  BY <1>1 DEF Inv, Shapes
<1>5. /\ pc'[n] = "down"
      /\ \A m \in Nodes : m # n => pc'[m] = pc[m] /\ should_quit'[m] = should_quit[m]
  BY <1>1 DEF Inv, Shapes
<1>6. /\ \A m \in Nodes : status'[m] <= clock
      /\ reply'[n].kind = "status" => reply'[n].time <= clock
  BY <1>1 DEF Inv, Shapes, Sensible
<1>7. ~Reads(n)' /\ scheduled' = scheduled \cup {}
  BY <1>1, <1>5 DEF Reads
<1>8. Unnoticed(n, {})
  BY <1>1, <1>2, <1>3, <1>4, <1>5, <1>6, <1>7 DEF Unnoticed
<1> QED BY <1>8, NodeStep

LEMMA NotifyInv == ASSUME Inv, NEW n \in Nodes, Notify(n) PROVE Inv'
<1>1. /\ UNCHANGED <<clock, at, request, inbox, result, calls>> /\ faults' = faults + 1
      /\ UNCHANGED <<pc, serving, reply, status, scheduled>>
      /\ should_quit' = [should_quit EXCEPT ![n] = TRUE] /\ backlog' = [backlog EXCEPT ![n] = <<>>]
  BY DEF Notify, callerVars
<1>2. faults' # 0
  BY <1>1, Types
<1>3. Shapes'
  BY <1>1 DEF Inv, Shapes
<1>4. Sensible'
  BY <1>1 DEF Inv, Sensible
<1>5. Wired'
  <2>1. ASSUME NEW m \in Nodes
        PROVE  /\ \A i \in Live(m)' : Waiting(m, backlog[m][i].who)'
               /\ \A i, j \in Live(m)' : backlog'[m][i].who = backlog'[m][j].who => i = j
    <3>1. CASE m # n
      <4>1. backlog'[m] = backlog[m]
        BY <1>1, <3>1 DEF Inv, Shapes
      <4> QED BY <1>1, <4>1 DEF Inv, Wired, Waiting, Live
    <3>2. CASE m = n
      <4>1. backlog'[m] = <<>>
        BY <1>1, <3>2 DEF Inv, Shapes
      <4> QED BY <4>1 DEF Live
    <3> QED BY <3>1, <3>2
  <2>2. \A m \in Nodes : (~serving'[m].gone => InStep(m, serving[m].who)') /\ serving'[m].sent # Tag
    BY <1>1 DEF Inv, Wired, InStep
  <2> QED BY <2>1, <2>2 DEF Wired
<1>6. Single'
  BY <1>1 DEF Inv, Single, Asks, Reads, Pending
<1>7. Backed'
  BY <1>1 DEF Inv, Backed, Earned
<1>8. Faultless'
  BY <1>2 DEF Faultless
<1> QED BY <1>3, <1>4, <1>5, <1>6, <1>7, <1>8 DEF Inv

LEMMA RestartInv == ASSUME Inv, NEW n \in Nodes, Restart(n) PROVE Inv'
<1>1. /\ UNCHANGED <<clock, at, request, inbox, result, calls>> /\ faults' = faults
      /\ UNCHANGED <<serving, backlog, should_quit, reply, status, scheduled>>
      /\ pc[n] = "down" /\ pc' = [pc EXCEPT ![n] = "accept"]
  BY DEF Restart, callerVars, bounds
<1>2. serving[n] = NoConnection /\ serving[n].gone /\ serving'[n].gone
  BY <1>1, Kinds DEF Inv, Sensible
<1>3. /\ pc' \in [Nodes -> {"accept", "msg", "forward", "respond", "eof", "down"}]
      /\ should_quit' \in [Nodes -> BOOLEAN] /\ status' \in [Nodes -> Nat]
      /\ serving' \in [Nodes -> Connections \cup {NoConnection}]
      /\ backlog' \in [Nodes -> Seq(Connections)] /\ reply' \in [Nodes -> Answers \cup {Nothing}]
  BY <1>1 DEF Inv, Shapes
<1>4. pc'[n] = "accept" /\ \A m \in Nodes : m # n => pc'[m] = pc[m]
  BY <1>1 DEF Inv, Shapes
<1>5. /\ \A m \in Nodes : status'[m] <= clock
      /\ reply'[n].kind = "status" => reply'[n].time <= clock
      /\ faults' = 0 => ~should_quit'[n]
  BY <1>1 DEF Inv, Sensible, Faultless
<1>6. ~Reads(n)' /\ scheduled' = scheduled \cup {}
  BY <1>1, <1>4 DEF Reads
<1>7. Unnoticed(n, {})
  BY <1>1, <1>2, <1>3, <1>4, <1>5, <1>6 DEF Unnoticed
<1> QED BY <1>7, NodeStep

\* A node answers the message it has read: with Response(1) for a window that S,
\* the calls it takes, says.
LEMMA HandledInv ==
    ASSUME Inv, NEW n \in Nodes, NEW S, NEW a \in Answers, Handles(n, serving[n].sent),
           UNCHANGED <<clock, at, request, inbox, result, calls, faults, should_quit, serving, backlog>>,
           pc' = [pc EXCEPT ![n] = "respond"], reply' = [reply EXCEPT ![n] = a],
           scheduled' = scheduled \cup S, status' \in [Nodes -> Nat],
           \A m \in Nodes : status'[m] <= clock, a.kind = "status" => a.time <= clock, a # Echo,
           S # {} => serving[n].sent.kind = "schedule" /\ S = {serving[n].sent.id},
           serving[n].sent.kind = "schedule" => (a = Response(1) <=> S # {})
    PROVE  Inv'
<1>1. pc[n] = "msg" /\ serving[n].sent # Nothing
  BY DEF Handles
<1>2. /\ pc'[n] = "respond" /\ reply'[n] = a /\ a \notin {Nothing, Echo}
      /\ \A m \in Nodes : m # n => pc'[m] = pc[m] /\ reply'[m] = reply[m]
  BY MessageKinds DEF Inv, Shapes
<1>3. /\ pc' \in [Nodes -> {"accept", "msg", "forward", "respond", "eof", "down"}]
      /\ should_quit' \in [Nodes -> BOOLEAN]
      /\ serving' \in [Nodes -> Connections \cup {NoConnection}]
      /\ backlog' \in [Nodes -> Seq(Connections)] /\ reply' \in [Nodes -> Answers \cup {Nothing}]
  BY DEF Inv, Shapes
<1>4. ~Reads(n)' /\ (Reads(n) <=> serving[n].sent.kind = "schedule")
  BY <1>1, <1>2 DEF Reads
<1>5. serving'[n] # NoConnection
  BY <1>1 DEF Inv, Sensible
<1>6. faults' = 0 => ~should_quit'[n]
  BY DEF Inv, Faultless
<1>7. ASSUME ~serving[n].gone
      PROVE  /\ serving[n].who \in Callers /\ InStep(n, serving[n].who)
             /\ request[serving[n].who] = serving[n].sent
             /\ at[serving[n].who] = "answer" /\ inbox[serving[n].who] = Nothing
  BY <1>1, <1>7, Types DEF Inv, Wired, InStep
<1>8. ~serving'[n].gone => InStep(n, serving[n].who)'
  <2> SUFFICES ASSUME ~serving[n].gone PROVE InStep(n, serving[n].who)'
    OBVIOUS
  <2> QED BY <1>2, <1>7 DEF InStep
<1>9. ~serving'[n].gone => Earned(serving[n].who, reply[n])'
  BY <1>2, <1>7 DEF Earned
<1>10. serving[n].sent.kind = "schedule" => serving[n].sent.id \notin Pending' /\ serving[n].sent.id \notin scheduled
  <2> SUFFICES ASSUME Reads(n)
               PROVE  serving[n].sent.id \notin Pending' /\ serving[n].sent.id \notin scheduled
    BY <1>4
  <2>1. serving[n].sent.id \in Pending
    BY DEF Pending
  <2>2. serving[n].sent.id \notin scheduled
    BY <2>1 DEF Inv, Single
  <2>3. ASSUME NEW m \in Nodes, Reads(m)' PROVE serving'[m].sent.id # serving[n].sent.id
    <3>1. m # n /\ Reads(m)
      BY <1>2, <1>4, <2>3 DEF Reads
    <3> QED BY <3>1 DEF Inv, Single
  <2>4. ASSUME NEW x \in Callers, Asks(x)' PROVE request'[x].id # serving[n].sent.id
    <3>1. Asks(x)
      BY <2>4 DEF Asks
    <3> QED BY <3>1 DEF Inv, Single
  <2> QED BY <2>2, <2>3, <2>4 DEF Pending
<1>11. ~serving'[n].gone => Over(serving[n].who, reply[n])'
  <2> SUFFICES ASSUME ~serving[n].gone PROVE Over(serving[n].who, reply[n])'
    OBVIOUS
  <2>1. /\ request'[serving'[n].who] = serving[n].sent /\ reply'[n] = a
        /\ serving[n].sent.kind = "schedule" /\ a # Response(1) => scheduled' = scheduled
    BY <1>2, <1>7
  <2> QED BY <1>10, <2>1 DEF Over
<1>12. /\ backlog'[n] = backlog[n] /\ serving'[n] = serving[n]
       /\ \A m \in Nodes : should_quit'[m] = should_quit[m] /\ serving'[m] = serving[m] /\ backlog'[m] = backlog[m]
  OBVIOUS
<1>13. Unnoticed(n, S)
  BY <1>1, <1>2, <1>3, <1>4, <1>5, <1>6, <1>8, <1>9, <1>11, <1>12 DEF Unnoticed
<1> QED BY <1>13, NodeStep

LEMMA UnknownInv == ASSUME Inv, NEW n \in Nodes, HandleUnknown(n) PROVE Inv'
<1>1. /\ UNCHANGED <<clock, at, request, inbox, result, calls, faults, should_quit, serving, backlog>>
      /\ pc' = [pc EXCEPT ![n] = "respond"] /\ reply' = [reply EXCEPT ![n] = Failed]
      /\ scheduled' = scheduled \cup {} /\ status' = status /\ Handles(n, serving[n].sent)
  BY DEF HandleUnknown, callerVars, bounds
<1>2. /\ status' \in [Nodes -> Nat] /\ \A m \in Nodes : status'[m] <= clock
      /\ Failed \in Answers /\ Failed.kind # "status" /\ Failed # Response(1) /\ Failed # Echo
  BY <1>1, Kinds, MessageKinds DEF Inv, Shapes, Sensible
<1> QED BY <1>1, <1>2, HandledInv

LEMMA HereInv == ASSUME Inv, NEW n \in Nodes, HandleHere(n, serving[n].sent) PROVE Inv'
<1>1. /\ UNCHANGED <<clock, at, request, inbox, result, calls, faults, should_quit, serving, backlog>>
      /\ pc' = [pc EXCEPT ![n] = "respond"] /\ Handles(n, serving[n].sent)
  BY DEF HandleHere, callerVars, bounds
<1>2. clock \in Nat /\ status \in [Nodes -> Nat] /\ \A m \in Nodes : status[m] <= clock
  BY DEF Inv, Shapes, Sensible
<1>3. CASE serving[n].sent.kind = "schedule" /\ serving[n].sent.when >= clock
  <2>1. /\ scheduled' = scheduled \cup {serving[n].sent.id} /\ status' = status
        /\ reply' = [reply EXCEPT ![n] = Response(1)]
    BY <1>3 DEF HandleHere
  <2>2. Response(1) \in Answers /\ Response(1).kind # "status" /\ Response(1) # Echo
    BY Kinds, MessageKinds
  <2> QED BY <1>1, <1>2, <1>3, <2>1, <2>2, HandledInv
<1>4. CASE serving[n].sent.kind = "schedule" /\ ~(serving[n].sent.when >= clock)
  <2>1. /\ scheduled' = scheduled \cup {} /\ status' = status
        /\ reply' = [reply EXCEPT ![n] = Response(0)]
    BY <1>4 DEF HandleHere
  <2>2. Response(0) \in Answers /\ Response(0).kind # "status" /\ Response(0) # Echo /\ Response(0) # Response(1)
    BY Kinds, MessageKinds
  <2> QED BY <1>1, <1>2, <2>1, <2>2, HandledInv
<1>5. CASE serving[n].sent.kind # "schedule"
  <2>1. /\ scheduled' = scheduled \cup {} /\ reply' = [reply EXCEPT ![n] = Status(status'[n])]
        /\ status' = IF Stale(n) THEN [status EXCEPT ![n] = clock] ELSE status
    BY <1>5 DEF HandleHere
  <2>2. status' \in [Nodes -> Nat] /\ \A m \in Nodes : status'[m] <= clock
    BY <1>2, <2>1
  <2>3. PICK a : a = Status(status'[n])
    OBVIOUS
  <2>4. a \in Answers /\ a.kind = "status" /\ a.time <= clock /\ a # Echo
    BY <2>2, <2>3, Kinds, MessageKinds
  <2> QED BY <1>1, <1>5, <2>1, <2>2, <2>3, <2>4, HandledInv
<1> QED BY <1>3, <1>4, <1>5

\* A node with a remote battery gives the status at hand, or calls on.
LEMMA ThereInv == ASSUME Inv, NEW n \in Nodes, HandleThere(n, serving[n].sent) PROVE Inv'
<1>1. /\ UNCHANGED <<clock, inbox, result, calls, faults, should_quit, serving, backlog, status, scheduled>>
      /\ Handles(n, serving[n].sent) /\ Link[n] # Local
  BY DEF HandleThere, bounds
<1>2. CASE serving[n].sent.kind = "get_status" /\ ~Stale(n)
  <2>1. /\ UNCHANGED <<at, request>> /\ pc' = [pc EXCEPT ![n] = "respond"]
        /\ reply' = [reply EXCEPT ![n] = Status(status[n])] /\ scheduled' = scheduled \cup {}
    BY <1>1, <1>2 DEF HandleThere
  <2>2. /\ status \in [Nodes -> Nat] /\ \A m \in Nodes : status[m] <= clock
    BY DEF Inv, Shapes, Sensible
  <2>3. PICK a : a = Status(status[n])
    OBVIOUS
  <2>4. a \in Answers /\ a.kind = "status" /\ a.time <= clock /\ a # Echo
    BY <2>2, <2>3, Kinds, MessageKinds
  <2> QED BY <1>1, <1>2, <2>1, <2>2, <2>3, <2>4, HandledInv
<1>3. CASE ~(serving[n].sent.kind = "get_status" /\ ~Stale(n))
  <2>1. PICK m : m = serving[n].sent
    OBVIOUS
  <2>2. /\ at' = [at EXCEPT ![n] = "connect"] /\ request' = [request EXCEPT ![n] = m]
        /\ pc' = [pc EXCEPT ![n] = "forward"] /\ reply' = reply
    BY <1>3, <2>1 DEF HandleThere
  <2>3. pc[n] = "msg" /\ m # Nothing /\ m # Tag /\ serving[n] # NoConnection /\ at[n] = "idle"
    BY <1>1, <2>1, Constants DEF Handles, Inv, Wired, Sensible, Shapes
  <2>4. m \in Messages /\ n \in Callers /\ n \notin Clients /\ Dest[n] \in Nodes
    BY <1>1, <2>1, <2>3, Types, ConnectionKinds, Constants
  <2>5. /\ pc'[n] = "forward" /\ at'[n] = "connect" /\ request'[n] = m
        /\ \A k \in Nodes : k # n => pc'[k] = pc[k]
        /\ \A x \in Callers : x # n => at'[x] = at[x] /\ request'[x] = request[x]
    BY <2>2, <2>4 DEF Inv, Shapes
  <2>6. Shapes'
    BY <1>1, <2>2, <2>4 DEF Inv, Shapes
  <2>7. Sensible'
    <3>1. \A k \in Nodes : (pc'[k] = "forward") <=> (at'[k] # "idle")
      BY <2>5, Constants DEF Inv, Sensible
    <3>2. ASSUME NEW k \in Nodes
          PROVE  (serving'[k] = NoConnection) <=> (pc'[k] \in {"accept", "down"})
      <4>1. (serving[k] = NoConnection) <=> (pc[k] \in {"accept", "down"})
        BY DEF Inv, Sensible
      <4>2. pc'[k] = pc[k] \/ (pc[k] = "msg" /\ pc'[k] = "forward")
        BY <2>3, <2>5
      <4> QED BY <1>1, <4>1, <4>2
    <3>3. \A k \in Nodes : /\ status'[k] <= clock' /\ (reply'[k].kind = "status" => reply'[k].time <= clock')
                           /\ pc'[k] = "respond" => reply'[k] \notin {Nothing, Echo}
      BY <1>1, <2>2, <2>5 DEF Inv, Sensible
    <3>4. \A x \in Callers : /\ at'[x] # "idle" => Dest[x] \in Nodes /\ request'[x] # Nothing
                             /\ inbox'[x].kind = "status" => inbox'[x].time <= clock'
                             /\ at'[x] \in {"idle", "connect"} => inbox'[x] = Nothing
      BY <1>1, <2>3, <2>4, <2>5 DEF Inv, Sensible
    <3> QED BY <3>1, <3>2, <3>3, <3>4 DEF Sensible
  <2>8. \A k \in Nodes : /\ ~serving[k].gone => /\ serving[k].who # n /\ serving[k].who \in Callers
                                                /\ InStep(k, serving[k].who)
                         /\ \A i \in Live(k) : backlog[k][i].who # n /\ backlog[k][i].who \in Callers
    BY <2>3, Types DEF Inv, Wired, InStep, Waiting
  <2>9. Wired'
    <3>1. ASSUME NEW k \in Nodes, ~serving'[k].gone PROVE InStep(k, serving[k].who)'
      <4>1. PICK w : w = serving[k].who
        OBVIOUS
      <4>2. /\ w # n /\ w \in Callers /\ InStep(k, w) /\ serving'[k] = serving[k] /\ serving'[k].who = w
            /\ at'[w] = at[w] /\ inbox'[w] = inbox[w] /\ request'[w] = request[w]
        BY <1>1, <2>5, <2>8, <3>1, <4>1
      <4>3. CASE k = n
        BY <2>1, <2>3, <2>5, <4>2, <4>3 DEF InStep
      <4>4. CASE k # n
        <5>1. pc'[k] = pc[k] /\ request'[k] = request[k]
          BY <2>5, <4>4, Constants
        <5> QED BY <4>2, <5>1 DEF InStep
      <4> QED BY <4>3, <4>4
    <3>2. \A k \in Nodes : Live(k)' = Live(k)
      BY <1>1 DEF Live
    <3>3. ASSUME NEW k \in Nodes, NEW i \in Live(k)' PROVE Waiting(k, backlog[k][i].who)'
      BY <1>1, <2>5, <2>8, <3>2 DEF Inv, Wired, Waiting
    <3> QED BY <1>1, <3>1, <3>2, <3>3 DEF Inv, Wired
  <2>10. /\ \A x \in Callers : x # n => (Asks(x)' <=> Asks(x)) /\ request'[x] = request[x]
         /\ \A k \in Nodes : k # n => (Reads(k)' <=> Reads(k)) /\ serving'[k].sent = serving[k].sent
         /\ ~Asks(n) /\ ~Reads(n)' /\ (Asks(n)' <=> Reads(n)) /\ request'[n].id = serving[n].sent.id
    BY <1>1, <2>1, <2>3, <2>5 DEF Asks, Reads
  <2>11. Pending' \subseteq Pending
    <3> SUFFICES ASSUME NEW i \in Pending' PROVE i \in Pending
      OBVIOUS
    <3>1. CASE \E x \in Callers : Asks(x)' /\ i = request'[x].id
      BY <2>10, <3>1 DEF Pending
    <3>2. CASE \E k \in Nodes : Reads(k)' /\ i = serving'[k].sent.id
      BY <2>10, <3>2 DEF Pending
    <3> QED BY <3>1, <3>2 DEF Pending
  <2>12. Single'
    <3>1. /\ \A x, y \in Callers : Asks(x) /\ Asks(y) /\ request[x].id = request[y].id => x = y
          /\ \A k, j \in Nodes : Reads(k) /\ Reads(j) /\ serving[k].sent.id = serving[j].sent.id => k = j
          /\ \A x \in Callers, k \in Nodes : Asks(x) /\ Reads(k) => request[x].id # serving[k].sent.id
      BY DEF Inv, Single
    <3>2. \A i \in scheduled' \cup Pending' : i \in Nat /\ i < calls'
      BY <1>1, <2>11 DEF Inv, Single
    <3>3. Pending' \cap scheduled' = {}
      BY <1>1, <2>11 DEF Inv, Single
    <3>4. ASSUME NEW x \in Callers, request'[x].kind = "schedule" PROVE request'[x].id < calls'
      <4>1. CASE x # n
        BY <1>1, <2>5, <3>4, <4>1 DEF Inv, Single
      <4>2. CASE x = n
        <5>1. Reads(n) /\ request'[x].id = serving[n].sent.id
          BY <2>1, <2>3, <2>5, <3>4, <4>2 DEF Reads
        <5>2. serving[n].sent.id \in Pending
          BY <5>1 DEF Pending
        <5> QED BY <1>1, <5>1, <5>2 DEF Inv, Single
      <4> QED BY <4>1, <4>2
    <3>5. \A x, y \in Callers : Asks(x)' /\ Asks(y)' /\ request'[x].id = request'[y].id => x = y
      BY <2>10, <3>1
    <3>6. \A k, j \in Nodes : Reads(k)' /\ Reads(j)' /\ serving'[k].sent.id = serving'[j].sent.id => k = j
      BY <2>10, <3>1
    <3>7. \A x \in Callers, k \in Nodes : Asks(x)' /\ Reads(k)' => request'[x].id # serving'[k].sent.id
      BY <2>10, <3>1
    <3> QED BY <3>2, <3>3, <3>4, <3>5, <3>6, <3>7 DEF Single
  <2>13. Backed'
    <3>1. ASSUME NEW k \in Nodes, pc'[k] = "respond", ~serving'[k].gone
          PROVE  Earned(serving[k].who, reply[k])'
      <4>1. pc[k] = "respond" /\ Earned(serving[k].who, reply[k]) /\ request'[serving[k].who] = request[serving[k].who]
        BY <1>1, <2>5, <2>8, <3>1 DEF Inv, Backed
      <4> QED BY <1>1, <2>2, <4>1 DEF Earned
    <3>2. ASSUME NEW x \in Callers, at'[x] = "answer" PROVE Earned(x, inbox[x])'
      BY <1>1, <2>5, <3>2 DEF Inv, Backed, Earned
    <3>3. ASSUME NEW c \in Clients, at'[c] = "idle" PROVE Earned(c, result[c])'
      BY <1>1, <2>4, <2>5, <3>3, Constants DEF Inv, Backed, Earned
    <3> QED BY <3>1, <3>2, <3>3 DEF Backed
  <2>14. Faultless'
    <3> SUFFICES ASSUME faults = 0 PROVE Faultless'
      BY <1>1 DEF Faultless
    <3>1. \A k \in Nodes : pc'[k] # "down" /\ ~should_quit'[k]
      BY <1>1, <2>5 DEF Inv, Faultless
    <3>2. \A x \in Callers : at'[x] \in {"echo", "answer"} => Connected(x)'
      BY <1>1, <2>5 DEF Inv, Faultless, Connected
    <3>3. ASSUME NEW k \in Nodes, pc'[k] = "respond", ~serving'[k].gone
          PROVE  Over(serving[k].who, reply[k])'
      <4>1. pc[k] = "respond" /\ Over(serving[k].who, reply[k]) /\ request'[serving[k].who] = request[serving[k].who]
        BY <1>1, <2>5, <2>8, <3>3 DEF Inv, Faultless
      <4> QED BY <1>1, <2>2, <2>11, <4>1 DEF Over
    <3>4. ASSUME NEW k \in Nodes, pc'[k] = "eof", ~serving'[k].gone
          PROVE  Over(serving[k].who, inbox[serving[k].who])'
      <4>1. /\ pc[k] = "eof" /\ Over(serving[k].who, inbox[serving[k].who])
            /\ request'[serving[k].who] = request[serving[k].who]
        BY <1>1, <2>5, <2>8, <3>4 DEF Inv, Faultless
      <4> QED BY <1>1, <2>2, <2>11, <4>1 DEF Over
    <3>5. ASSUME NEW c \in Clients, at'[c] = "idle" PROVE Over(c, result[c])'
      <4>1. Over(c, result[c]) /\ request'[c] = request[c]
        BY <2>4, <2>5, <3>5, Constants DEF Inv, Faultless
      <4> QED BY <1>1, <2>11, <4>1 DEF Over
    <3> QED BY <3>1, <3>2, <3>3, <3>4, <3>5 DEF Faultless
  <2> QED BY <2>6, <2>7, <2>9, <2>12, <2>13, <2>14 DEF Inv
<1> QED BY <1>2, <1>3

\* The answer goes out, if somebody still waits for it.
LEMMA RespondInv == ASSUME Inv, NEW n \in Nodes, Respond(n) PROVE Inv'
<1>1. /\ UNCHANGED <<clock, backlog, serving, should_quit, status, scheduled, at, result, calls, faults>>
      /\ pc[n] = "respond" /\ pc' = [pc EXCEPT ![n] = "eof"]
      /\ reply' = [reply EXCEPT ![n] = Nothing] /\ request' = [request EXCEPT ![n] = Nothing]
  BY DEF Respond, bounds
<1>2. PICK w : w = serving[n].who
  OBVIOUS
<1>3. PICK a : a = reply[n]
  OBVIOUS
<1>4. inbox' = IF serving[n].gone THEN inbox ELSE [inbox EXCEPT ![w] = a]
  BY <1>2, <1>3 DEF Respond, Deliver
<1>5. n \in Callers /\ n \notin Clients /\ at[n] = "idle"
  BY <1>1, Constants DEF Inv, Sensible
<1>6. a \in Answers /\ a \notin {Nothing, Echo} /\ (a.kind = "status" => a.time <= clock)
  BY <1>1, <1>3 DEF Inv, Shapes, Sensible
<1>7. ~serving[n].gone => w \in Callers /\ w # n /\ Dest[w] = n /\ at[w] = "answer" /\ inbox[w] = Nothing
  BY <1>1, <1>2, <1>5, Types DEF Inv, Wired, InStep
<1>8. /\ pc'[n] = "eof" /\ reply'[n] = Nothing /\ request'[n] = Nothing
      /\ \A k \in Nodes : k # n => pc'[k] = pc[k] /\ reply'[k] = reply[k]
      /\ \A x \in Callers : x # n => request'[x] = request[x]
  BY <1>1, <1>5 DEF Inv, Shapes
<1>9. /\ \A x \in Callers : inbox'[x] = inbox[x] \/ (~serving[n].gone /\ x = w /\ inbox'[x] = a)
      /\ ~serving[n].gone => inbox'[w] = a
      /\ inbox' \in [Callers -> Answers \cup {Nothing}]
  BY <1>4, <1>6, <1>7 DEF Inv, Shapes
<1>10. Shapes'
  BY <1>1, <1>9 DEF Inv, Shapes
<1>11. Sensible'
  <2>1. ASSUME NEW k \in Nodes
        PROVE  /\ (pc'[k] = "forward") <=> (at'[k] # "idle")
               /\ (serving'[k] = NoConnection) <=> (pc'[k] \in {"accept", "down"})
    <3>1. /\ (pc[k] = "forward") <=> (at[k] # "idle")
          /\ (serving[k] = NoConnection) <=> (pc[k] \in {"accept", "down"})
      BY DEF Inv, Sensible
    <3>2. pc'[k] = pc[k] \/ (pc[k] = "respond" /\ pc'[k] = "eof")
      BY <1>1, <1>8
    <3> QED BY <1>1, <3>1, <3>2
  <2>2. ASSUME NEW k \in Nodes
        PROVE  /\ status'[k] <= clock' /\ (reply'[k].kind = "status" => reply'[k].time <= clock')
               /\ pc'[k] = "respond" => reply'[k] \notin {Nothing, Echo}
    BY <1>1, <1>8, Kinds DEF Inv, Sensible
  <2>3. ASSUME NEW x \in Callers
        PROVE  /\ at'[x] # "idle" => Dest[x] \in Nodes /\ request'[x] # Nothing
               /\ inbox'[x].kind = "status" => inbox'[x].time <= clock'
               /\ at'[x] \in {"idle", "connect"} => inbox'[x] = Nothing
    BY <1>1, <1>5, <1>6, <1>7, <1>8, <1>9 DEF Inv, Sensible
  <2> QED BY <2>1, <2>2, <2>3 DEF Sensible
<1>12. ASSUME NEW k \in Nodes, ~serving[k].gone
       PROVE  /\ serving[k].who # n /\ serving[k].who \in Callers /\ InStep(k, serving[k].who)
              /\ k # n => inbox'[serving[k].who] = inbox[serving[k].who]
  BY <1>5, <1>7, <1>9, <1>12, Types DEF Inv, Wired, InStep
<1>13. ASSUME NEW k \in Nodes, NEW i \in Live(k)
       PROVE  /\ backlog[k][i].who # n /\ backlog[k][i].who \in Callers /\ Waiting(k, backlog[k][i].who)
              /\ inbox'[backlog[k][i].who] = inbox[backlog[k][i].who]
  BY <1>5, <1>7, <1>9, <1>13, Types DEF Inv, Wired, Waiting
<1>14. Wired'
  <2>1. ASSUME NEW k \in Nodes, ~serving'[k].gone PROVE InStep(k, serving[k].who)'
    <3>1. PICK v : v = serving[k].who
      OBVIOUS
    <3>2. /\ v # n /\ v \in Callers /\ InStep(k, v) /\ serving'[k] = serving[k] /\ serving'[k].who = v
          /\ at' = at /\ request'[v] = request[v]
      BY <1>1, <1>8, <1>12, <2>1, <3>1
    <3>3. CASE k = n
      <4>1. inbox'[v] \notin {Nothing, Echo} /\ at[v] = "answer" /\ Dest[v] = n
        BY <1>1, <1>2, <1>6, <1>7, <1>9, <2>1, <3>1, <3>3
      <4> QED BY <1>8, <3>2, <3>3, <4>1 DEF InStep
    <3>4. CASE k # n
      <4>1. pc'[k] = pc[k] /\ request'[k] = request[k] /\ inbox'[v] = inbox[v]
        BY <1>1, <1>8, <1>12, <2>1, <3>1, <3>4, Constants
      <4> QED BY <3>2, <4>1 DEF InStep
    <3> QED BY <3>3, <3>4
  <2>2. \A k \in Nodes : Live(k)' = Live(k)
    BY <1>1 DEF Live
  <2>3. ASSUME NEW k \in Nodes, NEW i \in Live(k)' PROVE Waiting(k, backlog[k][i].who)'
    BY <1>1, <1>13, <2>2 DEF Waiting
  <2> QED BY <1>1, <2>1, <2>2, <2>3 DEF Inv, Wired
<1>15. Calm
  <2>1. \A x \in Callers : Asks(x)' => Asks(x) /\ request'[x] = request[x]
    BY <1>1, <1>5, <1>8 DEF Asks
  <2>2. \A k \in Nodes : Reads(k)' => Reads(k) /\ serving'[k].sent = serving[k].sent
    BY <1>1, <1>8 DEF Reads
  <2>3. \A x \in Callers : request'[x] = request[x] \/ request'[x] = Nothing
    BY <1>8
  <2> QED BY <1>1, <2>1, <2>2, <2>3 DEF Calm
<1>16. Single' /\ Pending' \subseteq Pending
  BY <1>15, CalmSingle DEF Inv
<1>17. Backed'
  <2>1. ASSUME NEW k \in Nodes, pc'[k] = "respond", ~serving'[k].gone
        PROVE  Earned(serving[k].who, reply[k])'
    <3>1. /\ pc[k] = "respond" /\ Earned(serving[k].who, reply[k]) /\ reply'[k] = reply[k]
          /\ request'[serving[k].who] = request[serving[k].who]
      BY <1>1, <1>8, <1>12, <2>1 DEF Inv, Backed
    <3> QED BY <1>1, <3>1 DEF Earned
  <2>2. ASSUME NEW x \in Callers, at'[x] = "answer" PROVE Earned(x, inbox[x])'
    <3>1. at[x] = "answer" /\ request'[x] = request[x]
      BY <1>1, <1>5, <1>8, <2>2
    <3>2. CASE inbox'[x] = inbox[x]
      <4>1. Earned(x, inbox[x])
        BY <3>1 DEF Inv, Backed
      <4> QED BY <1>1, <3>1, <3>2, <4>1 DEF Earned
    <3>3. CASE ~serving[n].gone /\ x = w /\ inbox'[x] = a
      <4>1. Earned(x, a)
        BY <1>1, <1>2, <1>3, <3>3 DEF Inv, Backed
      <4> QED BY <1>1, <3>1, <3>3, <4>1 DEF Earned
    <3> QED BY <1>9, <3>2, <3>3
  <2>3. ASSUME NEW c \in Clients, at'[c] = "idle" PROVE Earned(c, result[c])'
    BY <1>1, <1>5, <1>8, <2>3, Constants DEF Inv, Backed, Earned
  <2> QED BY <2>1, <2>2, <2>3 DEF Backed
<1>18. Faultless'
  <2> SUFFICES ASSUME faults = 0 PROVE Faultless'
    BY <1>1 DEF Faultless
  <2>1. \A k \in Nodes : pc'[k] # "down" /\ ~should_quit'[k]
    BY <1>1, <1>8 DEF Inv, Faultless
  <2>2. \A x \in Callers : at'[x] \in {"echo", "answer"} => Connected(x)'
    BY <1>1 DEF Inv, Faultless, Connected
  <2>3. ASSUME NEW k \in Nodes, pc'[k] = "respond", ~serving'[k].gone
        PROVE  Over(serving[k].who, reply[k])'
    <3>1. /\ pc[k] = "respond" /\ Over(serving[k].who, reply[k]) /\ reply'[k] = reply[k]
          /\ request'[serving[k].who] = request[serving[k].who]
      BY <1>1, <1>8, <1>12, <2>3 DEF Inv, Faultless
    <3> QED BY <1>1, <1>16, <3>1 DEF Over
  <2>4. ASSUME NEW k \in Nodes, pc'[k] = "eof", ~serving'[k].gone
        PROVE  Over(serving[k].who, inbox[serving[k].who])'
    <3>1. PICK v : v = serving[k].who
      OBVIOUS
    <3>2. v \in Callers /\ request'[v] = request[v] /\ serving'[k].who = v /\ ~serving[k].gone
      BY <1>1, <1>8, <1>12, <2>4, <3>1
    <3>3. CASE k = n
      <4>1. Over(v, a) /\ inbox'[v] = a
        BY <1>1, <1>2, <1>3, <1>9, <3>1, <3>2, <3>3 DEF Inv, Faultless
      <4> QED BY <1>1, <1>16, <3>2, <4>1 DEF Over
    <3>4. CASE k # n
      <4>1. pc[k] = "eof" /\ inbox'[v] = inbox[v]
        BY <1>8, <1>12, <2>4, <3>1, <3>2, <3>4
      <4>2. Over(v, inbox[v])
        BY <3>1, <3>2, <4>1 DEF Inv, Faultless
      <4> QED BY <1>1, <1>16, <3>2, <4>1, <4>2 DEF Over
    <3> QED BY <3>3, <3>4
  <2>5. ASSUME NEW c \in Clients, at'[c] = "idle" PROVE Over(c, result[c])'
    <3>1. Over(c, result[c]) /\ request'[c] = request[c]
      BY <1>1, <1>5, <1>8, <2>5, Constants DEF Inv, Faultless
    <3> QED BY <1>1, <1>16, <3>1 DEF Over
  <2> QED BY <2>1, <2>2, <2>3, <2>4, <2>5 DEF Faultless
<1> QED BY <1>10, <1>11, <1>14, <1>16, <1>17, <1>18 DEF Inv

\* The longest waiting connection is taken up, and its tag echoed.
LEMMA AcceptInv == ASSUME Inv, NEW n \in Nodes, Accept(n) PROVE Inv'
<1>1. /\ UNCHANGED <<clock, should_quit, reply, status, scheduled, at, request, result, calls, faults>>
      /\ pc[n] = "accept" /\ pc' = [pc EXCEPT ![n] = "msg"] /\ backlog[n] # <<>>
      /\ serving' = [serving EXCEPT ![n] = [Head(backlog[n]) EXCEPT !.sent = Nothing]]
      /\ backlog' = [backlog EXCEPT ![n] = Tail(backlog[n])] /\ Deliver(serving'[n], Echo)
  BY DEF Accept, bounds
<1>2. backlog[n] \in Seq(Connections)
  BY DEF Inv, Shapes
<1>3. PICK q : q = backlog[n]
  OBVIOUS
<1>4. /\ q \in Seq(Connections) /\ Len(q) \in Nat /\ 1 \in DOMAIN q /\ Head(q) = q[1] /\ q[1] \in Connections
      /\ Tail(q) \in Seq(Connections) /\ DOMAIN Tail(q) = 1 .. Len(q) - 1
      /\ \A i \in 1 .. Len(q) - 1 : Tail(q)[i] = q[i + 1] /\ i + 1 \in DOMAIN q
      /\ DOMAIN q = 1 .. Len(q)
  BY <1>1, <1>2, <1>3
<1>5. PICK k : k = [q[1] EXCEPT !.sent = Nothing]
  OBVIOUS
<1>6. k \in Connections /\ k.who = q[1].who /\ k.sent = Nothing /\ k.gone = q[1].gone
  BY <1>4, <1>5 DEF Connections
<1>7. /\ serving'[n] = k /\ backlog'[n] = Tail(q) /\ pc'[n] = "msg"
      /\ \A m \in Nodes : m # n => serving'[m] = serving[m] /\ backlog'[m] = backlog[m] /\ pc'[m] = pc[m]
  BY <1>1, <1>3, <1>4, <1>5 DEF Inv, Shapes
<1>8. PICK w : w = k.who
  OBVIOUS
<1>9. w \in Callers /\ (~k.gone => 1 \in Live(n) /\ Dest[w] = n /\ at[w] = "echo" /\ inbox[w] = Nothing)
  <2>1. ~k.gone => 1 \in Live(n)
    BY <1>3, <1>4, <1>6 DEF Live
  <2>2. \A i \in Live(n) : Waiting(n, backlog[n][i].who)
    BY DEF Inv, Wired
  <2>3. w \in Callers /\ w = backlog[n][1].who
    BY <1>3, <1>6, <1>8, ConnectionKinds
  <2> QED BY <2>1, <2>2, <2>3 DEF Waiting
<1>10. /\ \A x \in Callers : inbox'[x] = inbox[x] \/ (~k.gone /\ x = w /\ inbox'[x] = Echo)
       /\ ~k.gone => inbox'[w] = Echo
       /\ inbox' \in [Callers -> Answers \cup {Nothing}]
  <2>1. inbox' = IF k.gone THEN inbox ELSE [inbox EXCEPT ![w] = Echo]
    BY <1>1, <1>7, <1>8 DEF Deliver
  <2> QED BY <1>9, <2>1, MessageKinds DEF Inv, Shapes
<1>11. Shapes'
  BY <1>1, <1>3, <1>4, <1>5, <1>6, <1>10 DEF Inv, Shapes
<1>12. Sensible'
  <2>1. ASSUME NEW m \in Nodes
        PROVE  /\ (pc'[m] = "forward") <=> (at'[m] # "idle")
               /\ (serving'[m] = NoConnection) <=> (pc'[m] \in {"accept", "down"})
    <3>1. /\ (pc[m] = "forward") <=> (at[m] # "idle")
          /\ (serving[m] = NoConnection) <=> (pc[m] \in {"accept", "down"})
      BY DEF Inv, Sensible
    <3> QED BY <1>1, <1>6, <1>7, <3>1, ConnectionKinds
  <2>2. ASSUME NEW m \in Nodes
        PROVE  /\ status'[m] <= clock' /\ (reply'[m].kind = "status" => reply'[m].time <= clock')
               /\ pc'[m] = "respond" => reply'[m] \notin {Nothing, Echo}
    BY <1>1, <1>7 DEF Inv, Sensible
  <2>3. ASSUME NEW x \in Callers
        PROVE  /\ at'[x] # "idle" => Dest[x] \in Nodes /\ request'[x] # Nothing
               /\ inbox'[x].kind = "status" => inbox'[x].time <= clock'
               /\ at'[x] \in {"idle", "connect"} => inbox'[x] = Nothing
    BY <1>1, <1>9, <1>10, Kinds DEF Inv, Sensible
  <2> QED BY <2>1, <2>2, <2>3 DEF Sensible
\* The other connections that are alive are of other callers.
<1>13. ASSUME NEW m \in Nodes, m # n, ~serving[m].gone
       PROVE  /\ serving[m].who \in Callers /\ InStep(m, serving[m].who)
              /\ inbox'[serving[m].who] = inbox[serving[m].who]
  <2>1. serving[m].who \in Callers /\ InStep(m, serving[m].who)
    BY <1>13, Types DEF Inv, Wired
  <2>2. Dest[serving[m].who] = m
    BY <2>1 DEF InStep
  <2> QED BY <1>9, <1>10, <1>13, <2>1, <2>2
<1>14. ASSUME NEW m \in Nodes, m # n, NEW i \in Live(m)
       PROVE  /\ backlog[m][i].who \in Callers /\ Waiting(m, backlog[m][i].who)
              /\ inbox'[backlog[m][i].who] = inbox[backlog[m][i].who]
  <2>1. backlog[m][i].who \in Callers /\ Waiting(m, backlog[m][i].who)
    BY <1>14, Types DEF Inv, Wired
  <2>2. Dest[backlog[m][i].who] = m
    BY <2>1 DEF Waiting
  <2> QED BY <1>9, <1>10, <1>14, <2>1, <2>2
<1>15. ASSUME NEW i \in Live(n)'
       PROVE  /\ i + 1 \in Live(n) /\ backlog'[n][i] = backlog[n][i + 1] /\ i \in Nat
              /\ backlog[n][i + 1].who \in Callers /\ Waiting(n, backlog[n][i + 1].who)
              /\ inbox'[backlog[n][i + 1].who] = inbox[backlog[n][i + 1].who]
  <2>1. i \in DOMAIN backlog'[n] /\ ~backlog'[n][i].gone
    BY <1>15 DEF Live
  <2>2. i \in 1 .. Len(q) - 1 /\ backlog'[n][i] = q[i + 1] /\ i + 1 \in DOMAIN q /\ i \in Nat
    BY <1>4, <1>7, <2>1
  <2>3. i + 1 \in Live(n) /\ backlog'[n][i] = backlog[n][i + 1]
    BY <1>3, <2>1, <2>2 DEF Live
  <2>4. backlog[n][i + 1].who \in Callers /\ Waiting(n, backlog[n][i + 1].who)
    BY <2>3, Types DEF Inv, Wired
  <2>5. ~k.gone => backlog[n][i + 1].who # w
    <3> SUFFICES ASSUME ~k.gone, backlog[n][i + 1].who = w PROVE FALSE
      OBVIOUS
    <3>1. 1 \in Live(n) /\ backlog[n][1].who = backlog[n][i + 1].who
      BY <1>3, <1>6, <1>8, <1>9
    <3>2. 1 = i + 1
      BY <2>3, <3>1 DEF Inv, Wired
    <3> QED BY <2>2, <3>2
  <2> QED BY <1>10, <2>2, <2>3, <2>4, <2>5
<1>16. Wired'
  <2>1. ASSUME NEW m \in Nodes, ~serving'[m].gone PROVE InStep(m, serving[m].who)'
    <3>1. CASE m = n
      BY <1>1, <1>6, <1>7, <1>8, <1>9, <1>10, <2>1, <3>1 DEF InStep
    <3>2. CASE m # n
      <4>1. PICK v : v = serving[m].who
        OBVIOUS
      <4>2. /\ InStep(m, v) /\ inbox'[v] = inbox[v] /\ serving'[m] = serving[m] /\ serving'[m].who = v
            /\ pc'[m] = pc[m] /\ at' = at /\ request' = request
        BY <1>1, <1>7, <1>13, <2>1, <3>2, <4>1
      <4> QED BY <4>2 DEF InStep
    <3> QED BY <3>1, <3>2
  <2>2. ASSUME NEW m \in Nodes, m # n
        PROVE  /\ \A i \in Live(m)' : Waiting(m, backlog[m][i].who)'
               /\ \A i, j \in Live(m)' : backlog'[m][i].who = backlog'[m][j].who => i = j
    <3>1. Live(m)' = Live(m) /\ backlog'[m] = backlog[m]
      BY <1>7, <2>2 DEF Live
    <3>2. \A i \in Live(m) : Waiting(m, backlog[m][i].who)'
      BY <1>1, <1>14, <2>2, <3>1 DEF Waiting
    <3> QED BY <3>1, <3>2 DEF Inv, Wired
  <2>3. \A i \in Live(n)' : Waiting(n, backlog[n][i].who)'
    BY <1>1, <1>15 DEF Waiting
  <2>4. ASSUME NEW i \in Live(n)', NEW j \in Live(n)', backlog'[n][i].who = backlog'[n][j].who
        PROVE  i = j
    <3>1. i + 1 = j + 1
      BY <1>15, <2>4 DEF Inv, Wired
    <3>2. i \in Nat /\ j \in Nat
      BY <1>15
    <3> QED BY <3>1, <3>2
  <2>5. \A m \in Nodes : serving'[m].sent # Tag
    BY <1>6, <1>7, MessageKinds DEF Inv, Wired
  <2> QED BY <2>1, <2>2, <2>3, <2>4, <2>5 DEF Wired
<1>17. Calm
  <2>1. \A x \in Callers : Asks(x)' => Asks(x) /\ request'[x] = request[x]
    BY <1>1 DEF Asks
  <2>2. \A m \in Nodes : Reads(m)' => Reads(m) /\ serving'[m].sent = serving[m].sent
    BY <1>6, <1>7, Kinds DEF Reads
  <2> QED BY <1>1, <2>1, <2>2 DEF Calm
<1>18. Single' /\ Pending' \subseteq Pending
  BY <1>17, CalmSingle DEF Inv
<1>19. Backed'
  <2>1. ASSUME NEW m \in Nodes, pc'[m] = "respond", ~serving'[m].gone
        PROVE  Earned(serving[m].who, reply[m])'
    <3>1. serving'[m] = serving[m] /\ reply'[m] = reply[m] /\ pc[m] = "respond"
      BY <1>1, <1>7, <2>1
    <3>2. PICK v, r : v = serving[m].who /\ r = reply[m]
      OBVIOUS
    <3>3. Earned(v, r) /\ serving'[m].who = v /\ reply'[m] = r
      BY <2>1, <3>1, <3>2 DEF Inv, Backed
    <3> QED BY <1>1, <3>3 DEF Earned
  <2>2. ASSUME NEW x \in Callers, at'[x] = "answer" PROVE Earned(x, inbox[x])'
    <3>1. Earned(x, inbox[x])
      BY <1>1, <2>2 DEF Inv, Backed
    <3>2. inbox'[x] = inbox[x]
      BY <1>1, <1>9, <1>10, <2>2
    <3> QED BY <1>1, <3>1, <3>2 DEF Earned
  <2>3. ASSUME NEW c \in Clients, at'[c] = "idle" PROVE Earned(c, result[c])'
    BY <1>1, <2>3 DEF Inv, Backed, Earned
  <2> QED BY <2>1, <2>2, <2>3 DEF Backed
<1>20. Faultless'
  <2> SUFFICES ASSUME faults = 0 PROVE Faultless'
    BY <1>1 DEF Faultless
  <2>1. \A m \in Nodes : pc'[m] # "down" /\ ~should_quit'[m]
    BY <1>1, <1>7 DEF Inv, Faultless
  <2>2. ASSUME NEW x \in Callers, at'[x] \in {"echo", "answer"} PROVE Connected(x)'
    <3>1. PICK d : d = Dest[x]
      OBVIOUS
    <3>2. d \in Nodes /\ (IsOf(serving[d], x) \/ \E i \in DOMAIN backlog[d] : IsOf(backlog[d][i], x))
      BY <1>1, <2>2, <3>1 DEF Inv, Faultless, Connected
    <3>3. CASE d # n
      BY <1>7, <3>1, <3>2, <3>3 DEF Connected, IsOf
    <3>4. CASE d = n
      <4>1. ~IsOf(serving[d], x)
        BY <1>1, <3>4, Kinds DEF Inv, Sensible, IsOf
      <4>2. PICK i \in DOMAIN q : IsOf(q[i], x)
        BY <1>3, <3>2, <3>4, <4>1
      <4>3. CASE i = 1
        BY <1>6, <1>7, <3>1, <3>2, <3>4, <4>2, <4>3 DEF Connected, IsOf
      <4>4. CASE i # 1
        <5>1. i - 1 \in 1 .. Len(q) - 1 /\ (i - 1) + 1 = i
          BY <1>4, <4>4
        <5>2. i - 1 \in DOMAIN backlog'[n] /\ backlog'[n][i - 1] = q[i]
          BY <1>4, <1>7, <5>1
        <5> QED BY <3>1, <3>2, <3>4, <4>2, <5>2 DEF Connected, IsOf
      <4> QED BY <4>3, <4>4
    <3> QED BY <3>3, <3>4
  <2>3. ASSUME NEW m \in Nodes, pc'[m] = "respond", ~serving'[m].gone
        PROVE  Over(serving[m].who, reply[m])'
    <3>1. serving'[m] = serving[m] /\ reply'[m] = reply[m] /\ pc[m] = "respond"
      BY <1>1, <1>7, <2>3
    <3>2. PICK v, r : v = serving[m].who /\ r = reply[m]
      OBVIOUS
    <3>3. Over(v, r) /\ serving'[m].who = v /\ reply'[m] = r
      BY <2>3, <3>1, <3>2 DEF Inv, Faultless
    <3> QED BY <1>1, <1>18, <3>3 DEF Over
  <2>4. ASSUME NEW m \in Nodes, pc'[m] = "eof", ~serving'[m].gone
        PROVE  Over(serving[m].who, inbox[serving[m].who])'
    <3>1. m # n /\ serving'[m] = serving[m] /\ pc[m] = "eof"
      BY <1>7, <2>4
    <3>2. PICK v : v = serving[m].who
      OBVIOUS
    <3>3. Over(v, inbox[v]) /\ inbox'[v] = inbox[v] /\ serving'[m].who = v
      BY <1>13, <2>4, <3>1, <3>2 DEF Inv, Faultless
    <3> QED BY <1>1, <1>18, <3>3 DEF Over
  <2>5. ASSUME NEW c \in Clients, at'[c] = "idle" PROVE Over(c, result[c])'
    <3>1. Over(c, result[c])
      BY <1>1, <2>5 DEF Inv, Faultless
    <3> QED BY <1>1, <1>18, <3>1 DEF Over
  <2> QED BY <2>1, <2>2, <2>3, <2>4, <2>5 DEF Faultless
<1> QED BY <1>11, <1>12, <1>16, <1>18, <1>19, <1>20 DEF Inv

\* A node is killed: the connections it had, on either side, are gone.
LEMMA CrashInv == ASSUME Inv, NEW n \in Nodes, Crash(n) PROVE Inv'
<1> DEFINE closed(k) == IF IsOf(k, n) THEN [k EXCEPT !.gone = TRUE] ELSE k
<1>1. /\ UNCHANGED <<clock, scheduled, result, calls>> /\ faults' = faults + 1
      /\ pc' = [pc EXCEPT ![n] = "down"] /\ should_quit' = [should_quit EXCEPT ![n] = FALSE]
      /\ serving' = [d \in Nodes |-> IF d = n THEN NoConnection ELSE closed(serving[d])]
      /\ backlog' = [d \in Nodes |-> IF d = n THEN <<>>
                                     ELSE [i \in DOMAIN backlog[d] |-> closed(backlog[d][i])]]
      /\ reply' = [reply EXCEPT ![n] = Nothing] /\ status' = [status EXCEPT ![n] = 0]
      /\ at' = [at EXCEPT ![n] = "idle"] /\ inbox' = [inbox EXCEPT ![n] = Nothing]
      /\ request' = [request EXCEPT ![n] = Nothing]
  BY DEF Crash
<1>2. n \in Callers /\ n \notin Clients /\ n # "nobody" /\ faults \in Nat
  BY Constants, Types
<1>3. /\ pc'[n] = "down" /\ reply'[n] = Nothing /\ at'[n] = "idle" /\ inbox'[n] = Nothing
      /\ request'[n] = Nothing /\ status'[n] = 0
      /\ \A m \in Nodes : m # n => pc'[m] = pc[m] /\ reply'[m] = reply[m] /\ status'[m] = status[m]
      /\ \A x \in Callers : x # n => at'[x] = at[x] /\ inbox'[x] = inbox[x] /\ request'[x] = request[x]
  BY <1>1, <1>2 DEF Inv, Shapes
<1>4. \A k \in Connections : /\ closed(k) \in Connections /\ closed(k).who = k.who /\ closed(k).sent = k.sent
                             /\ closed(k).gone <=> k.gone \/ k.who = n
  BY DEF IsOf, Connections
<1>5. closed(NoConnection) = NoConnection
  <2>1. NoConnection.gone
    BY Kinds
  <2> QED BY <2>1, Zenon DEF IsOf
<1> HIDE DEF closed
<1>6. \A m \in Nodes : /\ serving[m] \in Connections \cup {NoConnection} /\ backlog[m] \in Seq(Connections)
                       /\ \A i \in DOMAIN backlog[m] : backlog[m][i] \in Connections
  BY DEF Inv, Shapes
<1>7. /\ serving'[n] = NoConnection /\ serving'[n].gone
      /\ \A m \in Nodes : m # n =>
           /\ serving'[m].who = serving[m].who /\ serving'[m].sent = serving[m].sent
           /\ ~serving'[m].gone => ~serving[m].gone /\ serving[m].who # n
           /\ serving'[m] = NoConnection <=> serving[m] = NoConnection
           /\ serving'[m] \in Connections \cup {NoConnection}
  <2>1. serving'[n] = NoConnection /\ serving'[n].gone
    BY <1>1, Kinds
  <2>2. ASSUME NEW m \in Nodes, m # n
        PROVE  /\ serving'[m].who = serving[m].who /\ serving'[m].sent = serving[m].sent
               /\ ~serving'[m].gone => ~serving[m].gone /\ serving[m].who # n
               /\ serving'[m] = NoConnection <=> serving[m] = NoConnection
               /\ serving'[m] \in Connections \cup {NoConnection}
    <3>1. serving'[m] = closed(serving[m])
      BY <1>1, <2>2
    <3>2. CASE serving[m] = NoConnection
      <4>1. serving'[m] = NoConnection /\ NoConnection.gone
        BY <1>5, <3>1, <3>2, Kinds
      <4> QED BY <3>2, <4>1, Zenon
    <3>3. CASE serving[m] \in Connections
      BY <1>4, <3>1, <3>3, ConnectionKinds
    <3> QED BY <1>6, <3>2, <3>3
  <2> QED BY <2>1, <2>2
<1>8. /\ backlog'[n] = <<>>
      /\ \A m \in Nodes : m # n =>
           /\ backlog'[m] \in Seq(Connections) /\ DOMAIN backlog'[m] = DOMAIN backlog[m]
           /\ \A i \in DOMAIN backlog[m] :
                /\ backlog'[m][i].who = backlog[m][i].who
                /\ ~backlog'[m][i].gone => ~backlog[m][i].gone /\ backlog[m][i].who # n
  <2>1. backlog'[n] = <<>>
    BY <1>1
  <2>2. ASSUME NEW m \in Nodes, m # n
        PROVE  /\ backlog'[m] \in Seq(Connections) /\ DOMAIN backlog'[m] = DOMAIN backlog[m]
               /\ \A i \in DOMAIN backlog[m] :
                    /\ backlog'[m][i].who = backlog[m][i].who
                    /\ ~backlog'[m][i].gone => ~backlog[m][i].gone /\ backlog[m][i].who # n
    <3>1. backlog'[m] = [i \in DOMAIN backlog[m] |-> closed(backlog[m][i])]
      BY <1>1, <2>2
    <3>2. backlog'[m] \in [DOMAIN backlog[m] -> Connections]
      BY <1>4, <1>6, <3>1
    <3>3. backlog'[m] \in Seq(Connections)
      BY <1>6, <3>2, MapType
    <3>4. \A i \in DOMAIN backlog[m] : backlog'[m][i] = closed(backlog[m][i])
      BY <3>1
    <3>5. DOMAIN backlog'[m] = DOMAIN backlog[m]
      BY <3>1
    <3> QED BY <1>4, <1>6, <3>3, <3>4, <3>5
  <2> QED BY <2>1, <2>2
<1>9. Shapes'
  <2>1. serving' \in [Nodes -> Connections \cup {NoConnection}]
    BY <1>1, <1>7
  <2>2. backlog' \in [Nodes -> Seq(Connections)]
    <3>1. ASSUME NEW m \in Nodes PROVE backlog'[m] \in Seq(Connections)
      <4>1. <<>> \in Seq(Connections)
        OBVIOUS
      <4> QED BY <1>8, <4>1
    <3> QED BY <1>1, <3>1
  <2> QED BY <1>1, <1>2, <2>1, <2>2 DEF Inv, Shapes
<1>10. Sensible'
  <2>1. ASSUME NEW m \in Nodes
        PROVE  /\ (pc'[m] = "forward") <=> (at'[m] # "idle")
               /\ (serving'[m] = NoConnection) <=> (pc'[m] \in {"accept", "down"})
    <3>1. /\ (pc[m] = "forward") <=> (at[m] # "idle")
          /\ (serving[m] = NoConnection) <=> (pc[m] \in {"accept", "down"})
      BY DEF Inv, Sensible
    <3>2. CASE m = n
      <4>1. pc'[n] = "down" /\ at'[n] = "idle" /\ serving'[n] = NoConnection
        BY <1>3, <1>7
      <4> QED BY <3>2, <4>1
    <3>3. CASE m # n
      <4>1. pc'[m] = pc[m] /\ at'[m] = at[m] /\ (serving'[m] = NoConnection <=> serving[m] = NoConnection)
        BY <1>3, <1>7, <3>3, Constants
      <4> QED BY <3>1, <4>1
    <3> QED BY <3>2, <3>3
  <2>2. ASSUME NEW m \in Nodes
        PROVE  /\ status'[m] <= clock' /\ (reply'[m].kind = "status" => reply'[m].time <= clock')
               /\ pc'[m] = "respond" => reply'[m] \notin {Nothing, Echo}
    <3>1. clock \in Nat
      BY Types
    <3> QED BY <1>1, <1>3, <3>1, Kinds DEF Inv, Sensible
  <2>3. ASSUME NEW x \in Callers
        PROVE  /\ at'[x] # "idle" => Dest[x] \in Nodes /\ request'[x] # Nothing
               /\ inbox'[x].kind = "status" => inbox'[x].time <= clock'
               /\ at'[x] \in {"idle", "connect"} => inbox'[x] = Nothing
    BY <1>1, <1>3, Kinds DEF Inv, Sensible
  <2> QED BY <2>1, <2>2, <2>3 DEF Sensible
<1>11. ASSUME NEW m \in Nodes, ~serving'[m].gone
       PROVE  /\ m # n /\ ~serving[m].gone /\ serving[m].who # n /\ serving[m].who \in Callers
              /\ InStep(m, serving[m].who)
  BY <1>7, <1>11, Types DEF Inv, Wired
<1>12. ASSUME NEW m \in Nodes, NEW i \in Live(m)'
       PROVE  /\ i \in Live(m) /\ backlog[m][i].who # n /\ backlog[m][i].who \in Callers
              /\ backlog'[m][i].who = backlog[m][i].who /\ Waiting(m, backlog[m][i].who)
  <2>1. m # n /\ i \in Live(m) /\ backlog'[m][i].who = backlog[m][i].who /\ backlog[m][i].who # n
    BY <1>8, <1>12 DEF Live
  <2> QED BY <2>1, Types DEF Inv, Wired
<1>13. Wired'
  <2>1. ASSUME NEW m \in Nodes, ~serving'[m].gone PROVE InStep(m, serving[m].who)'
    <3>1. PICK v : v = serving[m].who
      OBVIOUS
    <3>2. m # n /\ v # n /\ v \in Callers /\ InStep(m, v)
      BY <1>11, <2>1, <3>1
    <3>3. /\ serving'[m].who = v /\ serving'[m].sent = serving[m].sent /\ pc'[m] = pc[m]
          /\ at'[v] = at[v] /\ inbox'[v] = inbox[v] /\ request'[v] = request[v] /\ request'[m] = request[m]
      BY <1>3, <1>7, <3>1, <3>2, Constants
    <3> QED BY <3>2, <3>3 DEF InStep
  <2>2. ASSUME NEW m \in Nodes, NEW i \in Live(m)' PROVE Waiting(m, backlog[m][i].who)'
    BY <1>3, <1>12 DEF Waiting
  <2>3. ASSUME NEW m \in Nodes, NEW i \in Live(m)', NEW j \in Live(m)',
               backlog'[m][i].who = backlog'[m][j].who
        PROVE  i = j
    BY <1>12, <2>3 DEF Inv, Wired
  <2>4. ASSUME NEW m \in Nodes PROVE serving'[m].sent # Tag
    BY <1>7, Kinds, MessageKinds DEF Inv, Wired
  <2> QED BY <2>1, <2>2, <2>3, <2>4 DEF Wired
<1>14. Calm
  <2>1. \A x \in Callers : Asks(x)' => Asks(x) /\ request'[x] = request[x]
    BY <1>3 DEF Asks
  <2>2. \A m \in Nodes : Reads(m)' => Reads(m) /\ serving'[m].sent = serving[m].sent
    BY <1>3, <1>7 DEF Reads
  <2>3. \A x \in Callers : request'[x] = request[x] \/ request'[x] = Nothing
    BY <1>3
  <2> QED BY <1>1, <2>1, <2>2, <2>3 DEF Calm
<1>15. Single'
  BY <1>14, CalmSingle DEF Inv
<1>16. Backed'
  <2>1. ASSUME NEW m \in Nodes, pc'[m] = "respond", ~serving'[m].gone
        PROVE  Earned(serving[m].who, reply[m])'
    <3>1. PICK v, r : v = serving[m].who /\ r = reply[m]
      OBVIOUS
    <3>2. m # n /\ v # n /\ v \in Callers /\ ~serving[m].gone /\ pc[m] = "respond"
      BY <1>3, <1>11, <2>1, <3>1
    <3>3. serving'[m].who = v /\ reply'[m] = r /\ request'[v] = request[v]
      BY <1>3, <1>7, <3>1, <3>2
    <3>4. Earned(v, r)
      BY <3>1, <3>2 DEF Inv, Backed
    <3> QED BY <1>1, <3>3, <3>4 DEF Earned
  <2>2. ASSUME NEW x \in Callers, at'[x] = "answer" PROVE Earned(x, inbox[x])'
    <3>1. x # n /\ at[x] = "answer"
      BY <1>3, <2>2
    <3>2. Earned(x, inbox[x])
      BY <3>1 DEF Inv, Backed
    <3> QED BY <1>1, <1>3, <3>1, <3>2 DEF Earned
  <2>3. ASSUME NEW c \in Clients, at'[c] = "idle" PROVE Earned(c, result[c])'
    <3>1. c # n /\ c \in Callers
      BY <1>2, Constants
    <3>2. Earned(c, result[c])
      BY <1>3, <2>3, <3>1 DEF Inv, Backed
    <3> QED BY <1>1, <1>3, <3>1, <3>2 DEF Earned
  <2> QED BY <2>1, <2>2, <2>3 DEF Backed
<1>17. Faultless'
  BY <1>1, <1>2 DEF Faultless
<1> QED BY <1>9, <1>10, <1>13, <1>15, <1>16, <1>17 DEF Inv

-----------------------------------------------------------------------------
LEMMA NextInv == ASSUME Inv, [Next]_vars PROVE Inv'
<1>1. CASE Tick \/ UNCHANGED vars
  BY <1>1, TickInv
<1>2. ASSUME NEW x \in Callers, Proceed(x) PROVE Inv'
  BY <1>2, ConnectInv, SendInv, ReadInv, FailInv DEF Proceed
<1>3. ASSUME NEW c \in Clients, Leave(c) \/ \E r \in Requests : Call(c, r) PROVE Inv'
  BY <1>3, LeaveInv, CallInv
<1>4. ASSUME NEW n \in Nodes, Work(n) PROVE Inv'
  <2>1. CASE Accept(n) \/ Closed(n) \/ Respond(n) \/ Quit(n) \/ HandleUnknown(n)
    BY <2>1, AcceptInv, ClosedInv, RespondInv, QuitInv, UnknownInv
  <2>2. CASE HandleHere(n, serving[n].sent) \/ HandleThere(n, serving[n].sent)
    BY <2>2, HereInv, ThereInv
  <2> QED BY <1>4, <2>1, <2>2 DEF Work
<1>5. ASSUME NEW n \in Nodes, Notify(n) \/ Crash(n) \/ Restart(n) PROVE Inv'
  BY <1>5, NotifyInv, CrashInv, RestartInv
<1> QED BY <1>1, <1>2, <1>3, <1>4, <1>5 DEF Next

\* Version 2 over TCP, for every set of nodes and links without a cycle: the two
\* ends of a connection are in step, and a schedule call that returns 1 has reached
\* the device while one that returns 0 has not, unless a node failed on the way
\* (bootup_tcp_socket, handle_battery_msg, RemoteBattery::schedule_set_current).
THEOREM AnswersAreTrue == Spec => []AnswersTrue
<1>1. Inv => AnswersTrue
  BY InvTypeOK, InvTruthful DEF AnswersTrue
<1> QED BY <1>1, InitInv, NextInv, PTL DEF Spec

-----------------------------------------------------------------------------
(***************************************************************************)
(* FreshEnough: what the nodes at work on a call answer is fresh.          *)
(***************************************************************************)
\* A path has the node called, and goes on where a node's battery is elsewhere.
LEMMA PathClosed ==
    ASSUME NEW c \in Clients
    PROVE  /\ Path(c) \subseteq Nodes /\ Dest[c] \in Path(c)
           /\ \A n \in Path(c) : Link[n] # Local => Link[n] \in Path(c)
<1>1. Path(c) \subseteq Nodes /\ Dest[c] \in Path(c)
  BY Constants DEF Path
<1>2. ASSUME NEW n \in Path(c), Link[n] # Local PROVE Link[n] \in Path(c)
  <2>1. Link[n] \in Nodes
    BY <1>1, <1>2, Constants
  <2> SUFFICES ASSUME NEW S \in SUBSET Nodes, Dest[c] \in S, \A m \in S : Link[m] # Local => Link[m] \in S
               PROVE  Link[n] \in S
    BY <2>1 DEF Path
  <2> QED BY <1>2 DEF Path
<1> QED BY <1>1, <1>2

\* The nodes behind a client are the smallest set closed under being served.
LEMMA BehindClosed ==
    ASSUME NEW c
    PROVE  /\ Behind(c) \subseteq Nodes
           /\ \A m \in Nodes : Serves(m, c) \/ (\E k \in Behind(c) : Serves(m, k)) => m \in Behind(c)
<1>1. Behind(c) \subseteq Nodes
  BY DEF Behind
<1>2. ASSUME NEW m \in Nodes, Serves(m, c) \/ (\E k \in Behind(c) : Serves(m, k))
      PROVE  m \in Behind(c)
  <2> SUFFICES ASSUME NEW S \in SUBSET Nodes,
                      \A l \in Nodes : Serves(l, c) \/ (\E k \in S : Serves(l, k)) => l \in S
               PROVE  m \in S
    BY DEF Behind
  <2>1. Behind(c) \subseteq S
    BY DEF Behind
  <2> QED BY <1>2, <2>1
<1> QED BY <1>1, <1>2

LEMMA BehindLeast ==
    ASSUME NEW c, NEW T \in SUBSET Nodes,
           \A m \in Nodes : Serves(m, c) \/ (\E k \in T : Serves(m, k)) => m \in T
    PROVE  Behind(c) \subseteq T
BY DEF Behind

LEMMA NextBehindLeast ==
    ASSUME NEW c \in Clients, NEW T \in SUBSET Nodes,
           \A m \in Nodes : Serves(m, c)' \/ (\E k \in T : Serves(m, k)') => m \in T
    PROVE  Behind(c)' \subseteq T
BY DEF Behind

\* Each of them serves somebody: the client, or another of them.
LEMMA BehindServes ==
    ASSUME Inv, NEW c \in Clients, NEW n \in Behind(c)
    PROVE  /\ n \in Nodes /\ ~serving[n].gone /\ Serves(n, serving[n].who)
           /\ serving[n].who = c \/ serving[n].who \in Behind(c)
           /\ serving[n].who \in Callers /\ InStep(n, serving[n].who)
<1> DEFINE T == {m \in Behind(c) : /\ ~serving[m].gone /\ Serves(m, serving[m].who)
                                   /\ serving[m].who = c \/ serving[m].who \in Behind(c)}
<1>1. ASSUME NEW m \in Nodes, Serves(m, c) \/ (\E k \in T : Serves(m, k)) PROVE m \in T
  BY <1>1, BehindClosed DEF Serves, IsOf
<1>2. T \in SUBSET Nodes
  BY BehindClosed
<1>3. Behind(c) \subseteq T
  <2> HIDE DEF T
  <2> QED BY <1>1, <1>2, BehindLeast
<1>4. n \in T /\ n \in Nodes
  BY <1>3, BehindClosed
<1> QED BY <1>4, Types DEF Inv, Wired

\* They are on the client's path.
LEMMA BehindOnPath ==
    ASSUME Inv, NEW c \in Clients
    PROVE  Behind(c) \subseteq Path(c)
<1>1. Path(c) \in SUBSET Nodes
  BY PathClosed
<1>2. ASSUME NEW m \in Nodes, Serves(m, c) \/ (\E k \in Path(c) : Serves(m, k))
      PROVE  m \in Path(c)
  <2>1. CASE Serves(m, c)
    BY <2>1, PathClosed DEF Serves
  <2>2. ASSUME NEW k \in Path(c), Serves(m, k) PROVE m \in Path(c)
    <3>1. k \in Nodes /\ Link[k] = m
      BY <1>1, <2>2, Constants DEF Serves
    <3>2. Link[k] # Local
      BY <3>1, TcpAssumption
    <3> QED BY <3>1, <3>2, PathClosed
  <2> QED BY <1>2, <2>1, <2>2
<1> QED BY <1>1, <1>2, BehindLeast

\* A step after which nobody is served who was not before.
LEMMA NoneNew ==
    ASSUME NEW c \in Clients, \A m \in Nodes, x \in Callers : Serves(m, x)' => Serves(m, x)
    PROVE  Behind(c)' \subseteq Behind(c)
<1>1. Behind(c) \in SUBSET Nodes /\ c \in Callers /\ Nodes \subseteq Callers
  BY BehindClosed, Constants
<1>2. \A m \in Nodes : Serves(m, c)' \/ (\E k \in Behind(c) : Serves(m, k)') => m \in Behind(c)
  BY <1>1, BehindClosed
<1> QED BY <1>1, <1>2, NextBehindLeast

LEMMA NextBehindServes ==
    ASSUME NEW c \in Clients, NEW n \in Behind(c)'
    PROVE  \E y \in Callers : Serves(n, y)'
<1> DEFINE T == {m \in Nodes : \E y \in Callers : Serves(m, y)'}
<1>1. \A m \in Nodes : Serves(m, c)' \/ (\E k \in T : Serves(m, k)') => m \in T
  BY Constants
<1>2. T \in SUBSET Nodes
  OBVIOUS
<1>3. Behind(c)' \subseteq T
  <2> HIDE DEF T
  <2> QED BY <1>1, <1>2, NextBehindLeast
<1> QED BY <1>3

\* What Fresher says of one node and one client.
GoodAt(c, n) ==
    /\ pc[n] = "respond" => Good(c, serving[n].who, reply[n])
    /\ pc[n] = "eof" => Good(c, serving[n].who, inbox[serving[n].who])

\* Paths do not change, so what was fresh stays so during a call.
LEMMA FreshKept ==
    ASSUME NEW c \in Clients, NEW t, since'[c] = since[c], Fresh(c, t)
    PROVE  \E n \in Path(c) : t >= since'[c] \/ t > since'[c] - Staleness[n]
BY DEF Fresh

\* A node that does nothing, and whose caller does nothing, keeps a good answer.
LEMMA GoodKept ==
    ASSUME NEW c \in Clients, NEW n \in Nodes, GoodAt(c, n), since'[c] = since[c],
           NEW x, x = serving[n].who, serving'[n].who = x, request'[x] = request[x],
           pc'[n] = pc[n], reply'[n] = reply[n], pc[n] = "eof" => inbox'[x] = inbox[x]
    PROVE  GoodAt(c, n)'
<1>1. CASE pc[n] = "respond"
  BY <1>1, FreshKept DEF GoodAt, Good, Fresh
<1>2. CASE pc[n] = "eof"
  BY <1>2, FreshKept DEF GoodAt, Good, Fresh
<1> QED BY <1>1, <1>2 DEF GoodAt

\* How each step below shows Fresher again.
LEMMA FresherNext ==
    ASSUME Fresher, since' = since, clock' >= clock, clock \in Nat, clock' \in Nat, faults' = 0 => faults = 0,
           \A c \in Clients : faults = 0 /\ WellNamed(c) =>
             /\ \A n \in Behind(c)' : GoodAt(c, n)'
             /\ result'[c].kind = "status" => Fresh(c, result'[c].time)
    PROVE  Fresher'
<1>1. since' \in [Clients -> Nat] /\ \A c \in Clients : since'[c] <= clock'
  BY DEF Fresher
<1>2. ASSUME NEW c \in Clients, faults' = 0, WellNamed(c)
      PROVE  /\ \A n \in Behind(c)' : GoodAt(c, n)'
             /\ result'[c].kind = "status" => Fresh(c, result[c].time)'
  BY <1>2, FreshKept DEF Fresh
<1> QED BY <1>1, <1>2 DEF Fresher, GoodAt, WellNamed

\* What Fresher and the main invariant say of the nodes behind a client.
LEMMA FresherNow ==
    ASSUME Inv, Fresher, faults = 0, NEW c \in Clients, WellNamed(c)
    PROVE  /\ \A n \in Behind(c) : GoodAt(c, n)
           /\ result[c].kind = "status" => Fresh(c, result[c].time)
           /\ since[c] \in Nat /\ since[c] <= clock
BY DEF Fresher, GoodAt

\* Nothing of a call changes.
LEMMA FreshTick == ASSUME Inv, Fresher, Tick \/ UNCHANGED vars PROVE Fresher'
<1>1. /\ UNCHANGED <<pc, serving, reply, request, inbox, result, since, faults>>
      /\ clock' \in Nat /\ clock \in Nat /\ clock' >= clock
  BY DEF Tick, vars, nodeVars, callerVars, bounds, Inv, Shapes
<1>2. ASSUME NEW c \in Clients, faults = 0, WellNamed(c)
      PROVE  /\ \A n \in Behind(c)' : GoodAt(c, n)'
             /\ result'[c].kind = "status" => Fresh(c, result'[c].time)
  <2>1. Behind(c)' \subseteq Behind(c)
    BY <1>1, NoneNew DEF Serves, IsOf
  <2> QED BY <1>1, <1>2, <2>1, FresherNow, BehindClosed, GoodKept
<1> QED BY <1>1, <1>2, FresherNext

\* Nobody serves a caller that is not in a call, or that has not connected yet.
LEMMA IdleUnserved ==
    ASSUME Inv, NEW m \in Nodes, NEW x, Serves(m, x)
    PROVE  at[x] \in {"echo", "answer"} /\ InStep(m, x) /\ x = serving[m].who /\ x \in Callers
<1>1. ~serving[m].gone /\ serving[m].who = x
  BY DEF Serves, IsOf
<1> QED BY <1>1, Types DEF Inv, Wired, InStep

\* A program begins a call: its own has no answer yet.
LEMMA FreshCall == ASSUME Inv, Fresher, NEW d \in Clients, NEW r \in Requests, Call(d, r)
                   PROVE  Fresher'
<1>1. /\ UNCHANGED <<clock, pc, serving, reply, inbox, faults>> /\ at[d] = "idle"
      /\ request' = [request EXCEPT ![d] = r] /\ result' = [result EXCEPT ![d] = Nothing]
      /\ since' = [since EXCEPT ![d] = clock] /\ clock \in Nat
  BY DEF Call, nodeVars, Inv, Shapes
<1>2. since' \in [Clients -> Nat] /\ \A c \in Clients : since'[c] <= clock'
  BY <1>1 DEF Fresher
<1>3. d \in Callers /\ \A x \in Callers : x # d => request'[x] = request[x]
  BY <1>1, Constants DEF Inv, Shapes
<1>4. ASSUME NEW c \in Clients, faults = 0, WellNamed(c)
      PROVE  /\ \A n \in Behind(c)' : GoodAt(c, n)'
             /\ result'[c].kind = "status" => Fresh(c, result[c].time)'
  <2>1. Behind(c)' \subseteq Behind(c)
    BY <1>1, NoneNew DEF Serves, IsOf
  <2>2. CASE c = d
    <3>1. \A m \in Nodes : ~Serves(m, d)
      BY <1>1, IdleUnserved
    <3>2. Behind(c) \subseteq {}
      <4>1. \A m \in Nodes : Serves(m, c) \/ (\E k \in {} : Serves(m, k)) => m \in {}
        BY <2>2, <3>1
      <4>2. {} \in SUBSET Nodes
        OBVIOUS
      <4> QED BY <4>1, <4>2, BehindLeast
    <3>3. result'[c].kind # "status"
      BY <1>1, <2>2, Kinds DEF Inv, Shapes
    <3> QED BY <2>1, <3>2, <3>3
  <2>3. CASE c # d
    <3>1. since'[c] = since[c] /\ result'[c] = result[c]
      BY <1>1, <2>3 DEF Fresher, Inv, Shapes
    <3>2. ASSUME NEW n \in Behind(c)' PROVE GoodAt(c, n)'
      <4>1. n \in Behind(c)
        BY <2>1
      <4>2. PICK x : x = serving[n].who
        OBVIOUS
      <4>3. n \in Nodes /\ Serves(n, x) /\ GoodAt(c, n)
        BY <1>4, <4>1, <4>2, BehindServes, FresherNow
      <4>4. x # d /\ x \in Callers
        BY <1>1, <4>3, IdleUnserved
      <4>5. request'[x] = request[x]
        BY <1>3, <4>4
      <4> QED BY <1>1, <3>1, <4>2, <4>3, <4>5, GoodKept
    <3> QED BY <1>4, <3>1, <3>2, FresherNow, FreshKept DEF Fresh
  <2> QED BY <2>2, <2>3
<1> QED BY <1>1, <1>2, <1>4 DEF Fresher, GoodAt, WellNamed

\* A caller that connects, or sends its message, is not answered yet.
LEMMA FreshSend ==
    ASSUME Inv, Fresher, NEW x \in Callers, Connect(x) \/ SendMessage(x)
    PROVE  Fresher'
<1>1. /\ UNCHANGED <<clock, pc, reply, request, result, since, faults>> /\ clock \in Nat
      /\ at[x] # "answer"
  BY DEF Connect, SendMessage, bounds, Inv, Shapes
<1>2. /\ \A m \in Nodes : serving'[m].who = serving[m].who /\ (~serving'[m].gone => ~serving[m].gone)
      /\ \A y \in Callers : y # x => inbox'[y] = inbox[y]
  <2>1. CASE Connect(x)
    BY <2>1 DEF Connect
  <2>2. CASE SendMessage(x)
    <3>1. \A y \in Callers : y # x => inbox'[y] = inbox[y]
      BY <2>2 DEF SendMessage, Inv, Shapes
    <3>2. Dest[x] \in Nodes
      BY <2>2 DEF SendMessage, Inv, Sensible
    <3>3. ASSUME NEW m \in Nodes
          PROVE  serving'[m].who = serving[m].who /\ (~serving'[m].gone => ~serving[m].gone)
      <4>1. serving'[m] = serving[m] \/
            (~serving[m].gone /\ serving'[m] = [serving[m] EXCEPT !.sent = request[x]])
        BY <2>2, <3>2 DEF SendMessage, OnConnection, IsOf, Inv, Shapes
      <4>2. ~serving[m].gone => serving[m] \in Connections
        BY Types
      <4> QED BY <4>1, <4>2 DEF Connections
    <3> QED BY <3>1, <3>3
  <2> QED BY <2>1, <2>2
<1>3. ASSUME NEW c \in Clients, faults = 0, WellNamed(c)
      PROVE  /\ \A n \in Behind(c)' : GoodAt(c, n)'
             /\ result'[c].kind = "status" => Fresh(c, result'[c].time)
  <2>1. Behind(c)' \subseteq Behind(c)
    BY <1>2, NoneNew DEF Serves, IsOf
  <2>2. ASSUME NEW n \in Behind(c)' PROVE GoodAt(c, n)'
    <3>1. n \in Behind(c)
      BY <2>1
    <3>2. PICK y : y = serving[n].who
      OBVIOUS
    <3>3. n \in Nodes /\ y \in Callers /\ InStep(n, y) /\ GoodAt(c, n)
      BY <1>3, <3>1, <3>2, BehindServes, FresherNow
    <3>4. pc[n] = "eof" => inbox'[y] = inbox[y]
      BY <1>1, <1>2, <3>3 DEF InStep
    <3> QED BY <1>1, <1>2, <3>2, <3>3, <3>4, GoodKept
  <2> QED BY <1>1, <1>3, <2>2, FresherNow
<1> QED BY <1>1, <1>3, FresherNext

\* Without a fault no call fails, and no node is down.
LEMMA FreshFails ==
    ASSUME Inv, Fresher, NEW x \in Callers, CallFails(x)
    PROVE  Fresher'
<1>1. /\ UNCHANGED <<clock, since, faults>> /\ clock \in Nat
      /\ \/ at[x] = "connect" /\ ~Listening(Dest[x])
         \/ at[x] \in {"echo", "answer"} /\ ~Connected(x)
  BY DEF CallFails, bounds, Inv, Shapes
<1>2. at[x] = "connect" => Dest[x] \in Nodes
  BY DEF Inv, Sensible
<1>3. faults # 0
  BY <1>1, <1>2 DEF Listening, Inv, Faultless
<1> QED BY <1>1, <1>3, FresherNext

LEMMA FreshFault ==
    ASSUME Inv, Fresher, NEW n \in Nodes, Notify(n) \/ Crash(n) \/ Quit(n) \/ Restart(n)
    PROVE  Fresher'
<1>1. UNCHANGED <<clock, since>> /\ clock \in Nat /\ faults \in Nat
  BY DEF Notify, Crash, Quit, Restart, callerVars, Inv, Shapes
<1>2. faults' # 0
  <2>1. CASE Notify(n) \/ Crash(n)
    BY <1>1, <2>1 DEF Notify, Crash
  <2>2. CASE Quit(n) \/ Restart(n)
    BY <2>2 DEF Quit, Restart, bounds, Inv, Faultless
  <2> QED BY <2>1, <2>2
<1> QED BY <1>1, <1>2 DEF Fresher

\* A caller that closes its side is not served any more.
LEMMA DisconnectUnserved ==
    ASSUME Inv, NEW x \in Callers, Dest[x] \in Nodes, disconnect(x)
    PROVE  \A m \in Nodes : \A y \in Callers :
              Serves(m, y)' => Serves(m, y) /\ y # x /\ serving'[m].who = serving[m].who
<1>1. \A n \in Nodes :
                /\ serving'[n].who = serving[n].who
                /\ serving'[n].gone <=> serving[n].gone \/ (n = Dest[x] /\ serving[n].who = x)
  BY DisconnectEffect DEF Inv
<1> QED BY <1>1 DEF Serves, IsOf

\* A program is killed.
LEMMA FreshLeave == ASSUME Inv, Fresher, NEW d \in Clients, Leave(d) PROVE Fresher'
<1>1. /\ UNCHANGED <<clock, pc, reply, result, since, faults>> /\ clock \in Nat
      /\ disconnect(d) /\ Dest[d] \in Nodes /\ d \in Callers
  BY Constants DEF Leave, bounds, Inv, Shapes
<1>2. \A y \in Callers : y # d => inbox'[y] = inbox[y] /\ request'[y] = request[y]
  BY DEF Leave, Inv, Shapes
<1>3. ASSUME NEW c \in Clients, faults = 0, WellNamed(c)
      PROVE  /\ \A n \in Behind(c)' : GoodAt(c, n)'
             /\ result'[c].kind = "status" => Fresh(c, result'[c].time)
  <2>1. Behind(c)' \subseteq Behind(c)
    BY <1>1, DisconnectUnserved, NoneNew
  <2>2. ASSUME NEW n \in Behind(c)' PROVE GoodAt(c, n)'
    <3>1. n \in Behind(c)
      BY <2>1
    <3>2. PICK y : y = serving[n].who
      OBVIOUS
    <3>3. n \in Nodes /\ y \in Callers /\ GoodAt(c, n)
      BY <1>3, <3>1, <3>2, BehindServes, FresherNow
    <3>4. serving'[n].who = y /\ y # d
      <4>1. \E z \in Callers : Serves(n, z)'
        BY <2>2, NextBehindServes
      <4> QED BY <1>1, <3>2, <3>3, <4>1, DisconnectUnserved DEF Serves, IsOf
    <3> QED BY <1>1, <1>2, <3>2, <3>3, <3>4, GoodKept
  <2> QED BY <1>1, <1>3, <2>2, FresherNow
<1> QED BY <1>1, <1>3, FresherNext

\* The answer of a call is read: the node that gave it is behind the same client,
\* and what it gave was good.
LEMMA FreshRead == ASSUME Inv, Fresher, NEW x \in Callers, ReadAnswer(x) PROVE Fresher'
<1>1. /\ UNCHANGED <<clock, request, since, faults>> /\ clock \in Nat
      /\ at[x] = "answer" /\ inbox[x] # Nothing /\ disconnect(x) /\ Returned(x, inbox[x])
      /\ \A y \in Callers : y # x => inbox'[y] = inbox[y]
  BY DEF ReadAnswer, bounds, Inv, Shapes
<1>2. Dest[x] \in Nodes
  BY <1>1 DEF Inv, Sensible
<1>3. /\ x \in Clients => UNCHANGED <<pc, reply>> /\ result' = [result EXCEPT ![x] = inbox[x]]
      /\ x \notin Clients => UNCHANGED result
  BY <1>1 DEF Returned
<1>4. \A n \in Nodes : n # x => pc'[n] = pc[n] /\ reply'[n] = reply[n]
  BY <1>1 DEF Returned, Inv, Shapes
<1>5. ASSUME NEW c \in Clients, faults = 0, WellNamed(c)
      PROVE  /\ \A n \in Behind(c)' : GoodAt(c, n)'
             /\ result'[c].kind = "status" => Fresh(c, result'[c].time)
  <2>0. /\ \A n \in Behind(c) : GoodAt(c, n)
        /\ result[c].kind = "status" => Fresh(c, result[c].time)
    BY <1>5, FresherNow
  <2>1. Behind(c)' \subseteq Behind(c)
    BY <1>1, <1>2, DisconnectUnserved, NoneNew
  <2>2. PICK d \in Nodes : d = Dest[x]
    BY <1>2
  <2>3. Serves(d, x) /\ serving[d].who = x /\ pc[d] = "eof"
    <3>1. Connected(x)
      BY <1>1, <1>5 DEF Inv, Faultless
    <3>2. ASSUME NEW i \in DOMAIN backlog[d], IsOf(backlog[d][i], x) PROVE FALSE
      BY <1>1, <3>2 DEF Inv, Wired, Waiting, Live, IsOf
    <3>3. Serves(d, x)
      BY <2>2, <3>1, <3>2 DEF Connected, Serves
    <3>4. InStep(d, x) /\ serving[d].who = x
      BY <3>3, IdleUnserved
    <3> QED BY <1>1, <3>3, <3>4 DEF InStep
  <2>4. x = c \/ x \in Behind(c) => Good(c, x, inbox[x])
    <3>1. x = c \/ x \in Behind(c) => d \in Behind(c)
      BY <2>3, BehindClosed
    <3> QED BY <2>0, <2>3, <3>1 DEF GoodAt
  <2>5. result'[c].kind = "status" => Fresh(c, result'[c].time)
    <3>1. CASE x = c
      <4>1. result'[c] = inbox[c]
        BY <1>3, <3>1 DEF Inv, Shapes
      <4> QED BY <2>4, <3>1, <4>1 DEF Good
    <3>2. CASE x # c
      <4>1. result'[c] = result[c]
        BY <1>3, <3>2 DEF Inv, Shapes
      <4> QED BY <2>0, <4>1
    <3> QED BY <3>1, <3>2
  <2>6. ASSUME NEW n \in Behind(c)' PROVE GoodAt(c, n)'
    <3>1. n \in Behind(c) /\ GoodAt(c, n)
      BY <2>0, <2>1
    <3>2. PICK y : y = serving[n].who
      OBVIOUS
    <3>3. n \in Nodes /\ y \in Callers /\ InStep(n, y)
      BY <3>1, <3>2, BehindServes
    <3>4. serving'[n].who = y /\ y # x
      <4>1. \E z \in Callers : Serves(n, z)'
        BY <2>6, NextBehindServes
      <4> QED BY <1>1, <1>2, <3>2, <3>3, <4>1, DisconnectUnserved DEF Serves, IsOf
    <3>5. CASE n # x
      <4>1. pc'[n] = pc[n] /\ reply'[n] = reply[n] /\ inbox'[y] = inbox[y] /\ request'[y] = request[y]
        BY <1>1, <1>4, <3>3, <3>4, <3>5
      <4> QED BY <1>1, <3>1, <3>2, <3>3, <3>4, <4>1, GoodKept
    <3>6. CASE n = x
      <4>1. x \notin Clients /\ x \in Nodes /\ pc[x] = "forward" /\ request[x] = request[y]
        BY <1>1, <3>3, <3>6, Constants DEF InStep, Inv, Sensible
      <4>2. Good(c, x, inbox[x])
        BY <2>4, <3>1, <3>6
      <4>3. /\ pc'[x] = "respond"
            /\ request[x].kind = "schedule" => \E v : reply'[x] = Response(v)
            /\ request[x].kind # "schedule" /\ inbox[x].kind = "status" => reply'[x] = Status(inbox[x].time)
        BY <1>1, <4>1 DEF Returned, Inv, Shapes
      <4>4. request'[y].kind = "schedule" => reply'[x].kind # "status"
        BY <1>1, <4>1, <4>3, Kinds
      <4>5. request'[y].kind # "schedule" => reply'[x].kind = "status" /\ Fresh(c, reply[x].time)'
        <5> SUFFICES ASSUME request'[y].kind # "schedule"
                     PROVE  reply'[x].kind = "status" /\ Fresh(c, reply[x].time)'
          OBVIOUS
        <5>1. inbox[x].kind = "status" /\ Fresh(c, inbox[x].time)
          BY <1>1, <4>1, <4>2 DEF Good
        <5>2. reply'[x].kind = "status" /\ reply'[x].time = inbox[x].time
          BY <1>1, <4>1, <4>3, <5>1, Kinds
        <5> QED BY <1>1, <5>1, <5>2, FreshKept DEF Fresh
      <4> QED BY <3>4, <3>6, <4>3, <4>4, <4>5 DEF GoodAt, Good
    <3> QED BY <3>5, <3>6
  <2> QED BY <2>5, <2>6
<1> QED BY <1>1, <1>5, FresherNext

\* A step of a node that is in no call of its own matters to its caller only.
LEMMA FreshWork ==
    ASSUME Inv, Fresher, NEW n \in Nodes, at[n] = "idle",
           UNCHANGED <<clock, serving, result, since, faults>>,
           \A m \in Nodes : m # n => pc'[m] = pc[m] /\ reply'[m] = reply[m],
           \A y \in Callers : y # n => request'[y] = request[y],
           \A y \in Callers : Dest[y] # n => inbox'[y] = inbox[y],
           \A c \in Clients : faults = 0 /\ WellNamed(c) /\ n \in Behind(c) => GoodAt(c, n)'
    PROVE  Fresher'
<1>1. clock \in Nat
  BY DEF Inv, Shapes
<1>2. ASSUME NEW c \in Clients, faults = 0, WellNamed(c)
      PROVE  /\ \A m \in Behind(c)' : GoodAt(c, m)'
             /\ result'[c].kind = "status" => Fresh(c, result'[c].time)
  <2>1. Behind(c)' \subseteq Behind(c)
    BY NoneNew DEF Serves
  <2>2. ASSUME NEW m \in Behind(c)', m # n PROVE GoodAt(c, m)'
    <3>1. m \in Behind(c)
      BY <2>1
    <3>2. PICK y : y = serving[m].who
      OBVIOUS
    <3>3. m \in Nodes /\ y \in Callers /\ Serves(m, y) /\ GoodAt(c, m)
      BY <1>2, <3>1, <3>2, BehindServes, FresherNow
    <3>4. Dest[y] = m /\ y # n
      BY <3>3, IdleUnserved DEF Serves
    <3>5. pc'[m] = pc[m] /\ reply'[m] = reply[m] /\ request'[y] = request[y] /\ inbox'[y] = inbox[y]
      BY <2>2, <3>3, <3>4
    <3>6. serving'[m].who = y /\ since'[c] = since[c]
      BY <3>2
    <3> QED BY <3>2, <3>3, <3>5, <3>6, GoodKept
  <2> QED BY <1>2, <2>1, <2>2, FresherNow
<1> QED BY <1>1, <1>2, FresherNext

\* The caller of a node that has read a message asked what the message says.
LEMMA AskedFor ==
    ASSUME Inv, NEW c \in Clients, NEW n \in Behind(c), Handles(n, serving[n].sent)
    PROVE  serving[n].sent = request[serving[n].who]
BY BehindServes DEF InStep, Handles

\* A name that is not known is not asked for by those who are well named.
LEMMA FreshUnknown == ASSUME Inv, Fresher, NEW n \in Nodes, HandleUnknown(n) PROVE Fresher'
<1>1. /\ UNCHANGED <<clock, serving, request, inbox, result, since, faults>>
      /\ serving[n].who \in Misnamed /\ pc[n] = "msg"
      /\ \A m \in Nodes : m # n => pc'[m] = pc[m] /\ reply'[m] = reply[m]
  BY DEF HandleUnknown, Handles, callerVars, bounds, Inv, Shapes
<1>2. at[n] = "idle"
  BY <1>1 DEF Inv, Sensible
<1>3. ASSUME NEW c \in Clients, WellNamed(c), n \in Behind(c) PROVE FALSE
  <2>1. serving[n].who = c \/ serving[n].who \in Path(c)
    BY <1>3, BehindServes, BehindOnPath
  <2> QED BY <1>1, <1>3, <2>1 DEF WellNamed
<1> QED BY <1>1, <1>2, <1>3, FreshWork

\* A status that is new, or not stale, is fresh.
LEMMA NotStaleFresh ==
    ASSUME Inv, Fresher, NEW c \in Clients, NEW n \in Behind(c), ~Stale(n)
    PROVE  Fresh(c, status[n])
<1>1. n \in Path(c) /\ n \in Nodes
  BY BehindOnPath, BehindClosed
<1>2. /\ clock \in Nat /\ status[n] \in Nat /\ Staleness[n] \in Nat
      /\ since[c] \in Nat /\ since[c] <= clock
  BY <1>1, TcpAssumption DEF Inv, Shapes, Fresher
<1>3. status[n] > since[c] - Staleness[n]
  BY <1>2 DEF Stale
<1> QED BY <1>1, <1>3 DEF Fresh

LEMMA NowFresh ==
    ASSUME Inv, Fresher, NEW c \in Clients, NEW n \in Behind(c)
    PROVE  Fresh(c, clock)
BY BehindOnPath DEF Fresh, Fresher, Inv, Shapes

\* The battery is here: the answer is read off it, renewed when it was stale.
LEMMA FreshHere ==
    ASSUME Inv, Fresher, NEW n \in Nodes, HandleHere(n, serving[n].sent)
    PROVE  Fresher'
<1> DEFINE m == serving[n].sent
<1>1. /\ UNCHANGED <<clock, serving, request, inbox, result, since, faults>>
      /\ Handles(n, m) /\ pc[n] = "msg" /\ pc'[n] = "respond"
      /\ \A k \in Nodes : k # n => pc'[k] = pc[k] /\ reply'[k] = reply[k]
      /\ m.kind = "schedule" => \E v : reply'[n] = Response(v)
      /\ m.kind # "schedule" => \E t : /\ reply'[n] = Status(t)
                                       /\ (Stale(n) /\ t = clock) \/ (~Stale(n) /\ t = status[n])
  BY DEF HandleHere, Handles, callerVars, bounds, Inv, Shapes
<1>2. at[n] = "idle"
  BY <1>1 DEF Inv, Sensible
<1>3. ASSUME NEW c \in Clients, n \in Behind(c) PROVE GoodAt(c, n)'
  <2>1. PICK x : x = serving[n].who
    OBVIOUS
  <2>2. m = request[x] /\ request'[x] = request[x] /\ serving'[n].who = x
    BY <1>1, <1>3, <2>1, AskedFor
  <2>3. request'[x].kind = "schedule" => reply'[n].kind # "status"
    BY <1>1, <2>2, Kinds
  <2>4. request'[x].kind # "schedule" => reply'[n].kind = "status" /\ Fresh(c, reply'[n].time)
    BY <1>1, <1>3, <2>2, Kinds, NotStaleFresh, NowFresh
  <2>5. Fresh(c, reply'[n].time) => Fresh(c, reply[n].time)'
    BY <1>1 DEF Fresh
  <2> QED BY <1>1, <2>2, <2>3, <2>4, <2>5 DEF GoodAt, Good
<1> QED BY <1>1, <1>2, <1>3, FreshWork

\* The battery is elsewhere: a status that is not stale is given out, everything
\* else is asked for and not answered yet.
LEMMA FreshThere ==
    ASSUME Inv, Fresher, NEW n \in Nodes, HandleThere(n, serving[n].sent)
    PROVE  Fresher'
<1> DEFINE m == serving[n].sent
<1>1. /\ UNCHANGED <<clock, serving, inbox, result, since, faults>>
      /\ Handles(n, m) /\ pc[n] = "msg"
      /\ \A k \in Nodes : k # n => pc'[k] = pc[k] /\ reply'[k] = reply[k]
      /\ \A y \in Callers : y # n => request'[y] = request[y]
      /\ \/ pc'[n] = "forward"
         \/ /\ pc'[n] = "respond" /\ m.kind # "schedule" /\ ~Stale(n) /\ reply'[n] = Status(status[n])
            /\ request' = request
  BY DEF HandleThere, Handles, bounds, Inv, Shapes
<1>2. at[n] = "idle"
  BY <1>1 DEF Inv, Sensible
<1>3. ASSUME NEW c \in Clients, n \in Behind(c) PROVE GoodAt(c, n)'
  <2>1. CASE pc'[n] = "forward"
    BY <2>1 DEF GoodAt
  <2>2. CASE pc'[n] # "forward"
    <3>1. PICK x : x = serving[n].who
      OBVIOUS
    <3>2. m = request[x] /\ request'[x] = request[x] /\ serving'[n].who = x
      BY <1>1, <1>3, <2>2, <3>1, AskedFor
    <3>3. /\ pc'[n] = "respond" /\ request'[x].kind # "schedule"
          /\ reply'[n].kind = "status" /\ reply'[n].time = status[n]
      BY <1>1, <2>2, <3>2, Kinds
    <3>4. Fresh(c, status[n])
      BY <1>1, <1>3, <2>2, NotStaleFresh
    <3>5. Fresh(c, reply[n].time)'
      BY <1>1, <3>3, <3>4 DEF Fresh
    <3> QED BY <3>2, <3>3, <3>5 DEF GoodAt, Good
  <2> QED BY <2>1, <2>2
<1> QED BY <1>1, <1>2, <1>3, FreshWork

\* The answer goes to the caller as it is.
LEMMA FreshRespond == ASSUME Inv, Fresher, NEW n \in Nodes, Respond(n) PROVE Fresher'
<1>1. /\ UNCHANGED <<clock, serving, at, result, since, faults>>
      /\ pc[n] = "respond" /\ pc'[n] = "eof" /\ Deliver(serving[n], reply[n])
      /\ \A k \in Nodes : k # n => pc'[k] = pc[k] /\ reply'[k] = reply[k]
      /\ \A y \in Callers : y # n => request'[y] = request[y]
  BY DEF Respond, bounds, Inv, Shapes
<1>2. at[n] = "idle"
  BY <1>1 DEF Inv, Sensible
<1>3. ~serving[n].gone => InStep(n, serving[n].who)
  BY DEF Inv, Wired
<1>4. \A y \in Callers : Dest[y] # n => inbox'[y] = inbox[y]
  BY <1>1, <1>3 DEF Deliver, InStep, Inv, Shapes
<1>5. ASSUME NEW c \in Clients, faults = 0, WellNamed(c), n \in Behind(c) PROVE GoodAt(c, n)'
  <2>1. PICK x : x = serving[n].who
    OBVIOUS
  <2>2. x \in Callers /\ ~serving[n].gone /\ Serves(n, x)
    BY <1>5, <2>1, BehindServes
  <2>3. x # n
    BY <1>2, <2>2, IdleUnserved
  <2>4. inbox'[x] = reply[n] /\ request'[x] = request[x] /\ serving'[n].who = x
    BY <1>1, <2>1, <2>2, <2>3 DEF Deliver, Inv, Shapes
  <2>5. Good(c, x, reply[n])
    BY <1>1, <1>5, <2>1, FresherNow DEF GoodAt
  <2>6. Fresh(c, reply[n].time) => Fresh(c, inbox[x].time)'
    BY <1>1, <2>4 DEF Fresh
  <2> QED BY <1>1, <2>4, <2>5, <2>6 DEF GoodAt, Good
<1> QED BY <1>1, <1>2, <1>4, <1>5, FreshWork

\* A connection that is gone is dropped.
LEMMA FreshClosed == ASSUME Inv, Fresher, NEW n \in Nodes, Closed(n) PROVE Fresher'
<1>1. /\ UNCHANGED <<clock, reply, request, inbox, result, since, faults>> /\ clock \in Nat
      /\ serving'[n] = NoConnection
      /\ \A m \in Nodes : m # n => pc'[m] = pc[m] /\ serving'[m] = serving[m]
  BY DEF Closed, callerVars, bounds, Inv, Shapes
<1>2. ASSUME NEW m \in Nodes, NEW y \in Callers, Serves(m, y)' PROVE m # n /\ Serves(m, y)
  BY <1>1, <1>2, Kinds DEF Serves, IsOf
<1>3. ASSUME NEW c \in Clients, faults = 0, WellNamed(c)
      PROVE  /\ \A m \in Behind(c)' : GoodAt(c, m)'
             /\ result'[c].kind = "status" => Fresh(c, result'[c].time)
  <2>1. Behind(c)' \subseteq Behind(c)
    BY <1>2, NoneNew
  <2>2. ASSUME NEW m \in Behind(c)' PROVE GoodAt(c, m)'
    <3>1. m \in Nodes /\ m \in Behind(c) /\ GoodAt(c, m)
      BY <1>3, <2>1, BehindClosed, FresherNow
    <3>2. m # n
      BY <1>2, <3>1, NextBehindServes
    <3> QED BY <1>1, <3>1, <3>2, GoodKept
  <2> QED BY <1>1, <1>3, <2>2, FresherNow
<1> QED BY <1>1, <1>3, FresherNext

\* A connection is accepted: one more node is at work, and has no answer yet.
LEMMA FreshAccept == ASSUME Inv, Fresher, NEW n \in Nodes, Accept(n) PROVE Fresher'
<1>1. /\ UNCHANGED <<clock, reply, at, request, result, since, faults>> /\ clock \in Nat
      /\ pc[n] = "accept" /\ pc'[n] = "msg" /\ backlog[n] # <<>> /\ Deliver(serving'[n], Echo)
      /\ serving'[n] = [Head(backlog[n]) EXCEPT !.sent = Nothing]
      /\ \A m \in Nodes : m # n => pc'[m] = pc[m] /\ serving'[m] = serving[m]
  BY DEF Accept, bounds, Inv, Shapes
<1>2. at[n] = "idle" /\ n \in Callers
  BY <1>1, Constants DEF Inv, Sensible
<1>3. ~serving'[n].gone => /\ serving'[n].who \in Callers /\ at[serving'[n].who] = "echo"
                           /\ Dest[serving'[n].who] = n
  <2>1. backlog[n] \in Seq(Connections)
    BY DEF Inv, Shapes
  <2>2. 1 \in DOMAIN backlog[n] /\ Head(backlog[n]) = backlog[n][1] /\ backlog[n][1] \in Connections
    BY <1>1, <2>1
  <2>3. serving'[n].who = backlog[n][1].who /\ serving'[n].gone = backlog[n][1].gone
    BY <1>1, <2>2 DEF Connections
  <2>4. backlog[n][1].who \in Callers
    BY <2>2 DEF Connections
  <2> QED BY <2>2, <2>3, <2>4 DEF Inv, Wired, Waiting, Live
<1>4. \A y \in Callers : at[y] = "answer" => inbox'[y] = inbox[y]
  BY <1>1, <1>3 DEF Deliver, Inv, Shapes
<1>5. ASSUME NEW c \in Clients, faults = 0, WellNamed(c)
      PROVE  /\ \A m \in Behind(c)' : GoodAt(c, m)'
             /\ result'[c].kind = "status" => Fresh(c, result'[c].time)
  <2>1. Behind(c)' \subseteq Behind(c) \cup {n}
    <3>1. Behind(c) \cup {n} \in SUBSET Nodes
      BY BehindClosed
    <3>2. \A m \in Nodes : ~Serves(m, n)'
      BY <1>1, <1>2, <1>3, IdleUnserved DEF Serves, IsOf
    <3>3. \A m \in Nodes, y \in Callers : Serves(m, y)' => m = n \/ Serves(m, y)
      BY <1>1 DEF Serves
    <3>4. \A m \in Nodes : Serves(m, c)' \/ (\E k \in Behind(c) \cup {n} : Serves(m, k)') => m \in Behind(c) \cup {n}
      BY <3>1, <3>2, <3>3, BehindClosed, Constants
    <3> QED BY <3>1, <3>4, NextBehindLeast
  <2>2. ASSUME NEW m \in Behind(c)' PROVE GoodAt(c, m)'
    <3>1. CASE m = n
      BY <1>1, <3>1 DEF GoodAt
    <3>2. CASE m # n
      <4>1. PICK y : y = serving[m].who
        OBVIOUS
      <4>2. m \in Nodes /\ y \in Callers /\ InStep(m, y) /\ GoodAt(c, m)
        BY <1>5, <2>1, <3>2, <4>1, BehindServes, FresherNow
      <4>3. pc[m] = "eof" => inbox'[y] = inbox[y]
        BY <1>4, <4>2 DEF InStep
      <4>4. pc'[m] = pc[m] /\ reply'[m] = reply[m] /\ serving'[m].who = y /\ request'[y] = request[y]
        BY <1>1, <3>2, <4>1, <4>2
      <4> QED BY <1>1, <4>1, <4>2, <4>3, <4>4, GoodKept
    <3> QED BY <3>1, <3>2
  <2> QED BY <1>1, <1>5, <2>2, FresherNow
<1> QED BY <1>1, <1>5, FresherNext

-----------------------------------------------------------------------------
\* Nobody has called yet.
LEMMA FreshInit == Init => Fresher
<1> SUFFICES ASSUME Init PROVE Fresher
  OBVIOUS
<1>1. /\ since = [c \in Clients |-> 0] /\ clock = 1 /\ result = [c \in Clients |-> Nothing]
      /\ pc = [n \in Nodes |-> "accept"]
  BY DEF Init
<1>2. since \in [Clients -> Nat] /\ \A c \in Clients : since[c] <= clock
  BY <1>1
<1>3. \A c \in Clients : result[c].kind # "status"
  BY <1>1, Kinds
<1>4. \A c \in Clients : \A n \in Behind(c) : pc[n] = "accept"
  BY <1>1, BehindClosed
<1> QED BY <1>2, <1>3, <1>4 DEF Fresher

LEMMA FreshNext == ASSUME Inv, Fresher, [Next]_vars PROVE Fresher'
<1>1. CASE Tick \/ UNCHANGED vars
  BY <1>1, FreshTick
<1>2. ASSUME NEW x \in Callers, Proceed(x) PROVE Fresher'
  BY <1>2, FreshSend, FreshRead, FreshFails DEF Proceed
<1>3. ASSUME NEW c \in Clients, Leave(c) \/ \E r \in Requests : Call(c, r) PROVE Fresher'
  BY <1>3, FreshLeave, FreshCall
<1>4. ASSUME NEW n \in Nodes, Work(n) PROVE Fresher'
  <2>1. CASE Accept(n) \/ Closed(n) \/ Respond(n) \/ Quit(n) \/ HandleUnknown(n)
    BY <2>1, FreshAccept, FreshClosed, FreshRespond, FreshFault, FreshUnknown
  <2>2. CASE HandleHere(n, serving[n].sent) \/ HandleThere(n, serving[n].sent)
    BY <2>2, FreshHere, FreshThere
  <2> QED BY <1>4, <2>1, <2>2 DEF Work
<1>5. ASSUME NEW n \in Nodes, Notify(n) \/ Crash(n) \/ Restart(n) PROVE Fresher'
  BY <1>5, FreshFault
<1> QED BY <1>1, <1>2, <1>3, <1>4, <1>5 DEF Next

\* Version 2 over TCP, for chains of remote batteries of every length and shape: as
\* long as no node fails, a status that a call returns is not older than the one
\* laziest node on its way allows.  max_staleness does not add up along a chain,
\* however the calls of several programs meet on it
\* (check_staleness_and_refresh, RemoteBattery::refresh, handle_battery_msg).
THEOREM ChainsStayFresh == Spec => []FreshEnough
<1>1. Inv /\ Fresher => FreshEnough
  BY DEF Fresher, FreshEnough
<1>2. Init => Inv /\ Fresher
  BY InitInv, FreshInit
<1>3. Inv /\ Fresher /\ [Next]_vars => (Inv /\ Fresher)'
  BY NextInv, FreshNext
<1> QED BY <1>1, <1>2, <1>3, PTL DEF Spec
=============================================================================
