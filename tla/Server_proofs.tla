---------------------------- MODULE Server_proofs ----------------------------
(***************************************************************************)
(* Proofs about Server, for every set of clients, targets and creations.   *)
(***************************************************************************)
EXTENDS Server, FiniteSetTheorems, WellFoundedInduction, TLAPS

-----------------------------------------------------------------------------
(***************************************************************************)
(* Sequences, positions and constants.                                     *)
(***************************************************************************)
\* The next handler of a round is one of the round.
LEMMA Least ==
    ASSUME NEW T, T \subseteq Nat, T # {}
    PROVE  Min(T) \in T
<1> DEFINE R == OpToRel(<, Nat)
<1>1. IsWellFoundedOn(R, Nat)
  BY NatLessThanWellFounded
<1>2. \A n, m \in Nat : <<m, n>> \in R <=> m < n
  BY DEF OpToRel
<1> HIDE DEF R
<1>3. PICK n \in T : \A m \in T : <<m, n>> \notin R
  BY <1>1, WFMin
<1>4. ASSUME NEW m \in T PROVE n <= m
  <2>1. n \in Nat /\ m \in Nat
    OBVIOUS
  <2>2. <<m, n>> \notin R
    BY <1>3
  <2>3. ~(m < n)
    BY <1>2, <2>1, <2>2
  <2> QED BY <2>1, <2>3
<1> QED BY <1>4 DEF Min

LEMMA TailIs ==
    ASSUME NEW S, NEW s \in Seq(S), s # << >>
    PROVE  /\ Tail(s) \in Seq(S) /\ Head(s) = s[1] /\ Head(s) \in S /\ 1 \in DOMAIN s
           /\ DOMAIN s = 1 .. Len(s) /\ Len(s) \in Nat
           /\ \A i : i \in DOMAIN Tail(s) <=> i \in Nat /\ i # 0 /\ i + 1 \in DOMAIN s
           /\ \A i \in DOMAIN Tail(s) : i \in Nat /\ i + 1 \in DOMAIN s /\ Tail(s)[i] = s[i + 1]
OBVIOUS

LEMMA AppendIs ==
    ASSUME NEW S, NEW s \in Seq(S), NEW x \in S
    PROVE  /\ Append(s, x) \in Seq(S) /\ Len(s) \in Nat /\ Len(s) + 1 \in DOMAIN Append(s, x)
           /\ Append(s, x)[Len(s) + 1] = x
           /\ \A i \in DOMAIN s : i \in DOMAIN Append(s, x) /\ Append(s, x)[i] = s[i]
           /\ \A i \in DOMAIN Append(s, x) : i \in DOMAIN s \/ i = Len(s) + 1
           /\ Len(s) + 1 \notin DOMAIN s
OBVIOUS

LEMMA ConcatIs ==
    ASSUME NEW S, NEW s \in Seq(S), NEW t \in Seq(S)
    PROVE  /\ s \o t \in Seq(S) /\ DOMAIN (s \o t) = 1 .. Len(s) + Len(t)
           /\ \A i \in 1 .. Len(s) + Len(t) : (s \o t)[i] = IF i <= Len(s) THEN s[i] ELSE t[i - Len(s)]
OBVIOUS

\* What the proofs use of the constants.
LEMMA Constants ==
    \A q \in Creations : /\ q.op \in CreateCmds /\ q.names \in Seq(Range(q.names))
                         /\ \A i, j \in DOMAIN q.names : q.names[i] = q.names[j] => i = j
BY ServerAssumption DEF IsInjective

LEMMA ManagerIs ==
    /\ Len(ManagerNames) \in Nat /\ DOMAIN ManagerNames = 1 .. Len(ManagerNames)
    /\ \A k \in DOMAIN ManagerNames : ManagerNames[k] \in Managers
    /\ \A k, l \in DOMAIN ManagerNames : ManagerNames[k] = ManagerNames[l] => k = l
<1>1. PICK S : S = Range(ManagerNames) /\ ManagerNames \in Seq(S)
  BY ServerAssumption
<1>2. Len(ManagerNames) \in Nat /\ DOMAIN ManagerNames = 1 .. Len(ManagerNames)
  BY <1>1
<1>3. \A k, l \in DOMAIN ManagerNames : ManagerNames[k] = ManagerNames[l] => k = l
  BY ServerAssumption DEF IsInjective
<1> QED BY <1>2, <1>3 DEF Managers, Range

LEMMA ChannelIn ==
    \A c \in Clients : Channel(c) \in Channels
BY DEF Channel, Channels, Targets

-----------------------------------------------------------------------------
(***************************************************************************)
(* Types, queues, pollables and files.                                     *)
(***************************************************************************)
Plain ==
    /\ mode \in Modes
    /\ server \in {"off", "running", "stuck", "dead", "stopped", "nostart"}
    /\ quitPoll \in BOOLEAN /\ ending \in BOOLEAN
    /\ admin \in Channels \cup {None} /\ backlog \subseteq Clients
    /\ client \in [Clients -> {"out", "connecting", "in", "waiting", "gone"}]
    /\ sends \in 0 .. MaxSends /\ starts \in 0 .. MaxStarts
    /\ pManagerCounter \in 1 .. Len(ManagerNames) + 1

Wired == Plain /\ Queued /\ Polled /\ Files

LEMMA WiredTypes == Wired => TypeOK
<1> SUFFICES ASSUME Wired PROVE TypeOK
  OBVIOUS
<1>1. \A p \in Range(pollables) : p.what \in {"listener", "connection"}
  <2>1. pollables \in Seq(PollableSet)
    BY DEF Wired, Polled
  <2>2. \A p \in PollableSet : p.what \in {"listener", "connection"}
    BY DEF PollableSet
  <2> QED BY <2>1, <2>2 DEF Range
<1>2. \A ch \in Channels : \A q \in Range(requests[ch]) : IsRequest(q)
  <2>1. \A ch \in Channels : requests[ch] \in Seq(RequestSet)
    BY DEF Wired, Queued
  <2>2. \A q \in RequestSet : IsRequest(q)
    BY DEF RequestSet, IsRequest, Ops
  <2> QED BY <2>1, <2>2 DEF Range
<1> QED BY <1>1, <1>2 DEF Wired, Plain, Polled, Files, TypeOK

LEMMA WiredInit == Init => Wired
<1> SUFFICES ASSUME Init PROVE Wired
  OBVIOUS
<1>1. Plain
  <2>1. sends \in 0 .. MaxSends /\ starts \in 0 .. MaxStarts
    BY ServerAssumption DEF Init
  <2>2. /\ mode \in Modes /\ quitPoll \in BOOLEAN /\ ending \in BOOLEAN
        /\ server \in {"off", "running", "stuck", "dead", "stopped", "nostart"}
        /\ admin \in Channels \cup {None} /\ backlog \subseteq Clients
    BY DEF Init
  <2>3. client \in [Clients -> {"out", "connecting", "in", "waiting", "gone"}]
    BY DEF Init
  <2>4. pManagerCounter \in 1 .. Len(ManagerNames) + 1
    BY ManagerIs DEF Init
  <2> QED BY <2>1, <2>2, <2>3, <2>4 DEF Plain
<1>2. Queued
  BY DEF Init, Queued
<1>3. Polled
  BY DEF Init, Polled
<1>4. Files
  BY DEF Init, Files
<1> QED BY <1>1, <1>2, <1>3, <1>4 DEF Wired

\* Frames: what one part of the state needs to stay as it is.
LEMMA ModeSame ==
    ASSUME mode' = mode
    PROVE  Channels' = Channels /\ (\A c : Channel(c)' = Channel(c)) /\ PollableSet' = PollableSet
BY DEF Channels, Channel, PollableSet, Targets

LEMMA Senders ==
    ASSUME Queued
    PROVE  /\ \A ch \in Channels : \A i \in DOMAIN requests[ch] : requests[ch][i].from \in Clients
           /\ \A ch \in Channels : \A i \in DOMAIN responses[ch] : responses[ch][i].for \in Clients
<1>1. (\A q \in RequestSet : q.from \in Clients) /\ (\A r \in ResponseSet : r.for \in Clients)
  BY DEF RequestSet, ResponseSet
<1>2. \A ch \in Channels : requests[ch] \in Seq(RequestSet) /\ responses[ch] \in Seq(ResponseSet)
  BY DEF Queued
<1> QED BY <1>1, <1>2

LEMMA QueuedSame ==
    ASSUME Queued, UNCHANGED <<mode, requests, responses>>, \A c \in Clients : Began(c) => Began(c)'
    PROVE  Queued'
<1>1. Channels' = Channels /\ \A c : Channel(c)' = Channel(c)
  BY ModeSame
<1>2. /\ \A ch \in Channels : \A i \in DOMAIN requests[ch] : requests[ch][i].from \in Clients
      /\ \A ch \in Channels : \A i \in DOMAIN responses[ch] : responses[ch][i].for \in Clients
  BY Senders
<1> QED BY <1>1, <1>2 DEF Queued

LEMMA PolledSame ==
    ASSUME Polled, UNCHANGED <<mode, pollables, fifoFiles, idleFd>>, round' \subseteq round,
           \A c \in Clients : Began(c) => Began(c)'
    PROVE  Polled'
<1>1. PollableSet' = PollableSet
  BY ModeSame
<1> QED BY <1>1 DEF Polled

LEMMA FilesSame ==
    ASSUME Files, UNCHANGED <<mode, pollables, fifoFiles, idleFd>>,
           server' = server \/ (server # "off" /\ server' \notin {"off", "running"}),
           server = "off" => client' = client
    PROVE  Files'
<1>1. Channels' = Channels
  BY ModeSame
<1> QED BY <1>1 DEF Files, Listener, Connection

\* A step that leaves queues, pollables and files alone.
LEMMA WiredSame ==
    ASSUME Wired, Plain', UNCHANGED <<mode, requests, responses, pollables, fifoFiles, idleFd>>,
           round' \subseteq round,
           server' = server \/ (server # "off" /\ server' \notin {"off", "running"}),
           server = "off" => client' = client, \A c \in Clients : Began(c) => Began(c)'
    PROVE  Wired'
BY QueuedSame, PolledSame, FilesSame DEF Wired

\* A command is sent.
LEMMA PutQueued ==
    ASSUME Queued, NEW c \in Clients, NEW q \in RequestSet, q.from = c, mode' = mode,
           responses' = responses, \A d \in Clients : Began(d) => Began(d)', Began(c),
           requests' = [requests EXCEPT ![Channel(c)] = Append(@, q)],
           Proper(q)
    PROVE  Queued'
<1>1. Channels' = Channels /\ \A d : Channel(d)' = Channel(d)
  BY ModeSame
<1>2. /\ \A ch \in Channels : \A i \in DOMAIN requests[ch] : requests[ch][i].from \in Clients
      /\ \A ch \in Channels : \A i \in DOMAIN responses[ch] : responses[ch][i].for \in Clients
  BY Senders
<1>3. PICK x : x = Channel(c)
  OBVIOUS
<1>4. x \in Channels /\ requests[x] \in Seq(RequestSet) /\ requests \in [Channels -> Seq(RequestSet)]
  BY <1>3, ChannelIn DEF Queued
<1>5. Append(requests[x], q) \in Seq(RequestSet)
  BY <1>4, AppendIs
<1>6. requests' \in [Channels -> Seq(RequestSet)]
  BY <1>3, <1>4, <1>5
<1>7. ASSUME NEW ch \in Channels, NEW i \in DOMAIN requests'[ch]
      PROVE  \/ i \in DOMAIN requests[ch] /\ requests'[ch][i] = requests[ch][i]
             \/ ch = x /\ requests'[ch][i] = q
  <2>1. CASE ch = x
    <3>1. requests'[ch] = Append(requests[x], q)
      BY <1>3, <1>4, <2>1
    <3>2. i \in DOMAIN requests[x] \/ i = Len(requests[x]) + 1
      BY <1>4, <1>7, <3>1, AppendIs
    <3> QED BY <1>4, <2>1, <3>1, <3>2, AppendIs
  <2>2. CASE ch # x
    BY <1>3, <1>4, <1>7, <2>2
  <2> QED BY <2>1, <2>2
<1>8. \A ch \in Channels : \A i \in DOMAIN requests'[ch] :
         /\ Channel(requests'[ch][i].from) = ch
         /\ client'[requests'[ch][i].from] \notin {"out", "connecting"}
         /\ Proper(requests'[ch][i])
  <2> TAKE ch \in Channels
  <2> TAKE i \in DOMAIN requests'[ch]
  <2>1. CASE i \in DOMAIN requests[ch] /\ requests'[ch][i] = requests[ch][i]
    BY <1>2, <2>1 DEF Queued, Began
  <2>2. CASE ch = x /\ requests'[ch][i] = q
    BY <1>3, <2>2 DEF Began
  <2> QED BY <1>7, <2>1, <2>2
<1>9. /\ responses' \in [Channels -> Seq(ResponseSet)]
      /\ \A ch \in Channels : \A i \in DOMAIN responses'[ch] :
           /\ Channel(responses'[ch][i].for) = ch
           /\ client'[responses'[ch][i].for] \notin {"out", "connecting"}
  BY <1>2 DEF Queued, Began
<1> QED BY <1>1, <1>6, <1>8, <1>9 DEF Queued, Began

\* A command is read, and perhaps answered.
Answer(x, ok) ==
    [for |-> Head(requests[x]).from, op |-> Head(requests[x]).op, ok |-> ok]
AnswersOn(x) == \E ok \in BOOLEAN : responses' = [responses EXCEPT ![x] = Append(@, Answer(x, ok))]

LEMMA AnswerIs ==
    ASSUME Queued, NEW x \in Channels, requests[x] # << >>, NEW ok \in BOOLEAN
    PROVE  /\ Answer(x, ok) \in ResponseSet /\ Answer(x, ok).for = requests[x][1].from
           /\ requests[x][1].from \in Clients /\ 1 \in DOMAIN requests[x]
<1>1. requests[x] \in Seq(RequestSet)
  BY DEF Queued
<1>2. Head(requests[x]) = requests[x][1] /\ Head(requests[x]) \in RequestSet /\ 1 \in DOMAIN requests[x]
  BY <1>1, TailIs
<1> QED BY <1>2 DEF Answer, ResponseSet, RequestSet

LEMMA TakeQueued ==
    ASSUME Queued, NEW x \in Channels, requests[x] # << >>, UNCHANGED <<mode, client>>,
           requests' = [requests EXCEPT ![x] = Tail(@)], responses' = responses \/ AnswersOn(x)
    PROVE  Queued'
<1>1. Channels' = Channels /\ (\A d : Channel(d)' = Channel(d)) /\ \A c : Began(c)' = Began(c)
  BY ModeSame DEF Began
<1>2. requests[x] \in Seq(RequestSet) /\ requests \in [Channels -> Seq(RequestSet)]
  BY DEF Queued
<1>3. requests' \in [Channels -> Seq(RequestSet)]
  BY <1>2, TailIs
<1>4. \A ch \in Channels : \A i \in DOMAIN requests'[ch] :
         \E j \in DOMAIN requests[ch] : requests'[ch][i] = requests[ch][j]
  <2> TAKE ch \in Channels
  <2> TAKE i \in DOMAIN requests'[ch]
  <2>1. CASE ch = x
    <3>1. requests'[ch] = Tail(requests[x])
      BY <1>2, <2>1
    <3>2. i + 1 \in DOMAIN requests[x] /\ requests'[ch][i] = requests[x][i + 1]
      BY <1>2, <3>1, TailIs
    <3> QED BY <2>1, <3>2
  <2>2. CASE ch # x
    BY <1>2, <2>2
  <2> QED BY <2>1, <2>2
<1>5. \A ch \in Channels : \A i \in DOMAIN requests'[ch] :
         /\ Channel(requests'[ch][i].from) = ch
         /\ client[requests'[ch][i].from] \notin {"out", "connecting"}
         /\ Proper(requests'[ch][i])
  BY <1>4 DEF Queued, Began
<1>6. /\ responses' \in [Channels -> Seq(ResponseSet)]
      /\ \A ch \in Channels : \A i \in DOMAIN responses'[ch] :
           /\ Channel(responses'[ch][i].for) = ch
           /\ client[responses'[ch][i].for] \notin {"out", "connecting"}
  <2>1. CASE responses' = responses
    BY <2>1 DEF Queued, Began
  <2>2. CASE AnswersOn(x)
    <3>1. PICK ok \in BOOLEAN : responses' = [responses EXCEPT ![x] = Append(@, Answer(x, ok))]
      BY <2>2 DEF AnswersOn
    <3>2. PICK r : r = Answer(x, ok)
      OBVIOUS
    <3>3. r \in ResponseSet /\ r.for = requests[x][1].from /\ 1 \in DOMAIN requests[x]
      BY <3>2, AnswerIs
    <3>4. Channel(r.for) = x /\ client[r.for] \notin {"out", "connecting"}
      BY <3>3 DEF Queued, Began
    <3>5. responses[x] \in Seq(ResponseSet) /\ responses \in [Channels -> Seq(ResponseSet)]
      BY DEF Queued
    <3>6. responses' \in [Channels -> Seq(ResponseSet)]
      BY <3>1, <3>2, <3>3, <3>5, AppendIs
    <3>7. ASSUME NEW ch \in Channels, NEW i \in DOMAIN responses'[ch]
          PROVE  /\ Channel(responses'[ch][i].for) = ch
                 /\ client[responses'[ch][i].for] \notin {"out", "connecting"}
      <4>1. CASE ch = x
        <5>1. responses'[ch] = Append(responses[x], r)
          BY <3>1, <3>2, <3>5, <4>1
        <5>2. i \in DOMAIN responses[x] \/ i = Len(responses[x]) + 1
          BY <3>3, <3>5, <3>7, <5>1, AppendIs
        <5>3. \/ (responses'[ch][i] = responses[x][i] /\ i \in DOMAIN responses[x])
              \/ responses'[ch][i] = r
          BY <3>3, <3>5, <5>1, <5>2, AppendIs
        <5> QED BY <3>4, <4>1, <5>3 DEF Queued, Began
      <4>2. CASE ch # x
        BY <3>1, <3>5, <3>7, <4>2 DEF Queued, Began
      <4> QED BY <4>1, <4>2
    <3> QED BY <3>6, <3>7
  <2> QED BY <2>1, <2>2
<1> QED BY <1>1, <1>3, <1>5, <1>6 DEF Queued, Began

\* Two pollables with the same fields are the same.
LEMMA SamePollable ==
    /\ \A p, r \in PollableSet : p.what = r.what /\ p.on = r.on /\ p.to = r.to => p = r
    /\ \A p \in PollableSet : /\ p.what = "listener" /\ p.to = p.on => p = Listener(p.on)
                              /\ p.what = "connection" => p = Connection(p.on, p.to)
    /\ \A t : Listener(t).what = "listener" /\ Listener(t).on = t /\ Listener(t).to = t
    /\ \A x, t : /\ Connection(x, t).what = "connection" /\ Connection(x, t).on = x
                 /\ Connection(x, t).to = t
    /\ \A t \in Channels \cup {"admin", "battery"} : Listener(t) \in PollableSet
    /\ \A x \in Channels : \A t \in Channels \cup Targets : Connection(x, t) \in PollableSet
BY DEF PollableSet, Listener, Connection

\* The handler whose turn it is.
LEMMA TurnIs ==
    ASSUME Polled, round # {}
    PROVE  /\ Min(round) \in round /\ Min(round) \in DOMAIN pollables /\ Subject \in PollableSet
           /\ Subject = pollables[Min(round)]
<1>1. pollables \in Seq(PollableSet) /\ round \subseteq DOMAIN pollables
  BY DEF Polled
<1>2. round \subseteq Nat
  BY <1>1
<1>3. Min(round) \in round
  BY <1>2, Least
<1> QED BY <1>1, <1>3 DEF Subject

\* A FIFO's acceptor makes the pipe.
LEMMA FifoAcceptsWired ==
    ASSUME Wired, FifoAccepts, server' = server
    PROVE  Wired'
<1> USE DEF counters
<1>1. mode = "Fifo" /\ server = "running" /\ round # {} /\ Subject.what = "listener"
  BY DEF FifoAccepts, Turn
<1>2. PICK k : k = Min(round)
  OBVIOUS
<1>3. PICK t : t = Subject.on
  OBVIOUS
<1>4. k \in round /\ k \in DOMAIN pollables /\ pollables[k] \in PollableSet /\ pollables[k] = Subject
  BY <1>1, <1>2, TurnIs DEF Wired
<1>5. t \in idleFd /\ t \in fifoFiles /\ t \in Channels /\ pollables[k] = Listener(t)
  BY <1>1, <1>3, <1>4, SamePollable DEF Wired, Polled, Files
<1>6. /\ idleFd' = idleFd \ {t} /\ pollables' = Append(pollables, Connection(t, t))
      /\ admin' = (IF t = "admin" THEN t ELSE admin) /\ round' = round \ {k}
      /\ UNCHANGED <<mode, server, quitPoll, directory, pManagerCounter, fifoFiles, backlog, client, requests, responses,
                     sends, starts, ending>>
  BY <1>1, <1>2, <1>3 DEF FifoAccepts, released, accept, Done, GoesDown
<1>7. Channels' = Channels /\ PollableSet' = PollableSet
  BY <1>6, ModeSame
<1>8. PICK p : p = Connection(t, t)
  OBVIOUS
<1>9. p \in PollableSet /\ p.what = "connection" /\ p.on = t /\ p.to = t
  BY <1>5, <1>8, SamePollable
<1>10. PICK n : n = Len(pollables) + 1
  OBVIOUS
<1>11. /\ pollables' \in Seq(PollableSet) /\ n \in DOMAIN pollables' /\ pollables'[n] = p
       /\ n \notin DOMAIN pollables
       /\ \A i \in DOMAIN pollables : i \in DOMAIN pollables' /\ pollables'[i] = pollables[i]
       /\ \A i \in DOMAIN pollables' : i \in DOMAIN pollables \/ i = n
  BY <1>6, <1>8, <1>9, <1>10, AppendIs DEF Wired, Polled
<1>12. \A i \in DOMAIN pollables : pollables[i] # p
  BY <1>1, <1>5, <1>9 DEF Wired, Polled
<1>13. Plain'
  BY <1>5, <1>6, <1>7 DEF Wired, Plain
<1>14. Queued'
  BY <1>6, QueuedSame DEF Wired, Began
<1>15. Polled'
  <2>1. \A i, j \in DOMAIN pollables' : pollables'[i] = pollables'[j] => i = j
    BY <1>11, <1>12 DEF Wired, Polled
  <2>2. ASSUME NEW i \in DOMAIN pollables'
        PROVE  /\ pollables'[i].what = "listener" =>
                    pollables'[i].to = pollables'[i].on /\ pollables'[i].on \in fifoFiles
               /\ pollables'[i].what = "connection" =>
                    pollables'[i].to = pollables'[i].on /\ pollables'[i].on \in fifoFiles \ idleFd'
    <3>1. CASE i = n
      BY <1>5, <1>6, <1>9, <1>11, <3>1
    <3>2. CASE i \in DOMAIN pollables
      <4>1. pollables'[i] = pollables[i]
        BY <1>11, <3>2
      <4> QED BY <1>1, <1>6, <3>2, <4>1 DEF Wired, Polled
    <3> QED BY <1>11, <3>1, <3>2
  <2>3. round' \subseteq DOMAIN pollables'
    BY <1>6, <1>11 DEF Wired, Polled
  <2>4. ASSUME NEW i \in round', pollables'[i].what = "listener"
        PROVE  pollables'[i].on \in idleFd'
    <3>1. i \in round /\ i # k /\ i \in DOMAIN pollables /\ pollables'[i] = pollables[i]
      BY <1>6, <1>11 DEF Wired, Polled
    <3>2. /\ pollables[i].on \in idleFd /\ pollables[i].to = pollables[i].on
          /\ pollables[i] \in PollableSet
      BY <1>1, <2>4, <3>1 DEF Wired, Polled
    <3>3. pollables[i].on # t
      <4>1. pollables[i].on = t => pollables[i] = Listener(t)
        BY <2>4, <3>1, <3>2, SamePollable
      <4> QED BY <1>4, <1>5, <3>1, <4>1 DEF Wired, Polled
    <3> QED BY <1>6, <3>1, <3>2, <3>3
  <2> QED BY <1>1, <1>6, <1>7, <1>11, <2>1, <2>2, <2>3, <2>4 DEF Polled
<1>16. Files'
  <2>1. ASSUME NEW u \in fifoFiles
        PROVE  /\ \E i \in DOMAIN pollables' : pollables'[i] = Listener(u)
               /\ u \notin idleFd' => \E i \in DOMAIN pollables' : pollables'[i] = Connection(u, u)
    <3>1. PICK i \in DOMAIN pollables : pollables[i] = Listener(u)
      BY <1>1 DEF Wired, Files
    <3>2. CASE u = t
      BY <1>8, <1>11, <3>1, <3>2
    <3>3. CASE u # t
      <4>1. u \notin idleFd => \E j \in DOMAIN pollables : pollables[j] = Connection(u, u)
        BY <1>1 DEF Wired, Files
      <4> QED BY <1>6, <1>11, <3>1, <3>3, <4>1
    <3> QED BY <3>2, <3>3
  <2>2. \A u : Listener(u)' = Listener(u) /\ Connection(u, u)' = Connection(u, u)
    BY DEF Listener, Connection
  <2> QED BY <1>1, <1>6, <1>7, <2>1, <2>2 DEF Wired, Files
<1> QED BY <1>13, <1>14, <1>15, <1>16 DEF Wired

\* A client is let in over TLS, or turned away.
LEMMA TLSAcceptsWired ==
    ASSUME Wired, TLSAccepts, server' = server
    PROVE  Wired'
<1> USE DEF counters
<1>1. mode = "Network" /\ server = "running" /\ round # {}
  BY DEF TLSAccepts, Turn
<1>2. PICK c \in Clients :
        /\ client[c] = "connecting" /\ backlog' = backlog \ {c}
        /\ client' = [client EXCEPT ![c] = connected(c)]
        /\ \/ connected(c) = "in" /\ accept(c, Target[c])
           \/ connected(c) = "gone" /\ UNCHANGED <<pollables, admin>>
        /\ Done
        /\ UNCHANGED <<mode, server, quitPoll, directory, pManagerCounter, fifoFiles, idleFd, requests, responses,
                       sends, starts, ending>>
  BY <1>1 DEF TLSAccepts, GoesDown, Arriving, Wired, Plain
<1>3. connected(c) \in {"in", "gone"} /\ c \in Channels /\ Target[c] \in Targets
  BY <1>1 DEF connected, Channels, Targets
<1>4. /\ client' \in [Clients -> {"out", "connecting", "in", "waiting", "gone"}]
      /\ \A d \in Clients : Began(d) => Began(d)'
      /\ client'[c] \notin {"out", "connecting"}
  BY <1>2, <1>3 DEF Wired, Plain, Began
<1>5. Channels' = Channels /\ PollableSet' = PollableSet
  BY <1>2, ModeSame
<1>6. round' \subseteq round
  BY <1>2 DEF Done
<1>7. Plain'
  <2>1. admin' \in Channels \cup {None}
    BY <1>2, <1>3 DEF accept, Wired, Plain
  <2> QED BY <1>2, <1>4, <1>5, <2>1 DEF Wired, Plain
<1>8. Queued'
  BY <1>2, <1>4, QueuedSame DEF Wired
<1>9. CASE UNCHANGED <<pollables, admin>>
  <2>1. Polled'
    BY <1>2, <1>4, <1>6, <1>9, PolledSame DEF Wired
  <2>2. Files'
    BY <1>1, <1>2, <1>9, FilesSame DEF Wired
  <2> QED BY <1>7, <1>8, <2>1, <2>2 DEF Wired
<1>10. CASE pollables' = Append(pollables, Connection(c, Target[c]))
  <2>1. PICK p : p = Connection(c, Target[c])
    OBVIOUS
  <2>2. p \in PollableSet /\ p.what = "connection" /\ p.on = c /\ p.to = Target[c]
    BY <1>3, <2>1, SamePollable
  <2>3. PICK n : n = Len(pollables) + 1
    OBVIOUS
  <2>4. /\ pollables' \in Seq(PollableSet) /\ n \in DOMAIN pollables' /\ pollables'[n] = p
        /\ \A i \in DOMAIN pollables : i \in DOMAIN pollables' /\ pollables'[i] = pollables[i]
        /\ \A i \in DOMAIN pollables' : i \in DOMAIN pollables \/ i = n
    BY <1>10, <2>1, <2>2, <2>3, AppendIs DEF Wired, Polled
  <2>5. \A i \in DOMAIN pollables : pollables[i] # p
    BY <1>1, <1>2, <2>2 DEF Wired, Polled, Began
  <2>6. \A i, j \in DOMAIN pollables' : pollables'[i] = pollables'[j] => i = j
    BY <2>4, <2>5 DEF Wired, Polled
  <2>7. ASSUME NEW i \in DOMAIN pollables'
        PROVE  /\ pollables'[i].what = "listener" => pollables'[i].to = pollables'[i].on
               /\ pollables'[i].what = "connection" =>
                    /\ pollables'[i].on \in Clients /\ pollables'[i].to = Target[pollables'[i].on]
                    /\ client'[pollables'[i].on] \notin {"out", "connecting"}
    <3>1. CASE i = n
      BY <1>4, <2>2, <2>4, <3>1
    <3>2. CASE i \in DOMAIN pollables
      <4>1. pollables'[i] = pollables[i]
        BY <2>4, <3>2
      <4> QED BY <1>1, <1>4, <3>2, <4>1 DEF Wired, Polled, Began
    <3> QED BY <2>4, <3>1, <3>2
  <2>8. round' \subseteq DOMAIN pollables'
    BY <1>6, <2>4 DEF Wired, Polled
  <2>9. Polled'
    BY <1>1, <1>2, <1>5, <2>4, <2>6, <2>7, <2>8 DEF Polled, Began
  <2>10. Files'
    BY <1>1, <1>2, <1>5 DEF Wired, Files
  <2> QED BY <1>7, <1>8, <2>9, <2>10 DEF Wired
<1> QED BY <1>2, <1>9, <1>10 DEF accept

\* What a handler does to the channel it reads, and to the server.
Replied ==
    \/ server' = server /\ AnswersOn(Subject.on)
    \/ server' = "dead" /\ responses' = responses

Same == UNCHANGED <<fifoFiles, idleFd, pollables>>
Grown(ns) ==
    /\ mode = "Fifo" /\ Range(ns) \cap fifoFiles = {}
    /\ fifoFiles' = fifoFiles \cup Range(ns) /\ idleFd' = idleFd \cup Range(ns)
    /\ pollables' = pollables \o [i \in DOMAIN ns |-> Listener(ns[i])]
    /\ Range(ns) \subseteq directory' /\ directory' \subseteq directory \cup Managers \cup Range(ns)

\* The manager whose turn it is, and what a creation enters in the directory.
Turns == pManagerCounter \in DOMAIN ManagerNames /\ pManagerCounter' = pManagerCounter + 1
Enters(ns) ==
    \/ pManagerCounter' = pManagerCounter /\ directory' \subseteq directory \cup Range(ns)
    \/ Turns /\ directory' \subseteq directory \cup {ManagerNames[pManagerCounter]} \cup Range(ns)

LEMMA WriteIs ==
    ASSUME NEW ok \in BOOLEAN, write(ok)
    PROVE  Replied /\ (server' # server => ~Open(Subject.on))
<1>1. Response(ok) = Answer(Subject.on, ok)
  BY DEF Response, Answer, Command
<1> QED BY <1>1 DEF write, Replied, AnswersOn

LEMMA CreatedIs ==
    ASSUME NEW d, NEW ns, Created(d, ns), directory \subseteq d, d \subseteq directory \cup Managers
    PROVE  /\ Replied /\ directory \subseteq directory' /\ directory' = d \cup Range(ns)
           /\ Grown(ns) \/ (Same /\ (server' = "dead" \/ mode = "Network"))
           /\ server' # server => ~Open(Subject.on) \/ (mode = "Fifo" /\ Range(ns) \cap fifoFiles # {})
<1>1. directory' = d \cup Range(ns)
  BY DEF Created
<1>2. CASE mode = "Network" /\ write(TRUE) /\ UNCHANGED <<fifoFiles, idleFd, pollables>>
  BY <1>1, <1>2, WriteIs DEF Same
<1>3. CASE /\ mode = "Fifo" /\ Range(ns) \cap fifoFiles = {}
           /\ fifoFiles' = mkfifo(Range(fifosFor(ns)))
           /\ idleFd' = idleFd \cup Range(fifosFor(ns))
           /\ pollables' = pollables \o [i \in DOMAIN fifosFor(ns) |-> Listener(ns[i])]
           /\ write(TRUE)
  <2>1. Replied /\ (server' # server => ~Open(Subject.on))
    BY <1>3, WriteIs
  <2>2. Range(ns) \subseteq directory' /\ directory' \subseteq directory \cup Managers \cup Range(ns)
    BY <1>1
  <2>3. Grown(ns)
    BY <1>3, <2>2 DEF Grown, fifosFor, mkfifo
  <2> QED BY <1>1, <2>1, <2>3
<1>4. CASE /\ mode = "Fifo" /\ Range(ns) \cap fifoFiles # {}
           /\ server' = "dead"
           /\ UNCHANGED <<fifoFiles, idleFd, pollables, responses>>
  BY <1>1, <1>4 DEF Same, Replied
<1> QED BY <1>2, <1>3, <1>4 DEF Created

LEMMA RefusedIs ==
    ASSUME Refused
    PROVE  /\ Replied /\ UNCHANGED <<directory, pManagerCounter>> /\ Same
           /\ server' # server => ~Open(Subject.on)
BY WriteIs DEF Refused, Same

\* A creation enters names in the directory, all of them with their FIFOs unless
\* the server ends or one of them was taken; a partition a manager as well.
LEMMA CreateIs ==
    ASSUME NEW q, createBattery(q), q.names \in Seq(Range(q.names)),
           pManagerCounter \in 1 .. Len(ManagerNames) + 1
    PROVE  /\ Replied /\ directory \subseteq directory' /\ Enters(q.names)
           /\ \/ Grown(q.names)
              \/ /\ Same
                 /\ \/ directory' \subseteq directory \cup Managers
                    \/ server' = "dead" \/ mode = "Network"
                    \/ Range(q.names) \cap (directory \cup Managers) # {}
           /\ server' # server => \/ ~Open(Subject.on)
                                  \/ mode = "Fifo" /\ Range(q.names) \cap fifoFiles # {}
                                  \/ q.op = "Create_Secure"
                                  \/ Turns /\ ManagerNames[pManagerCounter] \in directory
           /\ q.op \in CreateCmds
<1>1. PICK ns : ns = q.names
  OBVIOUS
<1>2. q.op \in CreateCmds
  BY DEF createBattery, CreateCmds
<1>3. CASE Made(ns)
  <2>1. Created(directory, ns) /\ pManagerCounter' = pManagerCounter
    BY <1>3 DEF Made
  <2>2. /\ Replied /\ directory \subseteq directory' /\ directory' = directory \cup Range(ns)
        /\ Grown(ns) \/ (Same /\ (server' = "dead" \/ mode = "Network"))
        /\ server' # server => ~Open(Subject.on) \/ (mode = "Fifo" /\ Range(ns) \cap fifoFiles # {})
    BY <2>1, CreatedIs
  <2> QED BY <1>1, <1>2, <2>1, <2>2 DEF Enters
<1>4. CASE Refused
  BY <1>2, <1>4, RefusedIs DEF Enters
<1>5. CASE q.op = "Create_Partition" /\ createPartitionBattery(ns) /\ ~Refused
  <2>1. PICK m : m = ManagerNames[pManagerCounter]
    OBVIOUS
  <2>2. PICK d : d = directory \cup {m}
    OBVIOUS
  <2>3. /\ pManagerCounter <= Len(ManagerNames) /\ pManagerCounter' = pManagerCounter + 1
        /\ \/ /\ m \in directory /\ server' = "dead"
              /\ UNCHANGED <<directory, fifoFiles, idleFd, pollables, responses>>
           \/ m \notin directory /\ Created(d, ns)
           \/ /\ m \notin directory /\ Taken(d, ns) # {}
              /\ directory' = d \cup Range(SubSeq(ns, 1, Min(Taken(d, ns)) - 1))
              /\ write(FALSE) /\ UNCHANGED <<fifoFiles, idleFd, pollables>>
    BY <1>5, <2>1, <2>2 DEF createPartitionBattery, createPartitionManagerName
  <2>4. Turns /\ m \in Managers
    BY <2>1, <2>3, ManagerIs DEF Turns
  <2>5. directory \subseteq d /\ d \subseteq directory \cup Managers
    BY <2>2, <2>4
  <2>6. CASE /\ m \in directory /\ server' = "dead"
             /\ UNCHANGED <<directory, fifoFiles, idleFd, pollables, responses>>
    BY <1>2, <2>1, <2>4, <2>6 DEF Replied, Same, Enters
  <2>7. CASE Created(d, ns)
    <3>1. /\ Replied /\ directory \subseteq directory' /\ directory' = d \cup Range(ns)
          /\ Grown(ns) \/ (Same /\ (server' = "dead" \/ mode = "Network"))
          /\ server' # server => ~Open(Subject.on) \/ (mode = "Fifo" /\ Range(ns) \cap fifoFiles # {})
      BY <2>5, <2>7, CreatedIs
    <3>2. Enters(ns)
      BY <2>1, <2>2, <2>4, <3>1 DEF Enters
    <3> QED BY <1>1, <1>2, <3>1, <3>2
  <2>8. CASE /\ Taken(d, ns) # {}
             /\ directory' = d \cup Range(SubSeq(ns, 1, Min(Taken(d, ns)) - 1))
             /\ write(FALSE) /\ UNCHANGED <<fifoFiles, idleFd, pollables>>
    <3>1. Replied /\ Same /\ (server' # server => ~Open(Subject.on))
      BY <2>8, WriteIs DEF Same
    <3>2. DOMAIN ns \subseteq Nat /\ Taken(d, ns) \subseteq DOMAIN ns /\ Taken(d, ns) \subseteq Nat
      BY <1>1 DEF Taken
    <3>3. Range(SubSeq(ns, 1, Min(Taken(d, ns)) - 1)) \subseteq Range(ns)
      <4>1. PICK k : k = Min(Taken(d, ns))
        OBVIOUS
      <4>2. k \in DOMAIN ns /\ k \in Nat
        BY <2>8, <3>2, <4>1, Least
      <4>3. PICK S : S = Range(ns) /\ ns \in Seq(S)
        BY <1>1
      <4>4. \A i \in DOMAIN SubSeq(ns, 1, k - 1) :
              i \in DOMAIN ns /\ SubSeq(ns, 1, k - 1)[i] = ns[i]
        BY <4>2, <4>3
      <4> QED BY <4>1, <4>4 DEF Range
    <3>4. Range(ns) \cap (directory \cup Managers) # {}
      BY <2>5, <2>8 DEF Taken, Range
    <3>5. directory \subseteq directory' /\ Enters(ns)
      BY <2>1, <2>2, <2>4, <2>8, <3>3 DEF Enters
    <3> QED BY <1>1, <1>2, <3>1, <3>4, <3>5
  <2> QED BY <2>3, <2>6, <2>7, <2>8
<1>6. CASE /\ server' = "dead" /\ q.op = "Create_Secure"
           /\ UNCHANGED <<directory, pManagerCounter, fifoFiles, idleFd, pollables, responses>>
  BY <1>2, <1>6 DEF Replied, Same, Enters
<1> QED BY <1>1, <1>3, <1>4, <1>5, <1>6 DEF createBattery, createPhysicalBattery,
     createDynamicBattery, createAggregateBattery, createSecureBattery

\* The new acceptors are polled.
LEMMA GrownWired ==
    ASSUME Polled, Files, NEW q \in Creations, Grown(q.names), UNCHANGED <<mode, client>>,
           round' \subseteq round, server' = server \/ server' = "dead", server = "running"
    PROVE  Polled' /\ Files'
<1>1. PICK ns : ns = q.names
  OBVIOUS
<1>2. PICK new : new = [i \in DOMAIN ns |-> Listener(ns[i])]
  OBVIOUS
<1>3. /\ mode = "Fifo" /\ Range(ns) \cap fifoFiles = {}
      /\ fifoFiles' = fifoFiles \cup Range(ns) /\ idleFd' = idleFd \cup Range(ns)
      /\ pollables' = pollables \o new
  BY <1>1, <1>2 DEF Grown
<1>4. \A i \in DOMAIN ns : ns[i] \in Range(ns)
  BY DEF Range
<1>5. Range(ns) \subseteq Channels
  BY <1>1, <1>3 DEF Channels
<1>6. ns \in Seq(Range(ns)) /\ \A i, j \in DOMAIN ns : ns[i] = ns[j] => i = j
  BY <1>1, Constants
<1>7. Channels' = Channels /\ PollableSet' = PollableSet
  BY ModeSame
<1>8. PICK S : S = PollableSet
  OBVIOUS
<1>9. \A i \in DOMAIN ns : Listener(ns[i]) \in S
  BY <1>4, <1>5, <1>8, SamePollable
<1>10. /\ new \in Seq(S) /\ DOMAIN new = DOMAIN ns /\ Len(new) = Len(ns)
       /\ DOMAIN ns = 1 .. Len(ns) /\ Len(ns) \in Nat
  <2>1. PICK L \in Nat : L = Len(ns) /\ DOMAIN ns = 1 .. L
    <3>1. PICK R : R = Range(ns) /\ ns \in Seq(R)
      BY <1>6
    <3> QED BY <3>1
  <2>2. \A i \in 1 .. L : Listener(ns[i]) \in S
    BY <1>9, <2>1
  <2>3. new = [i \in 1 .. L |-> Listener(ns[i])]
    BY <1>2, <2>1
  <2>4. new \in [1 .. L -> S]
    BY <2>2, <2>3
  <2> QED BY <2>1, <2>3, <2>4
<1>11. pollables \in Seq(S) /\ DOMAIN pollables = 1 .. Len(pollables) /\ Len(pollables) \in Nat
  BY <1>8 DEF Polled
<1>12. PICK n \in Nat : n = Len(pollables)
  BY <1>11
<1>13. /\ pollables' \in Seq(S)
       /\ \A i \in DOMAIN pollables : i \in DOMAIN pollables' /\ pollables'[i] = pollables[i]
       /\ \A i \in DOMAIN ns : i \in Nat /\ n + i \in DOMAIN pollables' /\ pollables'[n + i] = Listener(ns[i])
       /\ \A i \in DOMAIN pollables' : i \in DOMAIN pollables \/ \E j \in DOMAIN ns : i = n + j
  <2>1. /\ pollables' \in Seq(S) /\ DOMAIN pollables' = 1 .. n + Len(new)
        /\ \A i \in 1 .. n + Len(new) : pollables'[i] = IF i <= n THEN pollables[i] ELSE new[i - n]
    BY <1>3, <1>10, <1>11, <1>12, ConcatIs
  <2>2. \A i \in DOMAIN pollables : i \in DOMAIN pollables' /\ pollables'[i] = pollables[i]
    BY <1>10, <1>11, <1>12, <2>1
  <2>3. ASSUME NEW i \in DOMAIN ns
        PROVE  i \in Nat /\ n + i \in DOMAIN pollables' /\ pollables'[n + i] = Listener(ns[i])
    <3>1. i \in Nat /\ 1 <= i /\ i <= Len(new)
      BY <1>10
    <3>2. n + i \in 1 .. n + Len(new) /\ ~(n + i <= n) /\ (n + i) - n = i
      BY <1>10, <3>1
    <3> QED BY <1>2, <2>1, <3>1, <3>2
  <2>4. ASSUME NEW i \in DOMAIN pollables', i \notin DOMAIN pollables
        PROVE  \E j \in DOMAIN ns : i = n + j
    <3>1. i \in Nat /\ n < i /\ i <= n + Len(new)
      BY <1>10, <1>11, <1>12, <2>1, <2>4
    <3>2. i - n \in DOMAIN ns /\ i = n + (i - n)
      BY <1>10, <3>1
    <3> QED BY <3>2
  <2> QED BY <2>1, <2>2, <2>3, <2>4
<1>14. \A i \in DOMAIN ns : /\ Listener(ns[i]).what = "listener"
                             /\ Listener(ns[i]).on = ns[i] /\ Listener(ns[i]).to = ns[i]
  BY SamePollable
<1>15. \A i \in DOMAIN pollables : pollables[i].on \in fifoFiles
  <2>1. \A i \in DOMAIN pollables : pollables[i].what \in {"listener", "connection"}
    <3>1. \A p \in S : p.what \in {"listener", "connection"}
      BY <1>8 DEF PollableSet
    <3> QED BY <1>11, <3>1
  <2> QED BY <1>3, <2>1 DEF Polled
<1>16. ASSUME NEW i \in DOMAIN pollables, NEW j \in DOMAIN ns
       PROVE  pollables[i] # Listener(ns[j])
  BY <1>3, <1>4, <1>14, <1>15
<1>17. \A i, j \in DOMAIN pollables' : pollables'[i] = pollables'[j] => i = j
  <2> SUFFICES ASSUME NEW i \in DOMAIN pollables', NEW j \in DOMAIN pollables', pollables'[i] = pollables'[j]
               PROVE  i = j
    OBVIOUS
  <2>1. CASE i \in DOMAIN pollables /\ j \in DOMAIN pollables
    BY <1>13, <2>1 DEF Polled
  <2>2. CASE i \notin DOMAIN pollables /\ j \notin DOMAIN pollables
    <3>1. PICK k \in DOMAIN ns : i = n + k
      BY <1>13, <2>2
    <3>2. PICK l \in DOMAIN ns : j = n + l
      BY <1>13, <2>2
    <3>3. Listener(ns[k]) = Listener(ns[l])
      BY <1>13, <3>1, <3>2
    <3> QED BY <1>6, <1>14, <3>1, <3>2, <3>3
  <2>3. CASE i \in DOMAIN pollables /\ j \notin DOMAIN pollables
    <3>1. PICK l \in DOMAIN ns : j = n + l
      BY <1>13, <2>3
    <3> QED BY <1>13, <1>16, <2>3, <3>1
  <2>4. CASE i \notin DOMAIN pollables /\ j \in DOMAIN pollables
    <3>1. PICK k \in DOMAIN ns : i = n + k
      BY <1>13, <2>4
    <3> QED BY <1>13, <1>16, <2>4, <3>1
  <2> QED BY <2>1, <2>2, <2>3, <2>4
<1>18. ASSUME NEW i \in DOMAIN pollables'
       PROVE  /\ pollables'[i].what = "listener" =>
                    pollables'[i].to = pollables'[i].on /\ pollables'[i].on \in fifoFiles'
              /\ pollables'[i].what = "connection" =>
                   pollables'[i].to = pollables'[i].on /\ pollables'[i].on \in fifoFiles' \ idleFd'
  <2>1. CASE i \in DOMAIN pollables
    <3>1. pollables'[i] = pollables[i]
      BY <1>13, <2>1
    <3> QED BY <1>3, <2>1, <3>1 DEF Polled
  <2>2. CASE i \notin DOMAIN pollables
    <3>1. PICK k \in DOMAIN ns : i = n + k
      BY <1>13, <2>2
    <3> QED BY <1>3, <1>4, <1>13, <1>14, <3>1
  <2> QED BY <2>1, <2>2
<1>19. /\ round' \subseteq DOMAIN pollables'
       /\ \A i \in round' : pollables'[i].what = "listener" => pollables'[i].on \in idleFd'
  BY <1>3, <1>13 DEF Polled
<1>20. Polled'
  BY <1>3, <1>7, <1>8, <1>13, <1>17, <1>18, <1>19 DEF Polled
<1>21. ASSUME NEW u \in fifoFiles'
       PROVE  /\ \E i \in DOMAIN pollables' : pollables'[i] = Listener(u)
              /\ u \notin idleFd' => \E i \in DOMAIN pollables' : pollables'[i] = Connection(u, u)
  <2>1. CASE u \in fifoFiles
    <3>1. PICK i \in DOMAIN pollables : pollables[i] = Listener(u)
      BY <1>3, <2>1 DEF Files
    <3>2. u \notin idleFd => \E j \in DOMAIN pollables : pollables[j] = Connection(u, u)
      BY <1>3, <2>1 DEF Files
    <3> QED BY <1>3, <1>13, <3>1, <3>2
  <2>2. CASE u \in Range(ns)
    <3>1. PICK j \in DOMAIN ns : u = ns[j]
      BY <2>2 DEF Range
    <3> QED BY <1>3, <1>13, <2>2, <3>1
  <2> QED BY <1>3, <2>1, <2>2
<1>22. \A u : Listener(u)' = Listener(u) /\ Connection(u, u)' = Connection(u, u)
  BY DEF Listener, Connection
<1>23. Files'
  BY <1>3, <1>5, <1>7, <1>21, <1>22 DEF Files
<1> QED BY <1>20, <1>23

\* A handler reads the first command of its channel, from a client for its target.
LEMMA ReadIs ==
    ASSUME Wired, Reading
    PROVE  /\ server = "running" /\ round # {} /\ Subject.what = "connection" /\ Subject \in PollableSet
           /\ Subject = pollables[Min(round)] /\ Min(round) \in round /\ Min(round) \in DOMAIN pollables
           /\ Subject.on \in Channels /\ requests[Subject.on] # << >>
           /\ requests[Subject.on] \in Seq(RequestSet) /\ 1 \in DOMAIN requests[Subject.on]
           /\ Command = requests[Subject.on][1] /\ Command \in RequestSet /\ Proper(Command)
           /\ Command.from \in Clients /\ Channel(Command.from) = Subject.on /\ Began(Command.from)
           /\ Target[Command.from] = Subject.to
<1>1. /\ server = "running" /\ round # {} /\ Subject.what = "connection" /\ requests[Subject.on] # << >>
  BY DEF Reading, Turn
<1>2. PICK x : x = Subject.on
  OBVIOUS
<1>3. /\ Subject \in PollableSet /\ Subject = pollables[Min(round)] /\ Min(round) \in round
      /\ Min(round) \in DOMAIN pollables
  BY <1>1, TurnIs DEF Wired
<1>4. /\ mode = "Fifo" => Subject.to = x /\ x \in fifoFiles
      /\ mode # "Fifo" => x \in Clients /\ Subject.to = Target[x]
  BY <1>1, <1>2, <1>3 DEF Wired, Polled
<1>5. x \in Channels
  BY <1>4 DEF Wired, Files, Channels
<1>6. requests[x] \in Seq(RequestSet)
  BY <1>5 DEF Wired, Queued
<1>7. Command = requests[x][1] /\ Command \in RequestSet /\ 1 \in DOMAIN requests[x]
  BY <1>1, <1>2, <1>6, TailIs DEF Command
<1>8. Channel(Command.from) = x /\ Began(Command.from) /\ Proper(Command)
  BY <1>5, <1>7 DEF Wired, Queued
<1>9. Command.from \in Clients
  BY <1>7 DEF RequestSet
<1>10. Target[Command.from] = Subject.to
  BY <1>4, <1>8 DEF Channel
<1> QED BY <1>1, <1>2, <1>3, <1>5, <1>6, <1>7, <1>8, <1>9, <1>10

ShutsDown ==
    /\ Subject.to = "admin" /\ Command.op = "Shutdown"
    /\ quitPoll' = TRUE /\ directory' = {} /\ Same
    /\ UNCHANGED <<server, pManagerCounter, responses>>
Serves ==
    /\ Subject.to # "admin" /\ Command.op \in Cmds
    /\ Replied /\ Same /\ UNCHANGED <<directory, pManagerCounter, quitPoll>>
    /\ server' # server => \/ ~Open(Subject.on)
                           \/ ~getBattery(Subject.to) /\ Command.op # "Set_Status"
Creates ==
    /\ Subject.to = "admin" /\ quitPoll' = quitPoll
    /\ createBattery(Command)
    /\ Command.names \in Seq(Range(Command.names))
    /\ pManagerCounter \in 1 .. Len(ManagerNames) + 1
    /\ \E k \in Creations : k.op = Command.op /\ k.names = Command.names

LEMMA HandleIs ==
    ASSUME Wired, handleBatteryCommand \/ handleAdminCommand
    PROVE  /\ Reading
           /\ requests' = [requests EXCEPT ![Subject.on] = Tail(@)] /\ round' = round \ {Min(round)}
           /\ UNCHANGED <<mode, admin, backlog, client, sends, starts, ending>>
           /\ ShutsDown \/ Serves \/ Creates
<1> USE DEF counters
<1>1. Reading
  BY DEF handleBatteryCommand, handleAdminCommand
<1>2. /\ requests' = [requests EXCEPT ![Subject.on] = Tail(@)] /\ round' = round \ {Min(round)}
      /\ UNCHANGED <<mode, admin, backlog, client, sends, starts, ending>>
  BY DEF handleBatteryCommand, handleAdminCommand, Consumed, Done
<1>3. Proper(Command) /\ Target[Command.from] = Subject.to
  BY <1>1, ReadIs
<1>4. CASE handleBatteryCommand
  <2>1. Subject.to # "admin" /\ Command.op \in Cmds
    BY <1>3, <1>4 DEF handleBatteryCommand, Proper
  <2>2. UNCHANGED <<quitPoll, pollables, directory, pManagerCounter, fifoFiles, idleFd>>
    BY <1>4 DEF handleBatteryCommand
  <2>3. \/ \E ok \in BOOLEAN : write(ok)
        \/ /\ server' = "dead" /\ responses' = responses
           /\ ~getBattery(Subject.to) /\ Command.op # "Set_Status"
    BY <1>4 DEF handleBatteryCommand
  <2>4. /\ Replied
        /\ server' # server => ~Open(Subject.on) \/ (~getBattery(Subject.to) /\ Command.op # "Set_Status")
    BY <2>3, WriteIs DEF Replied
  <2>5. Serves
    BY <2>1, <2>2, <2>4 DEF Serves, Same
  <2> QED BY <1>1, <1>2, <2>5
<1>5. CASE handleAdminCommand
  <2>1. Subject.to = "admin"
    BY <1>5 DEF handleAdminCommand
  <2>2. CASE Command.op = "Shutdown" /\ shutdown
    <3>1. ShutsDown
      BY <2>1, <2>2 DEF shutdown, ShutsDown, Same
    <3> QED BY <1>1, <1>2, <3>1
  <2>3. CASE createBattery(Command) /\ UNCHANGED quitPoll
    <3>1. Command.op \in CreateCmds
      BY <2>3 DEF createBattery, CreateCmds
    <3>2. PICK k \in Creations : k.op = Command.op /\ k.names = Command.names
      BY <1>3, <3>1 DEF Proper
    <3>3. Command.names \in Seq(Range(Command.names))
      BY <3>2, Constants
    <3>4. Creates
      BY <2>1, <2>3, <3>2, <3>3 DEF Creates, Wired, Plain
    <3> QED BY <1>1, <1>2, <3>4
  <2> QED BY <1>5, <2>2, <2>3 DEF handleAdminCommand
<1> QED BY <1>1, <1>2, <1>4, <1>5

LEMMA HandleWired ==
    ASSUME Wired, handleBatteryCommand \/ handleAdminCommand
    PROVE  Wired'
<1>1. /\ Reading
      /\ requests' = [requests EXCEPT ![Subject.on] = Tail(@)] /\ round' = round \ {Min(round)}
      /\ UNCHANGED <<mode, admin, backlog, client, sends, starts, ending>>
      /\ ShutsDown \/ Serves \/ Creates
  BY HandleIs
<1>2. PICK x : x = Subject.on
  OBVIOUS
<1>3. x \in Channels /\ requests[x] # << >> /\ server = "running"
  BY <1>1, <1>2, ReadIs
<1>4. /\ server' \in {"running", "dead"} /\ (responses' = responses \/ AnswersOn(x))
      /\ quitPoll' \in {quitPoll, TRUE} /\ pManagerCounter' \in 1 .. Len(ManagerNames) + 1
  <2>1. CASE Creates
    <3>1. Replied /\ Enters(Command.names)
      BY <2>1, CreateIs DEF Creates
    <3>2. pManagerCounter' \in 1 .. Len(ManagerNames) + 1
      BY <3>1, ManagerIs DEF Enters, Turns, Wired, Plain
    <3> QED BY <1>2, <1>3, <2>1, <3>1, <3>2 DEF Creates, Replied
  <2>2. CASE ShutsDown \/ Serves
    BY <1>2, <1>3, <2>2 DEF ShutsDown, Serves, Replied, Wired, Plain
  <2> QED BY <1>1, <2>1, <2>2
<1>5. Channels' = Channels
  BY <1>1, ModeSame
<1>6. Plain'
  <2>1. quitPoll' \in BOOLEAN
    BY <1>4 DEF Wired, Plain
  <2> QED BY <1>1, <1>4, <1>5, <2>1 DEF Wired, Plain
<1>7. Queued'
  BY <1>1, <1>2, <1>3, <1>4, TakeQueued DEF Wired
<1>8. Polled' /\ Files'
  <2>1. CASE Same
    <3>1. Polled'
      BY <1>1, <2>1, PolledSame DEF Wired, Same, Began
    <3>2. Files'
      BY <1>1, <1>3, <1>4, <2>1, FilesSame DEF Wired, Same
    <3> QED BY <3>1, <3>2
  <2>2. CASE Creates /\ ~Same
    <3>1. Grown(Command.names)
      BY <2>2, CreateIs DEF Creates
    <3>2. PICK k \in Creations : k.names = Command.names
      BY <2>2 DEF Creates
    <3>3. Grown(k.names)
      BY <3>1, <3>2
    <3>4. server' = server \/ server' = "dead"
      BY <1>3, <1>4
    <3> QED BY <1>1, <1>3, <3>3, <3>4, GrownWired DEF Wired
  <2> QED BY <1>1, <2>1, <2>2 DEF ShutsDown, Serves
<1> QED BY <1>6, <1>7, <1>8 DEF Wired

\* What a client sends is proper, and it was let in.
Sends(c, q) ==
    /\ q \in RequestSet /\ q.from = c /\ Proper(q) /\ Puts(c, q) /\ MaySend /\ client[c] = "in"
    /\ IF q.op = "Shutdown" THEN client' = client /\ ending' = TRUE /\ CallShutdown(c)
       ELSE client' = [client EXCEPT ![c] = "waiting"] /\ ending' = ending
    /\ q.op \in CreateCmds /\ "fresh" \in Discipline =>
         Range(q.names) \cap (directory \cup Managers \cup Asked) = {}

Sending(c) ==
    CallBattery(c) \/ CallShutdown(c) \/ \E op \in CreateCmds : CallCreate(c, op)

LEMMA SendIs ==
    ASSUME NEW c \in Clients, Sending(c)
    PROVE  \E q : Sends(c, q)
<1>1. CASE CallBattery(c)
  <2>1. PICK op \in BatteryCmds : Puts(c, Request(c, op, << >>))
    BY <1>1 DEF CallBattery
  <2>2. PICK q : q = Request(c, op, << >>)
    OBVIOUS
  <2>3. op \in Cmds /\ op \notin CreateCmds /\ op # "Shutdown"
    BY ServerAssumption DEF Cmds, CreateCmds
  <2>4. q \in RequestSet /\ q.from = c /\ q.op = op /\ q.names = << >>
    BY <2>2, <2>3 DEF Request, RequestSet, Ops
  <2>5. Target[c] # "admin" /\ client[c] = "in" /\ MaySend /\ ending' = ending
        /\ client' = [client EXCEPT ![c] = "waiting"]
    BY <1>1 DEF CallBattery
  <2>6. Proper(q)
    BY <2>3, <2>4, <2>5 DEF Proper
  <2> QED BY <2>1, <2>2, <2>3, <2>4, <2>5, <2>6 DEF Sends
<1>2. ASSUME NEW op \in CreateCmds, CallCreate(c, op) PROVE \E q : Sends(c, q)
  <2>1. PICK k \in Creations : /\ k.op = op
                               /\ "fresh" \in Discipline =>
                                    Range(k.names) \cap (directory \cup Managers \cup Asked) = {}
                               /\ Puts(c, Request(c, k.op, k.names))
    BY <1>2 DEF CallCreate
  <2>2. PICK q : q = Request(c, k.op, k.names)
    OBVIOUS
  <2>3. op \in CreateCmds /\ op # "Shutdown"
    BY DEF CreateCmds
  <2>4. q \in RequestSet /\ q.from = c /\ q.op = op /\ q.names = k.names
    BY <2>1, <2>2, <2>3 DEF Request, RequestSet, Ops
  <2>5. Target[c] = "admin" /\ client[c] = "in" /\ MaySend /\ ending' = ending
        /\ client' = [client EXCEPT ![c] = "waiting"]
    BY <1>2 DEF CallCreate
  <2>6. Proper(q)
    BY <2>1, <2>3, <2>4, <2>5 DEF Proper
  <2> QED BY <2>1, <2>2, <2>3, <2>4, <2>5, <2>6 DEF Sends
<1>3. CASE CallShutdown(c)
  <2>1. PICK q : q = Request(c, "Shutdown", << >>)
    OBVIOUS
  <2>2. "Shutdown" \notin CreateCmds
    BY DEF CreateCmds
  <2>3. q \in RequestSet /\ q.from = c /\ q.op = "Shutdown" /\ q.names = << >>
    BY <2>1 DEF Request, RequestSet, Ops
  <2>4. /\ Target[c] = "admin" /\ client[c] = "in" /\ MaySend /\ ending' = TRUE
        /\ client' = client /\ Puts(c, q)
    BY <1>3, <2>1 DEF CallShutdown
  <2>5. Proper(q)
    BY <2>2, <2>3, <2>4 DEF Proper
  <2> QED BY <1>3, <2>2, <2>3, <2>4, <2>5 DEF Sends
<1> QED BY <1>1, <1>2, <1>3 DEF Sending

LEMMA SendWired ==
    ASSUME Wired, NEW c \in Clients, NEW q, Sends(c, q)
    PROVE  Wired'
<1> USE DEF serverVars
<1>1. /\ UNCHANGED <<mode, server, quitPoll, pollables, round, directory, pManagerCounter, fifoFiles, idleFd, admin, backlog,
                     responses, starts>>
      /\ requests' = [requests EXCEPT ![Channel(c)] = Append(@, q)] /\ sends' = sends + 1
      /\ sends < MaxSends /\ ending' \in BOOLEAN
  BY DEF Sends, Puts, MaySend, Wired, Plain
<1>2. q \in RequestSet /\ q.from = c /\ Proper(q) /\ client[c] = "in"
      /\ (client' = client \/ client' = [client EXCEPT ![c] = "waiting"])
  BY DEF Sends
<1>3. client' \in [Clients -> {"out", "connecting", "in", "waiting", "gone"}]
  BY <1>2 DEF Wired, Plain
<1>4. Began(c) /\ \A d \in Clients : Began(d) => Began(d)'
  BY <1>2 DEF Wired, Plain, Began
<1>5. Channels' = Channels
  BY <1>1, ModeSame
<1>6. Plain'
  <2>1. sends' \in 0 .. MaxSends
    BY <1>1, ServerAssumption DEF Wired, Plain
  <2> QED BY <1>1, <1>3, <1>5, <2>1 DEF Wired, Plain
<1>7. Queued'
  BY <1>1, <1>2, <1>4, PutQueued DEF Wired
<1>8. Polled'
  BY <1>1, <1>4, PolledSame DEF Wired
<1>9. Files'
  <2>1. server # "off"
    BY <1>2 DEF Wired, Files
  <2> QED BY <1>1, <2>1, FilesSame DEF Wired
<1> QED BY <1>6, <1>7, <1>8, <1>9 DEF Wired

\* A response is read: the first one on the channel goes.
LEMMA ReceiveWired ==
    ASSUME Wired, NEW c \in Clients, Receive(c)
    PROVE  Wired'
<1> USE DEF serverVars, counters
<1>1. PICK x : x = Channel(c)
  OBVIOUS
<1>2. /\ client[c] = "waiting" /\ responses[x] # << >>
      /\ responses' = [responses EXCEPT ![x] = Tail(@)] /\ client' = [client EXCEPT ![c] = "in"]
      /\ UNCHANGED <<mode, server, quitPoll, pollables, round, directory, pManagerCounter, fifoFiles, idleFd, admin, backlog,
                     requests, sends, starts, ending>>
  BY <1>1 DEF Receive
<1>3. client' \in [Clients -> {"out", "connecting", "in", "waiting", "gone"}]
  BY <1>2 DEF Wired, Plain
<1>4. \A d \in Clients : Began(d) => client'[d] \notin {"out", "connecting"}
  BY <1>2 DEF Wired, Plain, Began
<1>5. Channels' = Channels /\ \A d : Channel(d)' = Channel(d)
  BY <1>2, ModeSame
<1>6. Plain'
  BY <1>2, <1>3, <1>5 DEF Wired, Plain
<1>7. /\ x \in Channels /\ responses \in [Channels -> Seq(ResponseSet)]
      /\ responses[x] \in Seq(ResponseSet)
  BY <1>1, ChannelIn DEF Wired, Queued
<1>8. responses' \in [Channels -> Seq(ResponseSet)]
  BY <1>2, <1>7, TailIs
<1>9. ASSUME NEW ch \in Channels, NEW i \in DOMAIN responses'[ch]
      PROVE  /\ Channel(responses'[ch][i].for) = ch
             /\ client'[responses'[ch][i].for] \notin {"out", "connecting"}
  <2>1. \E j \in DOMAIN responses[ch] : responses'[ch][i] = responses[ch][j]
    <3>1. CASE ch = x
      <4>1. responses'[ch] = Tail(responses[x])
        BY <1>2, <1>7, <3>1
      <4>2. i + 1 \in DOMAIN responses[x] /\ responses'[ch][i] = responses[x][i + 1]
        BY <1>2, <1>7, <1>9, <4>1, TailIs
      <4> QED BY <3>1, <4>2
    <3>2. CASE ch # x
      BY <1>2, <1>7, <1>9, <3>2
    <3> QED BY <3>1, <3>2
  <2>2. PICK j \in DOMAIN responses[ch] : responses'[ch][i] = responses[ch][j]
    BY <2>1
  <2>3. Queued
    BY DEF Wired
  <2>4. responses[ch][j].for \in Clients
    BY <2>3, Senders
  <2> QED BY <1>4, <2>2, <2>3, <2>4 DEF Queued
<1>10. ASSUME NEW ch \in Channels, NEW i \in DOMAIN requests[ch]
       PROVE  /\ Channel(requests[ch][i].from) = ch /\ Proper(requests[ch][i])
              /\ client'[requests[ch][i].from] \notin {"out", "connecting"}
  <2>1. Queued /\ requests[ch][i].from \in Clients
    BY Senders DEF Wired
  <2> QED BY <1>4, <2>1 DEF Queued
<1>11. Queued'
  BY <1>2, <1>5, <1>8, <1>9, <1>10 DEF Wired, Queued, Began
<1>12. Polled'
  BY <1>2, <1>4, PolledSame DEF Wired, Began
<1>13. Files'
  <2>1. server # "off"
    BY <1>2 DEF Wired, Files
  <2> QED BY <1>2, <2>1, FilesSame DEF Wired
<1> QED BY <1>6, <1>11, <1>12, <1>13 DEF Wired

\* The server starts, for the first time or in vain.
LEMMA StartWired ==
    ASSUME Wired, Start
    PROVE  Wired'
<1>1. /\ server \in {"off", "stopped", "dead"} /\ starts < MaxStarts /\ starts' = starts + 1
      /\ quitPoll' = FALSE /\ round' = {} /\ directory' = {} /\ admin' = None
      /\ pManagerCounter' = 1
      /\ UNCHANGED <<mode, backlog, client, requests, responses, sends, ending>>
  BY DEF Start
<1>2. Channels' = Channels /\ PollableSet' = PollableSet
  BY <1>1, ModeSame
<1>3. mode \in {"Fifo", "Network"}
  BY ServerAssumption DEF Wired, Plain
<1>4. server' \in {"nostart", "running"}
  BY DEF Start
<1>5. Plain'
  <2>1. starts' \in 0 .. MaxStarts /\ pManagerCounter' \in 1 .. Len(ManagerNames) + 1
    BY <1>1, ServerAssumption, ManagerIs DEF Wired, Plain
  <2> QED BY <1>1, <1>2, <1>4, <2>1 DEF Wired, Plain
<1>6. Queued'
  BY <1>1, QueuedSame DEF Wired, Began
<1>7. "admin" \in Channels \/ mode = "Network"
  <2>1. ASSUME mode = "Fifo" PROVE "admin" \in Channels
    <3>1. PICK A : A = Targets \cup UNION {Range(q.names) : q \in Creations}
      OBVIOUS
    <3>2. Channels = {"admin"} \cup Targets \cup UNION {Range(q.names) : q \in Creations}
      BY <2>1 DEF Channels
    <3>3. Channels = {"admin"} \cup A
      BY <3>1, <3>2
    <3> QED BY <3>3
  <2> QED BY <1>3, <2>1
<1>8. \A t : Listener(t)' = Listener(t) /\ Connection(t, t)' = Connection(t, t)
  BY DEF Listener, Connection
<1>9. Listener("admin") \in PollableSet /\ Listener("battery") \in PollableSet
  BY SamePollable
<1>10. /\ Listener("admin").what = "listener" /\ Listener("admin").on = "admin"
       /\ Listener("admin").to = "admin"
       /\ Listener("battery").what = "listener" /\ Listener("battery").on = "battery"
       /\ Listener("battery").to = "battery"
  BY SamePollable
<1>11. CASE mode = "Fifo" /\ "admin" \in fifoFiles
  <2>1. server' = "nostart" /\ pollables' = << >> /\ idleFd' = {} /\ fifoFiles' = fifoFiles
    BY <1>11 DEF Start
  <2>2. Polled'
    BY <1>1, <1>2, <2>1 DEF Polled
  <2>3. Files'
    BY <1>1, <1>2, <1>11, <2>1 DEF Wired, Files
  <2> QED BY <1>5, <1>6, <2>2, <2>3 DEF Wired
<1>12. CASE mode = "Fifo" /\ "admin" \notin fifoFiles
  <2>1. server = "off"
    BY <1>1, <1>12 DEF Wired, Files
  <2>2. fifoFiles = {}
    BY <1>12, <2>1 DEF Wired, Files
  <2>3. /\ server' = "running" /\ pollables' = <<Listener("admin")>> /\ idleFd' = {"admin"}
        /\ fifoFiles' = {"admin"}
    BY <1>12, <2>2 DEF Start, mkfifo
  <2>4. DOMAIN pollables' = {1} /\ pollables'[1] = Listener("admin") /\ pollables' \in Seq(PollableSet)
    BY <1>9, <2>3
  <2>5. Polled'
    BY <1>1, <1>2, <1>10, <1>12, <2>3, <2>4 DEF Polled
  <2>6. Files'
    BY <1>1, <1>2, <1>7, <1>8, <1>12, <2>3, <2>4 DEF Files
  <2> QED BY <1>5, <1>6, <2>5, <2>6 DEF Wired
<1>13. CASE mode = "Network"
  <2>1. /\ server' = "running" /\ pollables' = <<Listener("admin"), Listener("battery")>>
        /\ UNCHANGED <<fifoFiles, idleFd>>
    BY <1>13 DEF Start
  <2>2. /\ DOMAIN pollables' = {1, 2} /\ pollables'[1] = Listener("admin")
        /\ pollables'[2] = Listener("battery") /\ pollables' \in Seq(PollableSet)
    BY <1>9, <2>1
  <2>3. Polled'
    BY <1>1, <1>2, <1>10, <1>13, <2>1, <2>2 DEF Polled
  <2>4. Files'
    BY <1>1, <1>2, <1>13, <2>1 DEF Wired, Files
  <2> QED BY <1>5, <1>6, <2>3, <2>4 DEF Wired
<1> QED BY <1>3, <1>11, <1>12, <1>13

Falls == /\ server = "running" /\ \E how \in {"dead", "stuck"} : GoesDown(how)

\* What is left: the server goes down or polls, a client connects or leaves.
LEMMA OthersWired ==
    ASSUME Wired, \/ Falls \/ pollFDs \/ SkipExpired
                  \/ \E c \in Clients : Connect(c) \/ Leave(c)
    PROVE  Wired'
<1> USE DEF counters, serverVars
<1>1. CASE Falls
  <2>1. /\ server = "running" /\ server' \in {"dead", "stuck"}
        /\ UNCHANGED <<mode, quitPoll, pollables, round, directory, pManagerCounter, fifoFiles, idleFd, admin, backlog,
                       client, requests, responses, sends, starts, ending>>
    BY <1>1 DEF Falls, GoesDown
  <2>2. Channels' = Channels
    BY <2>1, ModeSame
  <2>3. Plain'
    BY <2>1, <2>2 DEF Wired, Plain
  <2> QED BY <2>1, <2>3, WiredSame DEF Began
<1>2. CASE pollFDs
  <2>1. /\ server = "running" /\ round = {}
        /\ UNCHANGED <<mode, quitPoll, pollables, directory, pManagerCounter, fifoFiles, idleFd, admin, backlog, client,
                       requests, responses, sends, starts, ending>>
        /\ \/ server' = "stopped" /\ round' = round
           \/ server' = server /\ round' = {i \in DOMAIN pollables : Ready(pollables[i])}
    BY <1>2 DEF pollFDs
  <2>2. Channels' = Channels /\ PollableSet' = PollableSet
    BY <2>1, ModeSame
  <2>3. Plain'
    BY <2>1, <2>2 DEF Wired, Plain
  <2>4. Queued'
    BY <2>1, QueuedSame DEF Wired, Began
  <2>5. Files'
    BY <2>1, FilesSame DEF Wired
  <2>6. /\ round' \subseteq DOMAIN pollables
        /\ mode = "Fifo" => \A i \in round' : pollables[i].what = "listener" => pollables[i].on \in idleFd
    BY <2>1 DEF Ready
  <2>7. Polled'
    BY <2>1, <2>2, <2>6 DEF Wired, Polled, Began
  <2> QED BY <2>3, <2>4, <2>5, <2>7 DEF Wired
<1>3. CASE SkipExpired
  <2>1. /\ round' \subseteq round
        /\ UNCHANGED <<mode, server, quitPoll, pollables, directory, pManagerCounter, fifoFiles, idleFd, admin, backlog,
                       client, requests, responses, sends, starts, ending>>
    BY <1>3 DEF SkipExpired, Done
  <2>2. Channels' = Channels
    BY <2>1, ModeSame
  <2>3. Plain'
    BY <2>1, <2>2 DEF Wired, Plain
  <2> QED BY <2>1, <2>3, WiredSame DEF Began
<1>4. ASSUME NEW c \in Clients, Connect(c) \/ Leave(c) PROVE Wired'
  <2>1. /\ UNCHANGED <<mode, server, quitPoll, pollables, round, directory, pManagerCounter, fifoFiles, idleFd, admin, requests,
                       responses, sends, starts, ending>>
        /\ \E s \in {"connecting", "in", "gone"} : client' = [client EXCEPT ![c] = s]
        /\ client[c] = "out" \/ client' = [client EXCEPT ![c] = "gone"]
        /\ backlog' \subseteq backlog \cup {c}
        /\ server # "off"
    BY <1>4 DEF Connect, ConnectFifo, ConnectNetwork, Leave, Present, Wired, Files
  <2>2. Channels' = Channels
    BY <2>1, ModeSame
  <2>3. client' \in [Clients -> {"out", "connecting", "in", "waiting", "gone"}]
    BY <2>1 DEF Wired, Plain
  <2>4. Plain'
    BY <2>1, <2>2, <2>3 DEF Wired, Plain
  <2>5. \A d \in Clients : Began(d) => Began(d)'
    BY <2>1 DEF Wired, Plain, Began
  <2> QED BY <2>1, <2>4, <2>5, WiredSame
<1> QED BY <1>1, <1>2, <1>3, <1>4

\* The steps of the server and of its clients.
LEMMA Steps ==
    ASSUME Wired, [Next]_vars
    PROVE  \/ Start \/ Falls \/ pollFDs \/ SkipExpired
           \/ FifoAccepts /\ server' = server
           \/ TLSAccepts /\ server' = server
           \/ handleBatteryCommand \/ handleAdminCommand
           \/ \E c \in Clients : Connect(c) \/ Sending(c) \/ Receive(c) \/ Leave(c)
           \/ UNCHANGED vars
<1>1. ASSUME FifoAccepts, server' # server PROVE Falls
  BY <1>1 DEF FifoAccepts, Falls, Turn
<1>2. ASSUME TLSAccepts, server' # server PROVE Falls
  <2>1. server = "running"
    BY <1>2 DEF TLSAccepts, Turn
  <2>2. GoesDown("dead") \/ GoesDown("stuck")
    BY <1>2 DEF TLSAccepts
  <2> QED BY <2>1, <2>2 DEF Falls
<1>3. ReadsNothing => Falls
  BY DEF ReadsNothing, Falls, Turn
<1>4. \A c \in Clients : /\ CallPhysical(c) \/ CallAggregate(c) \/ CallPartition(c) \/ CallSecure(c)
                            \/ CallDynamic(c) => Sending(c)
                         /\ CallBattery(c) \/ CallShutdown(c) => Sending(c)
  BY DEF CallPhysical, CallAggregate, CallPartition, CallSecure, CallDynamic, Sending,
       CreateCmds
<1> QED BY <1>1, <1>2, <1>3, <1>4 DEF Next, Serve

LEMMA WiredStep == ASSUME Wired, [Next]_vars PROVE Wired'
<1>1. ASSUME NEW c \in Clients, Sending(c) PROVE Wired'
  BY <1>1, SendIs, SendWired
<1>2. ASSUME UNCHANGED vars PROVE Wired'
  <2>1. Plain'
    <3>1. Channels' = Channels
      BY <1>2, ModeSame DEF vars
    <3> QED BY <1>2, <3>1 DEF Wired, Plain, vars
  <2> QED BY <1>2, <2>1, WiredSame DEF vars, Began
<1> QED BY <1>1, <1>2, Steps, StartWired, OthersWired, FifoAcceptsWired, TLSAcceptsWired,
     HandleWired,
           ReceiveWired

-----------------------------------------------------------------------------
(***************************************************************************)
(* Positions of commands, before and after a step.                         *)
(***************************************************************************)
Shift(x, ch, i) == IF ch = x THEN i + 1 ELSE i

\* Reading a command moves the others on its channel up.
LEMMA TakeShift ==
    ASSUME Wired, NEW x \in Channels, requests[x] # << >>,
           requests' = [requests EXCEPT ![x] = Tail(@)]
    PROVE  \A ch \in Channels : \A i \in DOMAIN requests'[ch] :
             /\ Shift(x, ch, i) \in DOMAIN requests[ch] /\ i \in Nat
             /\ requests'[ch][i] = requests[ch][Shift(x, ch, i)]
             /\ ch = x => Shift(x, ch, i) # 1
<1> TAKE ch \in Channels
<1> TAKE i \in DOMAIN requests'[ch]
<1>1. requests \in [Channels -> Seq(RequestSet)] /\ requests[ch] \in Seq(RequestSet)
  BY DEF Wired, Queued
<1>2. CASE ch = x
  <2>1. requests'[ch] = Tail(requests[ch])
    BY <1>1, <1>2
  <2>2. /\ i + 1 \in DOMAIN requests[ch] /\ requests'[ch][i] = requests[ch][i + 1]
        /\ i \in Nat /\ i # 0
    BY <1>1, <1>2, <2>1, TailIs
  <2>3. i + 1 # 1
    BY <2>2
  <2> QED BY <1>2, <2>2, <2>3 DEF Shift
<1>3. CASE ch # x
  <2>1. requests'[ch] = requests[ch]
    BY <1>1, <1>3
  <2>2. \A j \in DOMAIN requests[ch] : j \in Nat
    BY <1>1
  <2> QED BY <1>3, <2>1, <2>2 DEF Shift
<1> QED BY <1>2, <1>3

\* A command that is sent comes last.
LEMMA PutShift ==
    ASSUME Wired, NEW c \in Clients, NEW q, Sends(c, q)
    PROVE  \E n \in Nat :
             /\ n \notin DOMAIN requests[Channel(c)]
             /\ \A ch \in Channels : \A i \in DOMAIN requests'[ch] :
                  \/ i \in DOMAIN requests[ch] /\ requests'[ch][i] = requests[ch][i]
                  \/ ch = Channel(c) /\ i = n /\ requests'[ch][i] = q
<1>1. PICK x : x = Channel(c)
  OBVIOUS
<1>2. x \in Channels /\ requests \in [Channels -> Seq(RequestSet)] /\ requests[x] \in Seq(RequestSet)
  BY <1>1, ChannelIn DEF Wired, Queued
<1>3. requests' = [requests EXCEPT ![x] = Append(@, q)] /\ q \in RequestSet
  BY <1>1 DEF Sends, Puts
<1>4. PICK n : n = Len(requests[x]) + 1
  OBVIOUS
<1>5. n \in Nat /\ n \notin DOMAIN requests[x]
  BY <1>2, <1>4
<1>6. ASSUME NEW ch \in Channels, NEW i \in DOMAIN requests'[ch]
      PROVE  \/ i \in DOMAIN requests[ch] /\ requests'[ch][i] = requests[ch][i]
             \/ ch = x /\ i = n /\ requests'[ch][i] = q
  <2>1. CASE ch = x
    <3>1. requests'[ch] = Append(requests[x], q)
      BY <1>2, <1>3, <2>1
    <3>2. i \in DOMAIN requests[x] \/ i = n
      BY <1>2, <1>3, <1>4, <1>6, <3>1, AppendIs
    <3> QED BY <1>2, <1>3, <1>4, <2>1, <3>1, <3>2, AppendIs
  <2>2. CASE ch # x
    BY <1>2, <1>3, <1>6, <2>2
  <2> QED BY <2>1, <2>2
<1> QED BY <1>1, <1>5, <1>6

\* The steps that leave the commands alone.
LEMMA Quiet ==
    ASSUME Wired, [Next]_vars, ~(handleBatteryCommand \/ handleAdminCommand),
           \A c \in Clients : ~Sending(c)
    PROVE  requests' = requests
BY Steps DEF Start, Falls, GoesDown, pollFDs, SkipExpired, FifoAccepts, TLSAccepts, Connect,
     Receive, Leave,
   counters, serverVars, vars

-----------------------------------------------------------------------------
(***************************************************************************)
(* Names that are asked for are free.                                      *)
(***************************************************************************)
LEMMA FreeInit == Init => Free
BY DEF Init, Free

Names(ch, i) == Range(requests[ch][i].names)
Distinct ==
    \A ch \in Channels : \A i \in DOMAIN requests[ch] :
        /\ Names(ch, i) \cap (directory \cup Managers) = {}
        /\ \A dh \in Channels : \A j \in DOMAIN requests[dh] :
             <<ch, i>> # <<dh, j>> => Names(ch, i) \cap Names(dh, j) = {}

Unused == \A k \in DOMAIN ManagerNames : k >= pManagerCounter => ManagerNames[k] \notin directory

LEMMA FreeIs ==
    Free <=> /\ Distinct /\ Unused
             /\ mode = "Fifo" /\ server = "running" => directory \ Managers \subseteq fifoFiles
BY DEF Free, Distinct, Names, Unused

LEMMA SendFree ==
    ASSUME Wired, Free, "fresh" \in Discipline, NEW c \in Clients, NEW q, Sends(c, q)
    PROVE  Free'
<1> USE DEF serverVars
<1>1. UNCHANGED <<mode, server, directory, pManagerCounter, fifoFiles>> /\ q \in RequestSet /\ Proper(q)
  BY DEF Sends, Puts
<1>2. PICK x : x = Channel(c)
  OBVIOUS
<1>3. PICK n \in Nat :
        /\ n \notin DOMAIN requests[x]
        /\ \A ch \in Channels : \A i \in DOMAIN requests'[ch] :
             \/ i \in DOMAIN requests[ch] /\ requests'[ch][i] = requests[ch][i]
             \/ ch = x /\ i = n /\ requests'[ch][i] = q
  BY <1>2, PutShift
<1>4. PICK N : N = Range(q.names)
  OBVIOUS
<1>5. Channels' = Channels
  BY <1>1, ModeSame
<1>6. /\ N \cap (directory \cup Managers) = {}
      /\ \A ch \in Channels : \A i \in DOMAIN requests[ch] : N \cap Names(ch, i) = {}
  <2>1. CASE q.op \in CreateCmds
    <3>1. N \cap (directory \cup Managers \cup Asked) = {}
      BY <1>4, <2>1 DEF Sends
    <3>2. N \cap (directory \cup Managers) = {} /\ N \cap Asked = {}
      BY <3>1
    <3>3. ASSUME NEW ch \in Channels, NEW i \in DOMAIN requests[ch]
          PROVE  Names(ch, i) \subseteq Asked
      <4>1. requests[ch][i] \in UNION {Range(requests[dh]) : dh \in Channels}
        BY DEF Range
      <4> QED BY <4>1 DEF Asked, Names
    <3> QED BY <3>2, <3>3
  <2>2. CASE q.op \notin CreateCmds
    <3>1. N = {}
      BY <1>1, <1>4, <2>2 DEF Proper, Range
    <3> QED BY <3>1
  <2> QED BY <2>1, <2>2
<1>7. ASSUME NEW ch \in Channels, NEW i \in DOMAIN requests'[ch]
      PROVE  /\ Range(requests'[ch][i].names) \cap (directory \cup Managers) = {}
             /\ \A dh \in Channels : \A j \in DOMAIN requests'[dh] :
                  <<ch, i>> # <<dh, j>> =>
                      Range(requests'[ch][i].names) \cap Range(requests'[dh][j].names) = {}
  <2>1. Range(requests'[ch][i].names) \cap (directory \cup Managers) = {}
    BY <1>3, <1>4, <1>6, <1>7, FreeIs DEF Distinct, Names
  <2>2. ASSUME NEW dh \in Channels, NEW j \in DOMAIN requests'[dh], <<ch, i>> # <<dh, j>>
        PROVE  Range(requests'[ch][i].names) \cap Range(requests'[dh][j].names) = {}
    <3>1. CASE i \in DOMAIN requests[ch] /\ requests'[ch][i] = requests[ch][i]
      <4>1. CASE j \in DOMAIN requests[dh] /\ requests'[dh][j] = requests[dh][j]
        BY <2>2, <3>1, <4>1, FreeIs DEF Distinct, Names
      <4>2. CASE requests'[dh][j] = q
        BY <1>4, <1>6, <3>1, <4>2 DEF Names
      <4> QED BY <1>3, <2>2, <4>1, <4>2
    <3>2. CASE ch = x /\ i = n /\ requests'[ch][i] = q
      <4>1. CASE j \in DOMAIN requests[dh] /\ requests'[dh][j] = requests[dh][j]
        BY <1>4, <1>6, <3>2, <4>1 DEF Names
      <4>2. CASE dh = x /\ j = n
        BY <2>2, <3>2, <4>2
      <4> QED BY <1>3, <2>2, <4>1, <4>2
    <3> QED BY <1>3, <1>7, <3>1, <3>2
  <2> QED BY <2>1, <2>2
<1> QED BY <1>1, <1>5, <1>7 DEF Free

LEMMA HandleFree ==
    ASSUME Wired, Free, handleBatteryCommand \/ handleAdminCommand
    PROVE  Free'
<1>1. PICK x : x = Subject.on
  OBVIOUS
<1>2. /\ Reading /\ requests' = [requests EXCEPT ![x] = Tail(@)]
      /\ mode' = mode /\ (ShutsDown \/ Serves \/ Creates)
  BY <1>1, HandleIs
<1>3. /\ x \in Channels /\ requests[x] # << >> /\ 1 \in DOMAIN requests[x] /\ Command = requests[x][1]
      /\ server = "running"
  BY <1>1, <1>2, ReadIs
<1>4. PICK N : N = Range(Command.names)
  OBVIOUS
<1>5. \A ch \in Channels : \A i \in DOMAIN requests'[ch] :
             /\ Shift(x, ch, i) \in DOMAIN requests[ch] /\ i \in Nat
             /\ requests'[ch][i] = requests[ch][Shift(x, ch, i)]
             /\ ch = x => Shift(x, ch, i) # 1
  BY <1>2, <1>3, TakeShift
<1>6. Channels' = Channels
  BY <1>2, ModeSame
<1>7. N \cap (directory \cup Managers) = {} /\ N = Names(x, 1)
  BY <1>3, <1>4, FreeIs DEF Distinct, Names
<1>8. /\ directory' \subseteq directory \cup Managers \cup N /\ Unused'
      /\ mode' = "Fifo" /\ server' = "running" => directory' \ Managers \subseteq fifoFiles'
  <2>1. (mode = "Fifo" => directory \ Managers \subseteq fifoFiles) /\ Unused
    BY <1>3, FreeIs
  <2>2. CASE ShutsDown
    BY <2>1, <2>2 DEF ShutsDown, Unused
  <2>3. CASE Serves
    BY <1>2, <2>1, <2>3 DEF Serves, Same, Unused
  <2>4. CASE Creates
    <3>1. /\ Enters(Command.names)
          /\ \/ Grown(Command.names)
             \/ /\ Same
                /\ \/ directory' \subseteq directory \cup Managers
                   \/ server' = "dead" \/ mode = "Network"
                   \/ Range(Command.names) \cap (directory \cup Managers) # {}
      BY <2>4, CreateIs DEF Creates
    <3>2. directory' \subseteq directory \cup Managers \cup N /\ Unused'
      <4>1. CASE pManagerCounter' = pManagerCounter /\ directory' \subseteq directory \cup N
        <5>1. ASSUME NEW k \in DOMAIN ManagerNames, k >= pManagerCounter
              PROVE  ManagerNames[k] \notin directory'
          BY <1>7, <2>1, <4>1, <5>1, ManagerIs DEF Unused
        <5> QED BY <4>1, <5>1 DEF Unused
      <4>2. CASE /\ Turns
                 /\ directory' \subseteq directory \cup {ManagerNames[pManagerCounter]} \cup N
        <5>1. ASSUME NEW k \in DOMAIN ManagerNames, k >= pManagerCounter'
              PROVE  ManagerNames[k] \notin directory'
          <6>1. k >= pManagerCounter /\ k # pManagerCounter /\ pManagerCounter \in DOMAIN ManagerNames
            BY <4>2, <5>1, ManagerIs DEF Turns
          <6>2. ManagerNames[k] \notin directory /\ ManagerNames[k] \notin N
            BY <1>7, <2>1, <6>1, ManagerIs DEF Unused
          <6>3. ManagerNames[k] # ManagerNames[pManagerCounter]
            BY <6>1, ManagerIs
          <6> QED BY <4>2, <6>2, <6>3
        <5> QED BY <4>2, <5>1, ManagerIs DEF Unused, Turns
      <4> QED BY <1>4, <3>1, <4>1, <4>2 DEF Enters
    <3> QED BY <1>2, <1>4, <1>7, <2>1, <3>1, <3>2 DEF Grown, Same
  <2> QED BY <1>2, <2>2, <2>3, <2>4
<1>9. ASSUME NEW ch \in Channels, NEW i \in DOMAIN requests'[ch]
      PROVE  /\ Range(requests'[ch][i].names) \cap (directory' \cup Managers) = {}
             /\ \A dh \in Channels : \A j \in DOMAIN requests'[dh] :
                  <<ch, i>> # <<dh, j>> =>
                      Range(requests'[ch][i].names) \cap Range(requests'[dh][j].names) = {}
  <2>1. PICK k : k = Shift(x, ch, i)
    OBVIOUS
  <2>2. k \in DOMAIN requests[ch] /\ requests'[ch][i] = requests[ch][k] /\ (ch = x => k # 1) /\ i \in Nat
    BY <1>5, <1>9, <2>1
  <2>3. Names(ch, k) \cap (directory \cup Managers) = {} /\ Names(ch, k) \cap N = {}
    BY <1>3, <1>7, <2>2, FreeIs DEF Distinct
  <2>4. ASSUME NEW dh \in Channels, NEW j \in DOMAIN requests'[dh], <<ch, i>> # <<dh, j>>
        PROVE  Range(requests'[ch][i].names) \cap Range(requests'[dh][j].names) = {}
    <3>1. PICK l : l = Shift(x, dh, j)
      OBVIOUS
    <3>2. l \in DOMAIN requests[dh] /\ requests'[dh][j] = requests[dh][l] /\ j \in Nat
      BY <1>5, <2>4, <3>1
    <3>3. <<ch, k>> # <<dh, l>>
      BY <2>1, <2>2, <2>4, <3>1, <3>2 DEF Shift
    <3>4. Names(ch, k) \cap Names(dh, l) = {}
      BY <2>2, <3>2, <3>3, FreeIs DEF Distinct
    <3> QED BY <2>2, <3>2, <3>4 DEF Names
  <2> QED BY <1>8, <2>2, <2>3, <2>4 DEF Names
<1> QED BY <1>6, <1>8, <1>9 DEF Free, Unused

LEMMA FreeSame ==
    ASSUME Free, UNCHANGED <<mode, requests>>, directory' \subseteq directory,
           \/ directory' = {}
           \/ /\ UNCHANGED <<pManagerCounter, fifoFiles>>
              /\ server' = "running" => server = "running"
    PROVE  Free'
<1>1. Channels' = Channels
  BY ModeSame
<1>2. /\ mode' = "Fifo" /\ server' = "running" => directory' \ Managers \subseteq fifoFiles'
      /\ \A k \in DOMAIN ManagerNames : k >= pManagerCounter' => ManagerNames[k] \notin directory'
  BY DEF Free
<1>3. ASSUME NEW ch \in Channels, NEW i \in DOMAIN requests[ch]
      PROVE  /\ Range(requests[ch][i].names) \cap (directory' \cup Managers) = {}
             /\ \A dh \in Channels : \A j \in DOMAIN requests[dh] :
                  <<ch, i>> # <<dh, j>> =>
                      Range(requests[ch][i].names) \cap Range(requests[dh][j].names) = {}
  BY DEF Free
<1> QED BY <1>1, <1>2, <1>3 DEF Free

LEMMA FreeStep ==
    ASSUME Wired, Free, "fresh" \in Discipline, [Next]_vars
    PROVE  Free'
<1> USE DEF counters, serverVars
<1>1. ASSUME NEW c \in Clients, Sending(c) PROVE Free'
  BY <1>1, SendIs, SendFree
<1>2. CASE handleBatteryCommand \/ handleAdminCommand
  BY <1>2, HandleFree
<1>3. CASE Start
  BY <1>3, FreeSame DEF Start
<1>4. CASE Falls
  BY <1>4, FreeSame DEF Falls, GoesDown
<1>5. CASE pollFDs \/ SkipExpired
  BY <1>5, FreeSame DEF pollFDs, SkipExpired
<1>6. CASE FifoAccepts /\ server' = server
  BY <1>6, FreeSame DEF FifoAccepts, GoesDown
<1>7. CASE TLSAccepts /\ server' = server
  BY <1>7, FreeSame DEF TLSAccepts, GoesDown
<1>8. ASSUME NEW c \in Clients, Connect(c) \/ Receive(c) \/ Leave(c) PROVE Free'
  BY <1>8, FreeSame DEF Connect, Receive, Leave
<1>9. CASE UNCHANGED vars
  BY <1>9, FreeSame DEF vars
<1> QED BY <1>1, <1>2, <1>3, <1>4, <1>5, <1>6, <1>7, <1>8, <1>9, Steps

\* The positions of a connection among the pollables: one, or none.
LEMMA ListeningFrom ==
    ASSUME Wired, Free
    PROVE  Listening
<1>1. OneReaderPerFifo
  <2> SUFFICES ASSUME mode = "Fifo", server = "running", NEW t \in fifoFiles
               PROVE  Cardinality({i \in DOMAIN pollables : pollables[i] = Connection(t, t)})
                        = IF t \in idleFd THEN 0 ELSE 1
    BY DEF OneReaderPerFifo
  <2>1. PICK P : P = {i \in DOMAIN pollables : pollables[i] = Connection(t, t)}
    OBVIOUS
  <2>2. CASE t \in idleFd
    <3>1. ASSUME NEW i \in DOMAIN pollables PROVE pollables[i] # Connection(t, t)
      <4>1. Connection(t, t).what = "connection" /\ Connection(t, t).on = t
        BY SamePollable
      <4> QED BY <2>2, <4>1 DEF Wired, Polled
    <3>2. P = {}
      BY <2>1, <3>1
    <3> QED BY <2>1, <2>2, <3>2, FS_EmptySet
  <2>3. CASE t \notin idleFd
    <3>1. PICK i \in DOMAIN pollables : pollables[i] = Connection(t, t)
      BY <2>3 DEF Wired, Files
    <3>2. P = {i}
      BY <2>1, <3>1 DEF Wired, Polled
    <3>3. Cardinality({i}) = 1
      BY FS_Singleton
    <3> QED BY <2>1, <2>3, <3>2, <3>3
  <2> QED BY <2>2, <2>3
<1>2. BatteriesReachable
  <2> SUFFICES ASSUME mode = "Fifo", server = "running", NEW b \in directory \ Managers
               PROVE  b \in fifoFiles /\ Listener(b) \in Range(pollables)
    BY DEF BatteriesReachable
  <2>1. b \in fifoFiles
    BY DEF Free
  <2> QED BY <2>1 DEF Wired, Files, Range
<1> QED BY <1>1, <1>2 DEF Listening

\* With admins that ask for names that are free, the running server reads every
\* FIFO through one object, its acceptor or the pipe made of it, and every battery
\* of the directory that was asked for has FIFOs that are polled; the managers that
\* createPartitionBattery enters for itself have none (FifoAcceptor::pollHandler,
\* createBatteryFifos, startFifos, shutdown): for every set of clients and creations,
\* whoever leaves.
THEOREM EveryBatteryHeard ==
    ASSUME "fresh" \in Discipline
    PROVE  Spec => []Listening
<1>1. Init => Wired /\ Free
  BY WiredInit, FreeInit
<1>2. Wired /\ Free /\ [Next]_vars => Wired' /\ Free'
  BY WiredStep, FreeStep
<1>3. Wired /\ Free => Listening
  BY ListeningFrom
<1> QED BY <1>1, <1>2, <1>3, PTL DEF Spec

-----------------------------------------------------------------------------
(***************************************************************************)
(* One command under way or one answer coming back.                        *)
(***************************************************************************)
\* The positions in a sequence of what is in T.
At(s, T) == {i \in DOMAIN s : s[i] \in T}

LEMMA AtAppend ==
    ASSUME NEW S, NEW T, NEW s \in Seq(S), NEW x \in S
    PROVE  /\ x \notin T => At(Append(s, x), T) = At(s, T)
           /\ x \in T /\ At(s, T) = {} => Single(At(Append(s, x), T))
<1>1. PICK n : n = Len(s) + 1
  OBVIOUS
<1>2. PICK a : a = Append(s, x)
  OBVIOUS
<1>3. /\ n \in DOMAIN a /\ a[n] = x /\ n \notin DOMAIN s
      /\ \A i \in DOMAIN s : i \in DOMAIN a /\ a[i] = s[i]
      /\ \A i \in DOMAIN a : i \in DOMAIN s \/ i = n
  BY <1>1, <1>2, AppendIs
<1>4. x \notin T => At(a, T) = At(s, T)
  BY <1>3 DEF At
<1>5. ASSUME x \in T, At(s, T) = {} PROVE At(a, T) = {n}
  BY <1>3, <1>5 DEF At
<1> QED BY <1>2, <1>4, <1>5 DEF Single

LEMMA AtTail ==
    ASSUME NEW S, NEW T, NEW s \in Seq(S), s # << >>
    PROVE  /\ At(s, T) = {} => At(Tail(s), T) = {}
           /\ Single(At(s, T)) /\ s[1] \in T => At(Tail(s), T) = {}
           /\ Single(At(s, T)) /\ s[1] \notin T => Single(At(Tail(s), T))
<1>1. PICK t : t = Tail(s)
  OBVIOUS
<1>2. /\ 1 \in DOMAIN s /\ \A i \in DOMAIN s : i \in Nat /\ i # 0
      /\ \A i : i \in DOMAIN t <=> i \in Nat /\ i # 0 /\ i + 1 \in DOMAIN s
      /\ \A i \in DOMAIN t : i \in Nat /\ i + 1 \in DOMAIN s /\ t[i] = s[i + 1]
  BY <1>1, TailIs
<1>3. \A i \in At(t, T) : i \in Nat /\ i # 0 /\ i + 1 \in At(s, T)
  BY <1>2 DEF At
<1>4. ASSUME Single(At(s, T)), s[1] \in T PROVE At(t, T) = {}
  <2>1. PICK k \in At(s, T) : At(s, T) = {k}
    BY <1>4 DEF Single
  <2>2. 1 \in At(s, T)
    BY <1>2, <1>4 DEF At
  <2>3. \A i \in At(t, T) : i + 1 = 1 /\ i # 0 /\ i \in Nat
    BY <1>3, <2>1, <2>2
  <2> QED BY <2>3
<1>5. ASSUME Single(At(s, T)), s[1] \notin T PROVE Single(At(t, T))
  <2>1. PICK k \in At(s, T) : At(s, T) = {k}
    BY <1>5 DEF Single
  <2>2. k \in DOMAIN s /\ k \in Nat /\ k # 0 /\ k # 1 /\ s[k] \in T
    BY <1>2, <1>5, <2>1 DEF At
  <2>3. PICK j \in Nat : j + 1 = k /\ j # 0
    <3>1. k - 1 \in Nat /\ (k - 1) + 1 = k /\ k - 1 # 0
      BY <2>2
    <3> QED BY <3>1
  <2>4. j \in At(t, T)
    BY <1>2, <2>2, <2>3 DEF At
  <2>5. \A i \in At(t, T) : i = j
    <3> TAKE i \in At(t, T)
    <3>1. i \in Nat /\ i + 1 = k
      BY <1>3, <2>1
    <3> QED BY <2>3, <3>1
  <2> QED BY <2>4, <2>5 DEF Single
<1> QED BY <1>1, <1>3, <1>4, <1>5

Wants(c) == {q \in RequestSet : q.from = c /\ q.op # "Shutdown"}
Gets(c) == {r \in ResponseSet : r.for = c}

LEMMA OwingIs ==
    ASSUME Wired, NEW c \in Clients
    PROVE  /\ Pending(c) = At(requests[Channel(c)], Wants(c))
           /\ Answered(c) = At(responses[Channel(c)], Gets(c))
<1>1. PICK s : s = requests[Channel(c)]
  OBVIOUS
<1>2. PICK r : r = responses[Channel(c)]
  OBVIOUS
<1>3. s \in Seq(RequestSet) /\ r \in Seq(ResponseSet)
  BY <1>1, <1>2, ChannelIn DEF Wired, Queued
<1>4. Pending(c) = {i \in DOMAIN s : s[i].from = c /\ s[i].op # "Shutdown"}
  BY <1>1 DEF Pending
<1>5. Answered(c) = {i \in DOMAIN r : r[i].for = c}
  BY <1>2 DEF Answered
<1> QED BY <1>1, <1>2, <1>3, <1>4, <1>5 DEF At, Wants, Gets

\* Owing as a property of values, which a step changes.
OwingOf(w, s, r, c) ==
    IF w = "waiting"
    THEN \/ Single(At(s, Wants(c))) /\ At(r, Gets(c)) = {}
         \/ At(s, Wants(c)) = {} /\ Single(At(r, Gets(c)))
    ELSE At(s, Wants(c)) = {} /\ At(r, Gets(c)) = {}

LEMMA OwingNow ==
    ASSUME Wired, NEW c \in Clients
    PROVE  Owing(c) <=> OwingOf(client[c], requests[Channel(c)], responses[Channel(c)], c)
BY OwingIs DEF Owing, OwingOf

LEMMA OwingNext ==
    ASSUME Wired, [Next]_vars, mode' = mode, NEW c \in Clients
    PROVE  Owing(c)' <=> OwingOf(client'[c], requests'[Channel(c)], responses'[Channel(c)], c)
<1>1. Wired'
  BY WiredStep
<1>2. Channel(c)' = Channel(c) /\ Channels' = Channels
  BY ModeSame
<1>3. PICK x : x = Channel(c)
  OBVIOUS
<1>4. PICK s : s = requests'[x]
  OBVIOUS
<1>5. PICK r : r = responses'[x]
  OBVIOUS
<1>6. s \in Seq(RequestSet) /\ r \in Seq(ResponseSet)
  BY <1>1, <1>2, <1>3, <1>4, <1>5, ChannelIn DEF Wired, Queued
<1>7. Pending(c)' = {i \in DOMAIN s : s[i].from = c /\ s[i].op # "Shutdown"}
  BY <1>2, <1>3, <1>4 DEF Pending
<1>8. Answered(c)' = {i \in DOMAIN r : r[i].for = c}
  BY <1>2, <1>3, <1>5 DEF Answered
<1>9. Pending(c)' = At(s, Wants(c)) /\ Answered(c)' = At(r, Gets(c))
  BY <1>6, <1>7, <1>8 DEF At, Wants, Gets
<1> QED BY <1>3, <1>4, <1>5, <1>9 DEF Owing, OwingOf

\* A step moves one client at most.
Moves(c) ==
    \/ Sending(c) /\ client[c] = "in" /\ client' = [client EXCEPT ![c] = "waiting"]
    \/ /\ TLSAccepts /\ mode = "Network" /\ client[c] = "connecting"
       /\ \E v \in {"in", "gone"} : client' = [client EXCEPT ![c] = v]
    \/ /\ Connect(c) /\ client[c] = "out"
       /\ \E v \in {"in", "connecting"} : client' = [client EXCEPT ![c] = v]
    \/ Receive(c) /\ client[c] = "waiting" /\ client' = [client EXCEPT ![c] = "in"]
    \/ /\ Leave(c) /\ client[c] \in {"connecting", "in", "waiting"}
       /\ client' = [client EXCEPT ![c] = "gone"]

LEMMA ClientSteps ==
    ASSUME Wired, [Next]_vars
    PROVE  mode' = mode /\ (client' = client \/ \E c \in Clients : Moves(c))
<1>1. CASE \/ Start \/ Falls \/ pollFDs \/ SkipExpired \/ (FifoAccepts /\ server' = server)
           \/ UNCHANGED vars
  BY <1>1 DEF Start, Falls, GoesDown, pollFDs, SkipExpired, FifoAccepts, counters, serverVars,
       vars
<1>2. CASE handleBatteryCommand \/ handleAdminCommand
  BY <1>2, HandleIs
<1>3. CASE TLSAccepts /\ server' = server
  <2>1. server = "running" /\ backlog \subseteq Clients
    BY <1>3 DEF TLSAccepts, Turn, Wired, Plain
  <2>2. PICK c \in Clients : client[c] = "connecting" /\ client' = [client EXCEPT ![c] = connected(c)]
    BY <1>3, <2>1 DEF TLSAccepts, GoesDown, Arriving
  <2>3. connected(c) \in {"in", "gone"}
    BY DEF connected
  <2>4. mode = "Network" /\ mode' = mode
    BY <1>3 DEF TLSAccepts, GoesDown
  <2> QED BY <1>3, <2>2, <2>3, <2>4 DEF Moves
<1>4. ASSUME NEW c \in Clients, Sending(c)
      PROVE  mode' = mode /\ (client' = client \/ Moves(c))
  <2>1. PICK q : Sends(c, q)
    BY <1>4, SendIs
  <2> QED BY <1>4, <2>1 DEF Sends, Puts, serverVars, Moves
<1>5. ASSUME NEW c \in Clients, Connect(c) \/ Receive(c) \/ Leave(c)
      PROVE  mode' = mode /\ Moves(c)
  BY <1>5 DEF Connect, ConnectFifo, ConnectNetwork, Receive, Leave, Present, serverVars, Moves
<1>6. \/ Start \/ Falls \/ pollFDs \/ SkipExpired \/ (FifoAccepts /\ server' = server) \/ UNCHANGED vars
      \/ (TLSAccepts /\ server' = server)
      \/ handleBatteryCommand \/ handleAdminCommand
      \/ \E c \in Clients : Sending(c)
      \/ \E c \in Clients : Connect(c) \/ Receive(c) \/ Leave(c)
  BY Steps
<1>7. CASE \E c \in Clients : Sending(c)
  BY <1>4, <1>7
<1>8. CASE \E c \in Clients : Connect(c) \/ Receive(c) \/ Leave(c)
  BY <1>5, <1>8
<1> QED BY <1>1, <1>2, <1>3, <1>6, <1>7, <1>8

\* Nobody goes back to where it has not connected, or comes back.
LEMMA ClientMoves ==
    ASSUME Wired, [Next]_vars, NEW d \in Clients
    PROVE  /\ client'[d] = "out" => client[d] = "out"
           /\ client[d] = "gone" => client'[d] = "gone"
           /\ mode' = mode
<1>1. client \in [Clients -> {"out", "connecting", "in", "waiting", "gone"}]
  BY DEF Wired, Plain
<1> QED BY <1>1, ClientSteps DEF Moves

LEMMA SoleBefore ==
    ASSUME Wired, [Next]_vars, mode' = mode, NEW c \in Clients, Sole(c)'
    PROVE  Sole(c) /\ client'[c] # "gone"
<1>1. PICK x : x = Channel(c)
  OBVIOUS
<1>2. Channel(c)' = x /\ On(x)' = On(x)
  BY <1>1, ModeSame DEF On
<1>3. client'[c] # "gone" /\ \A d \in On(x) \ {c} : client'[d] = "out"
  BY <1>2 DEF Sole
<1>4. \A d \in On(x) \ {c} : d \in Clients
  BY DEF On
<1>5. \A d \in Clients : /\ client'[d] = "out" => client[d] = "out"
                         /\ client[d] = "gone" => client'[d] = "gone"
  BY ClientMoves
<1> QED BY <1>1, <1>3, <1>4, <1>5 DEF Sole

\* With a pair of FIFOs to oneself, what is under way on it is one's own.
LEMMA SoleOwn ==
    ASSUME Wired, NEW c \in Clients, Sole(c), NEW x, x = Channel(c)
    PROVE  /\ \A i \in DOMAIN requests[x] : requests[x][i] \in RequestSet /\ requests[x][i].from = c
           /\ \A i \in DOMAIN responses[x] : responses[x][i] \in ResponseSet /\ responses[x][i].for = c
           /\ \A d \in Clients : Channel(d) = x /\ client[d] # "out" => d = c
           /\ requests \in [Channels -> Seq(RequestSet)] /\ responses \in [Channels -> Seq(ResponseSet)]
           /\ x \in Channels
<1>1. \A d \in Clients : Channel(d) = x /\ client[d] # "out" => d = c
  BY DEF Sole, On
<1>2. x \in Channels /\ Queued
  BY ChannelIn DEF Wired
<1>3. requests[x] \in Seq(RequestSet) /\ responses[x] \in Seq(ResponseSet)
  BY <1>2 DEF Queued
<1>4. \A i \in DOMAIN requests[x] : requests[x][i] \in RequestSet /\ requests[x][i].from = c
  BY <1>1, <1>2, <1>3, Senders DEF Queued, Began
<1>5. \A i \in DOMAIN responses[x] : responses[x][i] \in ResponseSet /\ responses[x][i].for = c
  BY <1>1, <1>2, <1>3, Senders DEF Queued, Began
<1> QED BY <1>1, <1>2, <1>4, <1>5 DEF Queued

LEMMA OwedInit == Init => Owed
BY DEF Init, Owed

LEMMA SendOwing ==
    ASSUME Wired, NEW c \in Clients, Sole(c), Owing(c), NEW d \in Clients, NEW q, Sends(d, q)
    PROVE  OwingOf(client'[c], requests'[Channel(c)], responses'[Channel(c)], c)
<1> USE DEF serverVars
<1>1. PICK x : x = Channel(c)
  OBVIOUS
<1>2. /\ requests \in [Channels -> Seq(RequestSet)] /\ x \in Channels
      /\ client \in [Clients -> {"out", "connecting", "in", "waiting", "gone"}]
  BY <1>1, SoleOwn DEF Wired, Plain
<1>3. PICK s : s = requests[x]
  OBVIOUS
<1>4. OwingOf(client[c], s, responses[x], c) /\ s \in Seq(RequestSet)
  BY <1>1, <1>2, <1>3, OwingNow
<1>5. /\ q \in RequestSet /\ q.from = d /\ client[d] = "in" /\ responses' = responses
      /\ requests' = [requests EXCEPT ![Channel(d)] = Append(@, q)]
      /\ client' = IF q.op = "Shutdown" THEN client ELSE [client EXCEPT ![d] = "waiting"]
  BY DEF Sends, Puts
<1>6. CASE d = c
  <2>1. requests'[x] = Append(s, q) /\ At(s, Wants(c)) = {} /\ At(responses[x], Gets(c)) = {}
    BY <1>1, <1>2, <1>3, <1>4, <1>5, <1>6 DEF OwingOf
  <2>2. CASE q.op = "Shutdown"
    <3>1. q \notin Wants(c) /\ client'[c] = "in"
      BY <1>5, <1>6, <2>2 DEF Wants
    <3>2. At(Append(s, q), Wants(c)) = At(s, Wants(c))
      BY <1>4, <1>5, <3>1, AtAppend
    <3> QED BY <1>1, <1>5, <2>1, <3>1, <3>2 DEF OwingOf
  <2>3. CASE q.op # "Shutdown"
    <3>1. q \in Wants(c) /\ client'[c] = "waiting"
      BY <1>2, <1>5, <1>6, <2>3 DEF Wants
    <3>2. Single(At(Append(s, q), Wants(c)))
      BY <1>4, <1>5, <2>1, <3>1, AtAppend
    <3> QED BY <1>1, <1>5, <2>1, <3>1, <3>2 DEF OwingOf
  <2> QED BY <2>2, <2>3
<1>7. CASE d # c
  <2>1. Channel(d) # x
    BY <1>1, <1>5, <1>7, SoleOwn
  <2>2. requests'[x] = s /\ client'[c] = client[c]
    BY <1>2, <1>3, <1>5, <1>7, <2>1
  <2> QED BY <1>1, <1>4, <1>5, <2>2
<1> QED BY <1>6, <1>7

LEMMA ReceiveOwing ==
    ASSUME Wired, NEW c \in Clients, Sole(c), Owing(c), NEW d \in Clients, Receive(d)
    PROVE  OwingOf(client'[c], requests'[Channel(c)], responses'[Channel(c)], c)
<1>1. PICK x : x = Channel(c)
  OBVIOUS
<1>2. /\ responses \in [Channels -> Seq(ResponseSet)] /\ x \in Channels
      /\ client \in [Clients -> {"out", "connecting", "in", "waiting", "gone"}]
  BY <1>1, SoleOwn DEF Wired, Plain
<1>3. PICK r : r = responses[x]
  OBVIOUS
<1>4. OwingOf(client[c], requests[x], r, c) /\ r \in Seq(ResponseSet)
  BY <1>1, <1>2, <1>3, OwingNow
<1>5. /\ client[d] = "waiting" /\ responses[Channel(d)] # << >> /\ requests' = requests
      /\ responses' = [responses EXCEPT ![Channel(d)] = Tail(@)]
      /\ client' = [client EXCEPT ![d] = "in"]
  BY DEF Receive
<1>6. CASE d = c
  <2>1. r # << >> /\ responses'[x] = Tail(r) /\ client'[c] = "in"
    BY <1>1, <1>2, <1>3, <1>5, <1>6
  <2>2. 1 \in DOMAIN r
    BY <1>4, <2>1, TailIs
  <2>3. r[1] \in Gets(c)
    BY <1>1, <1>3, <2>2, SoleOwn DEF Gets
  <2>4. At(r, Gets(c)) # {}
    BY <2>2, <2>3 DEF At
  <2>5. Single(At(r, Gets(c))) /\ At(requests[x], Wants(c)) = {}
    BY <1>4, <1>5, <1>6, <2>4 DEF OwingOf
  <2>6. At(responses'[x], Gets(c)) = {}
    BY <1>4, <2>1, <2>3, <2>5, AtTail
  <2> QED BY <1>1, <1>5, <2>1, <2>5, <2>6 DEF OwingOf
<1>7. CASE d # c
  <2>1. Channel(d) # x
    BY <1>1, <1>5, <1>7, SoleOwn
  <2>2. responses'[x] = r /\ client'[c] = client[c]
    BY <1>2, <1>3, <1>5, <1>7, <2>1
  <2> QED BY <1>1, <1>4, <1>5, <2>2
<1> QED BY <1>6, <1>7

LEMMA HandleOwing ==
    ASSUME Wired, NEW c \in Clients, Sole(c), Owing(c), handleBatteryCommand \/ handleAdminCommand,
           server' = "running"
    PROVE  OwingOf(client'[c], requests'[Channel(c)], responses'[Channel(c)], c)
<1>1. PICK x : x = Channel(c)
  OBVIOUS
<1>2. PICK y : y = Subject.on
  OBVIOUS
<1>3. /\ requests' = [requests EXCEPT ![y] = Tail(@)] /\ client' = client
      /\ ShutsDown \/ Serves \/ Creates
  BY <1>2, HandleIs
<1>4. Reading
  BY HandleIs
<1>5. /\ y \in Channels /\ requests[y] # << >> /\ 1 \in DOMAIN requests[y]
      /\ Command = requests[y][1] /\ server = "running"
  BY <1>2, <1>4, ReadIs
<1>6. /\ requests \in [Channels -> Seq(RequestSet)] /\ responses \in [Channels -> Seq(ResponseSet)]
      /\ x \in Channels
  BY <1>1, SoleOwn
<1>7. PICK s : s = requests[x]
  OBVIOUS
<1>8. PICK r : r = responses[x]
  OBVIOUS
<1>9. OwingOf(client[c], s, r, c) /\ s \in Seq(RequestSet) /\ r \in Seq(ResponseSet)
  BY <1>1, <1>6, <1>7, <1>8, OwingNow
<1>10. responses' = responses \/ AnswersOn(y)
  <2>1. CASE Creates
    <3>1. Replied
      BY <2>1, CreateIs DEF Creates
    <3> QED BY <1>2, <3>1 DEF Replied
  <2> QED BY <1>2, <1>3, <2>1 DEF ShutsDown, Serves, Replied
<1>11. CASE x # y
  <2>1. requests'[x] = s
    BY <1>3, <1>5, <1>6, <1>7, <1>11
  <2>2. responses'[x] = r
    BY <1>5, <1>6, <1>8, <1>10, <1>11 DEF AnswersOn
  <2> QED BY <1>1, <1>3, <1>9, <2>1, <2>2
<1>12. CASE x = y
  <2>1. PICK h : h = s[1]
    OBVIOUS
  <2>2. /\ s # << >> /\ requests'[x] = Tail(s) /\ h = Command /\ h \in RequestSet /\ h.from = c
        /\ 1 \in DOMAIN s
    BY <1>1, <1>3, <1>5, <1>6, <1>7, <1>12, <2>1, SoleOwn
  <2>3. CASE ShutsDown
    <3>1. h \notin Wants(c) /\ responses' = responses
      BY <2>2, <2>3 DEF Wants, ShutsDown
    <3>2. /\ At(s, Wants(c)) = {} => At(Tail(s), Wants(c)) = {}
          /\ Single(At(s, Wants(c))) => Single(At(Tail(s), Wants(c)))
      BY <1>9, <2>1, <2>2, <3>1, AtTail
    <3> QED BY <1>1, <1>3, <1>8, <1>9, <2>2, <3>1, <3>2 DEF OwingOf
  <2>4. CASE Serves \/ Creates
    <3>1. h.op # "Shutdown"
      <4>1. Creates => Command.op \in CreateCmds
        BY CreateIs DEF Creates
      <4> QED BY <2>2, <2>4, <4>1 DEF Serves, Cmds, CreateCmds
    <3>2. h \in Wants(c)
      BY <2>2, <3>1 DEF Wants
    <3>3. At(s, Wants(c)) # {}
      BY <2>1, <2>2, <3>2 DEF At
    <3>4. client[c] = "waiting" /\ Single(At(s, Wants(c))) /\ At(r, Gets(c)) = {}
      BY <1>9, <3>3 DEF OwingOf
    <3>5. At(Tail(s), Wants(c)) = {}
      BY <1>9, <2>1, <2>2, <3>2, <3>4, AtTail
    <3>6. AnswersOn(y)
      <4>1. Replied
        BY <2>4, CreateIs DEF Creates, Serves
      <4> QED BY <1>2, <1>5, <4>1 DEF Replied
    <3>7. PICK ok \in BOOLEAN : responses' = [responses EXCEPT ![y] = Append(@, Answer(y, ok))]
      BY <3>6 DEF AnswersOn
    <3>8. PICK a : a = Answer(y, ok)
      OBVIOUS
    <3>9. a \in ResponseSet /\ a.for = c
      BY <1>5, <1>7, <1>12, <2>1, <2>2, <3>8, AnswerIs DEF Wired
    <3>10. a \in Gets(c)
      BY <3>9 DEF Gets
    <3>11. Single(At(Append(r, a), Gets(c)))
      BY <1>9, <3>4, <3>9, <3>10, AtAppend
    <3>12. responses'[x] = Append(r, a)
      BY <1>6, <1>8, <1>12, <3>7, <3>8
    <3> QED BY <1>1, <1>3, <2>2, <3>4, <3>5, <3>11, <3>12 DEF OwingOf
  <2> QED BY <1>3, <2>3, <2>4
<1> QED BY <1>11, <1>12

LEMMA SameOwing ==
    ASSUME Wired, NEW c \in Clients, Owing(c), UNCHANGED <<requests, responses>>,
           (client'[c] = "waiting") <=> (client[c] = "waiting")
    PROVE  OwingOf(client'[c], requests'[Channel(c)], responses'[Channel(c)], c)
BY OwingNow DEF OwingOf

LEMMA OwedStep ==
    ASSUME Wired, Owed, [Next]_vars
    PROVE  Owed'
<1> USE DEF counters, serverVars
<1> SUFFICES ASSUME server' = "running", NEW c \in Clients, Sole(c)' PROVE Owing(c)'
  BY DEF Owed
<1>1. mode' = mode
  BY ClientMoves
<1>2. Sole(c) /\ client'[c] # "gone"
  BY <1>1, SoleBefore
<1>3. /\ server = "running" => Owing(c)
      /\ client \in [Clients -> {"out", "connecting", "in", "waiting", "gone"}]
  BY <1>2 DEF Owed, Wired, Plain
<1>4. SUFFICES OwingOf(client'[c], requests'[Channel(c)], responses'[Channel(c)], c)
  BY <1>1, OwingNext
<1>5. CASE Start
  <2>1. server = "off" /\ UNCHANGED <<client, requests, responses>>
    BY <1>5 DEF Start, Wired, Files
  <2>2. client[c] = "out"
    BY <2>1 DEF Wired, Files
  <2>3. PICK x : x = Channel(c)
    OBVIOUS
  <2>4. DOMAIN requests[x] = {} /\ DOMAIN responses[x] = {}
    <3>1. \A d \in Clients : ~Began(d)
      BY <2>1 DEF Wired, Files, Began
    <3>2. x \in Channels /\ Queued
      BY <2>3, ChannelIn DEF Wired
    <3>3. \A i \in DOMAIN requests[x] : requests[x][i].from \in Clients /\ Began(requests[x][i].from)
      BY <3>2, Senders DEF Queued
    <3>4. \A i \in DOMAIN responses[x] : responses[x][i].for \in Clients /\ Began(responses[x][i].for)
      BY <3>2, Senders DEF Queued
    <3>5. DOMAIN requests[x] = {}
      BY <3>1, <3>3
    <3> QED BY <3>1, <3>4, <3>5
  <2> QED BY <2>1, <2>2, <2>3, <2>4 DEF OwingOf, At
<1>6. CASE Falls
  BY <1>6 DEF Falls, GoesDown
<1>7. CASE pollFDs \/ SkipExpired
  BY <1>3, <1>7, SameOwing DEF pollFDs, SkipExpired
<1>8. CASE FifoAccepts /\ server' = server
  BY <1>3, <1>8, SameOwing DEF FifoAccepts, GoesDown
<1>9. CASE TLSAccepts /\ server' = server
  <2>1. UNCHANGED <<requests, responses>> /\ server = "running"
    BY <1>9 DEF TLSAccepts, GoesDown
  <2>2. PICK d \in Clients : client[d] = "connecting" /\ client' = [client EXCEPT ![d] = connected(d)]
    BY <1>9, <2>1 DEF TLSAccepts, GoesDown, Arriving, Wired, Plain, Turn
  <2>3. connected(d) # "waiting"
    BY DEF connected
  <2>4. (client'[c] = "waiting") <=> (client[c] = "waiting")
    BY <1>3, <2>2, <2>3
  <2> QED BY <1>3, <2>1, <2>4, SameOwing
<1>10. CASE handleBatteryCommand \/ handleAdminCommand
  <2>1. server = "running"
    BY <1>10, HandleIs, ReadIs
  <2> QED BY <1>2, <1>3, <1>10, <2>1, HandleOwing
<1>11. ASSUME NEW d \in Clients, Connect(d) \/ Leave(d)
       PROVE  OwingOf(client'[c], requests'[Channel(c)], responses'[Channel(c)], c)
  <2>1. UNCHANGED <<requests, responses, server>>
    BY <1>11 DEF Connect, Leave
  <2>2. \/ client[d] = "out" /\ \E v \in {"in", "connecting"} : client' = [client EXCEPT ![d] = v]
        \/ client' = [client EXCEPT ![d] = "gone"]
    BY <1>11 DEF Connect, ConnectFifo, ConnectNetwork, Leave
  <2>3. (client'[c] = "waiting") <=> (client[c] = "waiting")
    BY <1>2, <1>3, <2>2
  <2> QED BY <1>3, <2>1, <2>3, SameOwing
<1>12. ASSUME NEW d \in Clients, Sending(d)
       PROVE  OwingOf(client'[c], requests'[Channel(c)], responses'[Channel(c)], c)
  <2>1. PICK q : Sends(d, q)
    BY <1>12, SendIs
  <2>2. server' = server
    BY <2>1 DEF Sends, Puts
  <2> QED BY <1>2, <1>3, <2>1, <2>2, SendOwing
<1>13. ASSUME NEW d \in Clients, Receive(d)
       PROVE  OwingOf(client'[c], requests'[Channel(c)], responses'[Channel(c)], c)
  <2>1. server' = server
    BY <1>13 DEF Receive
  <2> QED BY <1>2, <1>3, <1>13, <2>1, ReceiveOwing
<1>14. CASE UNCHANGED vars
  BY <1>3, <1>14, SameOwing DEF vars
<1> QED BY Steps, <1>5, <1>6, <1>7, <1>8, <1>9, <1>10, <1>11, <1>12, <1>13, <1>14

LEMMA SingleCard == \A S : Single(S) => Cardinality(S) = 1
BY FS_Singleton DEF Single

\* A client with a channel to itself has one command under way or one answer coming
\* back while it waits, and neither when it does not: no handler forgets to answer
\* and none answers twice (handleBatteryCommand, the create handlers, the calls of
\* Admin and ClientBattery), for every set of clients, commands and creations,
\* through connections, creations and clients that leave.
THEOREM EveryCallAnsweredOnce == Spec => []AnswersOwed
<1>1. Init => Wired /\ Owed
  BY WiredInit, OwedInit
<1>2. Wired /\ Owed /\ [Next]_vars => Wired' /\ Owed'
  BY WiredStep, OwedStep
<1>3. ASSUME Wired, Owed PROVE AnswersOwed
  <2> SUFFICES ASSUME NEW c \in Clients, server = "running", Sole(c)
               PROVE  Cardinality(Pending(c)) + Cardinality(Answered(c))
                        = IF client[c] = "waiting" THEN 1 ELSE 0
    BY DEF AnswersOwed, Sole
  <2>1. Owing(c)
    BY <1>3 DEF Owed
  <2>2. PICK S : S = Pending(c)
    OBVIOUS
  <2>3. PICK T : T = Answered(c)
    OBVIOUS
  <2>4. /\ Single(S) => Cardinality(S) = 1
        /\ Single(T) => Cardinality(T) = 1
        /\ S = {} => Cardinality(S) = 0
        /\ T = {} => Cardinality(T) = 0
    BY SingleCard, FS_EmptySet
  <2> QED BY <2>1, <2>2, <2>3, <2>4 DEF Owing
<1> QED BY <1>1, <1>2, <1>3, PTL DEF Spec

-----------------------------------------------------------------------------
(***************************************************************************)
(* With clients that behave the server stays up.                           *)
(***************************************************************************)
Orderly ==
    /\ Assumptions \subseteq Discipline
    /\ \A q \in Creations : q.op # "Create_Secure" /\ "admin" \notin Range(q.names)
Well == Wired /\ Owed /\ Free /\ Attended /\ StillReady /\ ShutDownLast /\ Complete /\ NeverDown

LEMMA OrderlyIs ==
    Orderly => /\ "stay" \in Discipline /\ "alone" \in Discipline /\ "fresh" \in Discipline
               /\ "last" \in Discipline
BY DEF Orderly, Assumptions

LEMMA WellInit == Init => Well
<1> SUFFICES ASSUME Init PROVE Well
  OBVIOUS
<1>1. Wired /\ Owed /\ Free
  BY WiredInit, OwedInit, FreeInit
<1>2. /\ server = "off" /\ quitPoll = FALSE /\ ending = FALSE /\ backlog = {} /\ pollables = << >>
      /\ round = {} /\ client = [c \in Clients |-> "out"] /\ fifoFiles = {}
  BY DEF Init
<1>3. \A ch \in Channels : DOMAIN requests[ch] = {}
  BY DEF Init
<1>4. Attended
  <2>1. \A c \in Clients : client[c] = "out"
    BY <1>2
  <2>2. \A i \in DOMAIN pollables : FALSE
    BY <1>2
  <2> QED BY <1>2, <1>3, <2>1, <2>2 DEF Attended
<1>5. StillReady /\ ShutDownLast /\ Complete /\ NeverDown
  BY <1>2, <1>3 DEF StillReady, ShutDownLast, Complete, NeverDown
<1> QED BY <1>1, <1>4, <1>5 DEF Well

LEMMA StayThere ==
    ASSUME Wired, "stay" \in Discipline, [Next]_vars, NEW d \in Clients
    PROVE  /\ There(d) => client'[d] \in {"in", "waiting"}
           /\ mode = "Fifo" /\ client'[d] = "gone" => client[d] = "gone"
<1>1. client \in [Clients -> {"out", "connecting", "in", "waiting", "gone"}]
  BY DEF Wired, Plain
<1>2. \A c \in Clients : ~Leave(c)
  BY DEF Leave
<1> QED BY <1>1, <1>2, ClientSteps DEF Moves, There

\* A command on a channel is from a client that has the channel open.
LEMMA SenderOpen ==
    ASSUME Wired, Attended, NEW ch \in Channels, requests[ch] # << >>
    PROVE  /\ 1 \in DOMAIN requests[ch] /\ requests[ch][1].from \in Clients
           /\ There(requests[ch][1].from) /\ Open(ch)
<1>1. requests[ch] \in Seq(RequestSet) /\ Queued
  BY DEF Wired, Queued
<1>2. 1 \in DOMAIN requests[ch]
  BY <1>1, TailIs
<1>3. PICK c : c = requests[ch][1].from
  OBVIOUS
<1>4. c \in Clients /\ Channel(c) = ch /\ There(c)
  BY <1>1, <1>2, <1>3, Senders DEF Queued, Attended
<1>5. c \in On(ch) \cap Present
  BY <1>4 DEF On, Present, There
<1> QED BY <1>2, <1>3, <1>4, <1>5 DEF Open

LEMMA HandleUp ==
    ASSUME Orderly, Well, handleBatteryCommand \/ handleAdminCommand
    PROVE  server' = "running"
<1>1. PICK x : x = Subject.on
  OBVIOUS
<1>2. Reading /\ (ShutsDown \/ Serves \/ Creates)
  BY HandleIs DEF Well
<1>3. /\ x \in Channels /\ requests[x] # << >> /\ 1 \in DOMAIN requests[x] /\ Command = requests[x][1]
      /\ server = "running" /\ Subject = pollables[Min(round)] /\ Min(round) \in DOMAIN pollables
      /\ Subject.what = "connection"
  BY <1>1, <1>2, ReadIs DEF Well
<1>4. Open(x)
  BY <1>3, SenderOpen DEF Well
<1>5. ASSUME Command.op # "Shutdown" PROVE ~quitPoll
  BY <1>3, <1>5 DEF Well, ShutDownLast
<1>6. CASE ShutsDown
  BY <1>3, <1>6 DEF ShutsDown
<1>7. CASE Serves
  <2>1. ~quitPoll /\ Subject.to # "admin"
    BY <1>5, <1>7 DEF Serves, Cmds
  <2>2. CASE mode = "Fifo"
    <3>1. Subject.to = x /\ x \in fifoFiles
      BY <1>1, <1>3, <2>2 DEF Well, Wired, Polled
    <3> QED BY <1>1, <1>3, <1>4, <1>7, <2>1, <2>2, <3>1 DEF Well, Complete, Serves, getBattery
  <2>3. CASE mode # "Fifo"
    <3>1. mode = "Network"
      BY <2>3, ServerAssumption DEF Well, Wired, Plain
    <3>2. Subject.to \in directory
      BY <1>3, <2>1, <3>1 DEF Well, Complete
    <3> QED BY <1>1, <1>3, <1>4, <1>7, <3>2 DEF Serves, getBattery
  <2> QED BY <2>2, <2>3
<1>8. CASE Creates
  <2>1. PICK k \in Creations : k.op = Command.op /\ k.names = Command.names
    BY <1>8 DEF Creates
  <2>2. /\ Command.op \in CreateCmds
        /\ server' # server => \/ ~Open(Subject.on)
                               \/ mode = "Fifo" /\ Range(Command.names) \cap fifoFiles # {}
                               \/ Command.op = "Create_Secure"
                               \/ Turns /\ ManagerNames[pManagerCounter] \in directory
    BY <1>8, CreateIs DEF Creates
  <2>6. ~(Turns /\ ManagerNames[pManagerCounter] \in directory)
    BY ManagerIs DEF Turns, Well, Free
  <2>3. ~quitPoll /\ Command.op # "Create_Secure" /\ "admin" \notin Range(Command.names)
    BY <1>5, <2>1, <2>2 DEF CreateCmds, Orderly
  <2>4. Range(Command.names) \cap (directory \cup Managers) = {}
    BY <1>3 DEF Well, Free
  <2>5. mode = "Fifo" => Range(Command.names) \cap fifoFiles = {}
    BY <1>3, <2>3, <2>4 DEF Well, Complete
  <2> QED BY <1>1, <1>3, <1>4, <2>2, <2>3, <2>5, <2>6
<1> QED BY <1>2, <1>6, <1>7, <1>8

LEMMA NeverDownStep ==
    ASSUME Orderly, Well, [Next]_vars
    PROVE  server' \notin {"stuck", "dead"}
<1>1. ASSUME Turn("connection"), requests[Subject.on] = << >> PROVE FALSE
  BY <1>1, TurnIs DEF Well, StillReady, Turn, Wired
<1>2. CASE FifoAccepts
  <2>1. PICK t : t = Subject.on
    OBVIOUS
  <2>2. /\ Min(round) \in round /\ Min(round) \in DOMAIN pollables
        /\ Subject = pollables[Min(round)] /\ mode = "Fifo"
        /\ server = "running" /\ Subject.what = "listener"
    BY <1>2, TurnIs DEF Well, Wired, FifoAccepts, Turn
  <2>3. requests[t] # << >> /\ t \in fifoFiles
    BY <2>1, <2>2 DEF Well, StillReady, Wired, Polled
  <2>4. t \in Channels
    BY <2>3 DEF Well, Wired, Files
  <2>5. Open(t)
    BY <2>3, <2>4, SenderOpen DEF Well
  <2> QED BY <1>2, <2>1, <2>2, <2>5 DEF FifoAccepts
<1>3. CASE TLSAccepts
  <2>1. server = "running"
    BY <1>3 DEF TLSAccepts, Turn
  <2>2. \A c \in Arriving(Subject) : client[c] = "connecting"
    BY DEF Arriving, Well, Attended
  <2>3. server' = server
    BY <1>3, <2>2 DEF TLSAccepts
  <2> QED BY <2>1, <2>3
<1>4. CASE ReadsNothing
  BY <1>1, <1>4 DEF ReadsNothing
<1>5. CASE handleBatteryCommand \/ handleAdminCommand
  BY <1>5, HandleUp
<1>6. CASE Start
  BY <1>6 DEF Start, Well, Wired, Plain
<1>7. CASE pollFDs \/ SkipExpired \/ UNCHANGED vars
  BY <1>7 DEF pollFDs, SkipExpired, vars, Well, NeverDown
<1>8. ASSUME NEW c \in Clients, Connect(c) \/ Receive(c) \/ Leave(c) PROVE server' = server
  BY <1>8 DEF Connect, Receive, Leave, serverVars
<1>9. ASSUME NEW c \in Clients, Sending(c) PROVE server' = server
  <2>1. PICK q : Sends(c, q)
    BY <1>9, SendIs
  <2> QED BY <2>1 DEF Sends, Puts, serverVars
<1>10. \A c \in Clients : /\ CallPhysical(c) \/ CallAggregate(c) \/ CallPartition(c) \/ CallSecure(c)
                             \/ CallDynamic(c) => Sending(c)
                          /\ CallBattery(c) \/ CallShutdown(c) => Sending(c)
  BY DEF CallPhysical, CallAggregate, CallPartition, CallSecure, CallDynamic, Sending,
       CreateCmds
<1> QED BY <1>2, <1>3, <1>4, <1>5, <1>6, <1>7, <1>8, <1>9, <1>10 DEF Next, Serve, Well,
     NeverDown

\* The steps that are left: nothing falls and nobody leaves.
LEMMA UpSteps ==
    ASSUME Orderly, Well, [Next]_vars
    PROVE  \/ Start \/ pollFDs \/ SkipExpired
           \/ (FifoAccepts /\ server' = server)
           \/ (TLSAccepts /\ server' = server)
           \/ (handleBatteryCommand \/ handleAdminCommand) /\ server' = "running"
           \/ \E c \in Clients : Connect(c)
           \/ \E c \in Clients : Receive(c)
           \/ \E c \in Clients : \E q : Sends(c, q)
           \/ UNCHANGED vars
<1>1. ~Falls
  BY NeverDownStep DEF Falls, GoesDown
<1>2. \A c \in Clients : ~Leave(c)
  BY OrderlyIs DEF Leave
<1>3. \A c \in Clients : Sending(c) => \E q : Sends(c, q)
  BY SendIs
<1>4. handleBatteryCommand \/ handleAdminCommand => server' = "running"
  BY HandleUp
<1> QED BY <1>1, <1>2, <1>3, <1>4, Steps DEF Well

\* Whoever waits has the channel to itself.
LEMMA WaitsAlone ==
    ASSUME Well, NEW c \in Clients, client[c] = "waiting"
    PROVE  Sole(c)
<1>1. \A d \in Clients : Target[c] = Target[d] /\ client[d] # "out" => c = d
  BY DEF Well, Attended
<1>2. \A d \in Clients : Channel(d) = Channel(c) => d = c \/ Target[c] = Target[d]
  BY DEF Channel
<1> QED BY <1>1, <1>2 DEF Sole, On

\* The answer has come: no command of the client is left.
LEMMA ReceiveNone ==
    ASSUME Well, NEW c \in Clients, Receive(c)
    PROVE  \A i \in DOMAIN requests[Channel(c)] :
               requests[Channel(c)][i].from = c => requests[Channel(c)][i].op = "Shutdown"
<1>1. client[c] = "waiting" /\ responses[Channel(c)] # << >>
  BY DEF Receive
<1>2. PICK x : x = Channel(c)
  OBVIOUS
<1>3. Sole(c) /\ Wired
  BY <1>1, WaitsAlone DEF Well
<1>4. server = "running"
  BY <1>1 DEF Well, ShutDownLast, NeverDown, Wired, Plain, Files
<1>5. Owing(c)
  BY <1>3, <1>4 DEF Well, Owed
<1>6. PICK r : r = responses[x]
  OBVIOUS
<1>7. r \in Seq(ResponseSet) /\ r # << >>
  BY <1>1, <1>2, <1>3, <1>6, ChannelIn DEF Wired, Queued
<1>8. 1 \in DOMAIN r
  BY <1>7, TailIs
<1>9. r[1].for = c
  BY <1>2, <1>3, <1>6, <1>8, SoleOwn
<1>10. Answered(c) # {}
  BY <1>2, <1>6, <1>8, <1>9 DEF Answered
<1>11. Pending(c) = {}
  BY <1>1, <1>5, <1>10 DEF Owing
<1> QED BY <1>11 DEF Pending

LEMMA AttendedClients ==
    ASSUME Orderly, Well, [Next]_vars
    PROVE  /\ \A c \in backlog' : client'[c] = "connecting"
           /\ mode' = "Fifo" => \A c \in Clients : client'[c] # "gone"
           /\ \A c, d \in Clients :
                Target[c] = Target[d] /\ client'[c] # "out" /\ client'[d] # "out" => c = d
<1>1. Wired /\ "stay" \in Discipline /\ mode' = mode
  BY OrderlyIs, ClientSteps DEF Well
<1>2. /\ client \in [Clients -> {"out", "connecting", "in", "waiting", "gone"}]
      /\ backlog \subseteq Clients
      /\ \A c \in backlog : client[c] = "connecting"
  BY <1>1 DEF Wired, Plain, Well, Attended
<1>3. mode' = "Fifo" => \A c \in Clients : client'[c] # "gone"
  BY <1>1, StayThere DEF Well, Attended
<1>4. \A c, d \in Clients : Target[c] = Target[d] /\ client'[c] # "out" /\ client'[d] # "out" => c = d
  <2>1. \A c, d \in Clients : Target[c] = Target[d] /\ client[c] # "out" /\ client[d] # "out" => c = d
    BY DEF Well, Attended
  <2>2. CASE client' = client
    BY <2>1, <2>2
  <2>3. ASSUME NEW e \in Clients, Moves(e), client[e] # "out"
        PROVE  \A c \in Clients : client'[c] # "out" => client[c] # "out"
    BY <1>2, <2>3 DEF Moves
  <2>4. ASSUME NEW e \in Clients, Connect(e)
        PROVE  /\ \A d \in Clients \ {e} : Target[d] = Target[e] => client[d] = "out"
               /\ \A d \in Clients \ {e} : client'[d] = client[d]
    BY <1>2, <2>4, OrderlyIs DEF Connect, ConnectFifo, ConnectNetwork
  <2>5. ASSUME NEW e \in Clients, Connect(e), NEW c \in Clients, NEW d \in Clients,
               Target[c] = Target[d], client'[c] # "out", client'[d] # "out"
        PROVE  c = d
    BY <2>1, <2>4, <2>5
  <2>6. \A e \in Clients : Moves(e) => client[e] # "out" \/ Connect(e)
    BY DEF Moves
  <2>7. client' = client \/ \E e \in Clients : Moves(e)
    BY <1>1, ClientSteps
  <2>8. CASE \E e \in Clients : Moves(e) /\ client[e] # "out"
    BY <2>1, <2>3, <2>8
  <2>9. CASE \E e \in Clients : Connect(e)
    BY <2>5, <2>9
  <2> QED BY <2>2, <2>6, <2>7, <2>8, <2>9
<1>5. \A c \in backlog' : client'[c] = "connecting"
  <2>1. CASE Start \/ pollFDs \/ SkipExpired \/ (FifoAccepts /\ server' = server) \/ UNCHANGED vars
    BY <1>2, <2>1 DEF Start, pollFDs, SkipExpired, FifoAccepts, GoesDown, counters, vars
  <2>2. CASE TLSAccepts /\ server' = server
    <3>1. PICK c \in backlog : /\ client[c] = "connecting" /\ backlog' = backlog \ {c}
                               /\ client' = [client EXCEPT ![c] = connected(c)]
      BY <1>2, <2>2 DEF TLSAccepts, Arriving
    <3> QED BY <1>2, <3>1
  <2>3. CASE handleBatteryCommand \/ handleAdminCommand
    BY <1>1, <1>2, <2>3, HandleIs
  <2>4. ASSUME NEW c \in Clients, Connect(c) PROVE \A d \in backlog' : client'[d] = "connecting"
    BY <1>2, <2>4 DEF Connect, ConnectFifo, ConnectNetwork
  <2>5. ASSUME NEW c \in Clients, Receive(c) PROVE \A d \in backlog' : client'[d] = "connecting"
    BY <1>2, <2>5 DEF Receive
  <2>6. ASSUME NEW c \in Clients, NEW q, Sends(c, q)
        PROVE  \A d \in backlog' : client'[d] = "connecting"
    <3>1. /\ client[c] = "in"
          /\ (client' = client \/ client' = [client EXCEPT ![c] = "waiting"])
          /\ backlog' = backlog
      BY <2>6 DEF Sends, Puts
    <3> QED BY <1>2, <3>1
  <2> QED BY UpSteps, <2>1, <2>2, <2>3, <2>4, <2>5, <2>6
<1> QED BY <1>3, <1>4, <1>5

LEMMA StayWaiting ==
    ASSUME Wired, "stay" \in Discipline, [Next]_vars, NEW d \in Clients, client[d] = "waiting"
    PROVE  client'[d] = "waiting" \/ Receive(d)
<1>1. client \in [Clients -> {"out", "connecting", "in", "waiting", "gone"}]
  BY DEF Wired, Plain
<1>2. \A c \in Clients : ~Leave(c)
  BY DEF Leave
<1> QED BY <1>1, <1>2, ClientSteps DEF Moves

LEMMA AttendedQueues ==
    ASSUME Orderly, Well, [Next]_vars
    PROVE  \A ch \in Channels : \A i \in DOMAIN requests'[ch] :
             /\ client'[requests'[ch][i].from] \in {"in", "waiting"}
             /\ requests'[ch][i].op # "Shutdown" => client'[requests'[ch][i].from] = "waiting"
<1> TAKE ch \in Channels
<1> TAKE i \in DOMAIN requests'[ch]
<1>1. /\ Wired /\ "stay" \in Discipline /\ Queued
      /\ client \in [Clients -> {"out", "connecting", "in", "waiting", "gone"}]
  BY OrderlyIs DEF Well, Wired, Plain
<1>2. PICK p : p = requests'[ch][i]
  OBVIOUS
\* A command that was there before.
<1>3. ASSUME NEW k \in DOMAIN requests[ch], p = requests[ch][k]
      PROVE  /\ client'[p.from] \in {"in", "waiting"}
             /\ p.op # "Shutdown" => client'[p.from] = "waiting"
  <2>1. PICK c : c = p.from
    OBVIOUS
  <2>2. c \in Clients /\ Channel(c) = ch /\ There(c) /\ (p.op # "Shutdown" => client[c] = "waiting")
    BY <1>1, <1>3, <2>1, Senders DEF Queued, Well, Attended
  <2>3. client'[c] \in {"in", "waiting"}
    BY <1>1, <2>2, StayThere
  <2>4. ASSUME p.op # "Shutdown" PROVE client'[c] = "waiting"
    <3>1. ~Receive(c)
      BY <1>3, <2>1, <2>2, <2>4, ReceiveNone
    <3> QED BY <1>1, <2>2, <2>4, <3>1, StayWaiting
  <2> QED BY <2>1, <2>3, <2>4
<1>4. CASE handleBatteryCommand \/ handleAdminCommand
  <2>1. PICK x : x = Subject.on
    OBVIOUS
  <2>2. Reading /\ requests' = [requests EXCEPT ![x] = Tail(@)]
    BY <1>1, <1>4, <2>1, HandleIs
  <2>3. x \in Channels /\ requests[x] # << >>
    BY <1>1, <2>1, <2>2, ReadIs
  <2>4. Shift(x, ch, i) \in DOMAIN requests[ch] /\ p = requests[ch][Shift(x, ch, i)]
    BY <1>1, <1>2, <2>2, <2>3, TakeShift
  <2> QED BY <1>2, <1>3, <2>4
<1>5. ASSUME NEW c \in Clients, NEW q, Sends(c, q)
      PROVE  /\ client'[p.from] \in {"in", "waiting"}
             /\ p.op # "Shutdown" => client'[p.from] = "waiting"
  <2>1. (i \in DOMAIN requests[ch] /\ p = requests[ch][i]) \/ p = q
    BY <1>1, <1>2, <1>5, PutShift
  <2>2. CASE p = q
    BY <1>1, <1>5, <2>2 DEF Sends
  <2> QED BY <1>3, <2>1, <2>2
<1>6. CASE requests' = requests
  BY <1>2, <1>3, <1>6
<1>7. requests' = requests \/ handleBatteryCommand \/ handleAdminCommand \/ \E c \in Clients : Sending(c)
  BY <1>1, Quiet
<1> QED BY <1>2, <1>4, <1>5, <1>6, <1>7, SendIs

LEMMA NetworkPollables ==
    ASSUME Orderly, Well, [Next]_vars, mode = "Network"
    PROVE  \/ pollables' = pollables
           \/ round' = {} /\ \A i \in DOMAIN pollables' : pollables'[i].what = "listener"
           \/ \E c \in Clients : /\ TLSAccepts /\ server' = server /\ connected(c) = "in"
                                 /\ client[c] = "connecting" /\ client'[c] = "in"
                                 /\ pollables' = Append(pollables, Connection(c, Target[c]))
<1> USE DEF serverVars, counters
<1>1. /\ client \in [Clients -> {"out", "connecting", "in", "waiting", "gone"}] /\ Wired
      /\ backlog \subseteq Clients
  BY DEF Well, Wired, Plain
<1>2. CASE Start
  <2>1. pollables' = <<Listener("admin"), Listener("battery")>> /\ round' = {}
    BY <1>2 DEF Start
  <2> QED BY <2>1 DEF Listener
<1>3. CASE pollFDs \/ SkipExpired \/ UNCHANGED vars
  BY <1>3 DEF pollFDs, SkipExpired, vars
<1>4. ~FifoAccepts
  BY DEF FifoAccepts
<1>5. CASE TLSAccepts /\ server' = server
  <2>1. server = "running"
    BY <1>5 DEF TLSAccepts, Turn
  <2>2. PICK c \in Clients : /\ client[c] = "connecting"
                             /\ client' = [client EXCEPT ![c] = connected(c)]
                             /\ \/ connected(c) = "in" /\ accept(c, Target[c])
                                \/ connected(c) = "gone" /\ UNCHANGED <<pollables, admin>>
    BY <1>1, <1>5, <2>1 DEF TLSAccepts, Arriving, GoesDown
  <2> QED BY <1>1, <1>5, <2>2 DEF accept
<1>6. CASE handleBatteryCommand \/ handleAdminCommand
  <2>1. ShutsDown \/ Serves \/ Creates
    BY <1>1, <1>6, HandleIs
  <2>2. Creates => Same
    <3>1. ~Grown(Command.names)
      BY DEF Grown
    <3> QED BY <3>1, CreateIs DEF Creates
  <2> QED BY <2>1, <2>2 DEF ShutsDown, Serves, Same
<1>7. ASSUME NEW c \in Clients, Connect(c) \/ Receive(c) PROVE pollables' = pollables
  BY <1>7 DEF Connect, Receive
<1>8. ASSUME NEW c \in Clients, NEW q, Sends(c, q) PROVE pollables' = pollables
  BY <1>8 DEF Sends, Puts
<1> QED BY UpSteps, <1>2, <1>3, <1>4, <1>5, <1>6, <1>7, <1>8

LEMMA AttendedStep ==
    ASSUME Orderly, Well, [Next]_vars
    PROVE  Attended'
<1>1. Wired /\ "stay" \in Discipline /\ mode' = mode /\ Polled
  BY OrderlyIs, ClientSteps DEF Well, Wired
<1>2. Channels' = Channels
  BY <1>1, ModeSame
<1>3. ASSUME NEW i \in DOMAIN pollables', mode = "Network", pollables'[i].what = "connection"
      PROVE  client'[pollables'[i].on] \in {"in", "waiting"}
  <2>1. ASSUME i \in DOMAIN pollables, pollables'[i] = pollables[i]
        PROVE  client'[pollables'[i].on] \in {"in", "waiting"}
    <3>1. There(pollables[i].on) /\ pollables[i].on \in Clients
      BY <1>1, <1>3, <2>1 DEF Polled, Well, Attended
    <3> QED BY <1>1, <2>1, <3>1, StayThere
  <2>2. ASSUME NEW c \in Clients, client'[c] = "in", pollables' = Append(pollables, Connection(c, Target[c]))
        PROVE  client'[pollables'[i].on] \in {"in", "waiting"}
    <3>1. PICK p : p = Connection(c, Target[c])
      OBVIOUS
    <3>2. p \in PollableSet /\ p.on = c
      <4>1. c \in Channels
        BY <1>3 DEF Channels
      <4>2. Target[c] \in Targets
        BY DEF Targets
      <4> QED BY <3>1, <4>1, <4>2, SamePollable
    <3>3. pollables \in Seq(PollableSet)
      BY <1>1 DEF Polled
    <3>4. (i \in DOMAIN pollables /\ pollables'[i] = pollables[i]) \/ pollables'[i] = p
      BY <1>3, <2>2, <3>1, <3>2, <3>3, AppendIs
    <3> QED BY <2>1, <2>2, <3>2, <3>4
  <2>3. CASE pollables' = pollables
    BY <1>3, <2>1, <2>3
  <2>4. ~(\A k \in DOMAIN pollables' : pollables'[k].what = "listener")
    BY <1>3
  <2> QED BY <1>3, <2>2, <2>3, <2>4, NetworkPollables
<1> QED BY <1>1, <1>2, <1>3, AttendedClients, AttendedQueues DEF Attended, There

\* Nobody who has a FIFO or a connection that is polled has hung up.
LEMMA NotHungUp ==
    ASSUME Well, NEW i \in DOMAIN pollables, mode = "Fifo" \/ pollables[i].what = "connection"
    PROVE  ~HungUp(pollables[i].on)
<1>1. PICK ch : ch = pollables[i].on
  OBVIOUS
<1>2. CASE mode = "Fifo"
  BY <1>2 DEF Well, Attended, HungUp, On
<1>3. CASE mode # "Fifo"
  <2>1. mode = "Network"
    BY <1>3, ServerAssumption DEF Well, Wired, Plain
  <2>2. There(ch) /\ ch \in Clients
    BY <1>1, <1>3, <2>1 DEF Well, Attended, Wired, Polled
  <2>3. ch \in On(ch) \cap Present
    BY <2>1, <2>2 DEF On, Channel, Present, There
  <2> QED BY <1>1, <2>3 DEF HungUp, Open
<1> QED BY <1>2, <1>3

StillThen == \A i \in round' : mode = "Fifo" \/ pollables'[i].what = "connection" =>
                                   requests'[pollables'[i].on] # << >>

\* A handler that is still to run reads from another channel than the one that ran.
LEMMA HandleStill ==
    ASSUME Well, handleBatteryCommand \/ handleAdminCommand
    PROVE  StillThen
<1>1. PICK x : x = Subject.on
  OBVIOUS
<1>2. /\ Reading /\ requests' = [requests EXCEPT ![x] = Tail(@)] /\ round' = round \ {Min(round)}
      /\ ShutsDown \/ Serves \/ Creates
  BY <1>1, HandleIs DEF Well
<1>3. /\ x \in Channels /\ server = "running" /\ Subject = pollables[Min(round)]
      /\ Min(round) \in DOMAIN pollables /\ Subject.what = "connection" /\ Subject \in PollableSet
  BY <1>1, <1>2, ReadIs DEF Well
<1>4. requests \in [Channels -> Seq(RequestSet)] /\ Polled /\ round \subseteq DOMAIN pollables
      /\ pollables \in Seq(PollableSet)
  BY DEF Well, Wired, Queued, Polled
<1>5. \A i \in DOMAIN pollables : pollables'[i] = pollables[i]
  <2>1. CASE Same
    BY <2>1 DEF Same
  <2>2. CASE Creates /\ ~Same
    <3>1. Grown(Command.names) /\ Command.names \in Seq(Range(Command.names))
      BY <2>2, CreateIs DEF Creates
    <3>2. PICK ns : ns = Command.names
      OBVIOUS
    <3>3. PICK t : t = [j \in DOMAIN ns |-> Listener(ns[j])]
      OBVIOUS
    <3>4. pollables' = pollables \o t /\ t \in Seq({Listener(u) : u \in Range(ns)})
      <4>1. pollables' = pollables \o t
        BY <3>1, <3>2, <3>3 DEF Grown
      <4>2. ns \in Seq(Range(ns)) /\ \A j \in DOMAIN ns : ns[j] \in Range(ns)
        BY <3>1, <3>2 DEF Range
      <4>3. t \in Seq({Listener(u) : u \in Range(ns)})
        BY <3>3, <4>2
      <4> QED BY <4>1, <4>3
    <3>5. Len(pollables) \in Nat /\ Len(t) \in Nat /\ DOMAIN pollables = 1 .. Len(pollables)
      BY <1>4, <3>4
    <3>6. \A i \in 1 .. Len(pollables) : i \in 1 .. Len(pollables) + Len(t) /\ i <= Len(pollables)
      BY <3>5
    <3>7. PICK S : S = PollableSet \cup {Listener(u) : u \in Range(ns)}
      OBVIOUS
    <3>8. pollables \in Seq(S) /\ t \in Seq(S)
      BY <1>4, <3>4, <3>7
    <3>9. \A i \in 1 .. Len(pollables) + Len(t) :
            (pollables \o t)[i] = IF i <= Len(pollables) THEN pollables[i] ELSE t[i - Len(pollables)]
      BY <3>8, ConcatIs
    <3> QED BY <3>4, <3>5, <3>6, <3>9
  <2> QED BY <1>2, <2>1, <2>2 DEF ShutsDown, Serves
<1>6. ASSUME NEW i \in round', mode = "Fifo" \/ pollables'[i].what = "connection"
      PROVE  requests'[pollables'[i].on] # << >>
  <2>1. PICK p : p = pollables[i]
    OBVIOUS
  <2>2. /\ i \in round /\ i # Min(round) /\ i \in DOMAIN pollables /\ pollables'[i] = p
        /\ p \in PollableSet
    BY <1>2, <1>4, <1>5, <1>6, <2>1
  <2>3. requests[p.on] # << >>
    BY <1>3, <1>6, <2>1, <2>2 DEF Well, StillReady
  <2>4. p # Subject
    BY <1>3, <1>4, <2>1, <2>2 DEF Polled
  <2>5. p.on # x
    <3>1. CASE p.what = "connection"
      <4>1. p.on = x => p.to = Subject.to
        BY <1>1, <1>3, <1>4, <2>1, <2>2, <3>1 DEF Polled
      <4> QED BY <1>1, <1>3, <2>2, <2>4, <3>1, <4>1, SamePollable
    <3>2. CASE p.what # "connection"
      <4>1. p.what = "listener" /\ mode = "Fifo"
        BY <1>6, <2>2, <3>2 DEF PollableSet
      <4>2. p.on \in idleFd
        BY <1>4, <2>1, <2>2, <4>1 DEF Polled
      <4>3. x \notin idleFd
        BY <1>1, <1>3, <1>4, <4>1 DEF Polled
      <4> QED BY <4>2, <4>3
    <3> QED BY <3>1, <3>2
  <2>6. p.on \in Channels
    <3>1. mode = "Fifo" => p.on \in fifoFiles
      BY <1>4, <2>1, <2>2 DEF Polled, PollableSet
    <3>2. mode # "Fifo" => p.on \in Clients
      BY <1>4, <1>6, <2>1, <2>2 DEF Polled
    <3> QED BY <3>1, <3>2 DEF Well, Wired, Files, Channels
  <2>7. requests'[p.on] = requests[p.on]
    BY <1>2, <1>4, <2>5, <2>6
  <2> QED BY <2>2, <2>3, <2>7
<1> QED BY <1>6 DEF StillThen

LEMMA StillReadyStep ==
    ASSUME Orderly, Well, [Next]_vars
    PROVE  StillReady'
<1> USE DEF counters, serverVars
<1>1. Wired /\ mode' = mode /\ Polled /\ round \subseteq DOMAIN pollables
  BY ClientSteps DEF Well, Wired, Polled
<1>2. SUFFICES ASSUME server' = "running" PROVE StillThen
  BY <1>1 DEF StillReady, StillThen
<1>3. ASSUME server = "running", round' \subseteq round, \A i \in round : pollables'[i] = pollables[i],
             \A ch : requests[ch] # << >> => requests'[ch] # << >>
      PROVE  StillThen
  BY <1>3 DEF Well, StillReady, StillThen
<1>4. CASE Start
  BY <1>4 DEF Start, StillThen
<1>5. CASE pollFDs
  <2>1. /\ pollables' = pollables /\ requests' = requests
        /\ round' = {i \in DOMAIN pollables : Ready(pollables[i])}
    BY <1>2, <1>5 DEF pollFDs
  <2>2. ASSUME NEW i \in DOMAIN pollables, Ready(pollables[i]),
               mode = "Fifo" \/ pollables[i].what = "connection"
        PROVE  requests[pollables[i].on] # << >>
    <3>1. ~HungUp(pollables[i].on)
      BY <2>2, NotHungUp
    <3> QED BY <2>2, <3>1 DEF Ready
  <2> QED BY <2>1, <2>2 DEF StillThen
<1>6. CASE SkipExpired
  BY <1>3, <1>6 DEF SkipExpired, Done
<1>7. ASSUME NEW x \in Channels, NEW t \in Channels \cup Targets, accept(x, t), round' = round \ {Min(round)},
             server = "running", requests' = requests
      PROVE  StillThen
  <2>1. PICK p : p = Connection(x, t)
    OBVIOUS
  <2>2. p \in PollableSet /\ pollables \in Seq(PollableSet) /\ pollables' = Append(pollables, p)
    BY <1>1, <1>7, <2>1, SamePollable DEF Polled, accept
  <2>3. \A i \in DOMAIN pollables : pollables'[i] = pollables[i]
    BY <2>2, AppendIs
  <2> QED BY <1>1, <1>3, <1>7, <2>3
<1>8. CASE FifoAccepts /\ server' = server
  <2>1. PICK t : t = Subject.on
    OBVIOUS
  <2>2. mode = "Fifo" /\ server = "running" /\ round # {} /\ Subject.what = "listener"
    BY <1>8 DEF FifoAccepts, Turn
  <2>3. t \in Channels
    BY <1>1, <2>1, <2>2, TurnIs DEF Polled, Well, Wired, Files
  <2>4. accept(t, t) /\ round' = round \ {Min(round)} /\ requests' = requests
    BY <1>8, <2>1, <2>2 DEF FifoAccepts, GoesDown, Done
  <2> QED BY <1>7, <2>2, <2>3, <2>4
<1>9. CASE TLSAccepts /\ server' = server
  <2>1. server = "running" /\ mode = "Network" /\ backlog \subseteq Clients
    BY <1>1, <1>9 DEF TLSAccepts, Turn, Wired, Plain
  <2>2. PICK c \in Clients : /\ accept(c, Target[c]) \/ UNCHANGED <<pollables, admin>>
                             /\ round' = round \ {Min(round)} /\ requests' = requests
    BY <1>9, <2>1 DEF TLSAccepts, Arriving, GoesDown, Done
  <2>3. c \in Channels /\ Target[c] \in Channels \cup Targets
    BY <2>1 DEF Channels, Targets
  <2> QED BY <1>3, <1>7, <2>1, <2>2, <2>3
<1>10. CASE handleBatteryCommand \/ handleAdminCommand
  BY <1>10, HandleStill
<1>11. CASE (\E c \in Clients : Connect(c)) \/ (\E c \in Clients : Receive(c)) \/ UNCHANGED vars
  BY <1>2, <1>3, <1>11 DEF Connect, Receive, vars
<1>12. ASSUME NEW c \in Clients, NEW q, Sends(c, q) PROVE StillThen
  <2>1. PICK x : x = Channel(c)
    OBVIOUS
  <2>2. /\ requests' = [requests EXCEPT ![x] = Append(@, q)] /\ UNCHANGED <<server, pollables, round>>
        /\ q \in RequestSet
    BY <1>12, <2>1 DEF Sends, Puts
  <2>3. x \in Channels /\ requests \in [Channels -> Seq(RequestSet)]
    BY <2>1, ChannelIn DEF Well, Wired, Queued
  <2>4. requests'[x] # << >> /\ \A ch : ch # x => requests'[ch] = requests[ch]
    BY <2>2, <2>3
  <2> QED BY <1>2, <1>3, <2>2, <2>4
<1> QED BY UpSteps, <1>4, <1>5, <1>6, <1>8, <1>9, <1>10, <1>11, <1>12

\* The clients and the flags of the last command.
LEMMA LastFlags ==
    ASSUME Orderly, Well, [Next]_vars
    PROVE  /\ quitPoll' \/ server' \in {"stopped", "nostart"} => ending'
           /\ ending' => \A c \in Clients : client'[c] # "waiting"
<1> USE DEF counters, serverVars
<1>1. /\ Wired /\ client \in [Clients -> {"out", "connecting", "in", "waiting", "gone"}]
      /\ ending \in BOOLEAN /\ quitPoll \in BOOLEAN
      /\ (quitPoll \/ server \in {"stopped", "nostart"} => ending)
      /\ (ending => \A c \in Clients : client[c] # "waiting")
  BY DEF Well, Wired, Plain, ShutDownLast
<1>2. CASE Start
  <2>1. ending' = ending /\ client' = client /\ quitPoll' = FALSE
    BY <1>2 DEF Start
  <2>2. server' \in {"nostart", "running"} /\ (server' = "nostart" => server = "stopped")
    BY <1>2 DEF Start, Well, NeverDown, Wired, Files
  <2> QED BY <1>1, <2>1, <2>2
<1>3. CASE pollFDs \/ SkipExpired \/ (FifoAccepts /\ server' = server) \/ UNCHANGED vars
  BY <1>1, <1>3 DEF pollFDs, SkipExpired, FifoAccepts, GoesDown, vars
<1>4. CASE TLSAccepts /\ server' = server
  <2>1. UNCHANGED <<quitPoll, ending>>
    BY <1>4 DEF TLSAccepts, GoesDown
  <2>2. \A c \in Clients : client'[c] = "waiting" => client[c] = "waiting"
    <3>1. \A c \in Clients : connected(c) # "waiting"
      BY DEF connected
    <3> QED BY <1>1, <1>4, <3>1 DEF TLSAccepts, GoesDown
  <2> QED BY <1>1, <1>4, <2>1, <2>2
<1>5. CASE (handleBatteryCommand \/ handleAdminCommand) /\ server' = "running"
  <2>1. UNCHANGED <<client, ending>> /\ Reading /\ (ShutsDown \/ Serves \/ Creates)
    BY <1>1, <1>5, HandleIs
  <2>2. PICK x \in Channels : 1 \in DOMAIN requests[x] /\ Command = requests[x][1]
    BY <1>1, <2>1, ReadIs
  <2>3. Command.op = "Shutdown" => ending
    BY <2>2 DEF Well, ShutDownLast
  <2>4. quitPoll' = quitPoll \/ Command.op = "Shutdown"
    BY <2>1 DEF ShutsDown, Serves, Creates
  <2> QED BY <1>1, <1>5, <2>1, <2>3, <2>4
<1>6. ASSUME NEW c \in Clients, Connect(c) \/ Receive(c)
      PROVE  /\ quitPoll' \/ server' \in {"stopped", "nostart"} => ending'
             /\ ending' => \A d \in Clients : client'[d] # "waiting"
  <2>1. UNCHANGED <<quitPoll, server, ending>>
    BY <1>6 DEF Connect, Receive
  <2>2. \E v \in {"in", "connecting"} : client' = [client EXCEPT ![c] = v]
    BY <1>6 DEF Connect, ConnectFifo, ConnectNetwork, Receive
  <2> QED BY <1>1, <2>1, <2>2
<1>7. ASSUME NEW c \in Clients, NEW q, Sends(c, q)
      PROVE  /\ quitPoll' \/ server' \in {"stopped", "nostart"} => ending'
             /\ ending' => \A d \in Clients : client'[d] # "waiting"
  <2>1. UNCHANGED <<quitPoll, server>> /\ ~ending
    BY <1>7, OrderlyIs DEF Sends, Puts, MaySend
  <2>2. ending' => \A d \in Clients : client'[d] # "waiting"
    BY <1>7, <2>1, OrderlyIs DEF Sends, CallShutdown
  <2> QED BY <1>1, <2>1, <2>2
<1> QED BY UpSteps, <1>2, <1>3, <1>4, <1>5, <1>6, <1>7

\* When Shutdown is sent there is no other command.
LEMMA NoneLeft ==
    ASSUME Well, ~ending, \A c \in Clients : client[c] # "waiting"
    PROVE  \A ch \in Channels : DOMAIN requests[ch] = {}
<1>1. \A ch \in Channels : \A i \in DOMAIN requests[ch] :
        requests[ch][i].from \in Clients /\ requests[ch][i].op # "Shutdown"
  BY Senders DEF Well, ShutDownLast, Wired
<1>2. \A ch \in Channels : \A i \in DOMAIN requests[ch] : client[requests[ch][i].from] = "waiting"
  BY <1>1 DEF Well, Attended
<1> QED BY <1>1, <1>2

LastQueues ==
    \A ch \in Channels : \A i \in DOMAIN requests'[ch] :
        /\ requests'[ch][i].op = "Shutdown" => ending'
        /\ ending' => /\ requests'[ch][i].op = "Shutdown" /\ ~quitPoll'
                      /\ \A dh \in Channels : \A j \in DOMAIN requests'[dh] : <<ch, i>> = <<dh, j>>

LEMMA HandleLast ==
    ASSUME Well, handleBatteryCommand \/ handleAdminCommand
    PROVE  LastQueues
<1>1. PICK x : x = Subject.on
  OBVIOUS
<1>2. /\ Reading /\ requests' = [requests EXCEPT ![x] = Tail(@)] /\ ending' = ending
      /\ ShutsDown \/ Serves \/ Creates
  BY <1>1, HandleIs DEF Well
<1>3. /\ x \in Channels /\ requests[x] # << >> /\ 1 \in DOMAIN requests[x] /\ Wired
      /\ Command = requests[x][1]
  BY <1>1, <1>2, ReadIs DEF Well
<1>4. \A ch \in Channels : \A i \in DOMAIN requests'[ch] :
             /\ Shift(x, ch, i) \in DOMAIN requests[ch]
             /\ requests'[ch][i] = requests[ch][Shift(x, ch, i)]
             /\ ch = x => Shift(x, ch, i) # 1
  BY <1>2, <1>3, TakeShift
<1>5. CASE ending
  <2>1. \A ch \in Channels : \A i \in DOMAIN requests[ch] : <<ch, i>> = <<x, 1>>
    BY <1>3, <1>5 DEF Well, ShutDownLast
  <2>2. \A ch \in Channels : DOMAIN requests'[ch] = {}
    BY <1>4, <2>1
  <2> QED BY <2>2 DEF LastQueues
<1>6. CASE ~ending
  <2>1. \A ch \in Channels : \A i \in DOMAIN requests'[ch] : requests'[ch][i].op # "Shutdown"
    BY <1>4, <1>6 DEF Well, ShutDownLast
  <2> QED BY <1>2, <1>6, <2>1 DEF LastQueues
<1> QED BY <1>5, <1>6

LEMMA SendLast ==
    ASSUME Orderly, Well, NEW c \in Clients, NEW q, Sends(c, q)
    PROVE  LastQueues
<1>1. ~ending /\ Wired /\ quitPoll' = quitPoll
  BY OrderlyIs DEF Sends, MaySend, Well, Puts, serverVars
<1>2. PICK n \in Nat : \A ch \in Channels : \A i \in DOMAIN requests'[ch] :
                          \/ i \in DOMAIN requests[ch] /\ requests'[ch][i] = requests[ch][i]
                          \/ ch = Channel(c) /\ i = n /\ requests'[ch][i] = q
  BY <1>1, PutShift
<1>3. CASE q.op = "Shutdown"
  <2>1. ending' = TRUE /\ \A d \in Clients : client[d] # "waiting"
    BY <1>3, OrderlyIs DEF Sends, CallShutdown
  <2>2. \A ch \in Channels : DOMAIN requests[ch] = {}
    BY <1>1, <2>1, NoneLeft
  <2>3. \A ch \in Channels : \A i \in DOMAIN requests'[ch] : ch = Channel(c) /\ i = n /\ requests'[ch][i] = q
    BY <1>2, <2>2
  <2>4. ~quitPoll
    BY <1>1 DEF Well, ShutDownLast
  <2> QED BY <1>1, <1>3, <2>1, <2>3, <2>4 DEF LastQueues
<1>4. CASE q.op # "Shutdown"
  <2>1. ending' = ending
    BY <1>4 DEF Sends
  <2>2. \A ch \in Channels : \A i \in DOMAIN requests[ch] : requests[ch][i].op # "Shutdown"
    BY <1>1 DEF Well, ShutDownLast
  <2> QED BY <1>1, <1>2, <1>4, <2>1, <2>2 DEF LastQueues
<1> QED BY <1>3, <1>4

LEMMA LastStep ==
    ASSUME Orderly, Well, [Next]_vars
    PROVE  ShutDownLast'
<1> USE DEF counters, serverVars
<1>1. Wired /\ mode' = mode
  BY ClientSteps DEF Well
<1>2. Channels' = Channels
  BY <1>1, ModeSame
<1> SUFFICES LastQueues
  BY <1>2, LastFlags DEF ShutDownLast, LastQueues
<1>3. CASE UNCHANGED <<requests, ending>> /\ (quitPoll' = quitPoll \/ quitPoll' = FALSE)
  BY <1>3 DEF Well, ShutDownLast, LastQueues
<1>4. CASE Start \/ pollFDs \/ SkipExpired \/ (FifoAccepts /\ server' = server)
           \/ (TLSAccepts /\ server' = server) \/ UNCHANGED vars
  <2>1. UNCHANGED <<requests, ending>>
    BY <1>4 DEF Start, pollFDs, SkipExpired, FifoAccepts, TLSAccepts, GoesDown, vars
  <2>2. quitPoll' = quitPoll \/ quitPoll' = FALSE
    BY <1>4 DEF Start, pollFDs, SkipExpired, FifoAccepts, TLSAccepts, GoesDown, vars
  <2> QED BY <1>3, <2>1, <2>2
<1>5. CASE (\E c \in Clients : Connect(c)) \/ (\E c \in Clients : Receive(c))
  <2>1. UNCHANGED <<requests, ending, quitPoll>>
    BY <1>5 DEF Connect, Receive
  <2> QED BY <1>3, <2>1
<1> QED BY UpSteps, <1>4, <1>5, HandleLast, SendLast

LEMMA CompleteStep ==
    ASSUME Orderly, Well, [Next]_vars
    PROVE  Complete'
<1> USE DEF counters, serverVars
<1>1. Wired /\ mode' = mode /\ Polled /\ (mode = "Fifo" \/ mode = "Network")
  BY ClientSteps, ServerAssumption DEF Well, Wired, Plain
<1>2. /\ server = "running" /\ ~quitPoll /\ mode = "Fifo" => fifoFiles \subseteq directory \cup {"admin"}
      /\ server = "running" /\ ~quitPoll /\ mode = "Network" =>
           \A i \in DOMAIN pollables :
             pollables[i].what = "connection" /\ pollables[i].to # "admin" => pollables[i].to \in directory
  BY DEF Well, Complete
<1> SUFFICES ASSUME server' = "running", ~quitPoll'
             PROVE  /\ mode = "Fifo" => fifoFiles' \subseteq directory' \cup {"admin"}
                    /\ mode = "Network" =>
                         \A i \in DOMAIN pollables' :
                           pollables'[i].what = "connection" /\ pollables'[i].to # "admin" =>
                               pollables'[i].to \in directory'
  BY <1>1 DEF Complete
\* What becomes of the directory and the files.
<1>3. /\ mode = "Fifo" => fifoFiles' \subseteq directory' \cup {"admin"}
      /\ Start \/ (server = "running" /\ ~quitPoll /\ directory \subseteq directory')
  <2>1. CASE Start
    <3>1. mode = "Fifo" => server = "off" /\ fifoFiles = {}
      BY <1>1, <2>1 DEF Start, Wired, Files
    <3> QED BY <2>1, <3>1 DEF Start, mkfifo
  <2>2. CASE UNCHANGED <<server, quitPoll, directory, pManagerCounter, fifoFiles>>
    BY <1>2, <2>2
  <2>3. CASE pollFDs
    BY <1>2, <2>3 DEF pollFDs
  <2>4. CASE \/ SkipExpired \/ (FifoAccepts /\ server' = server)
             \/ (TLSAccepts /\ server' = server) \/ UNCHANGED vars
    <3>1. UNCHANGED <<server, quitPoll, directory, pManagerCounter, fifoFiles>>
      BY <2>4 DEF SkipExpired, FifoAccepts, TLSAccepts, GoesDown, vars
    <3> QED BY <2>2, <3>1
  <2>5. CASE \/ \E c \in Clients : Connect(c)
             \/ \E c \in Clients : Receive(c)
             \/ \E c \in Clients : \E q : Sends(c, q)
    <3>1. UNCHANGED <<server, quitPoll, directory, pManagerCounter, fifoFiles>>
      BY <2>5 DEF Connect, Receive, Sends, Puts
    <3> QED BY <2>2, <3>1
  <2>6. CASE handleBatteryCommand \/ handleAdminCommand
    <3>1. Reading /\ (ShutsDown \/ Serves \/ Creates)
      BY <1>1, <2>6, HandleIs
    <3>2. server = "running"
      BY <1>1, <3>1, ReadIs
    <3>3. CASE Serves
      BY <1>2, <3>2, <3>3 DEF Serves, Same
    <3>4. CASE Creates
      <4>1. directory \subseteq directory' /\ (Grown(Command.names) \/ Same) /\ quitPoll' = quitPoll
        BY <3>4, CreateIs DEF Creates
      <4> QED BY <1>2, <3>2, <4>1 DEF Grown, Same
    <3> QED BY <3>1, <3>3, <3>4 DEF ShutsDown
  <2> QED BY UpSteps, <2>1, <2>3, <2>4, <2>5, <2>6
<1>4. ASSUME mode = "Network", NEW i \in DOMAIN pollables',
             pollables'[i].what = "connection", pollables'[i].to # "admin"
      PROVE  pollables'[i].to \in directory'
  <2>1. ~Start
    BY <1>4 DEF Start, Listener
  <2>2. server = "running" /\ ~quitPoll /\ directory \subseteq directory'
    BY <1>3, <2>1
  <2>3. ASSUME i \in DOMAIN pollables, pollables'[i] = pollables[i]
        PROVE  pollables'[i].to \in directory'
    BY <1>2, <1>4, <2>2, <2>3
  <2>4. CASE pollables' = pollables
    BY <1>4, <2>3, <2>4
  <2>5. ASSUME NEW c \in Clients, connected(c) = "in",
               pollables' = Append(pollables, Connection(c, Target[c]))
        PROVE  pollables'[i].to \in directory'
    <3>1. PICK p : p = Connection(c, Target[c])
      OBVIOUS
    <3>2. p \in PollableSet /\ p.to = Target[c]
      <4>1. c \in Channels
        BY <1>4 DEF Channels
      <4>2. Target[c] \in Targets
        BY DEF Targets
      <4> QED BY <3>1, <4>1, <4>2, SamePollable
    <3>3. pollables \in Seq(PollableSet)
      BY <1>1 DEF Polled
    <3>4. (i \in DOMAIN pollables /\ pollables'[i] = pollables[i]) \/ pollables'[i] = p
      BY <1>4, <2>5, <3>1, <3>2, <3>3, AppendIs
    <3>5. Target[c] = "admin" \/ Target[c] \in directory
      BY <2>5 DEF connected, connectStatus, getBattery
    <3> QED BY <1>4, <2>2, <2>3, <3>2, <3>4, <3>5
  <2> QED BY <1>4, <2>4, <2>5, NetworkPollables
<1> QED BY <1>3, <1>4

\* With clients that stay, come alone, ask for free names and shut down last, the
\* server is never ended by an exception, a signal or a null pointer and never left
\* in a read: no acceptor finds its client gone, no handler finds its channel empty
\* or its battery missing, and no FIFO is made twice (pollFDs, the pollHandlers of
\* Acceptor.cpp, read_exact, the handlers of BOS.cpp).  A secure battery is left
\* out, whose constructor may end the process, and a battery called admin, whose
\* FIFOs are there already.
THEOREM ServerStaysUp ==
    ASSUME Orderly
    PROVE  Spec => []StaysUp
<1>1. Init => Well
  BY WellInit
<1>2. Well /\ [Next]_vars => Well'
  <2> SUFFICES ASSUME Well, [Next]_vars PROVE Well'
    OBVIOUS
  <2>1. Wired' /\ Owed' /\ Free'
    BY WiredStep, OwedStep, FreeStep, OrderlyIs DEF Well
  <2>2. NeverDown'
    BY NeverDownStep DEF NeverDown
  <2> QED BY <2>1, <2>2, AttendedStep, StillReadyStep, LastStep, CompleteStep DEF Well
<1>3. Well => StaysUp
  BY WiredTypes DEF Well, StaysUp
<1> QED BY <1>1, <1>2, <1>3, PTL DEF Spec
=============================================================================
