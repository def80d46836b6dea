------------------------- MODULE FifoService_proofs -------------------------
(***************************************************************************)
(* Proofs about FifoService, for every set of clients and batteries and    *)
(* every bound.                                                            *)
(***************************************************************************)
EXTENDS FifoService, FiniteSetTheorems, TLAPS

-----------------------------------------------------------------------------
\* What the proofs use of the constants.
LEMMA Constants ==
    /\ Admin \in Fifos /\ BootNames \subseteq Fifos /\ NewNames \subseteq Fifos
    /\ Admin \notin BootNames \cup NewNames
    /\ \A c \in Clients : Aim[c] \in Fifos
    /\ IsFiniteSet(Fifos)
    /\ \A order \in BootOrders : Range(order) \subseteq BootNames
<1>1. IsFiniteSet(BootNames \cup NewNames)
  BY FifoAssumption, FS_Union
<1>2. IsFiniteSet(Fifos)
  BY <1>1, FS_AddElement DEF Fifos
<1>3. ASSUME NEW order \in BootOrders PROVE Range(order) \subseteq BootNames
  <2>1. PICK boot \in Programs : order \in SetToSeqs(boot)
    BY DEF BootOrders
  <2>2. order \in [1 .. Cardinality(boot) -> boot]
    BY <2>1 DEF SetToSeqs
  <2> QED BY <2>2 DEF Range, BootNames
<1> QED BY <1>2, <1>3, FifoAssumption DEF Fifos

\* Messages: what a client asks for, and what the server sees of it.
LEMMA Kinds ==
    /\ Nothing \in Messages /\ Nothing.op = "nothing"
    /\ \A m \in Messages : Wanted(m) \subseteq NewNames
    /\ \A c \in Clients : Requests(c) \subseteq Messages
<1>1. ASSUME NEW m \in Messages PROVE Wanted(m) \subseteq NewNames
  <2>1. m.op = "make" => m.name \in NewNames /\ m.children \subseteq NewNames
    BY DEF Messages, Nothing
  <2> QED BY <2>1 DEF Wanted
<1>2. ASSUME NEW c \in Clients PROVE Requests(c) \subseteq Messages
  BY FifoAssumption DEF Messages, Requests
<1> QED BY <1>1, <1>2 DEF Messages, Nothing

\* What nobody has open loses its contents.
LEMMA EmptiedType ==
    ASSUME input \in [Fifos -> Seq(Messages)]
    PROVE  [f \in Fifos |-> IF writers[f] = {} THEN <<>> ELSE input[f]] \in [Fifos -> Seq(Messages)]
<1>1. <<>> \in Seq(Messages)
  OBVIOUS
<1>2. \A f \in Fifos : (IF writers[f] = {} THEN <<>> ELSE input[f]) \in Seq(Messages)
  BY <1>1
<1> QED BY <1>1, <1>2

\* The last of the requests that are read together is one of them.
LEMMA ReceivedType ==
    ASSUME NEW f \in Fifos, input \in [Fifos -> Seq(Messages)]
    PROVE  /\ Received(f) \in Messages
           /\ \A m : input[f] = <<m>> => Received(f) = m
<1>1. input[f] \in Seq(Messages)
  OBVIOUS
<1>2. CASE input[f] = <<>>
  BY <1>2, Kinds DEF Received
<1>3. CASE input[f] # <<>>
  <2>1. Len(input[f]) \in DOMAIN input[f]
    BY <1>1, <1>3
  <2>2. Received(f) = input[f][Len(input[f])]
    BY <1>3 DEF Received, Last
  <2> QED BY <1>1, <2>1, <2>2
<1> QED BY <1>2, <1>3

\* The FIFO at hand, while there is one.
LEMMA Hand ==
    ASSUME Inv, pc \in {"read", "open", "answer", "close", "reopen"}
    PROVE  /\ round # <<>> /\ 1 \in DOMAIN round /\ Handled = round[1]
           /\ Handled \in ifds /\ Handled \in Fifos
BY DEF Inv, Shapes, Rounds, Handled

\* The order of a round has each FIFO that is ready, and each once.
LEMMA RoundType ==
    ASSUME Inv, NEW order \in Orders, Poll(order)
    PROVE  /\ round' \in Seq(Ready) /\ round' # <<>>
           /\ \A i, j \in DOMAIN round' : round'[i] = round'[j] => i = j
<1> DEFINE S == Ready \ {Admin}
           tail == IF Admin \in Ready THEN <<Admin>> ELSE <<>>
<1>1. IsFiniteSet(S)
  BY Constants, FS_Subset DEF Ready, Inv, Shapes
<1>2. PICK n : n = Cardinality(S)
  OBVIOUS
<1>3. n \in Nat /\ (n = 0 <=> S = {})
  BY <1>1, <1>2, FS_CardinalityType, FS_EmptySet
<1>4. order \in [1 .. n -> S] /\ \A i, j \in 1 .. n : i # j => order[i] # order[j]
  BY <1>2 DEF Orders, SetToSeqs
<1>5. order \in Seq(Ready) /\ Len(order) = n /\ DOMAIN order = 1 .. n
  BY <1>3, <1>4
<1>6. round' = order \o tail /\ Ready # {}
  BY DEF Poll
<1>7. CASE Admin \in Ready
  <2>1. round' = order \o <<Admin>>
    BY <1>6, <1>7
  <2>2. /\ round' \in Seq(Ready) /\ Len(round') = n + 1 /\ DOMAIN round' = 1 .. n + 1
        /\ \A i \in 1 .. n : round'[i] = order[i]
        /\ round'[n + 1] = Admin
    BY <1>3, <1>5, <1>7, <2>1
  <2>3. \A i \in 1 .. n : round'[i] # Admin
    BY <1>4, <2>2
  <2>4. ASSUME NEW i \in 1 .. n + 1, NEW j \in 1 .. n + 1, round'[i] = round'[j] PROVE i = j
    <3>1. i \in 1 .. n \/ i = n + 1
      BY <1>3
    <3>2. j \in 1 .. n \/ j = n + 1
      BY <1>3
    <3> QED BY <1>4, <2>2, <2>3, <2>4, <3>1, <3>2
  <2> QED BY <1>3, <2>2, <2>4
<1>8. CASE Admin \notin Ready
  <2>1. round' = order
    BY <1>5, <1>6, <1>8
  <2>2. n # 0
    BY <1>3, <1>6, <1>8
  <2> QED BY <1>3, <1>4, <1>5, <2>1, <2>2
<1> QED BY <1>7, <1>8

-----------------------------------------------------------------------------
LEMMA InitInv == Init => Inv
<1> SUFFICES ASSUME Init PROVE Inv
  OBVIOUS
<1>1. Shapes
  <2>1. <<>> \in Seq(Messages)
    OBVIOUS
  <2> QED BY <2>1, Kinds DEF Init, Shapes
<1>2. Ends
  BY DEF Init, Ends
<1>3. Rounds
  BY DEF Init, Rounds
<1>4. Files /\ Alone /\ Heard /\ LastWord
  BY DEF Init, Files, Alone, Heard, LastWord, Busy
<1>5. Own
  BY DEF Init, Own, Settled, Placed, Before, Under, Quiet, InRound
<1> QED BY <1>1, <1>2, <1>3, <1>4, <1>5 DEF Inv

-----------------------------------------------------------------------------
\* The state keeps its shape.
LEMMA ShapesStep == ASSUME Inv, [Next]_vars PROVE Shapes'
<1> USE DEF kernel, serverVars, clientVars, bounds
<1>1. ASSUME NEW order \in BootOrders, Start(order) PROVE Shapes'
  <2>1. Range(order) \subseteq BootNames /\ Range(order) \subseteq Fifos /\ Admin \in Fifos /\ splitters = {}
    BY <1>1, Constants DEF Inv, Files, Start
  <2> QED BY <1>1, <2>1 DEF Inv, Shapes, Start
<1>2. ASSUME NEW order \in BootOrders, StartFails(order) PROVE Shapes'
  BY <1>2, Constants, Kinds DEF Inv, Shapes, StartFails, Files
<1>3. ASSUME Watch PROVE Shapes'
  BY <1>3, Constants, Kinds DEF Inv, Shapes, Watch
<1>4. ASSUME NEW order \in Orders, Poll(order) PROVE Shapes'
  BY <1>4, Constants, Kinds DEF Inv, Shapes, Poll
<1>5. ASSUME ReadAndHandle PROVE Shapes'
  BY <1>5, Constants, Kinds, ReceivedType, Hand DEF Inv, Shapes, ReadAndHandle,
       battery_post_creation
<1>6. ASSUME OpenOutput PROVE Shapes'
  BY <1>6, Constants, Kinds, Hand DEF Inv, Shapes, OpenOutput
<1>7. ASSUME Answer PROVE Shapes'
  <2>1. Handled \in Fifos /\ Nothing \in Messages
    BY <1>7, Hand, Kinds DEF Answer
  <2>2. CASE listeners[Handled] = {}
    <3>1. input' \in [Fifos -> Seq(Messages)]
      BY <1>7, <2>2, EmptiedType DEF Inv, Shapes, Answer
    <3> QED BY <1>7, <2>1, <2>2, <3>1 DEF Inv, Shapes, Answer
  <2>3. CASE listeners[Handled] # {}
    <3>1. Append(output[Handled], answer) \in Seq(Messages)
      BY <2>1 DEF Inv, Shapes
    <3>2. output' = [output EXCEPT ![Handled] = Append(output[Handled], answer)]
      BY <1>7, <2>3 DEF Answer
    <3>3. output' \in [Fifos -> Seq(Messages)]
      BY <2>1, <3>1, <3>2 DEF Inv, Shapes
    <3> QED BY <1>7, <2>1, <2>3, <3>3 DEF Inv, Shapes, Answer
  <2> QED BY <2>2, <2>3
<1>8. ASSUME Reopen PROVE Shapes'
  BY <1>8, Constants, Kinds, Hand DEF Inv, Shapes, Reopen
<1>9. ASSUME ShutDown PROVE Shapes'
  <2>1. input' \in [Fifos -> Seq(Messages)]
    BY <1>9, EmptiedType DEF Inv, Shapes, ShutDown
  <2> QED BY <1>9, <2>1 DEF Inv, Shapes, ShutDown
<1>10. ASSUME Crash PROVE Shapes'
  <2>1. input' \in [Fifos -> Seq(Messages)]
    BY <1>10, EmptiedType DEF Inv, Shapes, Crash
  <2> QED BY <1>10, <2>1, Kinds DEF Inv, Shapes, Crash
<1>11. ASSUME NEW wakes \in BOOLEAN, Interrupt(wakes) PROVE Shapes'
  BY <1>11, Constants, Kinds DEF Inv, Shapes, Interrupt
<1>12. ASSUME NEW c \in Clients, OpenInput(c) PROVE Shapes'
  BY <1>12, Constants, Kinds DEF Inv, Shapes, OpenInput
<1>13. ASSUME NEW c \in Clients, GiveUp(c) PROVE Shapes'
  BY <1>13, Constants, Kinds DEF Inv, Shapes, GiveUp
<1>14. ASSUME NEW c \in Clients, Write(c) PROVE Shapes'
  <2>1. CASE Readable(Aim[c])
    <3>1. Append(input[Aim[c]], request[c]) \in Seq(Messages)
      BY Constants DEF Inv, Shapes
    <3>2. input' = [input EXCEPT ![Aim[c]] = Append(input[Aim[c]], request[c])] /\ writers' = writers
      BY <1>14, <2>1 DEF Write
    <3>3. input' \in [Fifos -> Seq(Messages)]
      BY <3>1, <3>2 DEF Inv, Shapes
    <3> QED BY <1>14, <2>1, <3>2, <3>3 DEF Inv, Shapes, Write
  <2>2. CASE ~Readable(Aim[c])
    <3>1. /\ input' = input /\ writers' = [writers EXCEPT ![Aim[c]] = writers[Aim[c]] \ {c}]
          /\ at' = [at EXCEPT ![c] = "idle"]
      BY <1>14, <2>2 DEF Write
    <3>2. writers' \in [Fifos -> SUBSET Clients]
      BY <3>1, Constants DEF Inv, Shapes
    <3> QED BY <1>14, <3>1, <3>2 DEF Inv, Shapes, Write
  <2> QED BY <2>1, <2>2
<1>15. ASSUME NEW c \in Clients, Close(c) PROVE Shapes'
  BY <1>15, Constants, Kinds DEF Inv, Shapes, Close
<1>16. ASSUME NEW c \in Clients, OpenOutputNow(c) PROVE Shapes'
  BY <1>16, Constants, Kinds DEF Inv, Shapes, OpenOutputNow
<1>17. ASSUME NEW c \in Clients, Read(c) PROVE Shapes'
  <2>1. Aim[c] \in Fifos /\ <<>> \in Seq(Messages)
    BY Constants
  <2>2. output' \in [Fifos -> Seq(Messages)]
    BY <1>17, <2>1 DEF Inv, Shapes, Read
  <2>3. (IF output[Aim[c]] = <<>> THEN Nothing ELSE Last(output[Aim[c]])) \in Messages
    <3>1. output[Aim[c]] \in Seq(Messages)
      BY <2>1 DEF Inv, Shapes
    <3> QED BY <3>1, Kinds DEF Last
  <2>4. got' \in [Clients -> Messages]
    BY <1>17, <2>3 DEF Inv, Shapes, Read
  <2> QED BY <1>17, <2>1, <2>2, <2>4 DEF Inv, Shapes, Read
<1>18. ASSUME NEW c \in Clients, Leave(c) PROVE Shapes'
  BY <1>18, Constants, Kinds DEF Inv, Shapes, Leave
<1>19. ASSUME NEW c \in Clients, NEW r \in Requests(c), Call(c, r) PROVE Shapes'
  BY <1>19, Constants, Kinds DEF Inv, Shapes, Call
<1>20. CASE UNCHANGED vars
  BY <1>20 DEF Inv, Shapes, vars
<1>21. ASSUME CloseInput PROVE Shapes'
  BY <1>21, Constants, Kinds, Hand DEF Inv, Shapes, CloseInput
<1> QED BY <1>1, <1>2, <1>3, <1>4, <1>5, <1>6, <1>7, <1>8, <1>9, <1>10, <1>11, <1>12, <1>13,
     <1>14, <1>15, <1>16, <1>17, <1>18, <1>19, <1>20, <1>21 DEF Next, Serve, Proceed

\* Who has which end open.
LEMMA EndsStep == ASSUME Inv, [Next]_vars PROVE Ends'
<1> USE DEF kernel, serverVars, clientVars, bounds
<1>1. ASSUME NEW order \in BootOrders, Start(order) PROVE Ends'
  BY <1>1, Constants DEF Inv, Shapes, Ends, Start
<1>2. ASSUME NEW order \in BootOrders, StartFails(order) PROVE Ends'
  BY <1>2, Constants DEF Inv, Shapes, Ends, StartFails
<1>3. ASSUME Watch PROVE Ends'
  BY <1>3, Constants DEF Inv, Shapes, Ends, Watch
<1>4. ASSUME NEW order \in Orders, Poll(order) PROVE Ends'
  BY <1>4, Constants DEF Inv, Shapes, Ends, Poll
<1>5. ASSUME ReadAndHandle PROVE Ends'
  BY <1>5, Constants DEF Inv, Shapes, Ends, ReadAndHandle
<1>6. ASSUME OpenOutput PROVE Ends'
  BY <1>6, Constants DEF Inv, Shapes, Ends, OpenOutput
<1>7. ASSUME Answer PROVE Ends'
  BY <1>7, Constants DEF Inv, Shapes, Ends, Answer
<1>8. ASSUME Reopen PROVE Ends'
  BY <1>8, Constants DEF Inv, Shapes, Ends, Reopen
<1>9. ASSUME ShutDown PROVE Ends'
  BY <1>9, Constants DEF Inv, Shapes, Ends, ShutDown
<1>10. ASSUME Crash PROVE Ends'
  BY <1>10, Constants DEF Inv, Shapes, Ends, Crash
<1>11. ASSUME NEW wakes \in BOOLEAN, Interrupt(wakes) PROVE Ends'
  BY <1>11, Constants DEF Inv, Shapes, Ends, Interrupt
<1>12. ASSUME NEW c \in Clients, OpenInput(c) PROVE Ends'
  BY <1>12, Constants DEF Inv, Shapes, Ends, OpenInput
<1>13. ASSUME NEW c \in Clients, GiveUp(c) PROVE Ends'
  BY <1>13, Constants DEF Inv, Shapes, Ends, GiveUp
<1>14. ASSUME NEW c \in Clients, Write(c) PROVE Ends'
  <2>1. CASE Readable(Aim[c])
    <3>1. writers' = writers /\ listeners' = listeners /\ at' = [at EXCEPT ![c] = "close"] /\ at[c] = "write"
      BY <1>14, <2>1 DEF Write
    <3> QED BY <3>1 DEF Inv, Shapes, Ends
  <2>2. CASE ~Readable(Aim[c])
    <3>1. /\ writers' = [writers EXCEPT ![Aim[c]] = writers[Aim[c]] \ {c}] /\ listeners' = listeners
          /\ at' = [at EXCEPT ![c] = "idle"] /\ at[c] = "write"
      BY <1>14, <2>2 DEF Write
    <3> QED BY <3>1, Constants DEF Inv, Shapes, Ends
  <2> QED BY <2>1, <2>2
<1>15. ASSUME NEW c \in Clients, Close(c) PROVE Ends'
  BY <1>15, Constants DEF Inv, Shapes, Ends, Close
<1>16. ASSUME NEW c \in Clients, OpenOutputNow(c) PROVE Ends'
  BY <1>16, Constants DEF Inv, Shapes, Ends, OpenOutputNow
<1>17. ASSUME NEW c \in Clients, Read(c) PROVE Ends'
  BY <1>17, Constants DEF Inv, Shapes, Ends, Read
<1>18. ASSUME NEW c \in Clients, Leave(c) PROVE Ends'
  BY <1>18, Constants DEF Inv, Shapes, Ends, Leave
<1>19. ASSUME NEW c \in Clients, NEW r \in Requests(c), Call(c, r) PROVE Ends'
  BY <1>19, Constants DEF Inv, Shapes, Ends, Call
<1>20. CASE UNCHANGED vars
  BY <1>20 DEF Inv, Shapes, Ends, vars
<1>21. ASSUME CloseInput PROVE Ends'
  BY <1>21, Constants DEF Inv, Shapes, Ends, CloseInput
<1> QED BY <1>1, <1>2, <1>3, <1>4, <1>5, <1>6, <1>7, <1>8, <1>9, <1>10, <1>11, <1>12, <1>13,
     <1>14, <1>15, <1>16, <1>17, <1>18, <1>19, <1>20, <1>21 DEF Next, Serve, Proceed

\* A round has what is ready, each once.
LEMMA RoundsStep == ASSUME Inv, [Next]_vars PROVE Rounds'
<1> USE DEF kernel, serverVars, clientVars, bounds
<1>1. ASSUME NEW order \in BootOrders, Start(order) PROVE Rounds'
  BY <1>1, Constants DEF Inv, Shapes, Rounds, Start
<1>2. ASSUME NEW order \in BootOrders, StartFails(order) PROVE Rounds'
  BY <1>2, Constants DEF Inv, Shapes, Rounds, StartFails
<1>3. ASSUME Watch PROVE Rounds'
  BY <1>3, Constants DEF Inv, Shapes, Rounds, Watch
<1>4. ASSUME NEW order \in Orders, Poll(order) PROVE Rounds'
  <2>1. /\ round' \in Seq(Ready) /\ round' # <<>> /\ pc' = "read" /\ ifds' = ifds /\ input' = input
        /\ \A i, j \in DOMAIN round' : round'[i] = round'[j] => i = j
    BY <1>4, RoundType DEF Poll
  <2>2. Ready \subseteq ifds /\ \A i \in DOMAIN round' : input[round'[i]] # <<>>
    BY <2>1 DEF Ready
  <2>3. round' \in Seq(ifds)
    BY <2>1, <2>2
  <2> QED BY <2>1, <2>2, <2>3 DEF Rounds
<1>5. ASSUME ReadAndHandle PROVE Rounds'
  <2>1. pc = "read" /\ pc' = "open" /\ round' = round /\ ifds \subseteq ifds'
    BY <1>5 DEF ReadAndHandle
  <2>2. round # <<>> /\ 1 \in DOMAIN round /\ Handled = round[1] /\ Handled \in Fifos
    BY <2>1, Hand
  <2>3. \A f \in Fifos : f # Handled => input'[f] = input[f]
    BY <1>5, <2>2 DEF ReadAndHandle, Inv, Shapes
  <2>4. round' \in Seq(ifds')
    BY <2>1 DEF Inv, Rounds
  <2>5. ASSUME NEW i \in DOMAIN round, i # 1 PROVE input'[round[i]] # <<>>
    <3>1. round[i] # Handled /\ round[i] \in Fifos
      BY <2>2, <2>5 DEF Inv, Rounds, Shapes
    <3> QED BY <2>3, <2>5, <3>1 DEF Inv, Rounds
  <2> QED BY <2>1, <2>2, <2>4, <2>5 DEF Inv, Rounds
<1>6. ASSUME OpenOutput PROVE Rounds'
  BY <1>6, Constants DEF Inv, Shapes, Rounds, OpenOutput
<1>7. ASSUME Answer PROVE Rounds'
  <2>1. CASE listeners[Handled] = {}
    BY <1>7, <2>1 DEF Answer, Rounds
  <2>2. CASE listeners[Handled] # {}
    <3>1. pc = "answer" /\ pc' = "close" /\ round' = round /\ ifds' = ifds /\ input' = input
      BY <1>7, <2>2 DEF Answer
    <3> QED BY <3>1 DEF Inv, Rounds
  <2> QED BY <2>1, <2>2
<1>8. ASSUME Reopen PROVE Rounds'
  <2>1. pc = "reopen" /\ round' = Tail(round) /\ ifds' = ifds /\ pc' = IF round' = <<>> THEN "poll" ELSE "read"
    BY <1>8 DEF Reopen
  <2>2. round # <<>> /\ 1 \in DOMAIN round /\ Handled = round[1] /\ Handled \in Fifos /\ round \in Seq(ifds)
    BY <2>1, Hand DEF Inv, Rounds
  <2>3. input' = input
    BY <1>8 DEF Reopen
  <2>4. /\ round' \in Seq(ifds)
        /\ \A i \in DOMAIN round' : i \in Nat /\ i + 1 \in DOMAIN round /\ i + 1 # 1 /\ round'[i] = round[i + 1]
    BY <2>1, <2>2
  <2>5. ASSUME NEW i \in DOMAIN round' PROVE input'[round'[i]] # <<>>
    <3>1. round'[i] # Handled /\ round'[i] \in Fifos /\ input[round'[i]] # <<>>
      BY <2>2, <2>4 DEF Inv, Rounds, Shapes
    <3> QED BY <2>3, <3>1
  <2>6. ASSUME NEW i \in DOMAIN round', NEW j \in DOMAIN round', round'[i] = round'[j]
        PROVE  i = j
    <3>1. i + 1 = j + 1 /\ i \in Nat /\ j \in Nat
      BY <2>4, <2>6 DEF Inv, Rounds
    <3> QED BY <3>1
  <2> QED BY <2>1, <2>4, <2>5, <2>6 DEF Rounds
<1>9. ASSUME ShutDown PROVE Rounds'
  BY <1>9, Constants DEF Inv, Shapes, Rounds, ShutDown
<1>10. ASSUME Crash PROVE Rounds'
  BY <1>10, Constants DEF Inv, Shapes, Rounds, Crash
<1>11. ASSUME NEW wakes \in BOOLEAN, Interrupt(wakes) PROVE Rounds'
  BY <1>11, Constants DEF Inv, Shapes, Rounds, Interrupt
<1>12. ASSUME NEW c \in Clients, OpenInput(c) PROVE Rounds'
  BY <1>12, Constants DEF Inv, Shapes, Rounds, OpenInput
<1>13. ASSUME NEW c \in Clients, GiveUp(c) PROVE Rounds'
  BY <1>13, Constants DEF Inv, Shapes, Rounds, GiveUp
<1>14. ASSUME NEW c \in Clients, Write(c) PROVE Rounds'
  <2>1. UNCHANGED <<pc, round, ifds>>
    BY <1>14 DEF Write
  <2>2. ASSUME NEW f \in Fifos, input[f] # <<>> PROVE input'[f] # <<>>
    <3>1. input[f] \in Seq(Messages) /\ request[c] \in Messages
      BY DEF Inv, Shapes
    <3>2. Append(input[f], request[c]) # <<>>
      BY <3>1
    <3> QED BY <1>14, <2>2, <3>2, Constants DEF Write, Inv, Shapes
  <2>3. \A i \in DOMAIN round : round[i] \in Fifos
    BY DEF Inv, Rounds, Shapes
  <2> QED BY <2>1, <2>2, <2>3 DEF Inv, Rounds
<1>15. ASSUME NEW c \in Clients, Close(c) PROVE Rounds'
  <2>1. UNCHANGED <<pc, round, ifds>> /\ Aim[c] \in Fifos
    BY <1>15, Constants DEF Close
  <2>2. \A f \in Fifos : f # Aim[c] \/ Readable(Aim[c]) => input'[f] = input[f]
    BY <1>15, <2>1 DEF Close, Inv, Shapes
  <2>3. ASSUME NEW i \in DOMAIN round, i # 1 \/ pc = "read" PROVE input'[round[i]] # <<>>
    <3>1. round[i] \in ifds /\ round[i] \in Fifos /\ input[round[i]] # <<>>
      BY <2>3 DEF Inv, Rounds, Shapes
    <3>2. Readable(round[i])
      BY <2>3, <3>1, Hand DEF Readable, Inv, Rounds
    <3> QED BY <2>2, <3>1, <3>2
  <2> QED BY <2>1, <2>3 DEF Inv, Rounds
<1>16. ASSUME NEW c \in Clients, OpenOutputNow(c) PROVE Rounds'
  BY <1>16, Constants DEF Inv, Shapes, Rounds, OpenOutputNow
<1>17. ASSUME NEW c \in Clients, Read(c) PROVE Rounds'
  BY <1>17, Constants DEF Inv, Shapes, Rounds, Read
<1>18. ASSUME NEW c \in Clients, Leave(c) PROVE Rounds'
  BY <1>18, Constants DEF Inv, Shapes, Rounds, Leave
<1>19. ASSUME NEW c \in Clients, NEW r \in Requests(c), Call(c, r) PROVE Rounds'
  BY <1>19, Constants DEF Inv, Shapes, Rounds, Call
<1>20. CASE UNCHANGED vars
  BY <1>20 DEF Inv, Shapes, Rounds, vars
<1>21. ASSUME CloseInput PROVE Rounds'
  <2>1. pc = "close" /\ pc' = "reopen" /\ round' = round /\ ifds' = ifds
    BY <1>21 DEF CloseInput
  <2>2. round # <<>> /\ 1 \in DOMAIN round /\ Handled = round[1] /\ Handled \in Fifos
    BY <2>1, Hand
  <2>3. \A f \in Fifos : f # Handled => input'[f] = input[f]
    BY <1>21, <2>2 DEF CloseInput, Inv, Shapes
  <2>4. ASSUME NEW i \in DOMAIN round, i # 1 PROVE input'[round[i]] # <<>>
    <3>1. round[i] # Handled /\ round[i] \in Fifos
      BY <2>2, <2>4 DEF Inv, Rounds, Shapes
    <3> QED BY <2>3, <2>4, <3>1 DEF Inv, Rounds
  <2> QED BY <2>1, <2>2, <2>4 DEF Inv, Rounds
<1> QED BY <1>1, <1>2, <1>3, <1>4, <1>5, <1>6, <1>7, <1>8, <1>9, <1>10, <1>11, <1>12, <1>13,
     <1>14, <1>15, <1>16, <1>17, <1>18, <1>19, <1>20, <1>21 DEF Next, Serve, Proceed

\* The files are those of the batteries.
LEMMA FilesStep == ASSUME Inv, [Next]_vars PROVE Files'
<1> USE DEF kernel, serverVars, clientVars, bounds
<1>1. ASSUME NEW order \in BootOrders, Start(order) PROVE Files'
  BY <1>1, Constants, Kinds DEF Inv, Shapes, Files, Start
<1>2. ASSUME NEW order \in BootOrders, StartFails(order) PROVE Files'
  BY <1>2, Constants, Kinds DEF Inv, Shapes, Files, StartFails
<1>3. ASSUME Watch PROVE Files'
  BY <1>3, Constants, Kinds DEF Inv, Shapes, Files, Watch
<1>4. ASSUME NEW order \in Orders, Poll(order) PROVE Files'
  BY <1>4, Constants, Kinds DEF Inv, Shapes, Files, Poll
<1>5. ASSUME ReadAndHandle PROVE Files'
  <2> DEFINE msg == Received(Handled)
  <2>1. PICK granted \in BOOLEAN :
           LET made == IF granted THEN Wanted(msg) ELSE {}
               reached == battery_post_creation(made \cap PostCreated(msg))
           IN  /\ made \cap names = {} /\ names' = names \cup made
               /\ splitters' = splitters \cup (made \ PostCreated(msg))
               /\ files' = files \cup reached /\ ifds' = ifds \cup reached
    BY <1>5 DEF ReadAndHandle
  <2> DEFINE made == IF granted THEN Wanted(msg) ELSE {}
  <2>2. /\ made \cap names = {} /\ names' = names \cup made
        /\ splitters' = splitters \cup (made \ PostCreated(msg))
        /\ files' = files \cup ((made \cap PostCreated(msg)) \ files)
        /\ ifds' = ifds \cup ((made \cap PostCreated(msg)) \ files)
    BY <2>1 DEF battery_post_creation
  <2>3. Admin \notin made
    <3>1. msg \in Messages
      BY <1>5, Hand, ReceivedType DEF ReadAndHandle, Inv, Shapes
    <3> QED BY <3>1, Kinds, Constants
  <2>4. /\ pc' = "open" /\ leftover' = leftover /\ sins' = sins
    BY <1>5 DEF ReadAndHandle
  <2> HIDE DEF made
  <2>5. files' \subseteq ifds' \cup leftover'
    BY <2>2, <2>4 DEF Inv, Files
  <2>6. names' \ splitters' \subseteq ifds' \cup leftover'
    BY <2>2, <2>4 DEF Inv, Files
  <2>7. ifds' \subseteq names' \cup {Admin}
    BY <2>2 DEF Inv, Files
  <2>8. splitters' \cap ifds' = {}
    BY <2>2, <2>3 DEF Inv, Files, Shapes
  <2> QED BY <2>4, <2>5, <2>6, <2>7, <2>8 DEF Files
<1>6. ASSUME OpenOutput PROVE Files'
  BY <1>6, Constants, Kinds DEF Inv, Shapes, Files, OpenOutput
<1>7. ASSUME Answer PROVE Files'
  BY <1>7, Constants, Kinds DEF Inv, Shapes, Files, Answer
<1>8. ASSUME Reopen PROVE Files'
  BY <1>8, Constants, Kinds DEF Inv, Shapes, Files, Reopen
<1>9. ASSUME ShutDown PROVE Files'
  BY <1>9, Constants, Kinds DEF Inv, Shapes, Files, ShutDown
<1>10. ASSUME Crash PROVE Files'
  BY <1>10, Constants, Kinds DEF Inv, Shapes, Files, Crash
<1>11. ASSUME NEW wakes \in BOOLEAN, Interrupt(wakes) PROVE Files'
  BY <1>11, Constants, Kinds DEF Inv, Shapes, Files, Interrupt
<1>12. ASSUME NEW c \in Clients, OpenInput(c) PROVE Files'
  BY <1>12, Constants, Kinds DEF Inv, Shapes, Files, OpenInput
<1>13. ASSUME NEW c \in Clients, GiveUp(c) PROVE Files'
  BY <1>13, Constants, Kinds DEF Inv, Shapes, Files, GiveUp
<1>14. ASSUME NEW c \in Clients, Write(c) PROVE Files'
  BY <1>14, Constants, Kinds DEF Inv, Shapes, Files, Write
<1>15. ASSUME NEW c \in Clients, Close(c) PROVE Files'
  BY <1>15, Constants, Kinds DEF Inv, Shapes, Files, Close
<1>16. ASSUME NEW c \in Clients, OpenOutputNow(c) PROVE Files'
  BY <1>16, Constants, Kinds DEF Inv, Shapes, Files, OpenOutputNow
<1>17. ASSUME NEW c \in Clients, Read(c) PROVE Files'
  BY <1>17, Constants, Kinds DEF Inv, Shapes, Files, Read
<1>18. ASSUME NEW c \in Clients, Leave(c) PROVE Files'
  BY <1>18, Constants, Kinds DEF Inv, Shapes, Files, Leave
<1>19. ASSUME NEW c \in Clients, NEW r \in Requests(c), Call(c, r) PROVE Files'
  BY <1>19, Constants, Kinds DEF Inv, Shapes, Files, Call
<1>20. CASE UNCHANGED vars
  BY <1>20 DEF Inv, Shapes, Files, vars
<1>21. ASSUME CloseInput PROVE Files'
  BY <1>21, Constants, Kinds DEF Inv, Shapes, Files, CloseInput
<1> QED BY <1>1, <1>2, <1>3, <1>4, <1>5, <1>6, <1>7, <1>8, <1>9, <1>10, <1>11, <1>12, <1>13,
     <1>14, <1>15, <1>16, <1>17, <1>18, <1>19, <1>20, <1>21 DEF Next, Serve, Proceed

\* Clients share no FIFO unless that is written down.
LEMMA AloneStep == ASSUME Inv, [Next]_vars PROVE Alone'
<1> USE DEF kernel, serverVars, clientVars, bounds
<1>1. ASSUME NEW order \in BootOrders, Start(order) PROVE Alone'
  BY <1>1, Constants DEF Inv, Shapes, Alone, Busy, Start
<1>2. ASSUME NEW order \in BootOrders, StartFails(order) PROVE Alone'
  BY <1>2, Constants DEF Inv, Shapes, Alone, Busy, StartFails
<1>3. ASSUME Watch PROVE Alone'
  BY <1>3, Constants DEF Inv, Shapes, Alone, Busy, Watch
<1>4. ASSUME NEW order \in Orders, Poll(order) PROVE Alone'
  BY <1>4, Constants DEF Inv, Shapes, Alone, Busy, Poll
<1>5. ASSUME ReadAndHandle PROVE Alone'
  BY <1>5, Constants DEF Inv, Shapes, Alone, Busy, ReadAndHandle
<1>6. ASSUME OpenOutput PROVE Alone'
  BY <1>6, Constants DEF Inv, Shapes, Alone, Busy, OpenOutput
<1>7. ASSUME Answer PROVE Alone'
  BY <1>7, Constants DEF Inv, Shapes, Alone, Busy, Answer
<1>8. ASSUME Reopen PROVE Alone'
  BY <1>8, Constants DEF Inv, Shapes, Alone, Busy, Reopen
<1>9. ASSUME ShutDown PROVE Alone'
  BY <1>9, Constants DEF Inv, Shapes, Alone, Busy, ShutDown
<1>10. ASSUME Crash PROVE Alone'
  BY <1>10, Constants DEF Inv, Shapes, Alone, Busy, Crash
<1>11. ASSUME NEW wakes \in BOOLEAN, Interrupt(wakes) PROVE Alone'
  BY <1>11, Constants DEF Inv, Shapes, Alone, Busy, Interrupt
<1>12. ASSUME NEW c \in Clients, OpenInput(c) PROVE Alone'
  BY <1>12, Constants DEF Inv, Shapes, Alone, Busy, OpenInput
<1>13. ASSUME NEW c \in Clients, GiveUp(c) PROVE Alone'
  BY <1>13, Constants DEF Inv, Shapes, Alone, Busy, GiveUp
<1>14. ASSUME NEW c \in Clients, Write(c) PROVE Alone'
  BY <1>14, Constants DEF Inv, Shapes, Alone, Busy, Write
<1>15. ASSUME NEW c \in Clients, Close(c) PROVE Alone'
  BY <1>15, Constants DEF Inv, Shapes, Alone, Busy, Close
<1>16. ASSUME NEW c \in Clients, OpenOutputNow(c) PROVE Alone'
  BY <1>16, Constants DEF Inv, Shapes, Alone, Busy, OpenOutputNow
<1>17. ASSUME NEW c \in Clients, Read(c) PROVE Alone'
  BY <1>17, Constants DEF Inv, Shapes, Alone, Busy, Read
<1>18. ASSUME NEW c \in Clients, Leave(c) PROVE Alone'
  BY <1>18, Constants DEF Inv, Shapes, Alone, Busy, Leave
<1>19. ASSUME NEW c \in Clients, NEW r \in Requests(c), Call(c, r) PROVE Alone'
  BY <1>19, Constants DEF Inv, Shapes, Alone, Busy, Call, Sharing
<1>20. CASE UNCHANGED vars
  BY <1>20 DEF Inv, Shapes, Alone, Busy, vars
<1>21. ASSUME CloseInput PROVE Alone'
  BY <1>21, Constants DEF Inv, Shapes, Alone, Busy, CloseInput
<1> QED BY <1>1, <1>2, <1>3, <1>4, <1>5, <1>6, <1>7, <1>8, <1>9, <1>10, <1>11, <1>12, <1>13,
     <1>14, <1>15, <1>16, <1>17, <1>18, <1>19, <1>20, <1>21 DEF Next, Serve, Proceed

\* Whoever has sent a request waits for its answer until the server turns to it.
LEMMA HeardStep == ASSUME Inv, [Next]_vars PROVE Heard'
<1> USE DEF kernel, serverVars, clientVars, bounds
<1>1. ASSUME NEW order \in BootOrders, Start(order) PROVE Heard'
  BY <1>1, Constants, Hand DEF Inv, Shapes, Heard, Handled, Start
<1>2. ASSUME NEW order \in BootOrders, StartFails(order) PROVE Heard'
  BY <1>2, Constants, Hand DEF Inv, Shapes, Heard, Handled, StartFails
<1>3. ASSUME Watch PROVE Heard'
  BY <1>3, Constants, Hand DEF Inv, Shapes, Heard, Handled, Watch
<1>4. ASSUME NEW order \in Orders, Poll(order) PROVE Heard'
  BY <1>4, Constants, Hand DEF Inv, Shapes, Heard, Handled, Poll
<1>5. ASSUME ReadAndHandle PROVE Heard'
  <2> SUFFICES ASSUME {"shared", "left"} \cap sins = {} PROVE Heard'
    BY <1>5 DEF Heard, ReadAndHandle
  <2>1. pc = "read" /\ pc' = "open" /\ round' = round /\ at' = at
    BY <1>5 DEF ReadAndHandle
  <2>2. Handled \in Fifos /\ Handled = round[1] /\ 1 \in DOMAIN round /\ Handled' = Handled
    BY <2>1, Hand DEF Handled
  <2>3. \A f \in Fifos : input'[f] = IF f = Handled THEN <<>> ELSE input[f]
    BY <1>5, <2>2 DEF ReadAndHandle, Inv, Shapes
  <2>4. input[Handled] # <<>>
    BY <2>1, <2>2 DEF Inv, Rounds
  <2>5. \E c \in Clients : Aim[c] = Handled /\ at[c] \in {"close", "openOutput"}
    BY <2>2, <2>4 DEF Inv, Heard
  <2> QED BY <2>1, <2>2, <2>3, <2>5 DEF Inv, Heard
<1>6. ASSUME OpenOutput PROVE Heard'
  <2> SUFFICES ASSUME {"shared", "left"} \cap sins = {} PROVE Heard'
    BY <1>6 DEF Heard, OpenOutput
  <2>1. pc = "open" /\ pc' = "answer" /\ round' = round /\ input' = input
    BY <1>6 DEF OpenOutput
  <2>2. Handled \in Fifos /\ Handled' = Handled /\ input[Handled] = <<>>
    BY <2>1, Hand DEF Handled, Inv, Heard
  <2>3. \A c \in Clients : at'[c] = IF Aim[c] = Handled /\ at[c] = "openOutput" THEN "read" ELSE at[c]
    BY <1>6 DEF OpenOutput
  <2>4. ASSUME NEW f \in Fifos, input'[f] # <<>>
        PROVE  \E c \in Clients : Aim[c] = f /\ at'[c] \in {"close", "openOutput"}
    <3>1. f # Handled
      BY <2>1, <2>2, <2>4
    <3>2. PICK c \in Clients : Aim[c] = f /\ at[c] \in {"close", "openOutput"}
      BY <2>1, <2>4 DEF Inv, Heard
    <3> QED BY <2>3, <3>1, <3>2
  <2>5. \E c \in Clients : Aim[c] = Handled /\ at'[c] = "read"
    <3>1. PICK c \in Clients : Aim[c] = Handled /\ (c \in listeners[Handled] \/ at[c] = "openOutput")
      BY <1>6, <2>2 DEF OpenOutput, Inv, Shapes, Ends
    <3>2. c \in listeners[Handled] => at[c] = "read"
      BY <2>2 DEF Inv, Ends
    <3> QED BY <2>3, <3>1, <3>2
  <2> QED BY <2>1, <2>2, <2>4, <2>5 DEF Heard
<1>7. ASSUME Answer PROVE Heard'
  <2>1. /\ UNCHANGED <<at, sins>> /\ pc' \in {"down", "close"}
        /\ \A f \in Fifos : input'[f] # <<>> => input[f] # <<>>
    BY <1>7 DEF Answer
  <2> QED BY <2>1 DEF Inv, Heard
<1>8. ASSUME Reopen PROVE Heard'
  BY <1>8, Constants, Hand DEF Inv, Shapes, Heard, Handled, Reopen
<1>9. ASSUME ShutDown PROVE Heard'
  BY <1>9, Constants, Hand DEF Inv, Shapes, Heard, Handled, ShutDown
<1>10. ASSUME Crash PROVE Heard'
  BY <1>10, Constants, Hand DEF Inv, Shapes, Heard, Handled, Crash
<1>11. ASSUME NEW wakes \in BOOLEAN, Interrupt(wakes) PROVE Heard'
  BY <1>11, Constants, Hand DEF Inv, Shapes, Heard, Handled, Interrupt
<1>12. ASSUME NEW c \in Clients, OpenInput(c) PROVE Heard'
  <2>1. /\ UNCHANGED <<pc, round, input, sins>> /\ at[c] = "open"
        /\ \A d \in Clients : d # c => at'[d] = at[d]
    BY <1>12 DEF OpenInput, Inv, Shapes
  <2>2. \A d \in Clients : at[d] # "open" => at'[d] = at[d]
    BY <2>1
  <2> QED BY <2>1, <2>2 DEF Inv, Heard, Handled
<1>13. ASSUME NEW c \in Clients, GiveUp(c) PROVE Heard'
  <2>1. /\ UNCHANGED <<pc, round, input, sins>> /\ at[c] = "open"
        /\ \A d \in Clients : d # c => at'[d] = at[d]
    BY <1>13 DEF GiveUp, Inv, Shapes
  <2>2. \A d \in Clients : at[d] # "open" => at'[d] = at[d]
    BY <2>1
  <2> QED BY <2>1, <2>2 DEF Inv, Heard, Handled
<1>14. ASSUME NEW c \in Clients, Write(c) PROVE Heard'
  <2> SUFFICES ASSUME {"shared", "left"} \cap sins = {} PROVE Heard'
    BY <1>14 DEF Heard, Write
  <2>1. /\ UNCHANGED <<pc, round>> /\ at[c] = "write" /\ Aim[c] \in Fifos
        /\ \A d \in Clients : d # c => at'[d] = at[d]
        /\ \A f \in Fifos : f # Aim[c] => input'[f] = input[f]
    BY <1>14, Constants DEF Write, Inv, Shapes
  <2>2. Handled' = Handled
    BY <2>1 DEF Handled
  <2>3. \A d \in Clients : at[d] # "write" => at'[d] = at[d]
    BY <2>1
  <2>4. at'[c] = "close" \/ input' = input
    BY <1>14 DEF Write, Inv, Shapes
  <2>5. \A f \in Fifos : input'[f] # <<>> =>
           \E d \in Clients : Aim[d] = f /\ at'[d] \in {"close", "openOutput"}
    <3>1. \A f \in Fifos : input[f] # <<>> =>
             \E d \in Clients : Aim[d] = f /\ at[d] \in {"close", "openOutput"}
      BY DEF Inv, Heard
    <3> QED BY <2>1, <2>3, <2>4, <3>1
  <2>6. ASSUME pc = "open"
        PROVE  /\ input'[Handled] = <<>>
               /\ \E d \in Clients : Aim[d] = Handled /\ at'[d] \in {"close", "openOutput"}
    <3>1. /\ input[Handled] = <<>> /\ Handled \in Fifos
      BY <2>6, Hand DEF Inv, Heard
    <3>2. PICK d \in Clients : Aim[d] = Handled /\ at[d] \in {"close", "openOutput"}
      BY <2>6 DEF Inv, Heard
    <3>3. Aim[c] # Handled
      BY <2>1, <3>2 DEF Inv, Alone, Busy
    <3> QED BY <2>1, <2>3, <3>1, <3>2, <3>3
  <2>7. pc = "answer" => \E d \in Clients : Aim[d] = Handled /\ at'[d] = "read"
    BY <2>3 DEF Inv, Heard
  <2> QED BY <2>1, <2>2, <2>5, <2>6, <2>7 DEF Heard
<1>15. ASSUME NEW c \in Clients, Close(c) PROVE Heard'
  BY <1>15, Constants, Hand DEF Inv, Shapes, Heard, Handled, Close
<1>16. ASSUME NEW c \in Clients, OpenOutputNow(c) PROVE Heard'
  <2>1. /\ sins' = sins /\ pc = "answer" /\ Handled = Aim[c] /\ at[c] = "openOutput"
    BY <1>16 DEF OpenOutputNow, ServerWrites
  <2> SUFFICES ASSUME {"shared", "left"} \cap sins = {} PROVE FALSE
    BY <2>1 DEF Heard
  <2>2. PICK d \in Clients : Aim[d] = Handled /\ at[d] = "read"
    BY <2>1 DEF Inv, Heard
  <2> QED BY <2>1, <2>2 DEF Inv, Alone, Busy
<1>17. ASSUME NEW c \in Clients, Read(c) PROVE Heard'
  <2> SUFFICES ASSUME {"shared", "left"} \cap sins = {} PROVE Heard'
    BY <1>17 DEF Heard, Read
  <2>1. /\ UNCHANGED <<pc, round, input>> /\ at[c] = "read" /\ ~(pc = "answer" /\ Handled = Aim[c])
        /\ \A d \in Clients : d # c => at'[d] = at[d]
    BY <1>17 DEF Read, ServerWrites, Inv, Shapes
  <2>2. \A d \in Clients : at[d] \in {"close", "openOutput"} => at'[d] = at[d]
    BY <2>1
  <2>3. pc = "answer" => \E d \in Clients : Aim[d] = Handled /\ at'[d] = "read"
    BY <2>1 DEF Inv, Heard
  <2> QED BY <2>1, <2>2, <2>3 DEF Inv, Heard, Handled
<1>18. ASSUME NEW c \in Clients, Leave(c) PROVE Heard'
  BY <1>18, Constants, Hand DEF Inv, Shapes, Heard, Handled, Leave
<1>19. ASSUME NEW c \in Clients, NEW r \in Requests(c), Call(c, r) PROVE Heard'
  <2> SUFFICES ASSUME {"shared", "left"} \cap sins = {} PROVE Heard'
    BY <1>19 DEF Heard, Call
  <2>1. /\ UNCHANGED <<pc, round, input>> /\ at[c] = "idle"
        /\ \A d \in Clients : d # c => at'[d] = at[d]
    BY <1>19 DEF Call, Inv, Shapes
  <2>2. \A d \in Clients : at[d] # "idle" => at'[d] = at[d]
    BY <2>1
  <2> QED BY <2>1, <2>2 DEF Inv, Heard, Handled
<1>20. CASE UNCHANGED vars
  BY <1>20 DEF Inv, Shapes, Heard, Handled, vars
<1>21. ASSUME CloseInput PROVE Heard'
  BY <1>21, Constants, Hand DEF Inv, Shapes, Heard, Handled, CloseInput
<1> QED BY <1>1, <1>2, <1>3, <1>4, <1>5, <1>6, <1>7, <1>8, <1>9, <1>10, <1>11, <1>12, <1>13,
     <1>14, <1>15, <1>16, <1>17, <1>18, <1>19, <1>20, <1>21 DEF Next, Serve, Proceed

\* Only the client that asks for the shutdown is there when the server is to quit (ask_shutdown).
LEMMA LastStep == ASSUME Inv, [Next]_vars PROVE LastWord'
<1> USE DEF kernel, serverVars, clientVars, bounds
<1>1. ASSUME NEW order \in BootOrders, Start(order) PROVE LastWord'
  BY <1>1, Constants, Hand DEF Inv, Shapes, LastWord, Busy, Under, Start
<1>2. ASSUME NEW order \in BootOrders, StartFails(order) PROVE LastWord'
  BY <1>2, Constants, Hand DEF Inv, Shapes, LastWord, Busy, Under, StartFails
<1>3. ASSUME Watch PROVE LastWord'
  BY <1>3, Constants, Hand DEF Inv, Shapes, LastWord, Busy, Under, Watch
<1>4. ASSUME NEW order \in Orders, Poll(order) PROVE LastWord'
  BY <1>4, Constants, Hand DEF Inv, Shapes, LastWord, Busy, Under, Poll
<1>5. ASSUME ReadAndHandle PROVE LastWord'
  <2> SUFFICES ASSUME sins = {} PROVE LastWord'
    BY <1>5 DEF LastWord, ReadAndHandle
  <2>1. pc = "read" /\ at' = at /\ request' = request /\ (should_quit' => should_quit \/ Received(Handled).op = "shutdown")
    BY <1>5 DEF ReadAndHandle
  <2>2. Handled \in Fifos /\ Handled = round[1] /\ 1 \in DOMAIN round
    BY <2>1, Hand
  <2>3. \A f \in Fifos : input'[f] = IF f = Handled THEN <<>> ELSE input[f]
    BY <1>5, <2>2 DEF ReadAndHandle, Inv, Shapes
  <2>4. ASSUME NEW c \in Clients, should_quit', Busy(c)
        PROVE  at[c] = "read" \/ (Under(c) /\ input'[Aim[c]] = <<>>)
    <3>1. CASE should_quit
      BY <2>3, <2>4, <3>1, Constants DEF Inv, LastWord
    <3>2. CASE Received(Handled).op = "shutdown"
      <4>1. input[Handled] # <<>>
        BY <2>1, <2>2 DEF Inv, Rounds
      <4>2. PICK d \in Clients : Aim[d] = Handled /\ Under(d)
        BY <2>2, <4>1 DEF Inv, Heard, Under
      <4>3. Sent(d)
        BY <4>2 DEF Inv, Own, Settled, Placed
      <4>4. input[Handled] = <<request[d]>>
        BY <4>1, <4>2, <4>3 DEF Sent
      <4>5. request[d].op = "shutdown"
        BY <2>2, <3>2, <4>4, ReceivedType DEF Inv, Shapes
      <4>6. c = d
        BY <2>4, <4>2, <4>5 DEF Inv, LastWord, Busy, Under
      <4> QED BY <2>2, <2>3, <4>2, <4>6
    <3> QED BY <2>1, <2>4, <3>1, <3>2
  <2> QED BY <2>1, <2>4 DEF Inv, LastWord, Busy, Under
<1>6. ASSUME OpenOutput PROVE LastWord'
  BY <1>6, Constants, Hand DEF Inv, Shapes, LastWord, Busy, Under, OpenOutput
<1>7. ASSUME Answer PROVE LastWord'
  BY <1>7, Constants, Hand DEF Inv, Shapes, LastWord, Busy, Under, Answer
<1>8. ASSUME Reopen PROVE LastWord'
  BY <1>8, Constants, Hand DEF Inv, Shapes, LastWord, Busy, Under, Reopen
<1>9. ASSUME ShutDown PROVE LastWord'
  BY <1>9, Constants, Hand DEF Inv, Shapes, LastWord, Busy, Under, ShutDown
<1>10. ASSUME Crash PROVE LastWord'
  BY <1>10, Constants, Hand DEF Inv, Shapes, LastWord, Busy, Under, Crash
<1>11. ASSUME NEW wakes \in BOOLEAN, Interrupt(wakes) PROVE LastWord'
  BY <1>11, Constants, Hand DEF Inv, Shapes, LastWord, Busy, Under, Interrupt
<1>12. ASSUME NEW c \in Clients, OpenInput(c) PROVE LastWord'
  BY <1>12, Constants, Hand DEF Inv, Shapes, LastWord, Busy, Under, OpenInput
<1>13. ASSUME NEW c \in Clients, GiveUp(c) PROVE LastWord'
  BY <1>13, Constants, Hand DEF Inv, Shapes, LastWord, Busy, Under, GiveUp
<1>14. ASSUME NEW c \in Clients, Write(c) PROVE LastWord'
  BY <1>14, Constants, Hand DEF Inv, Shapes, LastWord, Busy, Under, Write
<1>15. ASSUME NEW c \in Clients, Close(c) PROVE LastWord'
  BY <1>15, Constants, Hand DEF Inv, Shapes, LastWord, Busy, Under, Close
<1>16. ASSUME NEW c \in Clients, OpenOutputNow(c) PROVE LastWord'
  BY <1>16, Constants, Hand DEF Inv, Shapes, LastWord, Busy, Under, OpenOutputNow
<1>17. ASSUME NEW c \in Clients, Read(c) PROVE LastWord'
  BY <1>17, Constants, Hand DEF Inv, Shapes, LastWord, Busy, Under, Read
<1>18. ASSUME NEW c \in Clients, Leave(c) PROVE LastWord'
  BY <1>18, Constants, Hand DEF Inv, Shapes, LastWord, Busy, Under, Leave
<1>19. ASSUME NEW c \in Clients, NEW r \in Requests(c), Call(c, r) PROVE LastWord'
  <2> SUFFICES ASSUME sins' = {} PROVE LastWord'
    BY DEF LastWord
  <2>1. /\ UNCHANGED <<input, should_quit>> /\ at[c] = "idle" /\ sins = {} /\ ~should_quit /\ ~ShutdownAsked
        /\ \A d \in Clients : d # c => at'[d] = at[d] /\ request'[d] = request[d]
        /\ request'[c] = r
        /\ r.op = "shutdown" => \A d \in Clients \ {c} : at[d] = "idle"
    BY <1>19 DEF Call, Inv, Shapes
  <2> QED BY <2>1 DEF Inv, LastWord, Busy, Under, ShutdownAsked
<1>20. CASE UNCHANGED vars
  BY <1>20 DEF Inv, Shapes, LastWord, Busy, Under, vars
<1>21. ASSUME CloseInput PROVE LastWord'
  BY <1>21, Constants, Hand DEF Inv, Shapes, LastWord, Busy, Under, CloseInput
<1> QED BY <1>1, <1>2, <1>3, <1>4, <1>5, <1>6, <1>7, <1>8, <1>9, <1>10, <1>11, <1>12, <1>13,
     <1>14, <1>15, <1>16, <1>17, <1>18, <1>19, <1>20, <1>21 DEF Next, Serve, Proceed

-----------------------------------------------------------------------------
(***************************************************************************)
(* Every request has its place between its client and the server.          *)
(***************************************************************************)
\* Nothing that matters to the client of a FIFO has changed there.
Same(f) ==
    /\ input'[f] = input[f] /\ output'[f] = output[f] /\ (f \in ifds => f \in ifds')
    /\ (InRound(f) <=> InRound(f)') /\ (AtHand(f) <=> AtHand(f)')
    /\ AtHand(f) => pc' = pc /\ answer' = answer

Idle(c) == at'[c] = at[c] /\ request'[c] = request[c] /\ got'[c] = got[c]

\* A client is where it was if nothing has changed for it.
LEMMA PlacedFrame ==
    ASSUME NEW c \in Clients, Placed(c), Same(Aim[c]), Idle(c)
    PROVE  Placed(c)'
<1>1. (Before(c) <=> Before(c)') /\ (Under(c) <=> Under(c)')
  BY DEF Idle, Before, Under
<1>2. Sent(c) => Sent(c)'
  BY DEF Same, Idle, Sent
<1>3. Answered(c) => Answered(c)'
  BY DEF Same, Idle, Answered
<1>4. Quiet(Aim[c]) => Quiet(Aim[c])'
  BY DEF Same, Quiet
<1>5. Quiet(Aim[c]) /\ (InRound(Aim[c]) => Waits(c)) => (InRound(Aim[c])' => Waits(c)')
  BY DEF Same, Idle, Quiet, Waits
<1> QED BY <1>1, <1>2, <1>3, <1>4, <1>5 DEF Placed, Same, Idle

\* So is a FIFO nobody uses.
LEMMA QuietFrame ==
    ASSUME NEW f \in Fifos, Quiet(f), Same(f)
    PROVE  Quiet(f)'
BY DEF Same, Quiet

\* A step of a client changes nothing at the FIFOs it does not touch.
LEMMA ClientFrame ==
    ASSUME NEW f, UNCHANGED serverVars, input'[f] = input[f], output'[f] = output[f]
    PROVE  Same(f)
BY DEF serverVars, Same, InRound, AtHand, Handled

\* Nor does the server at those it does not have at hand.
LEMMA ServerFrame ==
    ASSUME NEW f, round' = round, ~AtHand(f), ifds \subseteq ifds',
           input'[f] = input[f], output'[f] = output[f]
    PROVE  Same(f)
BY DEF Same, InRound, AtHand, Handled

\* Whoever shares no FIFO with the client that moves is where it was.
LEMMA OthersKeep ==
    ASSUME Inv, sins = {}, NEW c \in Clients, UNCHANGED serverVars,
           \A d \in Clients : d # c => Idle(d),
           \A f \in Fifos : f # Aim[c] => input'[f] = input[f] /\ output'[f] = output[f],
           Placed(c)', Unused(Aim[c])' => Quiet(Aim[c])',
           \A d \in Clients : d # c /\ Aim[d] = Aim[c] => ~Busy(d)
    PROVE  Settled'
<1>1. ASSUME NEW d \in Clients, d # c PROVE Placed(d)'
  <2>1. CASE Aim[d] = Aim[c]
    <3>1. at[d] = "idle" /\ Idle(d)
      BY <1>1, <2>1 DEF Busy
    <3>2. got[d] = request[d]
      BY <3>1 DEF Inv, Own, Settled, Placed
    <3> QED BY <3>1, <3>2 DEF Placed, Idle, Before, Under
  <2>2. CASE Aim[d] # Aim[c]
    <3>1. Same(Aim[d])
      BY <2>2, Constants, ClientFrame
    <3> QED BY <1>1, <3>1, PlacedFrame DEF Inv, Own, Settled
  <2> QED BY <2>1, <2>2
<1>2. ASSUME NEW f \in Fifos, Unused(f)' PROVE Quiet(f)'
  <2>1. CASE f = Aim[c]
    BY <1>2, <2>1
  <2>2. CASE f # Aim[c]
    <3>1. Same(f)
      BY <2>2, ClientFrame
    <3>2. Unused(f)
      BY <1>2, <2>2 DEF Unused, Busy, Idle
    <3> QED BY <3>1, <3>2, QuietFrame DEF Inv, Own, Settled
  <2> QED BY <2>1, <2>2
<1> QED BY <1>1, <1>2 DEF Settled

\* Every call gets to its answer on its way through the FIFOs (handle_battery,
\* handle_admin).
LEMMA OwnStep == ASSUME Inv, [Next]_vars, sins' = {} PROVE Settled'
<1> USE DEF kernel, serverVars, clientVars, bounds
<1>1. ASSUME NEW order \in BootOrders, Start(order) PROVE Settled'
  <2>1. /\ sins = {} /\ pc = "down" /\ UNCHANGED <<at, request, got, input, output, round, writers>>
    BY <1>1 DEF Start
  <2>2. ifds = {} /\ round = <<>>
    BY <2>1 DEF Inv, Files, Rounds
  <2>3. \A f \in Fifos : Same(f)
    BY <2>1, <2>2, ServerFrame DEF AtHand
  <2> QED BY <2>1, <2>3, PlacedFrame, QuietFrame, Constants DEF Inv, Own, Settled, Idle, Unused,
       Busy
<1>2. ASSUME NEW order \in BootOrders, StartFails(order) PROVE Settled'
  <2>1. sins = {} /\ UNCHANGED <<serverVars, clientVars, input, output>>
    BY <1>2 DEF StartFails
  <2>2. \A f \in Fifos : Same(f)
    BY <2>1, ClientFrame
  <2> QED BY <2>1, <2>2, PlacedFrame, QuietFrame, Constants DEF Inv, Own, Settled, Idle, Unused,
       Busy
<1>3. ASSUME Watch PROVE Settled'
  <2>1. sins = {} /\ UNCHANGED <<at, request, got, input, output, ifds, round, answer>> /\ round = <<>>
    BY <1>3 DEF Watch, Inv, Rounds
  <2>2. \A f \in Fifos : Same(f)
    BY <2>1, ServerFrame DEF AtHand
  <2> QED BY <2>1, <2>2, PlacedFrame, QuietFrame, Constants DEF Inv, Own, Settled, Idle, Unused,
       Busy
<1>4. ASSUME NEW order \in Orders, Poll(order) PROVE Settled'
  <2>1. /\ sins = {} /\ UNCHANGED <<at, request, got, input, output, ifds, answer>> /\ pc' = "read"
        /\ pc = "wait" /\ round = <<>>
    BY <1>4 DEF Poll, Inv, Rounds
  <2>2. ASSUME NEW f, input[f] = <<>> PROVE ~InRound(f)'
    <3>1. round' \in Seq(Ready)
      BY <1>4, RoundType
    <3>2. \A i \in DOMAIN round' : input[round'[i]] # <<>>
      BY <3>1 DEF Ready
    <3> QED BY <2>2, <3>2 DEF InRound
  <2>3. \A f : ~AtHand(f) /\ ~InRound(f)
    BY <2>1 DEF AtHand, InRound
  <2>4. ASSUME NEW f, Quiet(f) PROVE Quiet(f)'
    BY <2>1, <2>2, <2>4 DEF Quiet
  <2>5. ASSUME NEW c \in Clients PROVE Placed(c)'
    <3>1. Placed(c)
      BY <2>1 DEF Inv, Own, Settled
    <3>2. Before(c) => Aim[c] \in ifds' /\ Quiet(Aim[c])' /\ ~InRound(Aim[c])'
      BY <2>1, <2>2, <2>4, <3>1 DEF Placed, Quiet
    <3>3. Under(c) => Sent(c)'
      BY <2>1, <2>3, <3>1 DEF Placed, Sent
    <3>4. at[c] = "read" => Answered(c)'
      BY <2>1, <2>2, <2>3, <3>1 DEF Placed, Answered
    <3> QED BY <2>1, <3>1, <3>2, <3>3, <3>4 DEF Placed, Before, Under
  <2> QED BY <2>1, <2>4, <2>5 DEF Inv, Own, Settled, Unused, Busy
<1>5. ASSUME ReadAndHandle PROVE Settled'
  <2>1. /\ sins = {} /\ UNCHANGED <<at, request, got, output, round>> /\ ifds \subseteq ifds'
        /\ pc = "read" /\ pc' = "open" /\ answer' = Received(Handled)
    BY <1>5 DEF ReadAndHandle
  <2>2. round # <<>> /\ 1 \in DOMAIN round /\ Handled = round[1] /\ Handled \in Fifos
    BY <2>1, Hand
  <2>3. input[Handled] # <<>>
    BY <2>1, <2>2 DEF Inv, Rounds
  <2>4. \A f \in Fifos : input'[f] = IF f = Handled THEN <<>> ELSE input[f]
    BY <1>5, <2>2 DEF ReadAndHandle, Inv, Shapes
  <2>5. \A f \in Fifos : f # Handled => Same(f)
    BY <2>1, <2>4, ServerFrame DEF AtHand
  <2>6. PICK d \in Clients : Aim[d] = Handled /\ Under(d)
    BY <2>1, <2>2, <2>3 DEF Inv, Heard, Under
  <2>7. Sent(d) /\ input[Handled] = <<request[d]>>
    BY <2>1, <2>3, <2>6 DEF Inv, Own, Settled, Placed, Sent
  <2>8. Received(Handled) = request[d]
    BY <2>2, <2>7, ReceivedType DEF Inv, Shapes
  <2>9. AtHand(Handled)' /\ Handled' = Handled
    BY <2>1, <2>2 DEF AtHand, Handled
  <2>10. Sent(d)'
    BY <2>1, <2>2, <2>4, <2>6, <2>7, <2>8, <2>9 DEF Sent
  <2>11. ASSUME NEW c \in Clients PROVE Placed(c)'
    <3>1. CASE Aim[c] # Handled
      BY <2>1, <2>5, <3>1, Constants, PlacedFrame DEF Inv, Own, Settled, Idle
    <3>2. CASE c = d
      BY <2>1, <2>6, <2>10, <3>2 DEF Placed, Before, Under
    <3>3. CASE Aim[c] = Handled /\ c # d
      <4>1. at[c] = "idle"
        BY <2>1, <2>6, <3>3 DEF Inv, Alone, Busy, Under
      <4> QED BY <2>1, <4>1 DEF Inv, Own, Settled, Placed, Before, Under
    <3> QED BY <3>1, <3>2, <3>3
  <2>12. ASSUME NEW f \in Fifos, Unused(f)' PROVE Quiet(f)'
    <3>1. Unused(f) /\ f # Handled
      BY <2>1, <2>6, <2>12 DEF Unused, Busy, Under
    <3> QED BY <2>1, <2>5, <3>1, QuietFrame DEF Inv, Own, Settled
  <2> QED BY <2>11, <2>12 DEF Settled
<1>6. ASSUME OpenOutput PROVE Settled'
  <2>1. /\ sins = {} /\ UNCHANGED <<request, got, input, output, round, ifds, answer>>
        /\ pc = "open" /\ pc' = "answer"
    BY <1>6 DEF OpenOutput
  <2>2. \A c \in Clients : at'[c] = IF Aim[c] = Handled /\ at[c] = "openOutput" THEN "read" ELSE at[c]
    BY <1>6 DEF OpenOutput
  <2>3. Handled \in Fifos /\ Handled' = Handled /\ AtHand(Handled) /\ AtHand(Handled)'
    BY <2>1, Hand DEF Handled, AtHand
  <2>4. \A f \in Fifos : f # Handled => Same(f)
    BY <2>1, ServerFrame DEF AtHand
  <2>5. PICK d \in Clients : Aim[d] = Handled /\ at'[d] = "read" /\ (at[d] = "read" \/ at[d] = "openOutput")
    <3>1. PICK d \in Clients : Aim[d] = Handled /\ (d \in listeners[Handled] \/ at[d] = "openOutput")
      BY <1>6, <2>3 DEF OpenOutput, Inv, Shapes, Ends
    <3>2. d \in listeners[Handled] => at[d] = "read"
      BY <2>3 DEF Inv, Ends
    <3> QED BY <2>2, <3>1, <3>2
  <2>6. InRound(Handled)
    BY <2>1, Hand DEF InRound
  <2>7. at[d] = "openOutput"
    <3>1. at[d] = "read" => Answered(d)
      BY <2>1 DEF Inv, Own, Settled, Placed
    <3>2. ~Answered(d)
      BY <2>1, <2>5, <2>6 DEF Answered
    <3> QED BY <2>5, <3>1, <3>2
  <2>8. Sent(d)
    BY <2>1, <2>7 DEF Inv, Own, Settled, Placed, Under
  <2>9. Answered(d)'
    BY <2>1, <2>3, <2>5, <2>8 DEF Sent, Answered
  <2>10. ASSUME NEW c \in Clients PROVE Placed(c)'
    <3>1. CASE Aim[c] # Handled
      BY <2>1, <2>2, <2>4, <3>1, Constants, PlacedFrame DEF Inv, Own, Settled, Idle
    <3>2. CASE c = d
      BY <2>5, <2>9, <3>2 DEF Placed, Before, Under
    <3>3. CASE Aim[c] = Handled /\ c # d
      <4>1. at[c] = "idle" /\ at'[c] = "idle"
        BY <2>1, <2>2, <2>5, <2>7, <3>3 DEF Inv, Alone, Busy
      <4> QED BY <2>1, <4>1 DEF Inv, Own, Settled, Placed, Before, Under
    <3> QED BY <3>1, <3>2, <3>3
  <2>11. ASSUME NEW f \in Fifos, Unused(f)' PROVE Quiet(f)'
    <3>1. f # Handled
      BY <2>5, <2>11 DEF Unused, Busy
    <3>2. Unused(f)
      BY <2>2, <2>11, <3>1 DEF Unused, Busy
    <3> QED BY <2>1, <2>4, <3>1, <3>2, QuietFrame DEF Inv, Own, Settled
  <2> QED BY <2>10, <2>11 DEF Settled
<1>7. ASSUME Answer PROVE Settled'
  <2>1. /\ sins = {} /\ UNCHANGED <<at, request, got>> /\ pc = "answer"
    BY <1>7 DEF Answer
  <2>2. Handled \in Fifos /\ AtHand(Handled)
    BY <2>1, Hand DEF AtHand
  <2>3. PICK d \in Clients : Aim[d] = Handled /\ at[d] = "read"
    BY <2>1 DEF Inv, Heard
  <2>4. d \in listeners[Handled]
    BY <2>2, <2>3 DEF Inv, Ends
  <2>5. /\ UNCHANGED <<input, round, ifds>> /\ pc' = "close"
        /\ output' = [output EXCEPT ![Handled] = Append(output[Handled], answer)]
    BY <1>7, <2>4 DEF Answer
  <2>6. \A f \in Fifos : f # Handled => Same(f)
    <3>1. \A f \in Fifos : f # Handled => output'[f] = output[f]
      BY <2>5 DEF Inv, Shapes
    <3> QED BY <2>5, <3>1, ServerFrame DEF AtHand
  <2>7. Answered(d)
    BY <2>1, <2>3 DEF Inv, Own, Settled, Placed
  <2>8. answer = request[d] /\ output[Handled] = <<>> /\ input[Handled] = <<>>
    <3>1. InRound(Handled)
      BY <2>1, Hand DEF InRound
    <3> QED BY <2>1, <2>3, <2>7, <3>1 DEF Answered
  <2>9. output'[Handled] = <<request[d]>>
    BY <2>2, <2>5, <2>8 DEF Inv, Shapes
  <2>10. AtHand(Aim[d])'
    BY <2>2, <2>3, <2>5 DEF AtHand, Handled
  <2>11. Answered(d)'
    BY <2>1, <2>3, <2>5, <2>8, <2>9, <2>10 DEF Answered
  <2>12. ASSUME NEW c \in Clients PROVE Placed(c)'
    <3>1. CASE Aim[c] # Handled
      BY <2>1, <2>6, <3>1, Constants, PlacedFrame DEF Inv, Own, Settled, Idle
    <3>2. CASE c = d
      BY <2>1, <2>3, <2>11, <3>2 DEF Placed, Before, Under
    <3>3. CASE Aim[c] = Handled /\ c # d
      <4>1. at[c] = "idle"
        BY <2>1, <2>3, <3>3 DEF Inv, Alone, Busy
      <4> QED BY <2>1, <4>1 DEF Inv, Own, Settled, Placed, Before, Under
    <3> QED BY <3>1, <3>2, <3>3
  <2>13. ASSUME NEW f \in Fifos, Unused(f)' PROVE Quiet(f)'
    <3>1. Unused(f) /\ f # Handled
      BY <2>1, <2>3, <2>13 DEF Unused, Busy
    <3> QED BY <2>1, <2>6, <3>1, QuietFrame DEF Inv, Own, Settled
  <2> QED BY <2>12, <2>13 DEF Settled
<1>8. ASSUME Reopen PROVE Settled'
  <2>1. /\ sins = {} /\ UNCHANGED <<at, request, got, input, output, ifds, answer>>
        /\ pc = "reopen"
        /\ round' = Tail(round) /\ pc' = IF round' = <<>> THEN "poll" ELSE "read"
    BY <1>8 DEF Reopen
  <2>2. /\ round # <<>> /\ 1 \in DOMAIN round /\ Handled = round[1] /\ Handled \in Fifos
        /\ round \in Seq(ifds)
    BY <2>1, Hand DEF Inv, Rounds
  <2>4. \A i \in DOMAIN round' : i \in Nat /\ i + 1 \in DOMAIN round /\ i + 1 # 1 /\ round'[i] = round[i + 1]
    BY <2>1, <2>2
  <2>5. \A i \in DOMAIN round' : round'[i] # Handled
    BY <2>2, <2>4 DEF Inv, Rounds
  <2>6. ASSUME NEW f, InRound(f)' PROVE InRound(f) /\ ~AtHand(f)
    <3>1. InRound(f) /\ f # Handled
      BY <2>4, <2>5, <2>6 DEF InRound
    <3> QED BY <3>1 DEF AtHand
  <2>7. ASSUME NEW f PROVE AtHand(f)' => pc' = "read" /\ ~AtHand(f)
    <3>1. ASSUME AtHand(f)' PROVE InRound(f)' /\ round' # <<>>
      <4>1. round' # <<>> /\ f = Head(round')
        BY <3>1 DEF AtHand, Handled
      <4>2. 1 \in DOMAIN round' /\ f = round'[1]
        BY <2>1, <2>2, <4>1
      <4> QED BY <4>1, <4>2 DEF InRound
    <3> QED BY <2>1, <2>6, <3>1
  <2>8. ASSUME NEW f \in Fifos, Quiet(f) PROVE Quiet(f)'
    BY <2>1, <2>6, <2>8 DEF Quiet
  <2>9. ASSUME NEW c \in Clients PROVE Placed(c)'
    <3>1. Placed(c) /\ Aim[c] \in Fifos
      BY <2>1, Constants DEF Inv, Own, Settled
    <3>2. Before(c) => Aim[c] \in ifds' /\ Quiet(Aim[c])' /\ ~InRound(Aim[c])'
      BY <2>1, <2>6, <2>8, <3>1 DEF Placed, Quiet
    <3>3. Under(c) => Sent(c)'
      <4> SUFFICES ASSUME Under(c) PROVE Sent(c)'
        OBVIOUS
      <4>1. Sent(c)
        BY <3>1 DEF Placed
      <4>2. input[Aim[c]] = <<request[c]>> /\ ~AtHand(Aim[c])
        BY <2>1, <4>1 DEF Sent
      <4>3. Aim[c] # Handled
        BY <2>2, <4>2 DEF AtHand
      <4> QED BY <2>1, <2>7, <3>1, <4>1, <4>2, <4>3 DEF Sent
    <3>4. at[c] = "read" => Answered(c)'
      BY <2>1, <2>6, <3>1 DEF Placed, Answered
    <3> QED BY <2>1, <3>1, <3>2, <3>3, <3>4 DEF Placed, Before, Under
  <2> QED BY <2>1, <2>8, <2>9 DEF Inv, Own, Settled, Unused, Busy
<1>9. ASSUME ShutDown PROVE Settled'
  <2>1. /\ sins = {} /\ UNCHANGED <<at, request, got, output, round, answer>>
        /\ \A f \in Fifos : input'[f] = IF writers[f] = {} THEN <<>> ELSE input[f]
    BY <1>9 DEF ShutDown
  <2>2. pc = "poll" /\ should_quit
    BY <1>9, <2>1 DEF ShutDown, Inv, Files
  <2>3. round = <<>> /\ \A f : ~InRound(f) /\ ~InRound(f)' /\ ~AtHand(f)
    BY <2>1, <2>2 DEF Inv, Rounds, InRound, AtHand
  <2>4. ASSUME NEW c \in Clients PROVE Placed(c)'
    <3>1. Placed(c) /\ Aim[c] \in Fifos
      BY <2>1, Constants DEF Inv, Own, Settled
    <3>2. at[c] = "idle" \/ at[c] = "read"
      <4>1. Busy(c) => at[c] = "read" \/ (Under(c) /\ input[Aim[c]] = <<>>)
        BY <2>1, <2>2 DEF Inv, LastWord
      <4>2. Under(c) => input[Aim[c]] = <<request[c]>>
        BY <2>3, <3>1 DEF Placed, Sent
      <4> QED BY <4>1, <4>2 DEF Busy
    <3>3. at[c] = "read" => Answered(c)'
      BY <2>1, <2>3, <3>1 DEF Placed, Answered
    <3> QED BY <2>1, <3>1, <3>2, <3>3 DEF Placed, Before, Under
  <2>5. ASSUME NEW f \in Fifos, Quiet(f) PROVE Quiet(f)'
    BY <2>1, <2>3, <2>5 DEF Quiet
  <2> QED BY <2>1, <2>4, <2>5 DEF Inv, Own, Settled, Unused, Busy
<1>10. ASSUME Crash PROVE Settled'
  BY <1>10 DEF Crash
<1>11. ASSUME NEW wakes \in BOOLEAN, Interrupt(wakes) PROVE Settled'
  BY <1>11 DEF Interrupt
<1>12. ASSUME NEW c \in Clients, OpenInput(c) PROVE Settled'
  <2>1. /\ sins = {} /\ UNCHANGED <<serverVars, input, output>> /\ at[c] = "open" /\ at'[c] = "write"
        /\ \A d \in Clients : d # c => Idle(d)
    BY <1>12 DEF OpenInput, Idle, Inv, Shapes
  <2>2. \A d \in Clients : d # c /\ Aim[d] = Aim[c] => ~Busy(d)
    BY <2>1 DEF Inv, Alone, Busy
  <2>3. Same(Aim[c])
    BY <2>1, ClientFrame
  <2>4. Aim[c] \in ifds /\ Quiet(Aim[c]) /\ ~InRound(Aim[c])
    <3>1. Aim[c] \in ifds /\ Quiet(Aim[c]) /\ (InRound(Aim[c]) => Waits(c))
      BY <2>1 DEF Inv, Own, Settled, Placed, Before
    <3>2. InRound(Aim[c]) => ~Readable(Aim[c])
      BY <3>1 DEF Quiet, Waits, Readable, AtHand
    <3> QED BY <1>12, <3>1, <3>2 DEF OpenInput
  <2>5. Quiet(Aim[c])'
    BY <2>3, <2>4, Constants, QuietFrame
  <2>6. Placed(c)'
    BY <2>1, <2>3, <2>4, <2>5 DEF Placed, Before, Under, Same
  <2> QED BY <2>1, <2>2, <2>5, <2>6, OthersKeep
<1>13. ASSUME NEW c \in Clients, GiveUp(c) PROVE Settled'
  <2>1. sins = {} /\ at[c] = "open" /\ request[c].op = "shutdown" /\ ~Readable(Aim[c])
    BY <1>13 DEF GiveUp
  <2>2. Aim[c] \in ifds /\ ~InRound(Aim[c])
    BY <2>1 DEF Inv, Own, Settled, Placed, Before, Waits
  <2>3. pc = "reopen" /\ Handled = Aim[c]
    BY <2>1, <2>2 DEF Readable
  <2> QED BY <2>2, <2>3, Hand DEF InRound
<1>14. ASSUME NEW c \in Clients, Write(c) PROVE Settled'
  <2>1. /\ sins = {} /\ UNCHANGED <<serverVars, output, request, got>> /\ at[c] = "write" /\ Aim[c] \in Fifos
    BY <1>14, Constants DEF Write
  <2>2. Aim[c] \in ifds /\ Quiet(Aim[c]) /\ ~InRound(Aim[c])
    BY <2>1 DEF Inv, Own, Settled, Placed, Before, Waits
  <2>. Readable(Aim[c])
    BY <2>2, Hand DEF Readable, InRound
  <2>3. /\ at' = [at EXCEPT ![c] = "close"]
        /\ input' = [input EXCEPT ![Aim[c]] = Append(input[Aim[c]], request[c])]
    BY <1>14, <2>2 DEF Write
  <2>4. /\ at'[c] = "close" /\ \A d \in Clients : d # c => Idle(d)
        /\ \A f \in Fifos : f # Aim[c] => input'[f] = input[f]
    BY <2>1, <2>3 DEF Idle, Inv, Shapes
  <2>5. input'[Aim[c]] = <<request[c]>>
    BY <2>1, <2>2, <2>3 DEF Quiet, Inv, Shapes
  <2>6. ~AtHand(Aim[c])'
    <3>1. ~AtHand(Aim[c])
      BY <2>2 DEF Inv, Rounds, AtHand, Handled, InRound
    <3> QED BY <2>1, <3>1 DEF AtHand, Handled
  <2>7. Sent(c)'
    BY <2>1, <2>2, <2>5, <2>6 DEF Sent, Quiet
  <2>8. Placed(c)' /\ ~Unused(Aim[c])'
    BY <2>4, <2>7 DEF Placed, Before, Under, Unused, Busy
  <2>9. \A d \in Clients : d # c /\ Aim[d] = Aim[c] => ~Busy(d)
    BY <2>1 DEF Inv, Alone, Busy
  <2> QED BY <2>1, <2>4, <2>8, <2>9, OthersKeep
<1>15. ASSUME NEW c \in Clients, Close(c) PROVE Settled'
  <2>1. /\ sins = {} /\ UNCHANGED <<serverVars, output, request, got>> /\ at[c] = "close" /\ Aim[c] \in Fifos
        /\ at'[c] = "openOutput" /\ \A d \in Clients : d # c => Idle(d)
    BY <1>15, Constants DEF Close, Idle, Inv, Shapes
  <2>2. Sent(c)
    BY <2>1 DEF Inv, Own, Settled, Placed, Under
  <2>3. input' = input
    <3>1. Readable(Aim[c])
      BY <2>2, Hand DEF Sent, Readable, AtHand
    <3> QED BY <1>15, <2>1, <3>1 DEF Close, Inv, Shapes
  <2>4. Same(Aim[c])
    BY <2>1, <2>3, ClientFrame
  <2>5. Sent(c)'
    BY <2>1, <2>2, <2>4 DEF Sent, Same
  <2>6. Placed(c)' /\ ~Unused(Aim[c])'
    BY <2>1, <2>5 DEF Placed, Before, Under, Unused, Busy
  <2>7. \A d \in Clients : d # c /\ Aim[d] = Aim[c] => ~Busy(d)
    BY <2>1 DEF Inv, Alone, Busy
  <2> QED BY <2>1, <2>3, <2>6, <2>7, OthersKeep
<1>16. ASSUME NEW c \in Clients, OpenOutputNow(c) PROVE Settled'
  <2>1. sins = {} /\ pc = "answer" /\ Handled = Aim[c] /\ at[c] = "openOutput"
    BY <1>16 DEF OpenOutputNow, ServerWrites
  <2>2. PICK d \in Clients : Aim[d] = Handled /\ at[d] = "read"
    BY <2>1 DEF Inv, Heard
  <2> QED BY <2>1, <2>2 DEF Inv, Alone, Busy
<1>17. ASSUME NEW c \in Clients, Read(c) PROVE Settled'
  <2>1. /\ sins = {} /\ UNCHANGED <<serverVars, input, request>> /\ at[c] = "read" /\ Aim[c] \in Fifos
        /\ ~(pc = "answer" /\ Handled = Aim[c])
        /\ at'[c] = "idle" /\ \A d \in Clients : d # c => Idle(d)
        /\ \A f \in Fifos : output'[f] = IF f = Aim[c] THEN <<>> ELSE output[f]
    BY <1>17, Constants DEF Read, ServerWrites, Idle, Inv, Shapes
  <2>2. Answered(c)
    BY <2>1 DEF Inv, Own, Settled, Placed
  <2>3. /\ output[Aim[c]] = <<request[c]>> /\ input[Aim[c]] = <<>>
        /\ InRound(Aim[c]) => AtHand(Aim[c]) /\ pc \in {"close", "reopen"}
    BY <2>1, <2>2 DEF Answered, AtHand
  <2>4. got'[c] = request'[c]
    <3>1. Last(output[Aim[c]]) = request[c] /\ output[Aim[c]] # <<>>
      BY <2>3 DEF Last
    <3>2. got' = [got EXCEPT ![c] = request[c]]
      BY <1>17, <3>1 DEF Read
    <3> QED BY <2>1, <3>2 DEF Inv, Shapes
  <2>5. Quiet(Aim[c])'
    BY <2>1, <2>3 DEF Quiet, InRound, AtHand, Handled
  <2>6. Placed(c)'
    BY <2>1, <2>4 DEF Placed, Before, Under
  <2>7. \A d \in Clients : d # c /\ Aim[d] = Aim[c] => ~Busy(d)
    BY <2>1 DEF Inv, Alone, Busy
  <2> QED BY <2>1, <2>5, <2>6, <2>7, OthersKeep
<1>18. ASSUME NEW c \in Clients, Leave(c) PROVE Settled'
  BY <1>18 DEF Leave
<1>19. ASSUME NEW c \in Clients, NEW r \in Requests(c), Call(c, r) PROVE Settled'
  <2>1. /\ sins = {} /\ UNCHANGED <<serverVars, input, output>> /\ at[c] = "idle" /\ Aim[c] \in Fifos
        /\ at'[c] = "open" /\ \A d \in Clients : d # c => Idle(d)
        /\ ~Sharing(c) /\ Aim[c] \in ifds /\ ~(pc = "close" /\ Handled = Aim[c])
        /\ (Readable(Aim[c]) \/ r.op # "shutdown") /\ request'[c] = r
    BY <1>19, Constants DEF Call, Idle, Inv, Shapes
  <2>2. \A d \in Clients : d # c /\ Aim[d] = Aim[c] => ~Busy(d)
    BY <2>1 DEF Sharing, Busy
  <2>3. Quiet(Aim[c])
    <3>1. Unused(Aim[c])
      BY <2>1, <2>2 DEF Unused, Busy
    <3> QED BY <2>1, <3>1 DEF Inv, Own, Settled
  <2>4. Same(Aim[c])
    BY <2>1, ClientFrame
  <2>5. Quiet(Aim[c])'
    BY <2>3, <2>4, <2>1, QuietFrame
  <2>6. InRound(Aim[c]) => Waits(c)'
    <3>1. InRound(Aim[c]) => pc = "reopen" /\ ~Readable(Aim[c])
      BY <2>1, <2>3 DEF Quiet, AtHand, Readable
    <3> QED BY <2>1, <3>1 DEF Waits
  <2>7. Placed(c)'
    BY <2>1, <2>4, <2>5, <2>6 DEF Placed, Before, Under, Same
  <2> QED BY <2>1, <2>2, <2>5, <2>7, OthersKeep
<1>20. CASE UNCHANGED vars
  <2>1. sins = {} /\ UNCHANGED <<serverVars, clientVars, input, output>>
    BY <1>20 DEF vars
  <2>2. \A f \in Fifos : Same(f)
    BY <2>1, ClientFrame
  <2> QED BY <2>1, <2>2, PlacedFrame, QuietFrame, Constants DEF Inv, Own, Settled, Idle, Unused,
       Busy
<1>21. ASSUME CloseInput PROVE Settled'
  <2>1. /\ sins = {} /\ UNCHANGED <<at, request, got, output, round, ifds, answer>>
        /\ pc = "close" /\ pc' = "reopen"
    BY <1>21 DEF CloseInput
  <2>2. Handled \in Fifos /\ InRound(Handled) /\ AtHand(Handled)
    BY <2>1, Hand DEF InRound, AtHand
  <2>3. \A f \in Fifos : input'[f] = IF f = Handled /\ writers[f] = {} THEN <<>> ELSE input[f]
    BY <1>21, <2>2 DEF CloseInput, Inv, Shapes
  <2>4. \A f \in Fifos : f # Handled => Same(f)
    BY <2>1, <2>3, ServerFrame DEF AtHand
  <2>5. \A f : (InRound(f) <=> InRound(f)') /\ (AtHand(f) <=> AtHand(f)')
    BY <2>1 DEF InRound, AtHand, Handled
  <2>6. ASSUME NEW c \in Clients PROVE Placed(c)'
    <3>1. CASE Aim[c] # Handled
      BY <2>1, <2>4, <3>1, Constants, PlacedFrame DEF Inv, Own, Settled, Idle
    <3>2. CASE Aim[c] = Handled
      <4>1. Placed(c)
        BY <2>1 DEF Inv, Own, Settled
      <4>2. ~Before(c) /\ ~Under(c)
        BY <2>1, <2>2, <3>2, <4>1 DEF Placed, Waits, Sent
      <4>3. at[c] = "read" => Answered(c)'
        BY <2>1, <2>2, <2>3, <2>5, <3>2, <4>1 DEF Placed, Answered
      <4> QED BY <2>1, <4>1, <4>2, <4>3 DEF Placed, Before, Under
    <3> QED BY <3>1, <3>2
  <2>7. ASSUME NEW f \in Fifos, Quiet(f) PROVE Quiet(f)'
    <3>1. CASE f # Handled
      BY <2>4, <2>7, <3>1, QuietFrame
    <3>2. CASE f = Handled
      BY <2>1, <2>3, <2>5, <2>7, <3>2 DEF Quiet
    <3> QED BY <3>1, <3>2
  <2> QED BY <2>1, <2>6, <2>7 DEF Inv, Own, Settled, Unused, Busy
<1> QED BY <1>1, <1>2, <1>3, <1>4, <1>5, <1>6, <1>7, <1>8, <1>9, <1>10, <1>11, <1>12, <1>13,
     <1>14,
           <1>15, <1>16, <1>17, <1>18, <1>19, <1>20, <1>21 DEF Next, Serve, Proceed

\* The invariant is inductive.
LEMMA NextInv == ASSUME Inv, [Next]_vars PROVE Inv'
BY ShapesStep, EndsStep, RoundsStep, FilesStep, AloneStep, HeardStep, LastStep, OwnStep DEF Inv,
     Own

LEMMA Always == Spec => []Inv
<1>1. Init => Inv
  BY InitInv
<1>2. Inv /\ [Next]_vars => Inv'
  BY NextInv
<1> QED BY <1>1, <1>2, PTL DEF Spec

-----------------------------------------------------------------------------
(***************************************************************************)
(* The results.                                                            *)
(***************************************************************************)
\* The kernel's account of who has which end of a FIFO open is what the clients are
\* doing, and when the server has handled a request and opens the output FIFO, the
\* client that asked is still on its way there, as long as no two clients use one
\* FIFO and none is killed (handle_battery, handle_admin).
THEOREM ReadersCome == Spec => []EndsMeet
<1>1. Inv => EndsMeet
  BY DEF Inv, Shapes, Ends, Rounds, Heard, EndsMeet, TypeOK, SomeoneListens
<1> QED BY <1>1, Always, PTL

\* Every call that is over has brought the answer to its own request, whatever the
\* order in which batteries, the admin and any number of clients go on, as long as
\* no two of them use one FIFO at a time, nobody is killed, nobody calls a server
\* that is shutting down, and nobody calls while the server is about to close the
\* FIFO for a moment.
THEOREM AnswersAreOwn == Spec => []AnswerIsOwn
<1>1. Inv => AnswerIsOwn
  BY DEF Inv, Own, Settled, Placed, AnswerIsOwn
<1> QED BY <1>1, Always, PTL

\* Whatever happens, crashes included, shutdown_fifo leaves only files that were
\* there before the server came.  A battery without FIFOs has the name of such a
\* file, or is a splitter that a message has made, and such a splitter never has
\* any (battery_post_creation, kMakeSplitter).
THEOREM FilesAreKept == Spec => []FilesInOrder
<1>1. Inv => FilesInOrder
  BY DEF Inv, Files, Shapes, FilesInOrder, ShutdownCleans, Reachable
<1> QED BY <1>1, Always, PTL

\* Without files, every battery gets its pair, in whatever order they come.
LEMMA AllOpened ==
    ASSUME files = {}, NEW order \in BootOrders
    PROVE  BatteriesOpened(order) = Range(order)
<1>1. PICK boot \in Programs : order \in SetToSeqs(boot)
  BY DEF BootOrders
<1>2. PICK n : n = Cardinality(boot)
  OBVIOUS
<1>3. n \in Nat
  BY <1>2, FifoAssumption, FS_Subset, FS_CardinalityType DEF BootNames
<1>4. order \in [1 .. n -> boot]
  BY <1>1, <1>2 DEF SetToSeqs
<1>5. Len(order) = n /\ DOMAIN order = 1 .. n /\ {i \in DOMAIN order : order[i] \in files} = {}
  BY <1>3, <1>4
<1>6. BatteriesOpened(order) = {order[i] : i \in 1 .. n}
  BY <1>5 DEF BatteriesOpened
<1> QED BY <1>5, <1>6 DEF Range

\* A start fails only where a server has died before, and it takes the admin's
\* files away, so that they are not in the way of the next (bootup_fifo).
THEOREM StartsFailOnce == Spec => StartsAgain
<1>1. ASSUME Inv, NEW order \in BootOrders, StartFails(order)
      PROVE  leftover # {} /\ Admin \notin files' /\ files' \subseteq leftover
  <2>1. files \subseteq leftover /\ files' = files \ {Admin}
    BY <1>1 DEF Inv, Files, StartFails
  <2>2. files # {}
    BY <1>1, AllOpened DEF StartFails
  <2> QED BY <2>1, <2>2
<1>2. Inv => [(\E order \in BootOrders : StartFails(order)) =>
                 leftover # {} /\ Admin \notin files' /\ files' \subseteq leftover]_vars
  BY <1>1
<1> QED BY <1>2, Always, PTL DEF StartsAgain
=============================================================================
