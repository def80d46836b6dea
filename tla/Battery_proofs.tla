--------------------------- MODULE Battery_proofs ---------------------------
(***************************************************************************)
(* Proofs about Battery, for every set of requests, names and limits, every *)
(* bound on time and calls, every kind of battery and every refresh mode.  *)
(***************************************************************************)
EXTENDS Battery, Sums, TLAPS

USE DEF REFRESH, SET_CURRENT_END, SET_CURRENT_BEGIN, CANCEL_SET_CURRENT_EVENT

-----------------------------------------------------------------------------
\* The next refresh of runEventThread's chain is at some time of the clock.
LEMMA NextRefreshType ==
    ASSUME NEW t \in Nat, NEW h \in Int, NEW m \in Nat \ {0}, t <= h
    PROVE  t + m * ((h - t) \div m + 1) \in Nat
<1> DEFINE q == (h - t) \div m
<1>1. q \in Int /\ q >= 0
  BY SMT
<1>2. m * (q + 1) \in Nat
  BY <1>1, SMT
<1> QED BY <1>2, SMT

\* An event made by event_t has the fields it is given.
LEMMA EventType ==
    ASSUME NEW n \in Names, NEW id \in EventIDs, NEW cur, NEW t \in Nat, NEW s \in Seqs
    PROVE  /\ IsEvent(event_t(n, id, cur, t, s))
           /\ event_t(n, id, cur, t, s).name = n
           /\ event_t(n, id, cur, t, s).id = id
           /\ event_t(n, id, cur, t, s).time = t
           /\ event_t(n, id, cur, t, s).seq = s
BY DEF IsEvent, event_t

\* Moving an event changes its time only.
LEMMA MovedType ==
    ASSUME NEW e, IsEvent(e), NEW t \in Nat
    PROVE  /\ IsEvent(Moved(e, t))
           /\ Moved(e, t).name = e.name
           /\ Moved(e, t).id = e.id
           /\ Moved(e, t).time = t
           /\ Moved(e, t).seq = e.seq
BY DEF IsEvent, event_t, Moved

\* What the pass of runEventThread puts back are refreshes.
LEMMA RequeuedType ==
    ASSUME TypeOK, BatteryAssumption, NEW batch, batch \subseteq Due,
           NEW h \in Int, \A e \in Of(batch, REFRESH) : e.time <= h,
           NEW f \in Requeued(batch, h)
    PROVE  IsEvent(f) /\ f.id = REFRESH
<1>1. PICK e \in Of(batch, REFRESH) : f = Moved(e, NextRefresh(e.time, h))
  BY DEF Requeued
<1>2. IsEvent(e) /\ e.id = REFRESH /\ e.time \in Nat /\ e.time <= h
  BY <1>1 DEF TypeOK, Due, Of, IsEvent
<1>3. maxStaleness \in Nat \ {0}
  BY DEF TypeOK, BatteryAssumption
<1>4. NextRefresh(e.time, h) \in Nat
  BY <1>2, <1>3, NextRefreshType DEF NextRefresh
<1> QED BY <1>1, <1>2, <1>4, MovedType

-----------------------------------------------------------------------------
\* The constructor's state is well formed.
LEMMA InitStructure == ASSUME BatteryAssumption PROVE Init => TypeOK /\ Structure
<1> SUFFICES ASSUME Init PROVE TypeOK /\ Structure
  OBVIOUS
<1>1. 1 \in Seqs /\ maxStaleness \in Nat /\ REFRESH \in EventIDs /\ Own \in Names
  BY DEF Init, BatteryAssumption, Seqs, EventIDs
<1>2. \A e \in eventSet : IsEvent(e) /\ e.id = REFRESH
  BY <1>1, EventType DEF Init
<1>3. DOMAIN eventMap = {}
  BY DEF Init
<1>4. status \in [limit : Limits \cup {NoLimit}, time : Times]
  BY DEF Init, BatteryAssumption, Times
<1>7. quitThread \in BOOLEAN /\ built \in BOOLEAN
  BY Zenon DEF Init
<1>5. TypeOK
  <2>1. now \in Times /\ deadline \in Nat
    BY DEF Init, Times, Never, BatteryAssumption
  <2>2. pc \in {"none", "woken", "scan", "wait", "timed", "done", "dead"}
    BY Zenon DEF Init
  <2>3. refreshMode \in {"LAZY", "ACTIVE"} /\ maxStaleness \in Stalenesses
    BY DEF Init, BatteryAssumption
  <2>4. nextSeq \in Nat /\ calls \in 0 .. MaxCalls /\ call = NoCall /\ last = NoCall
    BY DEF Init, BatteryAssumption
  <2>5. applied \in [Seqs -> Int] /\ want \in [Names -> [Times -> Int]]
    BY DEF Init
  <2> QED BY <1>2, <1>3, <1>4, <1>7, <2>1, <2>2, <2>3, <2>4, <2>5 DEF TypeOK
<1>6. Structure
  BY <1>2, <1>3 DEF Init, Structure, Drawn
<1> QED BY <1>5, <1>6

-----------------------------------------------------------------------------
\* A call is counted and may draw a sequence number.
Counters ==
    \/ UNCHANGED <<calls, nextSeq>>
    \/ calls < MaxCalls /\ calls' = calls + 1 /\ nextSeq' = nextSeq
    \/ calls < MaxCalls /\ calls' = calls + 1 /\ nextSeq' = nextSeq + 1

\* The sequence numbers drawn so far stay below the next one.
LEMMA CountersStep ==
    ASSUME BatteryAssumption, TypeOK, Structure, Counters
    PROVE  /\ calls' \in 0 .. MaxCalls /\ nextSeq' \in Nat
           /\ 2 <= nextSeq' /\ nextSeq' <= calls' + 2
           /\ \A k \in Nat : k < nextSeq => k < nextSeq'
<1> calls \in 0 .. MaxCalls /\ MaxCalls \in Nat /\ nextSeq \in Nat
    /\ 2 <= nextSeq /\ nextSeq <= calls + 2
  BY DEF TypeOK, Structure, BatteryAssumption
<1>1. CASE UNCHANGED <<calls, nextSeq>>
  BY <1>1
<1>2. CASE calls < MaxCalls /\ calls' = calls + 1 /\ nextSeq' = nextSeq
  BY <1>2
<1>3. CASE calls < MaxCalls /\ calls' = calls + 1 /\ nextSeq' = nextSeq + 1
  BY <1>3
<1> QED BY <1>1, <1>2, <1>3 DEF Counters

\* The parts of TypeOK that say nothing of the schedule.
ControlOK ==
    /\ now \in Times /\ deadline \in Nat
    /\ pc \in {"none", "woken", "scan", "wait", "timed", "done", "dead"}
    /\ quitThread \in BOOLEAN /\ built \in BOOLEAN
    /\ refreshMode \in {"LAZY", "ACTIVE"} /\ maxStaleness \in Stalenesses
    /\ status \in [limit : Limits \cup {NoLimit}, time : Times]

CallsOK ==
    /\ call \in Calls \cup {NoCall} /\ last \in Calls \cup {NoCall}
    /\ Drawn(call) /\ Drawn(last)

\* A step that adds at most refreshes to the schedule keeps it well formed.
LEMMA QuietStructure ==
    ASSUME BatteryAssumption, TypeOK, Structure, Counters, ControlOK', CallsOK',
           eventSet \subseteq eventSet',
           \A f \in eventSet' : f \in eventSet \/ (IsEvent(f) /\ f.id = REFRESH),
           UNCHANGED <<eventMap, applied, want>>
    PROVE  TypeOK' /\ Structure'
<1>1. /\ calls' \in 0 .. MaxCalls /\ nextSeq' \in Nat
      /\ 2 <= nextSeq' /\ nextSeq' <= calls' + 2
      /\ \A k \in Nat : k < nextSeq => k < nextSeq'
  BY CountersStep
<1>2. TypeOK'
  BY <1>1, Zenon DEF TypeOK, ControlOK, CallsOK, IsEvent
<1>3. \A k \in DOMAIN eventMap : k < nextSeq'
  <2>1. \A k \in DOMAIN eventMap : k \in Nat /\ k < nextSeq
    BY DEF TypeOK, Structure, Seqs
  <2> QED BY <1>1, <2>1, Zenon
<1>4. \A k \in DOMAIN eventMap : eventMap[k].second \in eventSet'
  BY DEF Structure
<1>5. \A e \in eventSet' :
         /\ e.id = SET_CURRENT_BEGIN =>
              e.seq \in DOMAIN eventMap /\ e = eventMap[e.seq].first
         /\ e.id = SET_CURRENT_END =>
              e.seq \in DOMAIN eventMap /\ e = eventMap[e.seq].second
  BY SMT DEF Structure
<1>6. Structure'
  BY <1>1, <1>3, <1>4, <1>5, Zenon DEF Structure, CallsOK
<1> QED BY <1>2, <1>6

\* What TypeOK and Structure say of the control state.
LEMMA ControlFacts == ASSUME TypeOK, Structure PROVE ControlOK /\ CallsOK
BY DEF TypeOK, Structure, ControlOK, CallsOK

\* refresh() stamps the status with the clock.
LEMMA RefreshType == ASSUME ControlOK
                     PROVE  refresh \in [limit : Limits \cup {NoLimit}, time : Times]
BY DEF ControlOK, refresh

\* notify_one leaves the thread where it was or wakes it.
LEMMA NotifiedType ==
    ASSUME ControlOK
    PROVE  Notified \in {"none", "woken", "scan", "wait", "timed", "done", "dead"}
BY DEF ControlOK, Notified

\* setSourceBattery and the aggregate's constructor queue a refresh at most.
LEMMA BuildStep ==
    ASSUME BatteryAssumption, TypeOK, Structure, Build
    PROVE  TypeOK' /\ Structure'
<1>1. ControlOK /\ CallsOK
  BY ControlFacts
<1>2. Counters /\ CallsOK'
  BY <1>1, Zenon DEF Build, setSourceBattery, AggregateBattery, Counters, callVars, CallsOK,
       Drawn
<1>3. ControlOK'
  <2>1. status' \in [limit : Limits \cup {NoLimit}, time : Times]
    BY <1>1 DEF Build, setSourceBattery, AggregateBattery, ControlOK
  <2> QED BY <1>1, <2>1, Zenon DEF Build, setSourceBattery, AggregateBattery, ControlOK,
       threadVars
<1>4. /\ eventSet \subseteq eventSet'
      /\ \A f \in eventSet' : f \in eventSet \/ (IsEvent(f) /\ f.id = REFRESH)
  <2>1. now \in Nat /\ now + maxStaleness \in Nat /\ 1 \in Seqs
    BY <1>1 DEF ControlOK, Times, BatteryAssumption, Seqs
  <2>2. Own \in Names /\ REFRESH \in EventIDs
    BY DEF BatteryAssumption, EventIDs
  <2> DEFINE a == event_t(Own, REFRESH, 0, now + maxStaleness, 1)
             b == event_t(Own, REFRESH, 0, now, 1)
  <2>3. IsEvent(a) /\ a.id = REFRESH /\ IsEvent(b) /\ b.id = REFRESH
    BY <2>1, <2>2, EventType
  <2>4. eventSet' = eventSet \cup {a} \/ eventSet' = eventSet \cup {b} \/ eventSet' = eventSet
    BY DEF Build, setSourceBattery, AggregateBattery
  <2> QED BY <2>3, <2>4
<1>5. UNCHANGED <<eventMap, applied, want>>
  BY DEF Build, setSourceBattery, AggregateBattery, threadVars, callVars
<1> QED BY <1>2, <1>3, <1>4, <1>5, QuietStructure

\* A step that leaves the schedule and its refreshes alone.
LEMMA IdleStructure ==
    ASSUME BatteryAssumption, TypeOK, Structure, Counters, ControlOK', CallsOK',
           UNCHANGED <<eventSet, eventMap, applied, want>>
    PROVE  TypeOK' /\ Structure'
<1>1. eventSet' = eventSet /\ UNCHANGED <<eventMap, applied, want>>
  OBVIOUS
<1> QED BY <1>1, QuietStructure

\* A request checked by schedule_set_current has a fresh number.
LEMMA ScheduleStep ==
    ASSUME BatteryAssumption, TypeOK, Structure, NEW r \in Requests, schedule_set_current(r)
    PROVE  TypeOK' /\ Structure'
<1>1. ControlOK /\ CallsOK
  BY ControlFacts
<1>2. Counters
  BY Zenon DEF schedule_set_current, Counters
<1>3. ControlOK'
  BY <1>1, Zenon DEF schedule_set_current, ControlOK, threadVars, configVars
<1>4. CallsOK'
  <2>1. last' = NoCall /\ (call' = NoCall \/ call' = Pending(r, nextSeq)) /\ nextSeq' = nextSeq + 1
    BY DEF schedule_set_current
  <2>2. nextSeq \in Seqs
    BY DEF schedule_set_current, TypeOK, Structure, Seqs, BatteryAssumption
  <2>3. Pending(r, nextSeq) \in Calls /\ Pending(r, nextSeq).seq = nextSeq
        /\ Pending(r, nextSeq).start <= Pending(r, nextSeq).end
    BY <2>2 DEF Pending, Calls, BatteryAssumption
  <2>4. nextSeq < nextSeq + 1
    BY DEF TypeOK
  <2> QED BY <2>1, <2>3, <2>4 DEF CallsOK, Drawn
<1>5. UNCHANGED <<eventSet, eventMap, applied, want>>
  BY DEF schedule_set_current, threadVars
<1> QED BY <1>2, <1>3, <1>4, <1>5, IdleStructure

\* A further share has the number of the first.
LEMMA ShareStep ==
    ASSUME BatteryAssumption, TypeOK, Structure, NEW r \in Requests, SecondShare(r.cur)
    PROVE  TypeOK' /\ Structure'
<1>1. ControlOK /\ CallsOK
  BY ControlFacts
<1>2. Counters
  BY Zenon DEF SecondShare, Counters
<1>3. ControlOK'
  BY <1>1, Zenon DEF SecondShare, ControlOK, threadVars, configVars
<1>4. CallsOK'
  <2>1. last \in Calls /\ last # NoCall /\ last.seq < nextSeq /\ last.start <= last.end
    BY <1>1 DEF SecondShare, CallsOK, Drawn
  <2>2. r.cur \in Int
    BY DEF BatteryAssumption
  <2>3. call' = [last EXCEPT !.cur = r.cur] /\ last' = NoCall /\ nextSeq' = nextSeq
    BY DEF SecondShare
  <2>4. call' \in Calls /\ call'.seq = last.seq /\ call'.start = last.start /\ call'.end = last.end
    BY <2>1, <2>2, <2>3 DEF Calls
  <2> QED BY <2>1, <2>3, <2>4 DEF CallsOK, Drawn
<1>5. UNCHANGED <<eventSet, eventMap, applied, want>>
  BY DEF SecondShare, threadVars
<1> QED BY <1>2, <1>3, <1>4, <1>5, IdleStructure

\* getStatus, setBatteryStatus, setMaxStaleness and quit.
LEMMA SettingStep ==
    ASSUME BatteryAssumption, TypeOK, Structure,
           getStatus \/ setBatteryStatus \/ quit \/ \E ms \in Stalenesses : setMaxStaleness(ms)
    PROVE  TypeOK' /\ Structure'
<1>1. ControlOK /\ CallsOK
  BY ControlFacts
<1>2. Counters
  BY Zenon DEF getStatus, setBatteryStatus, quit, setMaxStaleness, callVars, Counters
<1>3. CallsOK'
  BY <1>1, Zenon DEF getStatus, setBatteryStatus, quit, setMaxStaleness, callVars, CallsOK,
       Drawn
<1>4. UNCHANGED <<eventSet, eventMap, applied, want>>
  BY Zenon DEF getStatus, setBatteryStatus, quit, setMaxStaleness, callVars, threadVars
<1>5. ControlOK'
  <2>1. CASE getStatus
    <3>1. status' \in [limit : Limits \cup {NoLimit}, time : Times]
      BY <1>1, <2>1, RefreshType DEF getStatus, ControlOK
    <3> QED BY <1>1, <2>1, <3>1, Zenon DEF getStatus, ControlOK, threadVars, configVars
  <2>2. CASE setBatteryStatus
    <3>1. status' \in [limit : Limits \cup {NoLimit}, time : Times]
      BY <1>1, <2>2 DEF setBatteryStatus, ControlOK, Times, BatteryAssumption
    <3> QED BY <1>1, <2>2, <3>1, Zenon DEF setBatteryStatus, ControlOK, threadVars, configVars
  <2>3. CASE quit
    <3>1. quitThread' \in BOOLEAN
      BY <2>3, Zenon DEF quit
    <3> QED BY <1>1, <2>3, <3>1, NotifiedType, Zenon DEF quit, ControlOK
  <2>4. CASE \E ms \in Stalenesses : setMaxStaleness(ms)
    BY <1>1, <2>4, Zenon DEF setMaxStaleness, ControlOK, threadVars
  <2> QED BY <2>1, <2>2, <2>3, <2>4
<1> QED BY <1>2, <1>3, <1>4, <1>5, IdleStructure

\* setRefreshMode queues a refresh when it switches to ACTIVE.
LEMMA RefreshModeStep ==
    ASSUME BatteryAssumption, TypeOK, Structure, NEW mode \in Modes, setRefreshMode(mode)
    PROVE  TypeOK' /\ Structure'
<1>1. ControlOK /\ CallsOK
  BY ControlFacts
<1>2. Counters
  BY Zenon DEF setRefreshMode, Counters
<1>3. CallsOK'
  <2>1. call' = call /\ last' = last /\ (nextSeq' = nextSeq \/ nextSeq' = nextSeq + 1)
    BY DEF setRefreshMode
  <2>2. \A x \in Calls : x.seq < nextSeq => x.seq < nextSeq'
    BY <2>1 DEF Calls, Seqs, TypeOK
  <2> QED BY <1>1, <2>1, <2>2 DEF CallsOK, Drawn
<1>4. ControlOK'
  <2>1. mode \in {"LAZY", "ACTIVE"}
    BY DEF BatteryAssumption
  <2> QED BY <1>1, <2>1, NotifiedType, RefreshType, Zenon DEF setRefreshMode, ControlOK
<1>5. /\ eventSet \subseteq eventSet'
      /\ \A f \in eventSet' : f \in eventSet \/ (IsEvent(f) /\ f.id = REFRESH)
  <2> DEFINE a == event_t(Own, REFRESH, 0, now + maxStaleness, nextSeq)
  <2>1. now + maxStaleness \in Nat
    BY <1>1 DEF ControlOK, Times, BatteryAssumption
  <2>2. nextSeq \in Seqs
    BY DEF setRefreshMode, TypeOK, Structure, Seqs, BatteryAssumption
  <2>3. Own \in Names /\ REFRESH \in EventIDs
    BY DEF BatteryAssumption, EventIDs
  <2>4. IsEvent(a) /\ a.id = REFRESH
    BY <2>1, <2>2, <2>3, EventType
  <2>5. eventSet' = eventSet \cup {a} \/ eventSet' = eventSet
    BY DEF setRefreshMode
  <2> QED BY <2>4, <2>5
<1>6. UNCHANGED <<eventMap, applied, want>>
  BY DEF setRefreshMode
<1> QED BY <1>2, <1>3, <1>4, <1>5, <1>6, QuietStructure

\* The clock, and the event thread going to sleep, waking up and ending.
LEMMA IdleStep ==
    ASSUME BatteryAssumption, TypeOK, Structure,
           \/ ThreadWaits \/ ThreadWakes \/ ThreadQuits
           \/ DiesOfStaleCancel \/ DiesAtEnd \/ Tick
    PROVE  TypeOK' /\ Structure'
<1> USE DEF ThreadWaits, ThreadWakes, ThreadQuits, DiesOfStaleCancel, DiesAtEnd, Dies, Tick
<1>1. ControlOK /\ CallsOK
  BY ControlFacts
<1>2. Counters /\ CallsOK'
  BY <1>1, Zenon DEF callVars, CallsOK, Drawn, Counters
<1>3. UNCHANGED <<eventSet, eventMap, applied, want>>
  BY Zenon DEF callVars, threadVars
<1>4. now' \in Times
  BY <1>1 DEF ControlOK, Times, BatteryAssumption
<1>5. deadline' \in Nat
  BY <1>1 DEF ControlOK, TypeOK, IsEvent, Never, BatteryAssumption, threadVars
<1>6. pc' \in {"none", "woken", "scan", "wait", "timed", "done", "dead"}
  BY <1>1, Zenon DEF ControlOK, threadVars
<1>7. UNCHANGED <<quitThread, refreshMode, maxStaleness, built, status>>
  BY Zenon DEF configVars
<1>8. ControlOK'
  BY <1>1, <1>4, <1>5, <1>6, <1>7, Zenon DEF ControlOK
<1> QED BY <1>2, <1>3, <1>8, IdleStructure

-----------------------------------------------------------------------------
\* The schedule part of TypeOK and Structure, and what the rest of them needs.
ScheduleOK(set, map, next) ==
    /\ \A e \in set : IsEvent(e)
    /\ DOMAIN map \subseteq Seqs
    /\ \A k \in DOMAIN map :
         /\ map[k] = [first |-> map[k].first, second |-> map[k].second]
         /\ IsEvent(map[k].first) /\ IsEvent(map[k].second)
         /\ k < next
         /\ map[k].first.id = SET_CURRENT_BEGIN /\ map[k].first.seq = k
         /\ map[k].second.id = SET_CURRENT_END /\ map[k].second.seq = k
         /\ map[k].first.time <= map[k].second.time
         /\ map[k].second \in set
    /\ \A e \in set :
         /\ e.id = SET_CURRENT_BEGIN => e.seq \in DOMAIN map /\ e = map[e.seq].first
         /\ e.id = SET_CURRENT_END => e.seq \in DOMAIN map /\ e = map[e.seq].second

\* TypeOK and Structure are the schedule part and the rest.
LEMMA Reassemble ==
    ASSUME BatteryAssumption, TypeOK, Structure, ControlOK', CallsOK', UNCHANGED <<calls, nextSeq>>,
           ScheduleOK(eventSet', eventMap', nextSeq),
           applied' \in [Seqs -> Int], want' \in [Names -> [Times -> Int]]
    PROVE  TypeOK' /\ Structure'
<1>1. TypeOK'
  BY Zenon DEF TypeOK, ControlOK, CallsOK, ScheduleOK
<1>2. Structure'
  BY Zenon DEF Structure, CallsOK, ScheduleOK
<1> QED BY <1>1, <1>2

LEMMA Disassemble ==
    ASSUME TypeOK, Structure
    PROVE  ScheduleOK(eventSet, eventMap, nextSeq)
BY Zenon DEF TypeOK, Structure, ScheduleOK

\* A further share replaces the pair of its number.
LEMMA AddShareOK ==
    ASSUME BatteryAssumption, ScheduleOK(eventSet, eventMap, nextSeq),
           NEW r \in Calls, r.seq < nextSeq, r.start <= r.end,
           r.seq \in DOMAIN eventMap, AddShare(r)
    PROVE  ScheduleOK(eventSet', eventMap', nextSeq)
<1> DEFINE old   == eventMap[r.seq]
           total == r.cur + old.first.cur
           begin == event_t(r.name, SET_CURRENT_BEGIN, total, r.start, r.seq)
           end   == event_t(r.name, SET_CURRENT_END, total, r.end, r.seq)
<1>1. /\ eventSet' = (eventSet \ {old.first, old.second}) \cup {begin, end}
      /\ eventMap' = [eventMap EXCEPT ![r.seq] = [first |-> begin, second |-> end]]
  BY DEF AddShare
<1>2. r.name \in Names /\ r.start \in Nat /\ r.end \in Nat /\ r.seq \in Seqs
  BY DEF Calls
<1>3. SET_CURRENT_BEGIN \in EventIDs /\ SET_CURRENT_END \in EventIDs
  BY DEF EventIDs
<1>4. IsEvent(begin) /\ begin.id = SET_CURRENT_BEGIN /\ begin.time = r.start /\ begin.seq = r.seq
  BY <1>2, <1>3, EventType
<1>5. IsEvent(end) /\ end.id = SET_CURRENT_END /\ end.time = r.end /\ end.seq = r.seq
  BY <1>2, <1>3, EventType
<1> HIDE DEF total, begin, end
<1>6. DOMAIN eventMap' = DOMAIN eventMap
      /\ eventMap'[r.seq] = [first |-> begin, second |-> end]
      /\ \A k \in DOMAIN eventMap \ {r.seq} : eventMap'[k] = eventMap[k]
  BY <1>1
<1>7. \A k \in DOMAIN eventMap \ {r.seq} : eventMap[k].second \in eventSet'
  BY <1>1 DEF ScheduleOK
<1>8. \A e \in eventSet' :
         /\ IsEvent(e)
         /\ e.id = SET_CURRENT_BEGIN => e.seq \in DOMAIN eventMap' /\ e = eventMap'[e.seq].first
         /\ e.id = SET_CURRENT_END => e.seq \in DOMAIN eventMap' /\ e = eventMap'[e.seq].second
  BY <1>1, <1>4, <1>5, <1>6 DEF ScheduleOK
<1>9. ASSUME NEW k \in DOMAIN eventMap'
      PROVE  /\ eventMap'[k] = [first |-> eventMap'[k].first, second |-> eventMap'[k].second]
             /\ IsEvent(eventMap'[k].first) /\ IsEvent(eventMap'[k].second)
             /\ k < nextSeq
             /\ eventMap'[k].first.id = SET_CURRENT_BEGIN /\ eventMap'[k].first.seq = k
             /\ eventMap'[k].second.id = SET_CURRENT_END /\ eventMap'[k].second.seq = k
             /\ eventMap'[k].first.time <= eventMap'[k].second.time
             /\ eventMap'[k].second \in eventSet'
  <2>1. CASE k = r.seq
    BY <1>1, <1>4, <1>5, <1>6, <2>1
  <2>2. CASE k # r.seq
    BY <1>6, <1>7, <2>2 DEF ScheduleOK
  <2> QED BY <2>1, <2>2
<1> QED BY <1>6, <1>8, <1>9, Zenon DEF ScheduleOK

\* The cases of checkMergeAndInsertEvents, as needed for the pairs it moves.
LEMMA MergeCases ==
    ASSUME NEW r, NEW k \in DOMAIN eventMap
    PROVE  /\ k \in CutTail(r) => eventMap[k].first.time <= r.start
           /\ k \in CutHead(r) => r.end <= eventMap[k].second.time /\ k \notin CutTail(r)
BY DEF CutTail, CutHead, Begins, Ends

\* Merging moves ends and beginnings and adds the new pair, consistently in the
\* set and in the map.
LEMMA MergeOK ==
    ASSUME BatteryAssumption, ScheduleOK(eventSet, eventMap, nextSeq),
           NEW r \in Calls, r.seq < nextSeq, r.start <= r.end,
           r.seq \notin DOMAIN eventMap, Merge(r)
    PROVE  ScheduleOK(eventSet', eventMap', nextSeq)
<1> DEFINE target == r.cur - Offset(r)
           begin  == event_t(r.name, SET_CURRENT_BEGIN, target, r.start, r.seq)
           end    == event_t(r.name, SET_CURRENT_END, target, r.end, r.seq)
           cancels == {event_t(r.name, CANCEL_SET_CURRENT_EVENT, 0, r.start, k) : k \in Covered(r)}
           cut    == [k \in DOMAIN eventMap |->
                        CASE k \in CutTail(r) ->
                               [eventMap[k] EXCEPT !.second = Moved(@, r.start)]
                          [] k \in CutHead(r) ->
                               [eventMap[k] EXCEPT !.first = Moved(@, r.end)]
                          [] OTHER -> eventMap[k]]
<1>1. /\ eventSet' =
            (eventSet \ ({eventMap[k].second : k \in CutTail(r)}
                         \cup {eventMap[k].first : k \in CutHead(r)}))
            \cup {cut[k].second : k \in CutTail(r)}
            \cup {cut[k].first : k \in CutHead(r)}
            \cup cancels
            \cup {begin, end}
      /\ eventMap' = [k \in DOMAIN eventMap \cup {r.seq} |->
                         IF k = r.seq THEN [first |-> begin, second |-> end] ELSE cut[k]]
  BY DEF Merge
<1>2. r.name \in Names /\ r.start \in Nat /\ r.end \in Nat /\ r.seq \in Seqs
  BY DEF Calls
<1>3. /\ SET_CURRENT_BEGIN \in EventIDs /\ SET_CURRENT_END \in EventIDs
      /\ CANCEL_SET_CURRENT_EVENT \in EventIDs
  BY DEF EventIDs
<1>4. IsEvent(begin) /\ begin.id = SET_CURRENT_BEGIN /\ begin.time = r.start /\ begin.seq = r.seq
  BY <1>2, <1>3, EventType
<1>5. IsEvent(end) /\ end.id = SET_CURRENT_END /\ end.time = r.end /\ end.seq = r.seq
  BY <1>2, <1>3, EventType
<1>6. \A e \in cancels : IsEvent(e) /\ e.id = CANCEL_SET_CURRENT_EVENT
  <2>1. Covered(r) \subseteq Seqs
    BY DEF Covered, Outstanding, ScheduleOK
  <2> QED BY <1>2, <1>3, <2>1, EventType
<1> HIDE DEF target, begin, end, cancels
<1>7. CutTail(r) \subseteq DOMAIN eventMap /\ CutHead(r) \subseteq DOMAIN eventMap
  BY DEF CutTail, CutHead, Outstanding
<1>8. ASSUME NEW k \in DOMAIN eventMap
      PROVE  /\ IsEvent(eventMap[k].first) /\ IsEvent(eventMap[k].second)
             /\ eventMap[k].first.id = SET_CURRENT_BEGIN /\ eventMap[k].first.seq = k
             /\ eventMap[k].second.id = SET_CURRENT_END /\ eventMap[k].second.seq = k
             /\ eventMap[k].first.time <= eventMap[k].second.time
             /\ eventMap[k].second \in eventSet
             /\ eventMap[k] = [first |-> eventMap[k].first, second |-> eventMap[k].second]
             /\ k < nextSeq
             /\ eventMap[k].first.time \in Nat /\ eventMap[k].second.time \in Nat
  BY DEF ScheduleOK, IsEvent
<1>9. ASSUME NEW k \in DOMAIN eventMap
      PROVE  /\ cut[k] = [first |-> cut[k].first, second |-> cut[k].second]
             /\ cut[k].first = IF k \in CutHead(r) THEN Moved(eventMap[k].first, r.end)
                               ELSE eventMap[k].first
             /\ cut[k].second = IF k \in CutTail(r) THEN Moved(eventMap[k].second, r.start)
                                ELSE eventMap[k].second
  <2>1. k \in CutHead(r) => k \notin CutTail(r)
    BY MergeCases
  <2> QED BY <1>8, <2>1
<1> HIDE DEF cut
<1>10. ASSUME NEW k \in DOMAIN eventMap
       PROVE  /\ IsEvent(cut[k].first) /\ IsEvent(cut[k].second)
              /\ cut[k].first.id = SET_CURRENT_BEGIN /\ cut[k].first.seq = k
              /\ cut[k].second.id = SET_CURRENT_END /\ cut[k].second.seq = k
              /\ cut[k].first.time <= cut[k].second.time
  <2>1. /\ k \in CutTail(r) => eventMap[k].first.time <= r.start
        /\ k \in CutHead(r) => r.end <= eventMap[k].second.time /\ k \notin CutTail(r)
    BY MergeCases
  <2>2. CASE k \in CutTail(r)
    <3>1. cut[k].first = eventMap[k].first /\ cut[k].second = Moved(eventMap[k].second, r.start)
      BY <1>9, <2>1, <2>2
    <3>2. IsEvent(eventMap[k].second)
      BY <1>8
    <3>3. /\ IsEvent(cut[k].second) /\ cut[k].second.id = eventMap[k].second.id
          /\ cut[k].second.seq = eventMap[k].second.seq /\ cut[k].second.time = r.start
      BY <1>2, <3>1, <3>2, MovedType
    <3> QED BY <1>8, <2>1, <2>2, <3>1, <3>3
  <2>3. CASE k \in CutHead(r)
    <3>1. cut[k].second = eventMap[k].second /\ cut[k].first = Moved(eventMap[k].first, r.end)
      BY <1>9, <2>1, <2>3
    <3>2. IsEvent(eventMap[k].first)
      BY <1>8
    <3>3. /\ IsEvent(cut[k].first) /\ cut[k].first.id = eventMap[k].first.id
          /\ cut[k].first.seq = eventMap[k].first.seq /\ cut[k].first.time = r.end
      BY <1>2, <3>1, <3>2, MovedType
    <3> QED BY <1>8, <2>1, <2>3, <3>1, <3>3
  <2>4. CASE k \notin CutTail(r) /\ k \notin CutHead(r)
    BY <1>8, <1>9, <2>4
  <2> QED BY <2>2, <2>3, <2>4
<1>11. ASSUME NEW k \in DOMAIN eventMap
       PROVE  cut[k].second \in eventSet'
  <2>1. CASE k \in CutTail(r)
    BY <1>1, <2>1
  <2>2. CASE k \notin CutTail(r)
    <3>1. cut[k].second = eventMap[k].second /\ eventMap[k].second \in eventSet
      BY <1>8, <1>9, <2>2
    <3>2. \A j \in CutTail(r) : eventMap[j].second # eventMap[k].second
      BY <1>7, <1>8, <2>2
    <3>3. \A j \in CutHead(r) : eventMap[j].first # eventMap[k].second
      BY <1>7, <1>8
    <3> QED BY <1>1, <3>1, <3>2, <3>3
  <2> QED BY <2>1, <2>2
<1>12. DOMAIN eventMap' = DOMAIN eventMap \cup {r.seq}
       /\ eventMap'[r.seq] = [first |-> begin, second |-> end]
       /\ \A k \in DOMAIN eventMap : eventMap'[k] = cut[k]
  BY <1>1
<1>13. ASSUME NEW e \in eventSet'
       PROVE  /\ IsEvent(e)
              /\ e.id = SET_CURRENT_BEGIN => e.seq \in DOMAIN eventMap' /\ e = eventMap'[e.seq].first
              /\ e.id = SET_CURRENT_END => e.seq \in DOMAIN eventMap' /\ e = eventMap'[e.seq].second
  <2>1. CASE e \in eventSet /\ (\A k \in CutTail(r) : e # eventMap[k].second)
                           /\ (\A k \in CutHead(r) : e # eventMap[k].first)
    <3>1. IsEvent(e)
      BY <2>1 DEF ScheduleOK
    <3>2. CASE e.id = SET_CURRENT_BEGIN
      <4>1. e.seq \in DOMAIN eventMap /\ e = eventMap[e.seq].first
        BY <2>1, <3>2 DEF ScheduleOK
      <4>2. e.seq \notin CutHead(r)
        BY <2>1, <4>1
      <4>3. eventMap'[e.seq] = cut[e.seq] /\ cut[e.seq].first = eventMap[e.seq].first
        BY <1>9, <1>12, <4>1, <4>2
      <4> QED BY <1>12, <3>1, <3>2, <4>1, <4>3
    <3>3. CASE e.id = SET_CURRENT_END
      <4>1. e.seq \in DOMAIN eventMap /\ e = eventMap[e.seq].second
        BY <2>1, <3>3 DEF ScheduleOK
      <4>2. e.seq \notin CutTail(r)
        BY <2>1, <4>1
      <4>3. eventMap'[e.seq] = cut[e.seq] /\ cut[e.seq].second = eventMap[e.seq].second
        BY <1>9, <1>12, <4>1, <4>2
      <4> QED BY <1>12, <3>1, <3>3, <4>1, <4>3
    <3> QED BY <3>1, <3>2, <3>3
  <2>2. CASE \E k \in CutTail(r) : e = cut[k].second
    BY <1>7, <1>10, <1>12, <2>2
  <2>3. CASE \E k \in CutHead(r) : e = cut[k].first
    BY <1>7, <1>10, <1>12, <2>3
  <2>4. CASE e \in cancels
    BY <1>6, <2>4
  <2>5. CASE e = begin \/ e = end
    BY <1>4, <1>5, <1>12, <2>5
  <2> QED BY <1>1, <2>1, <2>2, <2>3, <2>4, <2>5
<1>14. ASSUME NEW k \in DOMAIN eventMap'
       PROVE  /\ eventMap'[k] = [first |-> eventMap'[k].first, second |-> eventMap'[k].second]
              /\ IsEvent(eventMap'[k].first) /\ IsEvent(eventMap'[k].second)
              /\ k < nextSeq
              /\ eventMap'[k].first.id = SET_CURRENT_BEGIN /\ eventMap'[k].first.seq = k
              /\ eventMap'[k].second.id = SET_CURRENT_END /\ eventMap'[k].second.seq = k
              /\ eventMap'[k].first.time <= eventMap'[k].second.time
              /\ eventMap'[k].second \in eventSet'
  <2>1. CASE k = r.seq
    <3>1. eventMap'[k].first = begin /\ eventMap'[k].second = end
      BY <1>12, <2>1
    <3>2. end \in eventSet'
      BY <1>1
    <3> QED BY <1>4, <1>5, <1>12, <2>1, <3>1, <3>2
  <2>2. CASE k \in DOMAIN eventMap
    <3>1. eventMap'[k] = cut[k]
      BY <1>12, <2>2
    <3>2. k < nextSeq
      BY <1>8, <2>2
    <3>3. cut[k] = [first |-> cut[k].first, second |-> cut[k].second]
      BY <1>9, <2>2
    <3> QED BY <1>10, <1>11, <2>2, <3>1, <3>2, <3>3
  <2> QED BY <1>12, <2>1, <2>2
<1>15. DOMAIN eventMap' \subseteq Seqs
  BY <1>2, <1>12 DEF ScheduleOK
<1> QED BY <1>13, <1>14, <1>15, Zenon DEF ScheduleOK

\* checkMergeAndInsertEvents, its notification included.
LEMMA InsertStep ==
    ASSUME BatteryAssumption, TypeOK, Structure, checkMergeAndInsertEvents
    PROVE  TypeOK' /\ Structure'
<1>1. ControlOK /\ CallsOK /\ ScheduleOK(eventSet, eventMap, nextSeq)
  BY ControlFacts, Disassemble
<1>2. call \in Calls /\ call.seq < nextSeq /\ call.start <= call.end
  BY <1>1 DEF checkMergeAndInsertEvents, CallsOK, Drawn
<1>3. ControlOK'
  BY <1>1, NotifiedType, Zenon DEF checkMergeAndInsertEvents, ControlOK, configVars
<1>4. UNCHANGED <<calls, nextSeq>> /\ applied' = applied
  BY DEF checkMergeAndInsertEvents
<1>5. CallsOK'
  <2>1. call' = NoCall /\ (last' = NoCall \/ last' = call)
    BY DEF checkMergeAndInsertEvents
  <2> QED BY <1>1, <1>4, <2>1 DEF CallsOK, Drawn
<1>6. ScheduleOK(eventSet', eventMap', nextSeq)
  <2>1. CASE call.seq \in DOMAIN eventMap
    BY <1>1, <1>2, <2>1, AddShareOK DEF checkMergeAndInsertEvents
  <2>2. CASE call.seq \notin DOMAIN eventMap
    BY <1>1, <1>2, <2>2, MergeOK DEF checkMergeAndInsertEvents
  <2> QED BY <2>1, <2>2
<1>7. want' \in [Names -> [Times -> Int]]
  <2>1. call.name \in Names /\ call.cur \in Int /\ want \in [Names -> [Times -> Int]]
    BY <1>2 DEF Calls, TypeOK
  <2> DEFINE row == [t \in Times |->
                       IF call.start <= t /\ t < call.end
                       THEN IF call.seq \in DOMAIN eventMap THEN want[call.name][t] + call.cur
                            ELSE call.cur
                       ELSE want[call.name][t]]
  <2>2. row \in [Times -> Int]
    BY <2>1
  <2>3. want' = [want EXCEPT ![call.name] = row]
    BY DEF checkMergeAndInsertEvents, Asked
  <2> HIDE DEF row
  <2> QED BY <2>1, <2>2, <2>3
<1>8. applied' \in [Seqs -> Int]
  BY <1>4 DEF TypeOK
<1> QED BY <1>3, <1>4, <1>5, <1>6, <1>7, <1>8, Reassemble

-----------------------------------------------------------------------------
\* Removing a batch of events that holds the BEGIN of each of its ENDs.
LEMMA ApplyOK ==
    ASSUME NEW set, NEW map, NEW next, ScheduleOK(set, map, next), NEW batch,
           \A f \in Of(batch, SET_CURRENT_END) : f.seq \in DOMAIN map =>
              f = map[f.seq].second /\ (map[f.seq].first \in set => map[f.seq].first \in batch)
    PROVE  ScheduleOK(set \ batch, Without(map, {e.seq : e \in Of(batch, SET_CURRENT_END)}), next)
<1> DEFINE gone == {e.seq : e \in Of(batch, SET_CURRENT_END)}
           map2 == Without(map, gone)
<1>1. DOMAIN map2 = DOMAIN map \ gone /\ \A k \in DOMAIN map2 : map2[k] = map[k]
  BY DEF Without
<1>2. ASSUME NEW k \in DOMAIN map, k \notin gone
      PROVE  map[k].second \in set \ batch
  <2>1. map[k].second \in set /\ map[k].second.id = SET_CURRENT_END /\ map[k].second.seq = k
    BY DEF ScheduleOK
  <2> QED BY <1>2, <2>1 DEF Of
<1>3. ASSUME NEW e \in set \ batch, e.seq \in DOMAIN map, e = map[e.seq].first \/ e = map[e.seq].second
      PROVE  e.seq \notin gone
  <2> SUFFICES ASSUME NEW f \in Of(batch, SET_CURRENT_END), f.seq = e.seq PROVE FALSE
    OBVIOUS
  <2>1. f \in batch /\ f = map[e.seq].second /\ (map[e.seq].first \in set => map[e.seq].first \in batch)
    BY <1>3 DEF Of
  <2> QED BY <1>3, <2>1
<1> HIDE DEF map2
<1>4. \A e \in set \ batch :
         /\ IsEvent(e)
         /\ e.id = SET_CURRENT_BEGIN => e.seq \in DOMAIN map2 /\ e = map2[e.seq].first
         /\ e.id = SET_CURRENT_END => e.seq \in DOMAIN map2 /\ e = map2[e.seq].second
  <2> SUFFICES ASSUME NEW e \in set \ batch
               PROVE  /\ IsEvent(e)
                      /\ e.id = SET_CURRENT_BEGIN => e.seq \in DOMAIN map2 /\ e = map2[e.seq].first
                      /\ e.id = SET_CURRENT_END => e.seq \in DOMAIN map2 /\ e = map2[e.seq].second
    OBVIOUS
  <2>1. /\ IsEvent(e)
        /\ e.id = SET_CURRENT_BEGIN => e.seq \in DOMAIN map /\ e = map[e.seq].first
        /\ e.id = SET_CURRENT_END => e.seq \in DOMAIN map /\ e = map[e.seq].second
    BY DEF ScheduleOK
  <2> QED BY <1>1, <1>3, <2>1
<1>5. \A k \in DOMAIN map2 :
         /\ map2[k] = [first |-> map2[k].first, second |-> map2[k].second]
         /\ IsEvent(map2[k].first) /\ IsEvent(map2[k].second)
         /\ k < next
         /\ map2[k].first.id = SET_CURRENT_BEGIN /\ map2[k].first.seq = k
         /\ map2[k].second.id = SET_CURRENT_END /\ map2[k].second.seq = k
         /\ map2[k].first.time <= map2[k].second.time
         /\ map2[k].second \in set \ batch
  BY <1>1, <1>2 DEF ScheduleOK
<1>6. DOMAIN map2 \subseteq Seqs
  BY <1>1 DEF ScheduleOK
<1>7. ScheduleOK(set \ batch, map2, next)
  BY <1>4, <1>5, <1>6, Zenon DEF ScheduleOK
<1> QED BY <1>7 DEF map2

\* Refreshes put back into the set change nothing for the requests.
LEMMA QueuedOK ==
    ASSUME NEW set, NEW map, NEW next, ScheduleOK(set, map, next), NEW more,
           \A f \in more : IsEvent(f) /\ f.id = REFRESH
    PROVE  ScheduleOK(set \cup more, map, next)
<1>1. \A e \in set \cup more :
         /\ IsEvent(e)
         /\ e.id = SET_CURRENT_BEGIN => e.seq \in DOMAIN map /\ e = map[e.seq].first
         /\ e.id = SET_CURRENT_END => e.seq \in DOMAIN map /\ e = map[e.seq].second
  BY DEF ScheduleOK
<1>2. \A k \in DOMAIN map : map[k].second \in set \cup more
  BY DEF ScheduleOK
<1> QED BY <1>1, <1>2, Zenon DEF ScheduleOK

\* Cancelling takes a request's pair out of the set and of the map.
LEMMA GoneOK ==
    ASSUME NEW set, NEW map, NEW next, ScheduleOK(set, map, next),
           NEW c, c.id = CANCEL_SET_CURRENT_EVENT, c.seq \in DOMAIN map
    PROVE  ScheduleOK(set \ {c, map[c.seq].first, map[c.seq].second}, Without(map, {c.seq}), next)
<1> DEFINE set2 == set \ {c, map[c.seq].first, map[c.seq].second}
           map2 == Without(map, {c.seq})
<1>1. DOMAIN map2 = DOMAIN map \ {c.seq} /\ \A k \in DOMAIN map2 : map2[k] = map[k]
  BY DEF Without
<1>2. \A k \in DOMAIN map2 : map[k].second \in set2
  <2> SUFFICES ASSUME NEW k \in DOMAIN map, k # c.seq PROVE map[k].second \in set2
    BY <1>1
  <2>1. map[k].second \in set /\ map[k].second.id = SET_CURRENT_END /\ map[k].second.seq = k
    BY DEF ScheduleOK
  <2>2. map[c.seq].first.seq = c.seq /\ map[c.seq].second.seq = c.seq
    BY DEF ScheduleOK
  <2> QED BY <2>1, <2>2
<1> HIDE DEF map2
<1>3. \A e \in set2 :
         /\ IsEvent(e)
         /\ e.id = SET_CURRENT_BEGIN => e.seq \in DOMAIN map2 /\ e = map2[e.seq].first
         /\ e.id = SET_CURRENT_END => e.seq \in DOMAIN map2 /\ e = map2[e.seq].second
  BY <1>1 DEF ScheduleOK
<1>4. \A k \in DOMAIN map2 :
         /\ map2[k] = [first |-> map2[k].first, second |-> map2[k].second]
         /\ IsEvent(map2[k].first) /\ IsEvent(map2[k].second)
         /\ k < next
         /\ map2[k].first.id = SET_CURRENT_BEGIN /\ map2[k].first.seq = k
         /\ map2[k].second.id = SET_CURRENT_END /\ map2[k].second.seq = k
         /\ map2[k].first.time <= map2[k].second.time
         /\ map2[k].second \in set2
  BY <1>1, <1>2 DEF ScheduleOK
<1>5. DOMAIN map2 \subseteq Seqs
  BY <1>1 DEF ScheduleOK
<1>6. ScheduleOK(set2, map2, next)
  BY <1>3, <1>4, <1>5, Zenon DEF ScheduleOK
<1> QED BY <1>6 DEF map2

\* The second half of the loop body of runEventThread.
LEMMA ApplyStep ==
    ASSUME BatteryAssumption, TypeOK, Structure,
           NEW batch, NEW set, NEW map, ScheduleOK(set, map, nextSeq),
           \A f \in Of(batch, SET_CURRENT_END) : f.seq \in DOMAIN map =>
              f = map[f.seq].second /\ (map[f.seq].first \in set => map[f.seq].first \in batch),
           Apply(batch, set, map)
    PROVE  TypeOK' /\ Structure'
<1>1. ControlOK /\ CallsOK
  BY ControlFacts
<1>2. UNCHANGED <<calls, nextSeq>> /\ want' = want /\ CallsOK'
  BY <1>1, Zenon DEF Apply, callVars, CallsOK, Drawn
<1>3. ControlOK'
  <2>1. status' \in [limit : Limits \cup {NoLimit}, time : Times]
    BY <1>1, RefreshType DEF Apply, ControlOK
  <2>2. UNCHANGED <<now, deadline, quitThread, refreshMode, maxStaleness, built>> /\ pc' = "scan"
    BY Zenon DEF Apply, configVars
  <2> QED BY <1>1, <2>1, <2>2, Zenon DEF ControlOK
<1>4. ScheduleOK(eventSet', eventMap', nextSeq)
  <2>1. CASE set = {}
    BY <2>1, Zenon DEF Apply
  <2>2. CASE set # {}
    <3>1. ScheduleOK(set \ batch, Without(map, {e.seq : e \in Of(batch, SET_CURRENT_END)}), nextSeq)
      BY ApplyOK
    <3> QED BY <2>2, <3>1, Zenon DEF Apply
  <2> QED BY <2>1, <2>2
<1>5. applied' \in [Seqs -> Int]
  <2>1. applied \in [Seqs -> Int]
    BY DEF TypeOK
  <2>2. \A s \in Seqs : Count(batch, SET_CURRENT_BEGIN, s) \in Int /\ Count(batch, SET_CURRENT_END, s) \in Int
    BY DEF Count
  <2>3. CASE set = {}
    BY <2>1, <2>3 DEF Apply
  <2>4. CASE set # {}
    <3>1. applied' = [s \in Seqs |-> applied[s] + Count(batch, SET_CURRENT_BEGIN, s)
                                                - Count(batch, SET_CURRENT_END, s)]
      BY <2>4, Zenon DEF Apply
    <3> QED BY <2>1, <2>2, <3>1
  <2> QED BY <2>3, <2>4
<1>6. want' \in [Names -> [Times -> Int]]
  BY <1>2 DEF TypeOK
<1> QED BY <1>2, <1>3, <1>4, <1>5, <1>6, Reassemble

\* A pass without a CANCEL.
LEMMA EventsStep ==
    ASSUME BatteryAssumption, TypeOK, Structure, RunsEvents
    PROVE  TypeOK' /\ Structure'
<1>1. ScheduleOK(eventSet, eventMap, nextSeq)
  BY Disassemble
<1>2. now \in Int /\ \A e \in Of(Due, REFRESH) : e.time <= now
  BY DEF TypeOK, Times, Of, Due
<1>3. \A f \in Requeued(Due, now) : IsEvent(f) /\ f.id = REFRESH
  BY <1>2, RequeuedType
<1>4. ScheduleOK(Queued(Due, now), eventMap, nextSeq)
  BY <1>1, <1>3, QueuedOK DEF Queued
<1>5. ASSUME NEW f \in Of(Due, SET_CURRENT_END), f.seq \in DOMAIN eventMap
      PROVE  /\ f = eventMap[f.seq].second
             /\ eventMap[f.seq].first \in Queued(Due, now) => eventMap[f.seq].first \in Due
  <2>1. f \in eventSet /\ f.id = SET_CURRENT_END /\ f.time <= now
    BY DEF Of, Due
  <2> DEFINE e == eventMap[f.seq].first
  <2>2. /\ f = eventMap[f.seq].second /\ e.time <= f.time /\ e.id = SET_CURRENT_BEGIN
        /\ IsEvent(e) /\ IsEvent(f)
    BY <1>1, <1>5, <2>1 DEF ScheduleOK
  <2>3. e \in Queued(Due, now) => e \in eventSet
    BY <1>3, <2>2 DEF Queued
  <2>4. e.time <= now
    BY <1>2, <2>1, <2>2 DEF IsEvent
  <2> QED BY <2>2, <2>3, <2>4 DEF Due
<1>6. Apply(Due, Queued(Due, now), eventMap)
  BY DEF RunsEvents
<1> QED BY <1>4, <1>5, <1>6, ApplyStep

\* What is collected before the iterator stops at a CANCEL is earlier than it.
LEMMA BatchEarlier ==
    ASSUME TypeOK, NEW c \in eventSet, c.id = CANCEL_SET_CURRENT_EVENT, NEW e \in BatchBefore(c),
           e.id # CANCEL_SET_CURRENT_EVENT
    PROVE  e \in eventSet /\ e.time <= now /\ e.time < c.time
<1>1. e \in Due /\ Before(e, c)
  BY DEF BatchBefore
<1>2. e \in eventSet /\ e.time <= now /\ IsEvent(e) /\ IsEvent(c)
  BY <1>1 DEF Due, TypeOK
<1> QED BY <1>1, <1>2 DEF Before, IsEvent, EventIDs

\* A pass that stops at a CANCEL and carries it out.
LEMMA CancelStep ==
    ASSUME BatteryAssumption, TypeOK, Structure, RunsCancel
    PROVE  TypeOK' /\ Structure'
<1>1. PICK c \in eventSet :
         /\ StopsAtCancel(c) /\ c.seq \in DOMAIN eventMap
         /\ CancelAt(c, {c, eventMap[c.seq].first, eventMap[c.seq].second})
  BY DEF RunsCancel
<1>2. c.id = CANCEL_SET_CURRENT_EVENT
  BY <1>1 DEF StopsAtCancel
<1> DEFINE batch == BatchBefore(c)
           horizon == IF c.time <= now THEN c.time - 1 ELSE now
           gone == {c, eventMap[c.seq].first, eventMap[c.seq].second}
           set == Queued(batch, horizon) \ gone
           map == Without(eventMap, {c.seq})
<1>3. ScheduleOK(eventSet, eventMap, nextSeq)
  BY Disassemble
<1>4. c.time \in Nat /\ now \in Nat
  BY <1>1 DEF TypeOK, IsEvent, Times
<1>5. horizon \in Int /\ batch \subseteq Due
  BY <1>4 DEF BatchBefore
<1>6. \A e \in Of(batch, REFRESH) : e.time <= horizon
  <2> SUFFICES ASSUME NEW e \in Of(batch, REFRESH) PROVE e.time <= horizon
    OBVIOUS
  <2>1. e.time <= now /\ e.time < c.time /\ e \in eventSet
    BY <1>1, <1>2, BatchEarlier DEF Of
  <2> QED BY <1>4, <2>1 DEF TypeOK, IsEvent
<1>7. \A f \in Requeued(batch, horizon) : IsEvent(f) /\ f.id = REFRESH
  BY <1>5, <1>6, RequeuedType
<1>8. ScheduleOK(Queued(batch, horizon), eventMap, nextSeq)
  BY <1>3, <1>7, QueuedOK DEF Queued
<1>9. ScheduleOK(set, map, nextSeq)
  BY <1>1, <1>2, <1>8, GoneOK
<1>10. ASSUME NEW f \in Of(batch, SET_CURRENT_END), f.seq \in DOMAIN map
       PROVE  f = map[f.seq].second /\ (map[f.seq].first \in set => map[f.seq].first \in batch)
  <2>1. f \in eventSet /\ f.id = SET_CURRENT_END /\ f.time <= now /\ f.time < c.time
    BY <1>1, <1>2, BatchEarlier DEF Of
  <2>2. f.seq \in DOMAIN eventMap /\ map[f.seq] = eventMap[f.seq]
    BY <1>10 DEF Without
  <2> DEFINE e == eventMap[f.seq].first
  <2>3. /\ f = eventMap[f.seq].second /\ e.time <= f.time /\ e.id = SET_CURRENT_BEGIN
        /\ IsEvent(e) /\ IsEvent(f)
    BY <1>3, <2>1, <2>2 DEF ScheduleOK
  <2>4. e \in set => e \in eventSet
    BY <1>7, <2>3 DEF Queued
  <2>5. e.time <= now /\ e.time < c.time
    BY <1>4, <2>1, <2>3 DEF IsEvent
  <2>6. e \in eventSet => e \in batch
    BY <2>5 DEF BatchBefore, Before, Due
  <2> QED BY <2>2, <2>3, <2>4, <2>6
<1>11. Apply(batch, set, map)
  BY <1>1 DEF CancelAt
<1> HIDE DEF batch, set, map
<1> QED BY <1>9, <1>10, <1>11, ApplyStep

-----------------------------------------------------------------------------
\* Every step of either thread keeps the schedule well formed.
LEMMA NextStructure ==
    ASSUME BatteryAssumption, TypeOK, Structure, [Next]_vars
    PROVE  TypeOK' /\ Structure'
<1>1. CASE UNCHANGED vars
  <2>1. ControlOK /\ CallsOK
    BY ControlFacts
  <2>2. Counters /\ ControlOK' /\ CallsOK' /\ UNCHANGED <<eventSet, eventMap, applied, want>>
    BY <1>1, <2>1, Zenon DEF vars, Counters, ControlOK, CallsOK, Drawn
  <2> QED BY <2>2, IdleStructure
<1>2. CASE Next
  BY <1>2, BuildStep, ScheduleStep, ShareStep, InsertStep, SettingStep, RefreshModeStep,
       IdleStep,
     EventsStep, CancelStep, Zenon DEF Next, Thread
<1> QED BY <1>1, <1>2

\* Battery keeps its state well formed, whoever calls it and however its two
\* threads interleave.
THEOREM TypeCorrect == Spec => [](TypeOK /\ Structure)
<1>1. Init => TypeOK /\ Structure
  BY BatteryAssumption, InitStructure
<1>2. TypeOK /\ Structure /\ [Next]_vars => (TypeOK /\ Structure)'
  BY BatteryAssumption, NextStructure
<1> QED BY <1>1, <1>2, PTL DEF Spec

\* What is proved of the two containers of runEventThread by Structure.
LEMMA StructureMatches == ASSUME Structure PROVE SetMatchesMap
<1>1. Of(eventSet, SET_CURRENT_END) = {eventMap[k].second : k \in DOMAIN eventMap}
  BY DEF Structure, Of
<1>2. Of(eventSet, SET_CURRENT_BEGIN) \subseteq {eventMap[k].first : k \in DOMAIN eventMap}
  BY DEF Structure, Of
<1> QED BY <1>1, <1>2 DEF Structure, SetMatchesMap

\* The set and the map of runEventThread and checkMergeAndInsertEvents never
\* come apart: every END queued belongs to a request of the map and the other
\* way round, whatever callers do.
THEOREM SetAndMapAgree == Spec => []SetMatchesMap
<1>1. Spec => [](TypeOK /\ Structure)
  BY TypeCorrect
<1>2. TypeOK /\ Structure => SetMatchesMap
  BY StructureMatches
<1> QED BY <1>1, <1>2, PTL

-----------------------------------------------------------------------------
\* The next refresh of a chain lies after the horizon, by a staleness at most.
LEMMA NextRefreshBounds ==
    ASSUME NEW t \in Nat, NEW h \in Int, NEW m \in Nat \ {0}, t <= h
    PROVE  /\ t + m * ((h - t) \div m + 1) \in Nat
           /\ h < t + m * ((h - t) \div m + 1)
           /\ t + m * ((h - t) \div m + 1) <= h + m
<1> DEFINE d == h - t
           q == d \div m
<1>1. d \in Nat /\ m \in Nat /\ m > 0
  OBVIOUS
<1>2. q \in Nat /\ m * q <= d /\ d < m * q + m
  <2> HIDE DEF d
  <2> QED BY <1>1, SMT
<1>3. m * (q + 1) = m * q + m
  <2> HIDE DEF q
  <2> QED BY <1>1, <1>2
<1> HIDE DEF q
<1>4. m * q \in Nat
  BY <1>1, <1>2
<1> DEFINE p == m * q
<1> HIDE DEF p
<1>5. p \in Nat /\ p <= d /\ d < p + m /\ m * (q + 1) = p + m
  BY <1>2, <1>3, <1>4 DEF p
<1>6. /\ t + (p + m) \in Nat
      /\ h < t + (p + m)
      /\ t + (p + m) <= h + m
  BY <1>5
<1> QED BY <1>5, <1>6 DEF q

\* A step that takes no refresh out of the set and does not turn the clock back.
LEMMA RefreshKept ==
    ASSUME BatteryAssumption, TypeOK, TypeOK', RefreshKeepsComing,
           Of(eventSet, REFRESH) \subseteq eventSet', now <= now',
           built' => built, refreshMode' = refreshMode, pc' # "none" => pc # "none"
    PROVE  RefreshKeepsComing'
<1> SUFFICES ASSUME built, refreshMode = "ACTIVE", pc # "none"
             PROVE  \E e \in Of(eventSet', REFRESH), s \in Stalenesses : e.time <= now' + s
  BY DEF RefreshKeepsComing
<1>1. PICK e \in Of(eventSet, REFRESH), s \in Stalenesses : e.time <= now + s
  BY DEF RefreshKeepsComing
<1>2. e \in Of(eventSet', REFRESH)
  BY <1>1 DEF Of
<1>3. e.time \in Nat /\ now \in Nat /\ now' \in Nat /\ s \in Nat
  BY <1>1 DEF TypeOK, IsEvent, Of, Times, BatteryAssumption
<1> QED BY <1>1, <1>2, <1>3

\* A pass of runEventThread replaces each refresh it takes out.
LEMMA PassKeepsRefresh ==
    ASSUME BatteryAssumption, TypeOK, RefreshKeepsComing, pc # "none",
           NEW batch, batch \subseteq Due, NEW h \in Int, h <= now,
           \A e \in Of(batch, REFRESH) : e.time <= h,
           NEW set, Of(Queued(batch, h), REFRESH) \subseteq set, NEW map,
           Apply(batch, set, map)
    PROVE  RefreshKeepsComing'
<1>1. UNCHANGED <<now, built, refreshMode>>
  BY Zenon DEF Apply, configVars
<1> SUFFICES ASSUME built, refreshMode = "ACTIVE"
             PROVE  \E e \in Of(eventSet', REFRESH), s \in Stalenesses : e.time <= now + s
  BY <1>1 DEF RefreshKeepsComing
<1>2. PICK e \in Of(eventSet, REFRESH), s \in Stalenesses : e.time <= now + s
  BY DEF RefreshKeepsComing
<1>3. e \in eventSet /\ e.id = REFRESH /\ e \in set
  BY <1>2 DEF Of, Queued
<1>4. eventSet' = set \ batch
  BY <1>3, Zenon DEF Apply
<1>5. CASE e \notin batch
  BY <1>2, <1>3, <1>4, <1>5 DEF Of
<1>6. CASE e \in batch
  <2> DEFINE t == NextRefresh(e.time, h)
             f == Moved(e, t)
  <2>0. IsEvent(e) /\ now \in Nat /\ maxStaleness \in Nat \ {0}
    BY <1>3 DEF TypeOK, Times, BatteryAssumption
  <2>1. e.time \in Nat /\ e.time <= h /\ maxStaleness \in Nat \ {0} /\ now \in Nat /\ IsEvent(e)
    BY <1>3, <1>6, <2>0 DEF IsEvent, Of
  <2>2. t \in Nat /\ h < t /\ t <= h + maxStaleness
    BY <2>1, NextRefreshBounds DEF NextRefresh
  <2>3. f.id = REFRESH /\ f.time = t
    BY <1>3, <2>1, <2>2, MovedType
  <2>4. f \in set
    BY <1>3, <1>6, <2>3 DEF Queued, Requeued, Of
  <2>5. f \notin batch
    BY <2>1, <2>2, <2>3 DEF Of
  <2>6. f.time <= now + maxStaleness /\ maxStaleness \in Stalenesses
    BY <2>1, <2>2, <2>3 DEF TypeOK
  <2> QED BY <1>4, <2>3, <2>4, <2>5, <2>6 DEF Of
<1> QED BY <1>5, <1>6

\* The merge takes no refresh out of the set: it moves BEGINs and ENDs only.
LEMMA InsertKeepsRefresh ==
    ASSUME TypeOK, Structure, checkMergeAndInsertEvents
    PROVE  Of(eventSet, REFRESH) \subseteq eventSet'
<1> SUFFICES ASSUME NEW e \in eventSet, e.id = REFRESH PROVE e \in eventSet'
  BY DEF Of
<1>1. \A k \in DOMAIN eventMap : e # eventMap[k].first /\ e # eventMap[k].second
  BY DEF Structure
<1>2. CASE call.seq \in DOMAIN eventMap
  BY <1>1, <1>2 DEF checkMergeAndInsertEvents, AddShare
<1>3. CASE call.seq \notin DOMAIN eventMap
  <2>1. CutTail(call) \subseteq DOMAIN eventMap /\ CutHead(call) \subseteq DOMAIN eventMap
    BY DEF CutTail, CutHead, Outstanding
  <2>2. /\ e \notin {eventMap[k].second : k \in CutTail(call)}
        /\ e \notin {eventMap[k].first : k \in CutHead(call)}
    BY <1>1, <2>1
  <2> QED BY <1>3, <2>2, Zenon DEF checkMergeAndInsertEvents, Merge
<1> QED BY <1>2, <1>3

\* The constructor: a manager is born with its refresh, the others are not built.
LEMMA InitRefresh == ASSUME BatteryAssumption PROVE Init => RefreshKeepsComing
<1> SUFFICES ASSUME Init, built, pc # "none"
             PROVE  \E e \in Of(eventSet, REFRESH), s \in Stalenesses : e.time <= now + s
  BY DEF RefreshKeepsComing
<1>1. Kind = "manager"
  BY DEF Init
<1> DEFINE e == event_t(Own, REFRESH, 0, maxStaleness, 1)
<1>2. e \in eventSet /\ now = 0 /\ maxStaleness \in Stalenesses
  BY <1>1 DEF Init
<1>3. e.id = REFRESH /\ e.time = maxStaleness /\ maxStaleness \in Nat
  BY <1>2 DEF event_t, BatteryAssumption
<1>4. e.time <= now + maxStaleness
  BY <1>2, <1>3
<1> QED BY <1>2, <1>3, <1>4 DEF Of

\* A refresh queued maxStaleness ahead, or at once, is one to come.
LEMMA RefreshQueued ==
    ASSUME BatteryAssumption, TypeOK, now' = now, NEW s, NEW t \in {now, now + maxStaleness},
           event_t(Own, REFRESH, 0, t, s) \in eventSet'
    PROVE  RefreshKeepsComing'
<1> DEFINE e == event_t(Own, REFRESH, 0, t, s)
<1>1. e.id = REFRESH /\ e.time = t
  BY DEF event_t
<1>2. maxStaleness \in Nat /\ now \in Nat /\ maxStaleness \in Stalenesses
  <2>1. maxStaleness \in Stalenesses /\ now \in Times
    BY Zenon DEF TypeOK
  <2> QED BY <2>1 DEF Times, BatteryAssumption
<1>3. e.time <= now' + maxStaleness
  BY <1>1, <1>2
<1> QED BY <1>1, <1>2, <1>3 DEF RefreshKeepsComing, Of

\* setSourceBattery and the constructors queue the first refresh.
LEMMA BuildRefresh ==
    ASSUME BatteryAssumption, TypeOK, Build PROVE RefreshKeepsComing'
<1>1. now' = now /\ refreshMode' = refreshMode
  BY DEF Build
<1>2. CASE setSourceBattery
  <2>1. CASE refreshMode = "ACTIVE"
    BY <1>1, <1>2, <2>1, RefreshQueued DEF setSourceBattery
  <2>2. CASE refreshMode # "ACTIVE"
    BY <1>1, <2>2 DEF RefreshKeepsComing
  <2> QED BY <2>1, <2>2
<1>3. CASE AggregateBattery
  BY <1>1, <1>3, RefreshQueued DEF AggregateBattery
<1> QED BY <1>2, <1>3 DEF Build

\* A pass of runEventThread, without or with a CANCEL.
LEMMA EventsRefresh ==
    ASSUME BatteryAssumption, TypeOK, RefreshKeepsComing, RunsEvents
    PROVE  RefreshKeepsComing'
<1>1. now \in Int /\ now <= now /\ \A e \in Of(Due, REFRESH) : e.time <= now
  BY DEF TypeOK, Times, Of, Due
<1>2. pc # "none"
  BY DEF RunsEvents, AtPass, Running
<1>3. Apply(Due, Queued(Due, now), eventMap)
  BY DEF RunsEvents
<1>4. Of(Queued(Due, now), REFRESH) \subseteq Queued(Due, now)
  BY DEF Of
<1> QED BY <1>1, <1>2, <1>3, <1>4, PassKeepsRefresh

LEMMA CancelRefresh ==
    ASSUME BatteryAssumption, TypeOK, Structure, RefreshKeepsComing, RunsCancel
    PROVE  RefreshKeepsComing'
<1>1. PICK c \in eventSet :
         /\ StopsAtCancel(c) /\ c.seq \in DOMAIN eventMap
         /\ CancelAt(c, {c, eventMap[c.seq].first, eventMap[c.seq].second})
  BY DEF RunsCancel
<1>2. c.id = CANCEL_SET_CURRENT_EVENT /\ pc # "none"
  BY <1>1 DEF StopsAtCancel, RunsCancel, AtPass, Running
<1> DEFINE batch == BatchBefore(c)
           horizon == IF c.time <= now THEN c.time - 1 ELSE now
           gone == {c, eventMap[c.seq].first, eventMap[c.seq].second}
           set == Queued(batch, horizon) \ gone
<1>3. c.time \in Nat /\ now \in Nat
  BY <1>1 DEF TypeOK, IsEvent, Times
<1>4. horizon \in Int /\ horizon <= now /\ batch \subseteq Due
  BY <1>3 DEF BatchBefore
<1>5. \A e \in Of(batch, REFRESH) : e.time <= horizon
  <2> SUFFICES ASSUME NEW e \in Of(batch, REFRESH) PROVE e.time <= horizon
    OBVIOUS
  <2>1. e.time <= now /\ e.time < c.time /\ e \in eventSet
    BY <1>1, <1>2, BatchEarlier DEF Of
  <2> QED BY <1>3, <2>1 DEF TypeOK, IsEvent
<1>6. \A e \in gone : e.id # REFRESH
  BY <1>1, <1>2 DEF Structure
<1>7. Of(Queued(batch, horizon), REFRESH) \subseteq set
  BY <1>6 DEF Of
<1>8. Apply(batch, set, Without(eventMap, {c.seq}))
  BY <1>1 DEF CancelAt
<1> HIDE DEF batch, set, horizon
<1> QED BY <1>2, <1>4, <1>5, <1>7, <1>8, PassKeepsRefresh

\* Every step of either thread keeps a refresh queued.
LEMMA NextRefreshKept ==
    ASSUME BatteryAssumption, TypeOK, Structure, TypeOK', RefreshKeepsComing, [Next]_vars
    PROVE  RefreshKeepsComing'
<1>0. now \in Nat
  BY DEF TypeOK, Times
<1> DEFINE Kept == /\ Of(eventSet, REFRESH) \subseteq eventSet' /\ now <= now'
                   /\ built' => built
                   /\ refreshMode' = refreshMode /\ (pc' # "none" => pc # "none")
<1>1. Kept => RefreshKeepsComing'
  BY RefreshKept
<1>2. ASSUME UNCHANGED <<eventSet, built, refreshMode>>, now' \in {now, now + 1},
             pc' # "none" => pc # "none"
      PROVE  Kept
  <2>1. now <= now'
    BY <1>0, <1>2
  <2>2. built' => built
    BY <1>2, Zenon
  <2> QED BY <1>2, <2>1, <2>2 DEF Of
<1>3. CASE UNCHANGED vars
  BY <1>1, <1>2, <1>3 DEF vars
<1>4. CASE Build
  BY <1>4, BuildRefresh
<1>5. CASE \E r \in Requests : schedule_set_current(r)
  BY <1>1, <1>2, <1>5 DEF schedule_set_current, threadVars, configVars
<1>6. CASE \E r \in Requests : SecondShare(r.cur)
  BY <1>1, <1>2, <1>6 DEF SecondShare, threadVars, configVars
<1>7. CASE checkMergeAndInsertEvents
  <2>1. Of(eventSet, REFRESH) \subseteq eventSet'
    BY <1>7, InsertKeepsRefresh
  <2>2. UNCHANGED <<now, built, refreshMode>> /\ pc' = Notified
    BY <1>7 DEF checkMergeAndInsertEvents, configVars
  <2>3. built' => built
    BY <2>2, Zenon
  <2> QED BY <1>0, <1>1, <2>1, <2>2, <2>3 DEF Notified
<1>8. CASE getStatus
  BY <1>1, <1>2, <1>8 DEF getStatus, threadVars, configVars
<1>9. CASE setBatteryStatus
  BY <1>1, <1>2, <1>9 DEF setBatteryStatus, threadVars, configVars
<1>10. CASE \E mode \in Modes : setRefreshMode(mode)
  <2>1. PICK mode \in Modes : setRefreshMode(mode)
    BY <1>10
  <2>2. CASE mode = "ACTIVE"
    BY <2>1, <2>2, RefreshQueued DEF setRefreshMode
  <2>3. CASE mode # "ACTIVE"
    BY <2>1, <2>3 DEF setRefreshMode, RefreshKeepsComing
  <2> QED BY <2>2, <2>3
<1>11. CASE \E ms \in Stalenesses : setMaxStaleness(ms)
  BY <1>1, <1>2, <1>11 DEF setMaxStaleness, threadVars
<1>12. CASE quit
  BY <1>1, <1>2, <1>12 DEF quit, Notified
<1>13. CASE ThreadWakes
  BY <1>1, <1>2, <1>13 DEF ThreadWakes, configVars
<1>14. CASE Thread
  <2>1. CASE ThreadWaits
    BY <1>1, <1>2, <2>1 DEF ThreadWaits, Running, configVars
  <2>2. CASE ThreadQuits
    BY <1>1, <1>2, <2>2 DEF ThreadQuits, Running, configVars
  <2>3. CASE RunsEvents
    BY <2>3, EventsRefresh
  <2>4. CASE RunsCancel
    BY <2>4, CancelRefresh
  <2>5. CASE DiesOfStaleCancel
    BY <1>1, <1>2, <2>5 DEF DiesOfStaleCancel, AtPass, Running, Dies, configVars
  <2>6. CASE DiesAtEnd
    BY <1>1, <1>2, <2>6 DEF DiesAtEnd, AtPass, Running, Dies, configVars
  <2> QED BY <1>14, <2>1, <2>2, <2>3, <2>4, <2>5, <2>6 DEF Thread
<1>15. CASE Tick
  BY <1>1, <1>2, <1>15 DEF Tick, threadVars, configVars
<1> QED BY <1>3, <1>4, <1>5, <1>6, <1>7, <1>8, <1>9, <1>10, <1>11, <1>12, <1>13, <1>14, <1>15
        DEF Next

\* In ACTIVE mode the chain of refreshes of runEventThread never breaks: the
\* thread dequeues a refresh only by queueing the next one, and neither the
\* merge nor a cancellation takes one out.
THEOREM RefreshNeverStops == Spec => []RefreshKeepsComing
<1>1. Init => RefreshKeepsComing
  BY BatteryAssumption, InitRefresh
<1>2. TypeOK /\ Structure /\ RefreshKeepsComing /\ [Next]_vars => RefreshKeepsComing'
  BY BatteryAssumption, NextStructure, NextRefreshKept
<1>3. Spec => [](TypeOK /\ Structure)
  BY TypeCorrect
<1> QED BY <1>1, <1>2, <1>3, PTL DEF Spec

-----------------------------------------------------------------------------
\* What the proofs of Counting use of TypeOK and Structure.
Cancels == Of(eventSet, CANCEL_SET_CURRENT_EVENT)

LEMMA PairFacts ==
    ASSUME TypeOK, Structure, NEW k \in DOMAIN eventMap
    PROVE  /\ k \in Seqs /\ k \in Nat /\ k < nextSeq
           /\ eventMap[k].first.id = SET_CURRENT_BEGIN /\ eventMap[k].first.seq = k
           /\ eventMap[k].second.id = SET_CURRENT_END /\ eventMap[k].second.seq = k
           /\ eventMap[k].first.time \in Nat /\ eventMap[k].second.time \in Nat
           /\ eventMap[k].first.time <= eventMap[k].second.time
           /\ eventMap[k].second \in eventSet
<1>1. IsEvent(eventMap[k].first) /\ IsEvent(eventMap[k].second) /\ k \in Seqs
  BY DEF TypeOK
<1> QED BY <1>1 DEF Structure, IsEvent, Seqs

\* The constructor has counted nothing.
LEMMA InitCounting == ASSUME BatteryAssumption PROVE Init => Counting
<1> SUFFICES ASSUME Init PROVE Counting
  OBVIOUS
<1>1. \A e \in eventSet : e.id = REFRESH
  BY DEF Init, event_t
<1>2. DOMAIN eventMap = {} /\ applied = [s \in Seqs |-> 0] /\ call = NoCall /\ last = NoCall
  BY DEF Init
<1>3. Of(eventSet, CANCEL_SET_CURRENT_EVENT) = {}
  BY <1>1 DEF Of
<1> QED BY <1>2, <1>3 DEF Counting, CountedOnce, Begun

\* A step that leaves the requests and their events alone.
LEMMA QuietCounting ==
    ASSUME BatteryAssumption, TypeOK, Structure, Counting, UNCHANGED <<eventMap, applied>>,
           eventSet \subseteq eventSet', \A e \in eventSet' : e \in eventSet \/ e.id = REFRESH,
           now' \in Nat, now <= now',
           last' = last \/ last' = NoCall,
           call' = call \/ call' = NoCall, call' # NoCall => now' < call'.start
    PROVE  Counting'
<1>1. Of(eventSet', CANCEL_SET_CURRENT_EVENT) = Cancels
  BY DEF Of, Cancels
<1>2. \A k \in DOMAIN eventMap : eventMap[k].first \in eventSet' <=> eventMap[k].first \in eventSet
  BY PairFacts
<1>3. \A s : Begun(s)' <=> Begun(s)
  BY <1>2, Zenon DEF Begun
<1>4. CountedOnce'
  BY <1>3 DEF Counting, CountedOnce
<1>5. now \in Nat /\ \A k \in DOMAIN eventMap : eventMap[k].first.time \in Nat
  BY PairFacts DEF TypeOK, Times
<1>6. \A k \in DOMAIN eventMap' : Begun(k)' => eventMap'[k].first.time <= now'
  BY <1>3, <1>5 DEF Counting
<1>7. \A k : Untouched(k) => Untouched(k)'
  BY <1>1, <1>2 DEF Untouched, Cancels
<1>8. \A c \in Of(eventSet', CANCEL_SET_CURRENT_EVENT) :
         /\ c.seq \in DOMAIN eventMap'
         /\ eventMap'[c.seq].first \in eventSet' /\ eventMap'[c.seq].first.name = c.name
         /\ c.time <= eventMap'[c.seq].first.time
         /\ \A d \in Of(eventSet', CANCEL_SET_CURRENT_EVENT) : d.seq = c.seq => d = c
  BY <1>1, <1>2 DEF Counting, Cancels
<1>9. (last' # NoCall /\ now' < last'.start) =>
         Untouched(last.seq)' /\ eventMap'[last'.seq].first.time = last'.start
  <2> SUFFICES ASSUME last' # NoCall, now' < last'.start, last' = last
               PROVE  Untouched(last.seq)' /\ eventMap'[last'.seq].first.time = last'.start
    OBVIOUS
  <2>1. last.start \in Nat
    BY DEF TypeOK, Calls
  <2>2. now < last.start
    BY <1>5, <2>1
  <2>3. Untouched(last.seq) /\ eventMap[last.seq].first.time = last.start
    BY <2>2 DEF Counting
  <2> QED BY <1>7, <2>3 DEF Untouched
<1>10. call' # NoCall =>
         /\ now' < call'.start
         /\ IF call'.seq \in DOMAIN eventMap'
            THEN Untouched(call.seq)' /\ eventMap'[call'.seq].first.time = call'.start
            ELSE \A c \in Of(eventSet', CANCEL_SET_CURRENT_EVENT) : c.name # call'.name
  <2> SUFFICES ASSUME call' # NoCall, call' = call
               PROVE  IF call'.seq \in DOMAIN eventMap'
                      THEN Untouched(call.seq)' /\ eventMap'[call'.seq].first.time = call'.start
                      ELSE \A c \in Of(eventSet', CANCEL_SET_CURRENT_EVENT) : c.name # call'.name
    OBVIOUS
  <2>1. CASE call.seq \in DOMAIN eventMap
    BY <1>7, <2>1 DEF Counting, Untouched
  <2>2. CASE call.seq \notin DOMAIN eventMap
    BY <1>1, <2>2 DEF Counting, Cancels
  <2> QED BY <2>1, <2>2
<1> QED BY <1>4, <1>6, <1>8, <1>9, <1>10, Zenon DEF Counting

\* A new request, from a caller that is ahead of time and leaves no cancellation
\* of its name outstanding.
LEMMA ScheduleCounting ==
    ASSUME BatteryAssumption, {"ahead", "settled"} \subseteq Discipline,
           TypeOK, Structure, Counting, NEW r \in Requests, schedule_set_current(r)
    PROVE  Counting'
<1>1. UNCHANGED <<now, eventSet, eventMap, applied>> /\ last' = NoCall
  BY DEF schedule_set_current, threadVars
<1>2. now < r.start /\ \A c \in Of(eventSet, CANCEL_SET_CURRENT_EVENT) : c.name # r.name
  BY DEF schedule_set_current, Admissible
<1>3. nextSeq \notin DOMAIN eventMap
  <2>1. nextSeq \in Nat
    BY DEF TypeOK
  <2> QED BY <2>1, PairFacts
<1>4. call' # NoCall => call'.start = r.start /\ call'.name = r.name /\ call'.seq = nextSeq
  BY DEF schedule_set_current, Pending
<1>5. CountedOnce' /\ \A k \in DOMAIN eventMap' : Begun(k)' => eventMap'[k].first.time <= now'
  BY <1>1 DEF Counting, CountedOnce, Begun
<1>6. \A c \in Of(eventSet', CANCEL_SET_CURRENT_EVENT) :
         /\ c.seq \in DOMAIN eventMap'
         /\ eventMap'[c.seq].first \in eventSet' /\ eventMap'[c.seq].first.name = c.name
         /\ c.time <= eventMap'[c.seq].first.time
         /\ \A d \in Of(eventSet', CANCEL_SET_CURRENT_EVENT) : d.seq = c.seq => d = c
  BY <1>1 DEF Counting
<1>7. call' # NoCall =>
         /\ now' < call'.start
         /\ call'.seq \notin DOMAIN eventMap'
         /\ \A c \in Of(eventSet', CANCEL_SET_CURRENT_EVENT) : c.name # call'.name
  BY <1>1, <1>2, <1>3, <1>4
<1> QED BY <1>1, <1>5, <1>6, <1>7, Zenon DEF Counting

\* The second share of a request, in time.
LEMMA ShareCounting ==
    ASSUME BatteryAssumption, {"ahead", "settled"} \subseteq Discipline,
           TypeOK, Structure, Counting, NEW r \in Requests, SecondShare(r.cur)
    PROVE  Counting'
<1>1. UNCHANGED <<now, eventSet, eventMap, applied>> /\ last' = NoCall
  BY DEF SecondShare, threadVars
<1>2. last \in Calls /\ now < last.start
  BY DEF SecondShare, TypeOK
<1>3. call'.start = last.start /\ call'.seq = last.seq
  BY <1>2 DEF SecondShare, Calls
<1>4. Untouched(last.seq) /\ eventMap[last.seq].first.time = last.start
  BY <1>2 DEF Counting, SecondShare
<1>5. CountedOnce' /\ \A k \in DOMAIN eventMap' : Begun(k)' => eventMap'[k].first.time <= now'
  BY <1>1 DEF Counting, CountedOnce, Begun
<1>6. \A c \in Of(eventSet', CANCEL_SET_CURRENT_EVENT) :
         /\ c.seq \in DOMAIN eventMap'
         /\ eventMap'[c.seq].first \in eventSet' /\ eventMap'[c.seq].first.name = c.name
         /\ c.time <= eventMap'[c.seq].first.time
         /\ \A d \in Of(eventSet', CANCEL_SET_CURRENT_EVENT) : d.seq = c.seq => d = c
  BY <1>1 DEF Counting
<1>7. /\ now' < call'.start /\ call'.seq \in DOMAIN eventMap'
      /\ Untouched(call.seq)' /\ eventMap'[call'.seq].first.time = call'.start
  BY <1>1, <1>2, <1>3, <1>4 DEF Untouched
<1> QED BY <1>1, <1>5, <1>6, <1>7, Zenon DEF Counting

\* Adding a share moves neither event of the request: it changes their current.
LEMMA AddShareCounting ==
    ASSUME BatteryAssumption, TypeOK, Structure, Counting, checkMergeAndInsertEvents,
           call.seq \in DOMAIN eventMap
    PROVE  Counting'
<1>0. PICK q : q = call.seq
  OBVIOUS
<1> DEFINE old   == eventMap[q]
           total == call.cur + old.first.cur
           begin == event_t(call.name, SET_CURRENT_BEGIN, total, call.start, q)
           end   == event_t(call.name, SET_CURRENT_END, total, call.end, q)
<1>1. /\ eventSet' = (eventSet \ {old.first, old.second}) \cup {begin, end}
      /\ eventMap' = [eventMap EXCEPT ![q] = [first |-> begin, second |-> end]]
      /\ UNCHANGED <<now, applied>> /\ call' = NoCall /\ last' = NoCall
  BY <1>0 DEF checkMergeAndInsertEvents, AddShare
<1>2. /\ begin.id = SET_CURRENT_BEGIN /\ begin.seq = q /\ begin.time = call.start
      /\ end.id = SET_CURRENT_END /\ end.seq = q
  BY DEF event_t
<1>3. call # NoCall /\ Untouched(q) /\ old.first.time = call.start /\ now < call.start
  BY <1>0 DEF checkMergeAndInsertEvents, Counting
<1> HIDE DEF begin, end, total
<1>4. /\ DOMAIN eventMap' = DOMAIN eventMap
      /\ eventMap'[q].first = begin
      /\ \A k \in DOMAIN eventMap : k # q => eventMap'[k] = eventMap[k]
  BY <1>0, <1>1
<1>5. Of(eventSet', CANCEL_SET_CURRENT_EVENT) = Cancels
  BY <1>0, <1>1, <1>2, PairFacts DEF Of, Cancels
<1>6. \A k \in DOMAIN eventMap :
         k # q => (eventMap[k].first \in eventSet' <=> eventMap[k].first \in eventSet)
  BY <1>0, <1>1, <1>2, PairFacts
<1>7. \A s : Begun(s)' <=> Begun(s)
  <2>1. ~Begun(q) /\ ~Begun(q)'
    BY <1>1, <1>3, <1>4 DEF Begun, Untouched
  <2>2. \A s : s # q => (Begun(s)' <=> Begun(s))
    BY <1>4, <1>6 DEF Begun
  <2> QED BY <2>1, <2>2, Zenon
<1>8. CountedOnce'
  BY <1>1, <1>7 DEF Counting, CountedOnce
<1>9. \A k \in DOMAIN eventMap' : Begun(k)' => eventMap'[k].first.time <= now'
  BY <1>1, <1>3, <1>4, <1>7 DEF Counting, Begun, Untouched
<1>10. \A c \in Of(eventSet', CANCEL_SET_CURRENT_EVENT) :
         /\ c.seq \in DOMAIN eventMap'
         /\ eventMap'[c.seq].first \in eventSet' /\ eventMap'[c.seq].first.name = c.name
         /\ c.time <= eventMap'[c.seq].first.time
         /\ \A d \in Of(eventSet', CANCEL_SET_CURRENT_EVENT) : d.seq = c.seq => d = c
  <2>1. \A c \in Cancels : c.seq # q
    BY <1>3 DEF Untouched, Cancels
  <2> QED BY <1>4, <1>5, <1>6, <2>1 DEF Counting, Cancels
<1> QED BY <1>1, <1>8, <1>9, <1>10, Zenon DEF Counting

\* Which events of other requests the merge touches: it moves the END of a
\* request cut at its tail and the BEGIN of one cut at its head.
NewCancels(r) == {event_t(r.name, CANCEL_SET_CURRENT_EVENT, 0, r.start, k) : k \in Covered(r)}

Merged(r) ==
    /\ DOMAIN eventMap' = DOMAIN eventMap \cup {r.seq}
    /\ eventMap'[r.seq].first = event_t(r.name, SET_CURRENT_BEGIN, r.cur - Offset(r), r.start, r.seq)
    /\ eventMap'[r.seq].second = event_t(r.name, SET_CURRENT_END, r.cur - Offset(r), r.end, r.seq)
    /\ eventMap'[r.seq].first \in eventSet'
    /\ \A k \in DOMAIN eventMap :
         /\ eventMap'[k].first = IF k \in CutHead(r) THEN Moved(eventMap[k].first, r.end)
                                 ELSE eventMap[k].first
         /\ eventMap'[k].second = IF k \in CutTail(r) THEN Moved(eventMap[k].second, r.start)
                                  ELSE eventMap[k].second
         /\ eventMap'[k].first \in eventSet' <=> eventMap[k].first \in eventSet
    /\ Of(eventSet', CANCEL_SET_CURRENT_EVENT) = Cancels \cup NewCancels(r)

LEMMA MergeEffect ==
    ASSUME BatteryAssumption, TypeOK, Structure, Counting, checkMergeAndInsertEvents,
           call.seq \notin DOMAIN eventMap
    PROVE  Merged(call)
<1>0. PICK r : r = call
  OBVIOUS
<1> DEFINE target == r.cur - Offset(r)
           begin  == event_t(r.name, SET_CURRENT_BEGIN, target, r.start, r.seq)
           end    == event_t(r.name, SET_CURRENT_END, target, r.end, r.seq)
           cut    == [k \in DOMAIN eventMap |->
                        CASE k \in CutTail(r) ->
                               [eventMap[k] EXCEPT !.second = Moved(@, r.start)]
                          [] k \in CutHead(r) ->
                               [eventMap[k] EXCEPT !.first = Moved(@, r.end)]
                          [] OTHER -> eventMap[k]]
           cancels == NewCancels(r)
<1>1. /\ eventSet' =
              (eventSet \ ({eventMap[k].second : k \in CutTail(r)}
                           \cup {eventMap[k].first : k \in CutHead(r)}))
              \cup {cut[k].second : k \in CutTail(r)}
              \cup {cut[k].first : k \in CutHead(r)}
              \cup cancels
              \cup {begin, end}
      /\ eventMap' = [k \in DOMAIN eventMap \cup {r.seq} |->
                          IF k = r.seq THEN [first |-> begin, second |-> end] ELSE cut[k]]
  <2>1. Merge(r)
    BY <1>0 DEF checkMergeAndInsertEvents
  <2> QED BY <2>1 DEF Merge, NewCancels
<1>2. UNCHANGED <<now, applied>> /\ call' = NoCall /\ last' = r
  BY <1>0 DEF checkMergeAndInsertEvents
<1>3. r \in Calls /\ r.seq \in Seqs /\ r.start \in Nat /\ r.end \in Nat /\ r.start <= r.end
  BY <1>0 DEF checkMergeAndInsertEvents, TypeOK, Structure, Drawn, Calls
<1>4. /\ now < r.start /\ now \in Nat /\ r.seq \notin DOMAIN eventMap
      /\ \A c \in Cancels : c.name # r.name
  BY <1>0 DEF checkMergeAndInsertEvents, Counting, Cancels, TypeOK, Times
<1>5. /\ begin.id = SET_CURRENT_BEGIN /\ begin.seq = r.seq /\ begin.time = r.start
      /\ end.id = SET_CURRENT_END /\ end.seq = r.seq
  BY DEF event_t
<1>6. \A k \in CutHead(r) \cup CutTail(r) \cup Covered(r) :
         k \in DOMAIN eventMap /\ eventMap[k].first.name = r.name
  BY DEF CutHead, CutTail, Covered, Outstanding
<1>7. \A k \in CutHead(r) \cup Covered(r) :
         r.start <= eventMap[k].first.time /\ eventMap[k].first \in eventSet
  <2> SUFFICES ASSUME NEW k \in CutHead(r) \cup Covered(r)
               PROVE  r.start <= eventMap[k].first.time /\ eventMap[k].first \in eventSet
    OBVIOUS
  <2>1. r.start <= eventMap[k].first.time
    BY DEF CutHead, Covered, Begins
  <2>2. k \in DOMAIN eventMap /\ eventMap[k].first.time \in Nat
    BY <1>6, PairFacts
  <2>3. now < eventMap[k].first.time
    BY <1>3, <1>4, <2>1, <2>2
  <2>4. ~Begun(k)
    BY <1>4, <2>2, <2>3 DEF Counting
  <2> QED BY <2>1, <2>2, <2>4 DEF Begun
<1>8. CutTail(r) \cap CutHead(r) = {}
  BY DEF CutHead
<1>9. \A k \in DOMAIN eventMap :
         /\ IsEvent(eventMap[k].first) /\ IsEvent(eventMap[k].second)
         /\ eventMap[k] = [first |-> eventMap[k].first, second |-> eventMap[k].second]
  BY DEF TypeOK
<1>10. ASSUME NEW k \in DOMAIN eventMap
       PROVE  /\ k \in CutTail(r) => cut[k].first = eventMap[k].first
                                      /\ cut[k].second = Moved(eventMap[k].second, r.start)
              /\ k \in CutHead(r) => cut[k].first = Moved(eventMap[k].first, r.end)
                                      /\ cut[k].second = eventMap[k].second
              /\ k \notin CutTail(r) \cup CutHead(r) => cut[k] = eventMap[k]
  <2>1. CASE k \in CutTail(r)
    BY <1>8, <1>9, <2>1
  <2>2. CASE k \in CutHead(r)
    BY <1>8, <1>9, <2>2
  <2>3. CASE k \notin CutTail(r) \cup CutHead(r)
    BY <2>3
  <2> QED BY <1>8, <2>1, <2>2, <2>3
<1> HIDE DEF cut, begin, end, target
<1>11. ASSUME NEW k \in DOMAIN eventMap
       PROVE  /\ cut[k].first.id = SET_CURRENT_BEGIN /\ cut[k].first.seq = k
              /\ cut[k].second.id = SET_CURRENT_END /\ cut[k].second.seq = k
              /\ k \notin CutHead(r) => cut[k].first = eventMap[k].first
  <2>1. /\ eventMap[k].first.id = SET_CURRENT_BEGIN /\ eventMap[k].first.seq = k
        /\ eventMap[k].second.id = SET_CURRENT_END /\ eventMap[k].second.seq = k
    BY PairFacts
  <2>2. CASE k \in CutTail(r)
    <3>1. /\ Moved(eventMap[k].second, r.start).id = eventMap[k].second.id
          /\ Moved(eventMap[k].second, r.start).seq = eventMap[k].second.seq
      BY <1>3, <1>9, MovedType
    <3> QED BY <1>10, <2>1, <2>2, <3>1
  <2>3. CASE k \in CutHead(r)
    <3>1. /\ Moved(eventMap[k].first, r.end).id = eventMap[k].first.id
          /\ Moved(eventMap[k].first, r.end).seq = eventMap[k].first.seq
      BY <1>3, <1>9, MovedType
    <3> QED BY <1>10, <2>1, <2>3, <3>1
  <2>4. CASE k \notin CutTail(r) \cup CutHead(r)
    BY <1>10, <2>1, <2>4
  <2> QED BY <2>2, <2>3, <2>4
<1>12. /\ DOMAIN eventMap' = DOMAIN eventMap \cup {r.seq}
       /\ eventMap'[r.seq].first = begin /\ eventMap'[r.seq].second = end
       /\ \A k \in DOMAIN eventMap : eventMap'[k] = cut[k]
  BY <1>1, <1>4
<1>13. \A c \in cancels : /\ c.id = CANCEL_SET_CURRENT_EVENT /\ c.name = r.name
                          /\ c.time = r.start /\ c.seq \in Covered(r)
                          /\ \A d \in cancels : d.seq = c.seq => d = c
  BY DEF event_t, NewCancels
<1> HIDE DEF cancels
<1>14. Of(eventSet', CANCEL_SET_CURRENT_EVENT) = Cancels \cup cancels
  <2>1. ASSUME NEW e \in eventSet', e.id = CANCEL_SET_CURRENT_EVENT
        PROVE  e \in eventSet \/ e \in cancels
    BY <1>1, <1>5, <1>6, <1>11, <2>1
  <2>2. ASSUME NEW e \in eventSet, e.id = CANCEL_SET_CURRENT_EVENT
        PROVE  e \in eventSet'
    BY <1>1, <1>6, <2>2, PairFacts
  <2>3. cancels \subseteq eventSet'
    BY <1>1
  <2> QED BY <1>13, <2>1, <2>2, <2>3 DEF Of, Cancels
<1>15. ASSUME NEW k \in DOMAIN eventMap
       PROVE  eventMap'[k].first \in eventSet' <=> eventMap[k].first \in eventSet
  <2>1. CASE k \in CutHead(r)
    BY <1>1, <1>7, <1>12, <2>1
  <2>2. CASE k \notin CutHead(r)
    <3>1. eventMap'[k].first = eventMap[k].first
      BY <1>11, <1>12, <2>2
    <3> DEFINE e == eventMap[k].first
    <3>2. e.id = SET_CURRENT_BEGIN /\ e.seq = k /\ k # r.seq
      BY <1>4, PairFacts
    <3>3. e \in eventSet => e \in eventSet'
      BY <1>1, <1>6, <2>2, <3>2, PairFacts
    <3>4. e \in eventSet' => e \in eventSet
      BY <1>1, <1>5, <1>6, <1>11, <1>13, <2>2, <3>2
    <3> QED BY <3>1, <3>3, <3>4
  <2> QED BY <2>1, <2>2
<1>16. begin \in eventSet'
  BY <1>1
<1>17. ASSUME NEW k \in DOMAIN eventMap
       PROVE  /\ eventMap'[k].first = IF k \in CutHead(r) THEN Moved(eventMap[k].first, r.end)
                                      ELSE eventMap[k].first
              /\ eventMap'[k].second = IF k \in CutTail(r) THEN Moved(eventMap[k].second, r.start)
                                       ELSE eventMap[k].second
  BY <1>8, <1>10, <1>12
<1>18. Merged(r)
  BY <1>12, <1>14, <1>15, <1>16, <1>17 DEF Merged, begin, end, target, cancels
<1> QED BY <1>0, <1>18

\* A merge leaves what has begun and what is cancelled as it was.
LEMMA MergeCounting ==
    ASSUME BatteryAssumption, TypeOK, Structure, Counting, checkMergeAndInsertEvents,
           call.seq \notin DOMAIN eventMap
    PROVE  Counting'
<1>0. PICK r : r = call
  OBVIOUS
<1> DEFINE begin  == eventMap'[r.seq].first
           cancels == NewCancels(r)
<1>1. Merged(r)
  BY <1>0, MergeEffect
<1>2. UNCHANGED <<now, applied>> /\ call' = NoCall /\ last' = r
  BY <1>0 DEF checkMergeAndInsertEvents
<1>3. r \in Calls /\ r.seq \in Seqs /\ r.start \in Nat /\ r.end \in Nat /\ r.start <= r.end
  BY <1>0 DEF checkMergeAndInsertEvents, TypeOK, Structure, Drawn, Calls
<1>4. /\ now < r.start /\ now \in Nat /\ r.seq \notin DOMAIN eventMap
      /\ \A c \in Cancels : c.name # r.name
  BY <1>0 DEF checkMergeAndInsertEvents, Counting, Cancels, TypeOK, Times
<1>5. begin.time = r.start
  BY <1>1 DEF Merged, event_t
<1>6. \A k \in CutHead(r) \cup CutTail(r) \cup Covered(r) :
         k \in DOMAIN eventMap /\ eventMap[k].first.name = r.name
  BY DEF CutHead, CutTail, Covered, Outstanding
<1>7. \A k \in CutHead(r) \cup Covered(r) :
         r.start <= eventMap[k].first.time /\ eventMap[k].first \in eventSet
  <2> SUFFICES ASSUME NEW k \in CutHead(r) \cup Covered(r)
               PROVE  r.start <= eventMap[k].first.time /\ eventMap[k].first \in eventSet
    OBVIOUS
  <2>1. r.start <= eventMap[k].first.time
    BY DEF CutHead, Covered, Begins
  <2>2. k \in DOMAIN eventMap /\ eventMap[k].first.time \in Nat
    BY <1>6, PairFacts
  <2>3. now < eventMap[k].first.time
    BY <1>3, <1>4, <2>1, <2>2
  <2>4. ~Begun(k)
    BY <1>4, <2>2, <2>3 DEF Counting
  <2> QED BY <2>1, <2>2, <2>4 DEF Begun
<1>11. \A k \in DOMAIN eventMap : k \notin CutHead(r) => eventMap'[k].first = eventMap[k].first
  BY <1>1 DEF Merged
<1>12. DOMAIN eventMap' = DOMAIN eventMap \cup {r.seq}
  BY <1>1 DEF Merged
<1>13. \A c \in cancels : /\ c.id = CANCEL_SET_CURRENT_EVENT /\ c.name = r.name
                          /\ c.time = r.start /\ c.seq \in Covered(r)
                          /\ \A d \in cancels : d.seq = c.seq => d = c
  BY DEF event_t, NewCancels
<1>14. Of(eventSet', CANCEL_SET_CURRENT_EVENT) = Cancels \cup cancels
  BY <1>1 DEF Merged
<1>15. ASSUME NEW k \in DOMAIN eventMap
       PROVE  eventMap'[k].first \in eventSet' <=> eventMap[k].first \in eventSet
  BY <1>1 DEF Merged
<1>16. begin \in eventSet'
  BY <1>1 DEF Merged
<1> HIDE DEF cancels
<1>17. \A s : Begun(s)' <=> Begun(s)
  <2>1. ~Begun(r.seq) /\ r.seq \in DOMAIN eventMap' /\ eventMap'[r.seq].first \in eventSet'
    BY <1>4, <1>12, <1>16 DEF Begun
  <2>2. \A s : s # r.seq => (Begun(s)' <=> Begun(s))
    BY <1>12, <1>15 DEF Begun
  <2> QED BY <2>1, <2>2, Zenon DEF Begun
<1>18. CountedOnce'
  BY <1>2, <1>17 DEF Counting, CountedOnce
<1>19. ASSUME NEW k \in DOMAIN eventMap', Begun(k)'
       PROVE  eventMap'[k].first.time <= now'
  <2>1. k \in DOMAIN eventMap /\ Begun(k)
    BY <1>17, <1>19 DEF Begun
  <2>2. k \notin CutHead(r)
    BY <1>7, <2>1 DEF Begun
  <2> QED BY <1>2, <1>11, <1>12, <2>1, <2>2 DEF Counting
<1>20. ASSUME NEW c \in Of(eventSet', CANCEL_SET_CURRENT_EVENT)
       PROVE  /\ c.seq \in DOMAIN eventMap'
              /\ eventMap'[c.seq].first \in eventSet' /\ eventMap'[c.seq].first.name = c.name
              /\ c.time <= eventMap'[c.seq].first.time
              /\ \A d \in Of(eventSet', CANCEL_SET_CURRENT_EVENT) : d.seq = c.seq => d = c
  <2>1. \A d \in Cancels : /\ d.seq \in DOMAIN eventMap /\ eventMap[d.seq].first.name = d.name
                           /\ d.name # r.name
    BY <1>4 DEF Counting, Cancels
  <2>2. \A d \in Cancels, f \in cancels : d.seq # f.seq
    BY <1>6, <1>13, <2>1
  <2>3. CASE c \in Cancels
    <3>1. c.seq \in DOMAIN eventMap /\ c.seq \notin CutHead(r)
      BY <1>6, <2>1, <2>3
    <3>2. eventMap'[c.seq].first = eventMap[c.seq].first /\ eventMap[c.seq].first \in eventSet
      BY <1>11, <1>12, <2>3, <3>1 DEF Counting, Cancels
    <3>3. \A d \in Cancels : d.seq = c.seq => d = c
      BY <2>3 DEF Counting, Cancels
    <3>4. c.time <= eventMap[c.seq].first.time /\ eventMap[c.seq].first.name = c.name
      BY <2>3 DEF Counting, Cancels
    <3> QED BY <1>12, <1>14, <1>15, <2>2, <2>3, <3>1, <3>2, <3>3, <3>4
  <2>4. CASE c \in cancels
    <3>1. c.seq \in Covered(r) /\ c.seq \in DOMAIN eventMap /\ c.seq \notin CutHead(r)
      BY <1>6, <1>13, <2>4 DEF CutHead
    <3>2. eventMap'[c.seq].first = eventMap[c.seq].first /\ eventMap[c.seq].first \in eventSet
      BY <1>7, <1>11, <1>12, <3>1
    <3>3. c.time <= eventMap[c.seq].first.time /\ eventMap[c.seq].first.name = c.name
      BY <1>6, <1>7, <1>13, <2>4, <3>1
    <3> QED BY <1>12, <1>13, <1>14, <1>15, <2>2, <2>4, <3>1, <3>2, <3>3
  <2> QED BY <1>14, <2>3, <2>4
<1>21. Untouched(r.seq)' /\ eventMap'[r.seq].first.time = r.start
  <2>1. \A c \in Of(eventSet', CANCEL_SET_CURRENT_EVENT) : c.seq # r.seq
    BY <1>4, <1>6, <1>13, <1>14 DEF Counting, Cancels
  <2> QED BY <1>5, <1>12, <1>16, <2>1 DEF Untouched
<1> QED BY <1>2, <1>18, <1>19, <1>20, <1>21, Zenon DEF Counting

\* What a pass of runEventThread does: it takes a batch of due events out of the
\* set and cancels the requests in drop; what it leaves is later than the batch.
IsPass(batch, drop) ==
    /\ batch \subseteq Due
    /\ \A e \in batch : e.id # CANCEL_SET_CURRENT_EVENT
    /\ \A k \in DOMAIN eventMap : /\ eventMap[k].second \in batch
                                  /\ eventMap[k].first \in eventSet
                                  => eventMap[k].first \in batch
    /\ \A k \in drop : \E c \in Cancels : c.seq = k
    /\ \A c \in Cancels : eventMap[c.seq].first \notin batch /\ eventMap[c.seq].second \notin batch
    /\ \A e : e.id # REFRESH => (e \in eventSet' <=> e \in eventSet \ batch /\ e.seq \notin drop)
    /\ \A e \in eventSet' : e.id # REFRESH => \A f \in batch : f.time < e.time
    /\ DOMAIN eventMap' = {k \in DOMAIN eventMap : k \notin drop /\ eventMap[k].second \notin batch}
    /\ \A k \in DOMAIN eventMap' : eventMap'[k] = eventMap[k]
    /\ applied' = [s \in Seqs |-> applied[s] + Count(batch, SET_CURRENT_BEGIN, s)
                                             - Count(batch, SET_CURRENT_END, s)]
    /\ \/ batch = {} /\ UNCHANGED <<current_mA, device>>
       \/ /\ current_mA' = current_mA + Delta(batch)
          /\ device' = IF Delta(batch) # 0 THEN current_mA' ELSE device
    /\ UNCHANGED <<now, call, last, want>>

\* A pass of runEventThread over batch that cancels the requests in drop: each
\* of these has its BEGIN still queued, and the pass has not reached its events.
LEMMA PassCounting ==
    ASSUME BatteryAssumption, TypeOK, Structure, Counting,
           NEW batch, NEW drop, IsPass(batch, drop)
    PROVE  Counting'
<1>0. /\ batch \subseteq Due
      /\ \A e \in batch : e.id # CANCEL_SET_CURRENT_EVENT
      /\ \A k \in DOMAIN eventMap : /\ eventMap[k].second \in batch
                                    /\ eventMap[k].first \in eventSet
                                    => eventMap[k].first \in batch
      /\ \A k \in drop : \E c \in Cancels : c.seq = k
      /\ \A c \in Cancels : eventMap[c.seq].first \notin batch /\ eventMap[c.seq].second \notin batch
  BY DEF IsPass
<1>15. /\ \A e : e.id # REFRESH => (e \in eventSet' <=> e \in eventSet \ batch /\ e.seq \notin drop)
      /\ DOMAIN eventMap' = {k \in DOMAIN eventMap : k \notin drop /\ eventMap[k].second \notin batch}
      /\ \A k \in DOMAIN eventMap' : eventMap'[k] = eventMap[k]
  BY DEF IsPass
<1>16. applied' = [s \in Seqs |-> applied[s] + Count(batch, SET_CURRENT_BEGIN, s)
                                             - Count(batch, SET_CURRENT_END, s)]
  BY DEF IsPass
<1>17. UNCHANGED <<now, call, last>>
  BY DEF IsPass
<1> USE <1>0, <1>15, <1>17
<1>1. \A c \in Cancels : c.seq \in DOMAIN eventMap /\ eventMap[c.seq].first \in eventSet
  BY DEF Counting, Cancels
<1>2. \A k \in drop : /\ k \in DOMAIN eventMap /\ eventMap[k].first \in eventSet
                      /\ eventMap[k].first \notin batch /\ eventMap[k].second \notin batch
  BY <1>1
<1>3. batch \subseteq eventSet /\ \A e \in batch : e.time <= now
  BY DEF Due
<1>4. ASSUME NEW k \in DOMAIN eventMap
      PROVE  /\ (\E e \in batch : e.id = SET_CURRENT_BEGIN /\ e.seq = k) <=> eventMap[k].first \in batch
             /\ (\E e \in batch : e.id = SET_CURRENT_END /\ e.seq = k) <=> eventMap[k].second \in batch
  BY <1>3, PairFacts DEF Structure
<1>5. ASSUME NEW e \in batch, e.id \in {SET_CURRENT_BEGIN, SET_CURRENT_END}
      PROVE  e.seq \in DOMAIN eventMap
  BY <1>3, <1>5 DEF Structure
<1>6. ASSUME NEW k \in DOMAIN eventMap'
      PROVE  eventMap'[k].first \in eventSet' <=> eventMap[k].first \in eventSet \ batch
  <2>1. /\ k \in DOMAIN eventMap /\ k \notin drop /\ eventMap'[k] = eventMap[k]
    OBVIOUS
  <2>2. eventMap[k].first.id = SET_CURRENT_BEGIN /\ eventMap[k].first.seq = k
    BY <2>1, PairFacts
  <2> QED BY <2>1, <2>2
<1>7. CountedOnce'
  <2> SUFFICES ASSUME NEW s \in Seqs PROVE applied'[s] = IF Begun(s)' THEN 1 ELSE 0
    BY DEF CountedOnce
  <2>1. applied[s] = IF Begun(s) THEN 1 ELSE 0
    BY DEF Counting, CountedOnce
  <2>2. applied'[s] = applied[s] + Count(batch, SET_CURRENT_BEGIN, s) - Count(batch, SET_CURRENT_END, s)
    BY <1>16
  <2>3. CASE s \notin DOMAIN eventMap
    <3>1. Count(batch, SET_CURRENT_BEGIN, s) = 0 /\ Count(batch, SET_CURRENT_END, s) = 0
      BY <1>5, <2>3 DEF Count
    <3>2. ~Begun(s) /\ ~Begun(s)'
      BY <2>3 DEF Begun
    <3> QED BY <2>1, <2>2, <3>1, <3>2
  <2>4. CASE s \in DOMAIN eventMap
    <3>1. /\ Count(batch, SET_CURRENT_BEGIN, s) = IF eventMap[s].first \in batch THEN 1 ELSE 0
          /\ Count(batch, SET_CURRENT_END, s) = IF eventMap[s].second \in batch THEN 1 ELSE 0
      BY <1>4, <2>4 DEF Count
    <3>2. Begun(s) <=> eventMap[s].first \notin eventSet
      BY <2>4 DEF Begun
    <3>3. eventMap[s].first \in batch => eventMap[s].first \in eventSet
      BY <1>3
    <3>4. Begun(s)' <=> /\ s \notin drop /\ eventMap[s].second \notin batch
                        /\ eventMap[s].first \notin eventSet \ batch
      BY <1>6, <2>4 DEF Begun
    <3>5. s \in drop => /\ eventMap[s].first \in eventSet
                        /\ eventMap[s].first \notin batch /\ eventMap[s].second \notin batch
      BY <1>2
    <3>6. eventMap[s].second \in batch /\ eventMap[s].first \in eventSet => eventMap[s].first \in batch
      BY <2>4
    <3> QED BY <2>1, <2>2, <3>1, <3>2, <3>3, <3>4, <3>5, <3>6
  <2> QED BY <2>3, <2>4
<1>8. ASSUME NEW k \in DOMAIN eventMap', Begun(k)'
      PROVE  eventMap'[k].first.time <= now'
  <2>1. k \in DOMAIN eventMap /\ eventMap'[k] = eventMap[k]
    OBVIOUS
  <2>2. eventMap[k].first \notin eventSet \/ eventMap[k].first \in batch
    BY <1>6, <1>8 DEF Begun
  <2>3. CASE eventMap[k].first \in batch
    BY <1>3, <2>1, <2>3
  <2>4. CASE eventMap[k].first \notin eventSet
    BY <2>1, <2>4 DEF Counting, Begun
  <2> QED BY <2>2, <2>3, <2>4
<1>9. Of(eventSet', CANCEL_SET_CURRENT_EVENT) = {c \in Cancels : c.seq \notin drop}
  BY DEF Of, Cancels
<1>10. ASSUME NEW c \in Cancels, c.seq \notin drop
       PROVE  /\ c.seq \in DOMAIN eventMap' /\ eventMap'[c.seq] = eventMap[c.seq]
              /\ eventMap'[c.seq].first \in eventSet'
  BY <1>1, <1>6, <1>10
<1>11. \A c \in Of(eventSet', CANCEL_SET_CURRENT_EVENT) :
         /\ c.seq \in DOMAIN eventMap'
         /\ eventMap'[c.seq].first \in eventSet' /\ eventMap'[c.seq].first.name = c.name
         /\ c.time <= eventMap'[c.seq].first.time
         /\ \A d \in Of(eventSet', CANCEL_SET_CURRENT_EVENT) : d.seq = c.seq => d = c
  BY <1>9, <1>10 DEF Counting, Cancels
<1>12. ASSUME NEW k, Untouched(k), now < eventMap[k].first.time
       PROVE  Untouched(k)' /\ k \in DOMAIN eventMap' /\ eventMap'[k] = eventMap[k]
  <2>1. k \in DOMAIN eventMap /\ eventMap[k].first \in eventSet /\ \A c \in Cancels : c.seq # k
    BY <1>12 DEF Untouched, Cancels
  <2>2. k \notin drop
    BY <2>1
  <2>3. now \in Nat /\ eventMap[k].first.time \in Nat
    BY <2>1, PairFacts DEF TypeOK, Times
  <2>4. eventMap[k].first \notin batch
    BY <1>3, <1>12, <2>3
  <2>5. eventMap[k].second \notin batch
    BY <2>1, <2>4
  <2>6. k \in DOMAIN eventMap' /\ eventMap'[k] = eventMap[k] /\ eventMap'[k].first \in eventSet'
    BY <1>6, <2>1, <2>2, <2>4, <2>5
  <2> QED BY <1>9, <2>1, <2>6 DEF Untouched
<1>13. (last' # NoCall /\ now' < last'.start) =>
         Untouched(last.seq)' /\ eventMap'[last'.seq].first.time = last'.start
  <2> SUFFICES ASSUME last # NoCall, now < last.start
               PROVE  Untouched(last.seq)' /\ eventMap'[last.seq].first.time = last.start
    BY <1>17
  <2>1. Untouched(last.seq) /\ eventMap[last.seq].first.time = last.start
    BY DEF Counting
  <2> QED BY <1>12, <2>1 DEF Untouched
<1>14. call' # NoCall =>
         /\ now' < call'.start
         /\ IF call'.seq \in DOMAIN eventMap'
            THEN Untouched(call.seq)' /\ eventMap'[call'.seq].first.time = call'.start
            ELSE \A c \in Of(eventSet', CANCEL_SET_CURRENT_EVENT) : c.name # call'.name
  <2> SUFFICES ASSUME call # NoCall
               PROVE  /\ now < call.start
                      /\ IF call.seq \in DOMAIN eventMap'
                         THEN Untouched(call.seq)' /\ eventMap'[call.seq].first.time = call.start
                         ELSE \A c \in Of(eventSet', CANCEL_SET_CURRENT_EVENT) : c.name # call.name
    BY <1>17
  <2>1. now < call.start
    BY DEF Counting
  <2>2. CASE call.seq \in DOMAIN eventMap
    <3>1. Untouched(call.seq) /\ eventMap[call.seq].first.time = call.start
      BY <2>2 DEF Counting
    <3> QED BY <1>12, <2>1, <3>1 DEF Untouched
  <2>3. CASE call.seq \notin DOMAIN eventMap
    BY <1>9, <2>1, <2>3 DEF Counting, Cancels
  <2> QED BY <2>2, <2>3
<1> QED BY <1>7, <1>8, <1>11, <1>13, <1>14, Zenon DEF Counting

\* A pass without a CANCEL: every CANCEL, and so the request it is for, lies ahead.
LEMMA EventsPass ==
    ASSUME BatteryAssumption, TypeOK, Structure, Counting, RunsEvents
    PROVE  \E drop : IsPass(Due, drop)
<1>1. now \in Nat /\ \A e \in Of(Due, REFRESH) : e.time <= now
  BY DEF TypeOK, Times, Of, Due
<1>2. \A f \in Requeued(Due, now) : f.id = REFRESH
  BY <1>1, RequeuedType
<1>3. DueCancels = {} /\ eventSet # {} /\ Apply(Due, Queued(Due, now), eventMap)
  BY DEF RunsEvents, AtPass
<1>4. Queued(Due, now) # {}
  BY <1>3 DEF Queued
<1>5. /\ eventSet' = Queued(Due, now) \ Due
      /\ eventMap' = Without(eventMap, {e.seq : e \in Of(Due, SET_CURRENT_END)})
      /\ applied' = [s \in Seqs |-> applied[s] + Count(Due, SET_CURRENT_BEGIN, s)
                                               - Count(Due, SET_CURRENT_END, s)]
      /\ current_mA' = current_mA + Delta(Due)
      /\ device' = IF Delta(Due) # 0 THEN current_mA' ELSE device
      /\ UNCHANGED <<now, call, last, want>>
  BY <1>3, <1>4, Zenon DEF Apply, callVars
<1>6. Due \subseteq eventSet /\ \A e \in eventSet : e \in Due <=> e.time <= now
  BY DEF Due
<1>7. \A e \in Due : e.id # CANCEL_SET_CURRENT_EVENT
  BY <1>3 DEF DueCancels, Of
<1>8. ASSUME NEW k \in DOMAIN eventMap, eventMap[k].second \in Due, eventMap[k].first \in eventSet
      PROVE  eventMap[k].first \in Due
  BY <1>1, <1>6, <1>8, PairFacts
<1>9. ASSUME NEW c \in Cancels
      PROVE  eventMap[c.seq].first \notin Due /\ eventMap[c.seq].second \notin Due
  <2>1. c \in eventSet /\ c.time \in Nat /\ c \notin Due
    BY <1>7 DEF Cancels, Of, TypeOK, IsEvent
  <2>2. c.seq \in DOMAIN eventMap /\ c.time <= eventMap[c.seq].first.time
    BY DEF Counting, Cancels
  <2> QED BY <1>1, <1>6, <2>1, <2>2, PairFacts
<1>10. PICK drop : drop = {}
  OBVIOUS
<1>11. ASSUME NEW e, e.id # REFRESH
       PROVE  e \in eventSet' <=> e \in eventSet \ Due /\ e.seq \notin drop
  BY <1>2, <1>5, <1>10, <1>11 DEF Queued
<1>12. /\ DOMAIN eventMap' = {k \in DOMAIN eventMap : k \notin drop /\ eventMap[k].second \notin Due}
       /\ \A k \in DOMAIN eventMap' : eventMap'[k] = eventMap[k]
  <2>1. \A k \in DOMAIN eventMap :
           k \in {e.seq : e \in Of(Due, SET_CURRENT_END)} <=> eventMap[k].second \in Due
    BY <1>6, PairFacts DEF Structure, Of
  <2> QED BY <1>5, <1>10, <2>1 DEF Without
<1>13. ASSUME NEW e \in eventSet', e.id # REFRESH, NEW f \in Due PROVE f.time < e.time
  <2>1. e \in eventSet /\ e \notin Due /\ f \in eventSet /\ f.time <= now
    BY <1>11, <1>13 DEF Due
  <2>2. e.time \in Nat /\ f.time \in Nat /\ ~(e.time <= now)
    BY <1>6, <2>1 DEF TypeOK, IsEvent
  <2> QED BY <1>1, <2>1, <2>2
<1>14. IsPass(Due, drop)
  <2>1. \A k \in drop : \E c \in Cancels : c.seq = k
    BY <1>10
  <2> QED BY <1>5, <1>7, <1>8, <1>9, <1>11, <1>12, <1>13, <2>1, Zenon DEF IsPass
<1> QED BY <1>14

\* A pass that stops at a CANCEL: the request it is for has not begun, and no
\* event at or after the CANCEL is collected before it.
LEMMA CancelPass ==
    ASSUME BatteryAssumption, TypeOK, Structure, Counting, RunsCancel
    PROVE  \E batch, drop : IsPass(batch, drop)
<1>1. PICK c \in eventSet :
         /\ StopsAtCancel(c) /\ c.seq \in DOMAIN eventMap
         /\ CancelAt(c, {c, eventMap[c.seq].first, eventMap[c.seq].second})
  BY DEF RunsCancel
<1>2. c.id = CANCEL_SET_CURRENT_EVENT /\ c \in Cancels
  BY <1>1 DEF StopsAtCancel, Cancels, Of
<1>3. PICK batch, horizon, q :
         /\ batch = BatchBefore(c) /\ q = c.seq
         /\ horizon = IF c.time <= now THEN c.time - 1 ELSE now
  OBVIOUS
<1> DEFINE pair == {c, eventMap[q].first, eventMap[q].second}
           set  == Queued(batch, horizon) \ pair
           map  == Without(eventMap, {q})
<1>4. now \in Nat /\ \A e \in eventSet : IsEvent(e) /\ e.time \in Nat /\ e.id \in EventIDs
  BY DEF TypeOK, IsEvent, Times
<1>5. batch \subseteq Due /\ batch \subseteq eventSet
  BY <1>3 DEF BatchBefore, Due
<1>6. \A d \in Cancels : c.time <= d.time /\ ~Before(d, c)
  <2> SUFFICES ASSUME NEW d \in Cancels PROVE c.time <= d.time /\ ~Before(d, c)
    OBVIOUS
  <2>0. /\ d \in eventSet /\ d.time \in Nat /\ c.time \in Nat /\ d.id = c.id
        /\ d.seq \in Nat /\ c.seq \in Nat
    BY <1>1, <1>2, <1>4 DEF Cancels, Of, IsEvent, Seqs
  <2>1. d = c \/ Before(c, d)
    <3>1. CASE DueCancels # {}
      <4>1. IsFirst(c, DueCancels)
        BY <1>1, <3>1 DEF StopsAtCancel
      <4>2. CASE d \in DueCancels
        BY <4>1, <4>2 DEF IsFirst
      <4>3. CASE d \notin DueCancels
        BY <1>4, <2>0, <4>1, <4>3 DEF IsFirst, DueCancels, Due, Of, Cancels, Before
      <4> QED BY <4>2, <4>3
    <3>2. CASE DueCancels = {}
      <4>1. IsFirst(c, Later)
        BY <1>1, <3>2 DEF StopsAtCancel
      <4>2. d \in Later
        BY <1>4, <2>0, <3>2 DEF Later, DueCancels, Due, Of, Cancels, Queued
      <4> QED BY <4>1, <4>2 DEF IsFirst
    <3> QED BY <3>1, <3>2
  <2> QED BY <1>2, <2>0, <2>1 DEF Before
<1>7. \A e \in batch : e.id # CANCEL_SET_CURRENT_EVENT
  BY <1>3, <1>5, <1>6 DEF BatchBefore, Cancels, Of
<1>8. \A e \in batch : e.time < c.time /\ e.time <= now
  BY <1>2, <1>3, <1>7, BatchEarlier
<1>9. \A e \in eventSet : e.time < c.time /\ e.time <= now => e \in batch
  BY <1>3 DEF BatchBefore, Before, Due
<1>10. ASSUME NEW k \in DOMAIN eventMap, eventMap[k].second \in batch, eventMap[k].first \in eventSet
       PROVE  eventMap[k].first \in batch
  BY <1>1, <1>4, <1>8, <1>9, <1>10, PairFacts
<1>11. ASSUME NEW d \in Cancels
       PROVE  eventMap[d.seq].first \notin batch /\ eventMap[d.seq].second \notin batch
  <2>1. d.seq \in DOMAIN eventMap /\ d.time <= eventMap[d.seq].first.time
    BY DEF Counting, Cancels
  <2>2. c.time <= d.time /\ d.time \in Nat /\ c.time \in Nat
    BY <1>1, <1>4, <1>6 DEF Cancels, Of
  <2>3. c.time <= eventMap[d.seq].first.time /\ c.time <= eventMap[d.seq].second.time
    BY <2>1, <2>2, PairFacts
  <2> QED BY <1>8, <2>1, <2>2, <2>3, PairFacts
<1>12. \A f \in Requeued(batch, horizon) : f.id = REFRESH
  <2>1. horizon \in Int
    BY <1>1, <1>3, <1>4
  <2>2. \A e \in Of(batch, REFRESH) : e.time <= horizon
    BY <1>1, <1>3, <1>4, <1>5, <1>8 DEF Of
  <2> QED BY <1>5, <2>1, <2>2, RequeuedType
<1>13. q \in DOMAIN eventMap /\ pair \subseteq eventSet /\ \A e \in pair : e.id # REFRESH /\ e.seq = q
  <2>1. eventMap[q].first \in eventSet
    BY <1>2, <1>3 DEF Counting, Cancels
  <2> QED BY <1>1, <1>2, <1>3, <2>1, PairFacts
<1>14. \A e \in eventSet : e.id # REFRESH /\ e.seq = q => e \in pair
  <2> SUFFICES ASSUME NEW e \in eventSet, e.id # REFRESH, e.seq = q PROVE e \in pair
    OBVIOUS
  <2>1. CASE e.id = CANCEL_SET_CURRENT_EVENT
    BY <1>2, <1>3, <2>1 DEF Counting, Cancels, Of
  <2>2. CASE e.id \in {SET_CURRENT_BEGIN, SET_CURRENT_END}
    BY <2>2 DEF Structure
  <2> QED BY <1>4, <2>1, <2>2 DEF EventIDs
<1>15. pair \cap batch = {}
  BY <1>2, <1>3, <1>7, <1>11
<1>16. Apply(batch, set, map)
  BY <1>1, <1>3 DEF CancelAt
<1>17. /\ eventSet' = set \ batch
       /\ eventMap' = Without(map, {e.seq : e \in Of(batch, SET_CURRENT_END)})
       /\ applied' = [s \in Seqs |-> applied[s] + Count(batch, SET_CURRENT_BEGIN, s)
                                                - Count(batch, SET_CURRENT_END, s)]
       /\ \/ batch = {} /\ UNCHANGED <<current_mA, device>>
          \/ /\ current_mA' = current_mA + Delta(batch)
             /\ device' = IF Delta(batch) # 0 THEN current_mA' ELSE device
  <2>1. CASE set # {}
    <3> HIDE DEF set, map
    <3> QED BY <1>16, <2>1, Zenon DEF Apply
  <2>2. CASE set = {}
    <3>1. batch = {}
      BY <1>5, <1>15, <2>2 DEF Queued
    <3>2. eventSet' = set /\ eventMap' = map /\ applied' = applied
          /\ UNCHANGED <<current_mA, device>>
      <4> HIDE DEF set, map
      <4> QED BY <1>16, <2>2 DEF Apply
    <3>3. {e.seq : e \in Of(batch, SET_CURRENT_END)} = {}
      BY <3>1 DEF Of
    <3>4. Without(map, {}) = map
      BY DEF Without
    <3>5. applied = [s \in Seqs |-> applied[s] + Count(batch, SET_CURRENT_BEGIN, s)
                                               - Count(batch, SET_CURRENT_END, s)]
      <4>1. applied \in [Seqs -> Int]
        BY DEF TypeOK
      <4>2. \A s \in Seqs : /\ Count(batch, SET_CURRENT_BEGIN, s) = 0
                            /\ Count(batch, SET_CURRENT_END, s) = 0
        BY <3>1 DEF Count
      <4> QED BY <4>1, <4>2
    <3> QED BY <3>1, <3>2, <3>3, <3>4, <3>5
  <2> QED BY <2>1, <2>2
<1>18. UNCHANGED <<now, call, last, want>>
  BY <1>16, Zenon DEF Apply, callVars
<1>19. ASSUME NEW e, e.id # REFRESH
       PROVE  e \in eventSet' <=> e \in eventSet \ batch /\ e.seq \notin {q}
  BY <1>12, <1>13, <1>14, <1>17, <1>19 DEF Queued
<1>20. /\ DOMAIN eventMap' = {k \in DOMAIN eventMap : k \notin {q} /\ eventMap[k].second \notin batch}
       /\ \A k \in DOMAIN eventMap' : eventMap'[k] = eventMap[k]
  <2>1. \A k \in DOMAIN eventMap :
           k \in {e.seq : e \in Of(batch, SET_CURRENT_END)} <=> eventMap[k].second \in batch
    BY <1>5, PairFacts DEF Structure, Of
  <2> QED BY <1>17, <2>1 DEF Without
<1>21. \A k \in {q} : \E d \in Cancels : d.seq = k
  BY <1>2, <1>3
<1>22. ASSUME NEW e \in eventSet', e.id # REFRESH, NEW f \in batch PROVE f.time < e.time
  <2>1. e \in eventSet /\ e \notin batch
    BY <1>19, <1>22
  <2>2. ~(e.time < c.time /\ e.time <= now) /\ f.time < c.time /\ f.time <= now /\ f \in eventSet
    BY <1>5, <1>8, <1>9, <2>1
  <2>3. e.time \in Nat /\ f.time \in Nat /\ c.time \in Nat
    BY <1>1, <1>4, <2>1, <2>2
  <2> QED BY <1>4, <2>2, <2>3
<1> HIDE DEF set, map, pair
<1>23. IsPass(batch, {q})
  BY <1>5, <1>7, <1>10, <1>11, <1>17, <1>18, <1>19, <1>20, <1>21, <1>22, Zenon DEF IsPass
<1> QED BY <1>23

\* Every step of either thread keeps the count.
LEMMA NextCounting ==
    ASSUME BatteryAssumption, {"ahead", "settled"} \subseteq Discipline,
           TypeOK, Structure, TypeOK', Counting, [Next]_vars
    PROVE  Counting'
<1>0. now \in Nat /\ (call # NoCall => now < call.start)
  BY DEF TypeOK, Times, Counting
<1>1. ASSUME UNCHANGED <<now, call, eventSet, eventMap, applied>>, last' = last \/ last' = NoCall
      PROVE  Counting'
  BY <1>0, <1>1, QuietCounting
<1>2. CASE UNCHANGED vars
  BY <1>1, <1>2 DEF vars
<1>3. CASE Build
  <2>1. UNCHANGED <<now, call, last, eventMap, applied>>
    BY <1>3 DEF Build, threadVars, callVars
  <2>2. eventSet \subseteq eventSet' /\ \A e \in eventSet' : e \in eventSet \/ e.id = REFRESH
    BY <1>3 DEF Build, setSourceBattery, AggregateBattery, event_t
  <2> QED BY <1>0, <2>1, <2>2, QuietCounting
<1>4. CASE \E r \in Requests : schedule_set_current(r)
  BY <1>4, ScheduleCounting
<1>5. CASE \E r \in Requests : SecondShare(r.cur)
  BY <1>5, ShareCounting
<1>6. CASE checkMergeAndInsertEvents
  BY <1>6, AddShareCounting, MergeCounting
<1>7. CASE getStatus
  BY <1>1, <1>7 DEF getStatus, threadVars, callVars
<1>8. CASE setBatteryStatus
  BY <1>1, <1>8 DEF setBatteryStatus, threadVars
<1>9. CASE \E mode \in Modes : setRefreshMode(mode)
  <2>1. UNCHANGED <<now, call, last, eventMap, applied>>
    BY <1>9 DEF setRefreshMode
  <2>2. eventSet \subseteq eventSet' /\ \A e \in eventSet' : e \in eventSet \/ e.id = REFRESH
    BY <1>9 DEF setRefreshMode, event_t
  <2> QED BY <1>0, <2>1, <2>2, QuietCounting
<1>10. CASE \E ms \in Stalenesses : setMaxStaleness(ms)
  BY <1>1, <1>10 DEF setMaxStaleness, threadVars
<1>11. CASE quit
  BY <1>1, <1>11 DEF quit, callVars
<1>12. CASE ThreadWakes
  BY <1>1, <1>12 DEF ThreadWakes, callVars
<1>13. CASE Thread
  <2>1. CASE ThreadWaits
    BY <1>1, <2>1 DEF ThreadWaits, callVars
  <2>2. CASE ThreadQuits
    BY <1>1, <2>2 DEF ThreadQuits, callVars
  <2>3. CASE RunsEvents
    BY <2>3, EventsPass, PassCounting
  <2>4. CASE RunsCancel
    BY <2>4, CancelPass, PassCounting
  <2>5. CASE DiesOfStaleCancel
    BY <1>1, <2>5 DEF DiesOfStaleCancel, Dies, callVars
  <2>6. CASE DiesAtEnd
    BY <1>1, <2>6 DEF DiesAtEnd, Dies, callVars
  <2> QED BY <1>13, <2>1, <2>2, <2>3, <2>4, <2>5, <2>6 DEF Thread
<1>14. CASE Tick
  <2>1. UNCHANGED <<call, last, eventSet, eventMap, applied>> /\ now' = now + 1
    BY <1>14 DEF Tick, threadVars, callVars
  <2>2. call # NoCall => now' < call.start
    BY <1>14 DEF Tick
  <2> QED BY <1>0, <2>1, <2>2, QuietCounting
<1> QED BY <1>2, <1>3, <1>4, <1>5, <1>6, <1>7, <1>8, <1>9, <1>10, <1>11, <1>12, <1>13, <1>14
        DEF Next

\* For callers that are ahead of time and leave no cancellation of their name
\* outstanding, runEventThread counts every request once from its BEGIN to its
\* END, whatever is cut, shared, offset or cancelled in between.
THEOREM EachCountedOnce ==
    ASSUME {"ahead", "settled"} \subseteq Discipline
    PROVE  Spec => []CountedOnce
<1>1. Init => Counting
  BY BatteryAssumption, InitCounting
<1>2. TypeOK /\ Structure /\ Counting /\ [Next]_vars => Counting'
  BY BatteryAssumption, NextStructure, NextCounting
<1>3. Spec => [](TypeOK /\ Structure)
  BY TypeCorrect
<1>4. Counting => CountedOnce
  BY DEF Counting
<1> QED BY <1>1, <1>2, <1>3, <1>4, PTL DEF Spec

-----------------------------------------------------------------------------
\* A battery that is always in ACTIVE mode, and not used before it is built.
Busy ==
    /\ refreshMode = "ACTIVE"
    /\ built \/ (eventSet = {} /\ call = NoCall /\ last = NoCall)

LEMMA NextBusy ==
    ASSUME BatteryAssumption, Modes \subseteq {"ACTIVE"}, TypeOK, Busy, [Next]_vars
    PROVE  Busy'
<1>1. ASSUME refreshMode' = refreshMode, built' \/ UNCHANGED <<built, eventSet, call, last>>
      PROVE  Busy'
  BY <1>1, Zenon DEF Busy
<1>2. ASSUME built, UNCHANGED <<built, refreshMode>>
      PROVE  Busy'
  BY <1>2, Zenon DEF Busy
<1>3. CASE UNCHANGED vars
  BY <1>1, <1>3, Zenon DEF vars
<1>4. CASE Build
  BY <1>1, <1>4, Zenon DEF Build
<1>5. CASE \E r \in Requests : schedule_set_current(r)
  BY <1>2, <1>5, Zenon DEF schedule_set_current, configVars
<1>6. CASE \E r \in Requests : SecondShare(r.cur)
  BY <1>2, <1>6, Zenon DEF SecondShare, configVars, Busy
<1>7. CASE checkMergeAndInsertEvents
  BY <1>2, <1>7, Zenon DEF checkMergeAndInsertEvents, configVars, Busy
<1>8. CASE getStatus \/ setBatteryStatus
  BY <1>2, <1>8, Zenon DEF getStatus, setBatteryStatus, configVars
<1>9. CASE \E mode \in Modes : setRefreshMode(mode)
  BY <1>9, Zenon DEF setRefreshMode, Busy
<1>10. CASE \E ms \in Stalenesses : setMaxStaleness(ms)
  BY <1>2, <1>10, Zenon DEF setMaxStaleness
<1>11. CASE quit
  BY <1>2, <1>11, Zenon DEF quit
<1>12. CASE ThreadWakes \/ Tick \/ ThreadWaits \/ ThreadQuits \/ DiesOfStaleCancel \/ DiesAtEnd
  BY <1>1, <1>12, Zenon DEF ThreadWakes, Tick, ThreadWaits, ThreadQuits, DiesOfStaleCancel,
     DiesAtEnd, Dies, configVars, callVars
<1>13. CASE RunsEvents
  BY <1>2, <1>13, Zenon DEF RunsEvents, AtPass, Apply, configVars, Busy
<1>14. CASE RunsCancel
  BY <1>2, <1>14, Zenon DEF RunsCancel, AtPass, CancelAt, Apply, configVars, Busy
<1> QED BY <1>3, <1>4, <1>5, <1>6, <1>7, <1>8, <1>9, <1>10, <1>11, <1>12, <1>13, <1>14, Zenon
        DEF Next, Thread

\* In ACTIVE mode a pass always finds an event ahead of the clock, so that the
\* loop's iterator never reaches end().
LEMMA SomethingLater ==
    ASSUME BatteryAssumption, TypeOK, RefreshKeepsComing, Busy, AtPass
    PROVE  Later # {}
<1>1. built /\ refreshMode = "ACTIVE" /\ pc # "none"
  BY DEF Busy, AtPass, Running
<1>2. PICK e \in Of(eventSet, REFRESH), s \in Stalenesses : e.time <= now + s
  BY <1>1 DEF RefreshKeepsComing
<1>3. e \in eventSet /\ e.id = REFRESH
  BY <1>2 DEF Of
<1>4. maxStaleness \in Nat \ {0} /\ now \in Nat /\ IsEvent(e)
  <2>1. maxStaleness \in Stalenesses /\ now \in Times /\ IsEvent(e)
    BY <1>3, Zenon DEF TypeOK
  <2> QED BY <2>1 DEF Times, BatteryAssumption
<1>5. e.time \in Nat
  BY <1>4 DEF IsEvent
<1>6. CASE e.time > now
  BY <1>3, <1>6 DEF Later, Queued
<1>7. CASE ~(e.time > now)
  <2>1. e.time <= now
    BY <1>4, <1>5, <1>7
  <2> DEFINE t == NextRefresh(e.time, now)
  <2>2. t \in Nat /\ now < t
    <3>1. now \in Int /\ maxStaleness \in Nat \ {0}
      BY <1>4
    <3> QED BY <1>5, <2>1, <3>1, NextRefreshBounds, Zenon DEF NextRefresh
  <2>3. Moved(e, t).time = t
    BY <1>4, <2>2, MovedType
  <2>4. Moved(e, t) \in Queued(Due, now)
    <3>1. e \in Of(Due, REFRESH)
      BY <1>3, <2>1 DEF Due, Of
    <3>2. Moved(e, t) \in Requeued(Due, now)
      BY <1>1, <3>1 DEF Requeued
    <3> QED BY <3>2 DEF Queued
  <2>5. Moved(e, t).time > now
    BY <1>4, <2>2, <2>3
  <2> QED BY <2>4, <2>5 DEF Later
<1> QED BY <1>6, <1>7

\* The event thread of a battery kept in ACTIVE mode, with callers that are
\* ahead of time and leave no cancellation of their name outstanding, runs into
\* neither of the two lookups of runEventThread that would end the process: no
\* CANCEL outlives its request, and the iterator never stands at end().
THEOREM ThreadSurvives ==
    ASSUME {"ahead", "settled"} \subseteq Discipline, Mode = "ACTIVE", Modes \subseteq {"ACTIVE"}
    PROVE  Spec => []NeverDies
<1> DEFINE Inv == Counting /\ RefreshKeepsComing /\ Busy /\ NeverDies
<1>1. Init => Inv
  <2>1. Init => Busy /\ NeverDies
    BY Zenon DEF Init, Busy, NeverDies
  <2> QED BY <2>1, BatteryAssumption, InitCounting, InitRefresh
<1>2. TypeOK /\ Structure /\ Inv /\ [Next]_vars => Inv'
  <2> SUFFICES ASSUME TypeOK, Structure, Inv, [Next]_vars PROVE Inv'
    OBVIOUS
  <2>1. TypeOK' /\ Counting' /\ RefreshKeepsComing' /\ Busy'
    BY BatteryAssumption, NextStructure, NextCounting, NextRefreshKept, NextBusy
  <2>2. ~DiesOfStaleCancel
    <3>1. \A c \in eventSet : c.id = CANCEL_SET_CURRENT_EVENT => c.seq \in DOMAIN eventMap
      BY DEF Counting, Of
    <3> QED BY <3>1 DEF DiesOfStaleCancel, StopsAtCancel
  <2>3. ~DiesAtEnd
    BY BatteryAssumption, SomethingLater, Zenon DEF DiesAtEnd
  <2>4. NeverDies'
    <3>1. CASE UNCHANGED vars \/ Build \/ getStatus \/ setBatteryStatus \/ Tick
      BY <3>1 DEF vars, Build, getStatus, setBatteryStatus, Tick, threadVars, NeverDies
    <3>2. CASE \E r \in Requests : schedule_set_current(r) \/ SecondShare(r.cur)
      BY <3>2 DEF schedule_set_current, SecondShare, threadVars, NeverDies
    <3>3. CASE checkMergeAndInsertEvents \/ quit
      BY <3>3 DEF checkMergeAndInsertEvents, quit, Notified, NeverDies
    <3>4. CASE (\E mode \in Modes : setRefreshMode(mode)) \/ \E ms \in Stalenesses : setMaxStaleness(ms)
      BY <3>4 DEF setRefreshMode, setMaxStaleness, threadVars, Notified, NeverDies
    <3>5. CASE ThreadWakes \/ ThreadWaits \/ ThreadQuits
      BY <3>5 DEF ThreadWakes, ThreadWaits, ThreadQuits, NeverDies
    <3>6. CASE RunsEvents \/ RunsCancel
      <4>1. pc' = "scan"
        BY <3>6, Zenon DEF RunsEvents, RunsCancel, CancelAt, Apply
      <4> QED BY <4>1 DEF NeverDies
    <3> QED BY <2>2, <2>3, <3>1, <3>2, <3>3, <3>4, <3>5, <3>6 DEF Next, Thread
  <2> QED BY <2>1, <2>4
<1>3. Spec => [](TypeOK /\ Structure)
  BY TypeCorrect
<1>4. Inv => NeverDies
  OBVIOUS
<1> QED BY <1>1, <1>2, <1>3, <1>4, PTL DEF Spec

-----------------------------------------------------------------------------
(***************************************************************************)
(* Sums of currents.                                                       *)
(***************************************************************************)
\* The currents of the requests of a map, by number.
Curs(map) == [k \in DOMAIN map |-> map[k].first.cur]

\* A map whose pairs have one current, and keys that tell them apart.
Whole(map) ==
    /\ IsFiniteSet(DOMAIN map)
    /\ \A k \in DOMAIN map :
         /\ map[k].first.cur \in Int /\ map[k].second.cur = map[k].first.cur
         /\ map[k].first.seq = k /\ map[k].second.seq = k

\* The sum runEventThread forms over events is a sum over the set.
LEMMA SumCurSums ==
    ASSUME NEW S, IsFiniteSet(S)
    PROVE  SumCur(S) = SumOver([e \in S |-> e.cur], S)
<1>1. PICK f : f = [e \in S |-> e.cur]
  OBVIOUS
<1> DEFINE P(g) == g = [s \in SUBSET S |-> IF s = {} THEN 0 ELSE Pick(s).cur + g[s \ {Pick(s)}]]
<1>2. SumCur(S) = (CHOOSE g : P(g))[S]
  BY DEF SumCur, MapThenSumSet, MapThenFoldSet, Pick
<1>3. ASSUME NEW g PROVE P(g) <=> IsFold(g, f, S)
  <2>1. \A s \in SUBSET S : s # {} => Pick(s) \in S /\ Pick(s).cur = f[Pick(s)]
    BY <1>1 DEF Pick
  <2>2. [s \in SUBSET S |-> IF s = {} THEN 0 ELSE Pick(s).cur + g[s \ {Pick(s)}]]
        = [s \in SUBSET S |-> IF s = {} THEN 0 ELSE f[Pick(s)] + g[s \ {Pick(s)}]]
    BY <2>1
  <2> QED BY <2>2 DEF IsFold
<1>4. PICK g : g = CHOOSE h : P(h)
  OBVIOUS
<1> HIDE DEF P
<1>5. IsFold(g, f, S)
  <2>1. \E h : P(h)
    BY <1>3, FoldExists
  <2>2. P(g)
    BY <1>4, <2>1
  <2> QED BY <1>3, <2>2
<1>6. S \in SUBSET S
  OBVIOUS
<1> QED BY <1>1, <1>2, <1>4, <1>5, <1>6, FoldSums

\* So the sum over the BEGINs, or over the ENDs, of requests is that of their currents.
LEMMA PairSums ==
    ASSUME NEW map, Whole(map), NEW K \in SUBSET DOMAIN map
    PROVE  /\ IsFiniteSet(K)
           /\ \A k \in K : Curs(map)[k] \in Int
           /\ SumOver(Curs(map), K) \in Int
           /\ SumCur({map[k].first : k \in K}) = SumOver(Curs(map), K)
           /\ SumCur({map[k].second : k \in K}) = SumOver(Curs(map), K)
<1>1. IsFiniteSet(K)
  BY FS_Subset DEF Whole
<1>2. \A k \in K : Curs(map)[k] \in Int /\ map[k].first.cur = Curs(map)[k]
                   /\ map[k].second.cur = Curs(map)[k]
  BY DEF Whole, Curs
<1>3. ASSUME NEW e, \A k \in K : e[k].cur = Curs(map)[k] /\ e[k].seq = k,
             NEW S, S = {e[k] : k \in K}
      PROVE  SumCur(S) = SumOver(Curs(map), K)
  <2>1. PICK g : g = [x \in S |-> x.cur]
    OBVIOUS
  <2>2. \A k \in K : Curs(map)[k] \in Int /\ g[e[k]] = Curs(map)[k]
    BY <1>2, <1>3, <2>1
  <2>3. \A j, k \in K : e[j] = e[k] => j = k
    BY <1>3
  <2>4. IsFiniteSet(S) /\ SumOver(g, S) = SumOver(Curs(map), K)
    BY <1>1, <1>3, <2>2, <2>3, SumImage
  <2> QED BY <2>1, <2>4, SumCurSums
<1>4. SumOver(Curs(map), K) \in Int
  BY <1>1, <1>2, SumType
<1>5. SumCur({map[k].first : k \in K}) = SumOver(Curs(map), K)
  <2>1. PICK e : e = [k \in K |-> map[k].first]
    OBVIOUS
  <2>2. \A k \in K : e[k].cur = Curs(map)[k] /\ e[k].seq = k
    BY <1>2, <2>1 DEF Whole
  <2>3. PICK S : S = {map[k].first : k \in K}
    OBVIOUS
  <2>4. S = {e[k] : k \in K}
    BY <2>1, <2>3
  <2>5. SumCur(S) = SumOver(Curs(map), K)
    BY <1>3, <2>2, <2>4
  <2> QED BY <2>3, <2>5
<1>6. SumCur({map[k].second : k \in K}) = SumOver(Curs(map), K)
  <2>1. PICK e : e = [k \in K |-> map[k].second]
    OBVIOUS
  <2>2. \A k \in K : e[k].cur = Curs(map)[k] /\ e[k].seq = k
    BY <1>2, <2>1 DEF Whole
  <2>3. PICK S : S = {map[k].second : k \in K}
    OBVIOUS
  <2>4. S = {e[k] : k \in K}
    BY <2>1, <2>3
  <2>5. SumCur(S) = SumOver(Curs(map), K)
    BY <1>3, <2>2, <2>4
  <2> QED BY <2>3, <2>5
<1> QED BY <1>1, <1>2, <1>4, <1>5, <1>6

-----------------------------------------------------------------------------
(***************************************************************************)
(* How far the battery has got.                                            *)
(***************************************************************************)
Work(set, time) == {e \in set : e.time <= time /\ e.id # REFRESH}
Reached(set, time) ==
    IF Work(set, time) = {} THEN time ELSE Min({e.time : e \in Work(set, time)}) - 1

\* It is the last moment before every event but a refresh.
LEMMA ReachedFacts ==
    ASSUME NEW set, \A e \in set : e.time \in Nat, NEW time \in Nat
    PROVE  /\ Reached(set, time) \in Int /\ Reached(set, time) <= time
           /\ \A e \in set : e.id # REFRESH => Reached(set, time) < e.time
           /\ \A u \in Int : u <= time /\ (\A e \in set : e.id # REFRESH => u < e.time)
                              => u <= Reached(set, time)
<1>1. CASE Work(set, time) = {}
  <2>1. Reached(set, time) = time
    BY <1>1 DEF Reached
  <2>2. \A e \in set : e.id # REFRESH => time < e.time
    BY <1>1 DEF Work
  <2> QED BY <2>1, <2>2
<1>2. CASE Work(set, time) # {}
  <2> DEFINE T == {e.time : e \in Work(set, time)}
  <2>1. T \subseteq Nat /\ T # {}
    BY <1>2 DEF Work
  <2>2. \E n \in T : \A m \in T : n <= m
    <3> HIDE DEF T
    <3> QED BY <2>1, Least
  <2>3. Min(T) \in T /\ \A m \in T : Min(T) <= m
    <3> HIDE DEF T
    <3> QED BY <2>2 DEF Min
  <2>4. PICK f \in Work(set, time) : f.time = Min(T)
    BY <2>3
  <2>5. Reached(set, time) = f.time - 1
    BY <1>2, <2>4 DEF Reached
  <2>6. f \in set /\ f.time \in Nat /\ f.time <= time /\ f.id # REFRESH
    BY <2>4 DEF Work
  <2>7. ASSUME NEW e \in set, e.id # REFRESH PROVE f.time - 1 < e.time
    <3>1. CASE e.time <= time
      <4>1. e \in Work(set, time)
        BY <2>7, <3>1 DEF Work
      <4>2. f.time <= e.time
        BY <2>3, <2>4, <4>1
      <4> QED BY <2>6, <4>2
    <3>2. CASE ~(e.time <= time)
      BY <2>6, <3>2
    <3> QED BY <3>1, <3>2
  <2>8. ASSUME NEW u \in Int, \A e \in set : e.id # REFRESH => u < e.time PROVE u <= f.time - 1
    BY <2>6, <2>8
  <2> QED BY <2>5, <2>6, <2>7, <2>8
<1> QED BY <1>1, <1>2

LEMMA UpToReached == UpTo = Reached(eventSet, now)
<1>1. Due \ Of(eventSet, REFRESH) = Work(eventSet, now)
  BY DEF Due, Of, Work
<1> QED BY <1>1 DEF UpTo, Reached

LEMMA UpToFacts ==
    ASSUME TypeOK
    PROVE  /\ UpTo \in Int /\ UpTo <= now
           /\ \A e \in eventSet : e.id # REFRESH => UpTo < e.time
<1>1. now \in Nat /\ \A e \in eventSet : e.time \in Nat
  BY DEF TypeOK, Times, IsEvent
<1> QED BY <1>1, ReachedFacts, UpToReached

\* The battery does not go back: no step queues an event at a moment it is past.
LEMMA UpToGrows ==
    ASSUME TypeOK', NEW u \in Int, u <= now', \A e \in eventSet' : e.id # REFRESH => u < e.time
    PROVE  u <= UpTo' /\ UpTo' \in Int /\ UpTo' <= now'
<1>1. now' \in Nat /\ \A e \in eventSet' : e.time \in Nat
  BY DEF TypeOK, Times, IsEvent
<1>2. UpTo' = Reached(eventSet', now')
  <2>1. (Due \ Of(eventSet, REFRESH))' = Work(eventSet', now')
    BY DEF Due, Of, Work
  <2> QED BY <2>1 DEF UpTo, Reached
<1>3. u <= Reached(eventSet', now')
  BY <1>1, ReachedFacts
<1> QED BY <1>1, <1>2, <1>3, ReachedFacts

-----------------------------------------------------------------------------
Started == {s \in DOMAIN eventMap : Begun(s)}

LEMMA SeqsFinite == ASSUME BatteryAssumption PROVE IsFiniteSet(Seqs)
<1>1. MaxCalls \in Nat
  BY DEF BatteryAssumption
<1>2. MaxCalls + 2 \in Int
  BY <1>1
<1> QED BY <1>2, FS_Interval DEF Seqs

\* What is left to show of OnSchedule in terms of sums over request numbers.
LEMMA WholeMap ==
    ASSUME BatteryAssumption, TypeOK, Structure,
           \A k \in DOMAIN eventMap :
              eventMap[k].first.cur \in Int /\ eventMap[k].second.cur = eventMap[k].first.cur
    PROVE  /\ Whole(eventMap)
           /\ Started \in SUBSET DOMAIN eventMap
           /\ \A n, t : InForce(n, t) \in SUBSET DOMAIN eventMap
           /\ Ledger <=> current_mA = SumOver(Curs(eventMap), Started) /\ device = current_mA
           /\ \A n, t : Plan(n, t) = SumOver(Curs(eventMap), InForce(n, t))
<1>1. IsFiniteSet(DOMAIN eventMap)
  <2>1. DOMAIN eventMap \subseteq Seqs
    BY DEF TypeOK
  <2> QED BY <2>1, SeqsFinite, FS_Subset
<1>2. Whole(eventMap)
  BY <1>1 DEF Whole, Structure
<1>3. /\ Started \in SUBSET DOMAIN eventMap
      /\ \A n, t : InForce(n, t) \in SUBSET DOMAIN eventMap
  BY DEF Started, InForce, Outstanding
<1>4. SumCur({eventMap[k].first : k \in Started}) = SumOver(Curs(eventMap), Started)
  BY <1>2, <1>3, PairSums
<1>5. \A n, t : SumCur({eventMap[k].first : k \in InForce(n, t)}) = SumOver(Curs(eventMap), InForce(n, t))
  BY <1>2, <1>3, PairSums
<1>6. Ledger <=> current_mA = SumOver(Curs(eventMap), Started) /\ device = current_mA
  BY <1>4 DEF Ledger, Started
<1> QED BY <1>2, <1>3, <1>5, <1>6 DEF Plan

LEMMA WholeMapNext ==
    ASSUME BatteryAssumption, TypeOK', Structure',
           \A k \in DOMAIN eventMap' :
              eventMap'[k].first.cur \in Int /\ eventMap'[k].second.cur = eventMap'[k].first.cur
    PROVE  /\ Whole(eventMap')
           /\ Started' \in SUBSET DOMAIN eventMap'
           /\ \A n, t : InForce(n, t)' \in SUBSET DOMAIN eventMap'
           /\ Ledger' <=> current_mA' = SumOver(Curs(eventMap'), Started') /\ device' = current_mA'
           /\ \A n, t : Plan(n, t)' = SumOver(Curs(eventMap'), InForce(n, t)')
<1>1. IsFiniteSet(DOMAIN eventMap')
  <2>1. DOMAIN eventMap' \subseteq Seqs
    BY DEF TypeOK
  <2> QED BY <2>1, SeqsFinite, FS_Subset
<1>2. Whole(eventMap')
  BY <1>1 DEF Whole, Structure
<1>3. /\ Started' \in SUBSET DOMAIN eventMap'
      /\ \A n, t : InForce(n, t)' \in SUBSET DOMAIN eventMap'
  BY DEF Started, InForce, Outstanding
<1>4. SumCur({eventMap'[k].first : k \in Started'}) = SumOver(Curs(eventMap'), Started')
  BY <1>2, <1>3, PairSums
<1>5. \A n, t : SumCur({eventMap'[k].first : k \in InForce(n, t)'})
                = SumOver(Curs(eventMap'), InForce(n, t)')
  BY <1>2, <1>3, PairSums
<1>6. Ledger' <=> current_mA' = SumOver(Curs(eventMap'), Started') /\ device' = current_mA'
  BY <1>4 DEF Ledger, Started
<1> QED BY <1>2, <1>3, <1>5, <1>6 DEF Plan

\* OnSchedule holds of the constructor's state.
LEMMA InitSchedule == ASSUME BatteryAssumption PROVE Init => OnSchedule /\ UpTo = 0
<1> SUFFICES ASSUME Init PROVE OnSchedule /\ UpTo = 0
  OBVIOUS
<1>1. TypeOK /\ Structure
  BY InitStructure
<1>2. DOMAIN eventMap = {} /\ now = 0 /\ device = 0 /\ current_mA = 0 /\ call = NoCall /\ last = NoCall
      /\ want = [n \in Names |-> [t \in Times |-> 0]]
  BY DEF Init
<1>3. \A e \in eventSet : e.id = REFRESH
  BY DEF Init, event_t
<1>4. UpTo = 0
  <2>1. Work(eventSet, now) = {}
    BY <1>3 DEF Work
  <2> QED BY <1>2, <2>1, UpToReached DEF Reached
<1>5. /\ Ledger <=> current_mA = SumOver(Curs(eventMap), Started) /\ device = current_mA
      /\ \A n, t : Plan(n, t) = SumOver(Curs(eventMap), InForce(n, t))
      /\ Started = {} /\ \A n, t : InForce(n, t) = {}
  <2>1. /\ Started \in SUBSET DOMAIN eventMap
        /\ \A n, t : InForce(n, t) \in SUBSET DOMAIN eventMap
        /\ Ledger <=> current_mA = SumOver(Curs(eventMap), Started) /\ device = current_mA
        /\ \A n, t : Plan(n, t) = SumOver(Curs(eventMap), InForce(n, t))
    BY <1>1, <1>2, WholeMap
  <2> QED BY <1>2, <2>1
<1>6. \A f : SumOver(f, {}) = 0
  BY SumEmpty
<1>7. Ledger
  BY <1>2, <1>5, <1>6
<1>8. \A n \in Names : \A t \in UpTo .. MaxTime : Plan(n, t) = want[n][t]
  <2>1. \A n, t : Plan(n, t) = 0
    BY <1>5, <1>6
  <2> QED BY <1>2, <1>4, <2>1 DEF Times
<1> QED BY <1>2, <1>4, <1>7, <1>8 DEF OnSchedule

\* A step that leaves the requests, their events and the current alone.
LEMMA QuietSchedule ==
    ASSUME BatteryAssumption, TypeOK, Structure, OnSchedule, TypeOK',
           UNCHANGED <<eventMap, current_mA, device, want>>,
           eventSet \subseteq eventSet', \A e \in eventSet' : e \in eventSet \/ e.id = REFRESH,
           now <= now',
           last' = last \/ last' = NoCall,
           call' = call \/ call' = NoCall
    PROVE  OnSchedule' /\ UpTo <= UpTo'
<1>1. Of(eventSet', CANCEL_SET_CURRENT_EVENT) = Cancels
  BY DEF Of, Cancels
<1>2. \A k \in DOMAIN eventMap : eventMap[k].first \in eventSet' <=> eventMap[k].first \in eventSet
  BY PairFacts
<1>3. \A s : Begun(s)' <=> Begun(s)
  BY <1>2, Zenon DEF Begun
<1>4. now \in Nat /\ now' \in Nat
  BY DEF TypeOK, Times
<1>5. UpTo \in Int /\ UpTo <= now /\ \A e \in eventSet : e.id # REFRESH => UpTo < e.time
  BY UpToFacts
<1>6. UpTo <= UpTo' /\ UpTo' \in Int
  <2>1. \A e \in eventSet' : e.id # REFRESH => UpTo < e.time
    BY <1>5
  <2>2. PICK u : u = UpTo
    OBVIOUS
  <2>3. u \in Int /\ u <= now'
    BY <1>4, <1>5, <2>2
  <2> QED BY <2>1, <2>2, <2>3, UpToGrows
<1>7. Ledger'
  <2>1. Started' = Started
    BY <1>3 DEF Started
  <2>2. {eventMap'[k].first : k \in Started'} = {eventMap[k].first : k \in Started}
    BY <2>1
  <2>3. current_mA' = SumCur({eventMap'[k].first : k \in Started'}) /\ device' = current_mA'
    BY <2>2 DEF OnSchedule, Ledger, Started
  <2> QED BY <2>3 DEF Ledger, Started
<1>8. \A n, t : Plan(n, t)' = Plan(n, t)
  <2>1. Doomed' = Doomed
    BY <1>1 DEF Doomed, Cancels
  <2> QED BY <2>1 DEF Plan, InForce, Outstanding, Begins, Ends
<1>9. \A n \in Names : \A t \in UpTo' .. MaxTime : Plan(n, t)' = want'[n][t]
  <2>1. \A n \in Names : \A t \in UpTo .. MaxTime : Plan(n, t) = want[n][t]
    BY DEF OnSchedule
  <2>2. \A t \in UpTo' .. MaxTime : t \in UpTo .. MaxTime
    BY <1>5, <1>6 DEF BatteryAssumption
  <2> QED BY <1>8, <2>1, <2>2
<1>10. \A k \in DOMAIN eventMap' :
         /\ eventMap'[k].first.cur \in Int /\ eventMap'[k].second.cur = eventMap'[k].first.cur
         /\ Begun(k)' => Begins(k)' <= UpTo'
  <2>1. \A k \in DOMAIN eventMap : eventMap[k].first.time \in Nat
    BY PairFacts
  <2> QED BY <1>3, <1>5, <1>6, <2>1 DEF OnSchedule, Begins
<1>11. 0 <= UpTo'
  BY <1>5, <1>6 DEF OnSchedule
<1>12. (last' # NoCall /\ now' < last'.start) => SameWindow(last)'
  <2> SUFFICES ASSUME last' # NoCall, now' < last'.start PROVE SameWindow(last)'
    OBVIOUS
  <2>1. last' = last /\ last.start \in Nat
    BY DEF TypeOK, Calls
  <2>2. now < last.start
    BY <1>4, <2>1
  <2> QED BY <2>1, <2>2 DEF OnSchedule, SameWindow
<1>13. call' # NoCall =>
         IF call'.seq \in DOMAIN eventMap' THEN SameWindow(call)'
         ELSE \A k \in Outstanding(call.name)' : call'.start <= Ends(k)' /\ Begins(k)' <= call'.end
  BY DEF OnSchedule, SameWindow, Outstanding, Ends, Begins
<1> QED BY <1>6, <1>7, <1>9, <1>10, <1>11, <1>12, <1>13, Zenon DEF OnSchedule

\* A request that has passed schedule_set_current's checks.
LEMMA ScheduleSchedule ==
    ASSUME BatteryAssumption, "touching" \in Discipline, TypeOK, Structure, OnSchedule,
           NEW r \in Requests, schedule_set_current(r)
    PROVE  OnSchedule' /\ UpTo' = UpTo
<1>1. UNCHANGED <<now, eventSet, eventMap, current_mA, device, want>> /\ last' = NoCall
  BY DEF schedule_set_current, threadVars
<1>2. \A k \in Outstanding(r.name) : r.start <= Ends(k) /\ Begins(k) <= r.end
  BY DEF schedule_set_current, Admissible, Ends, Begins
<1>3. nextSeq \notin DOMAIN eventMap
  <2>1. nextSeq \in Nat
    BY DEF TypeOK
  <2> QED BY <2>1, PairFacts
<1>4. call' # NoCall => /\ call'.start = r.start /\ call'.end = r.end /\ call'.name = r.name
                        /\ call'.seq = nextSeq
  BY DEF schedule_set_current, Pending
<1>5. UpTo' = UpTo
  BY <1>1 DEF UpTo, Due
<1>6. call' # NoCall =>
         /\ call'.seq \notin DOMAIN eventMap'
         /\ \A k \in Outstanding(call.name)' : call'.start <= Ends(k)' /\ Begins(k)' <= call'.end
  BY <1>1, <1>2, <1>3, <1>4 DEF Outstanding, Ends, Begins
<1>7. /\ Ledger' /\ 0 <= UpTo'
      /\ \A n \in Names : \A t \in UpTo' .. MaxTime : Plan(n, t)' = want'[n][t]
  <2>1. Ledger' /\ \A n, t : Plan(n, t)' = Plan(n, t)
    BY <1>1 DEF OnSchedule, Ledger, Begun, Plan, InForce, Outstanding, Begins, Ends, Doomed
  <2> QED BY <1>1, <1>5, <2>1 DEF OnSchedule
<1>8. \A k \in DOMAIN eventMap' :
         /\ eventMap'[k].first.cur \in Int /\ eventMap'[k].second.cur = eventMap'[k].first.cur
         /\ Begun(k)' => Begins(k)' <= UpTo'
  BY <1>1, <1>5 DEF OnSchedule, Begun, Begins
<1> QED BY <1>1, <1>5, <1>6, <1>7, <1>8, Zenon DEF OnSchedule

\* A second share has the window of the first.
LEMMA ShareSchedule ==
    ASSUME BatteryAssumption, {"ahead", "settled"} \subseteq Discipline,
           TypeOK, Structure, Counting, OnSchedule, NEW r \in Requests, SecondShare(r.cur)
    PROVE  OnSchedule' /\ UpTo' = UpTo
<1>1. UNCHANGED <<now, eventSet, eventMap, current_mA, device, want>> /\ last' = NoCall
  BY DEF SecondShare, threadVars
<1>2. last \in Calls /\ last # NoCall /\ now < last.start
  BY DEF SecondShare, TypeOK
<1>3. call'.name = last.name /\ call'.end = last.end /\ call'.seq = last.seq
  BY <1>2 DEF SecondShare, Calls
<1>4. last.seq \in DOMAIN eventMap /\ SameWindow(last)
  BY <1>2 DEF Counting, Untouched, OnSchedule
<1>5. UpTo' = UpTo
  BY <1>1 DEF UpTo, Due
<1>6. call'.seq \in DOMAIN eventMap' /\ SameWindow(call)'
  BY <1>1, <1>3, <1>4 DEF SameWindow
<1>7. /\ Ledger' /\ 0 <= UpTo'
      /\ \A n \in Names : \A t \in UpTo' .. MaxTime : Plan(n, t)' = want'[n][t]
  <2>1. Ledger' /\ \A n, t : Plan(n, t)' = Plan(n, t)
    BY <1>1 DEF OnSchedule, Ledger, Begun, Plan, InForce, Outstanding, Begins, Ends, Doomed
  <2> QED BY <1>1, <1>5, <2>1 DEF OnSchedule
<1>8. \A k \in DOMAIN eventMap' :
         /\ eventMap'[k].first.cur \in Int /\ eventMap'[k].second.cur = eventMap'[k].first.cur
         /\ Begun(k)' => Begins(k)' <= UpTo'
  BY <1>1, <1>5 DEF OnSchedule, Begun, Begins
<1> QED BY <1>1, <1>5, <1>6, <1>7, <1>8, Zenon DEF OnSchedule

\* A pass of runEventThread adds what begins and subtracts what ends, and what
\* it takes out is over by the moment it gets to.
LEMMA PassSchedule ==
    ASSUME BatteryAssumption, TypeOK, Structure, Counting, OnSchedule,
           TypeOK', Structure', Counting', NEW batch, NEW drop, IsPass(batch, drop)
    PROVE  OnSchedule' /\ UpTo <= UpTo'
<1>1. /\ batch \subseteq Due
      /\ \A k \in DOMAIN eventMap : /\ eventMap[k].second \in batch
                                    /\ eventMap[k].first \in eventSet
                                    => eventMap[k].first \in batch
      /\ \A k \in drop : \E c \in Cancels : c.seq = k
      /\ \A c \in Cancels : eventMap[c.seq].first \notin batch /\ eventMap[c.seq].second \notin batch
  BY DEF IsPass
<1>2. /\ \A e : e.id # REFRESH => (e \in eventSet' <=> e \in eventSet \ batch /\ e.seq \notin drop)
      /\ \A e \in eventSet' : e.id # REFRESH => \A f \in batch : f.time < e.time
  BY DEF IsPass
<1>3. /\ DOMAIN eventMap' = {k \in DOMAIN eventMap : k \notin drop /\ eventMap[k].second \notin batch}
      /\ \A k \in DOMAIN eventMap' : eventMap'[k] = eventMap[k]
  BY DEF IsPass
<1>4. UNCHANGED <<now, call, last, want>>
  BY DEF IsPass
<1>5. now \in Nat /\ batch \subseteq eventSet /\ \A e \in batch : e.time \in Nat /\ e.time <= now
  <2>1. now \in Nat /\ \A e \in eventSet : e.time \in Nat
    BY DEF TypeOK, Times, IsEvent
  <2> QED BY <1>1, <2>1 DEF Due
<1>6. UpTo \in Int /\ UpTo <= now /\ \A e \in eventSet : e.id # REFRESH => UpTo < e.time
  BY UpToFacts
<1>7. UpTo <= UpTo' /\ UpTo' \in Int
  <2>1. PICK u : u = UpTo
    OBVIOUS
  <2>2. \A e \in eventSet' : e.id # REFRESH => u < e.time
    BY <1>2, <1>6, <2>1
  <2> QED BY <1>4, <1>6, <2>1, <2>2, UpToGrows
<1>8. ASSUME NEW e \in batch PROVE e.time <= UpTo'
  <2>1. PICK u : u = e.time
    OBVIOUS
  <2>2. u \in Int /\ u <= now' /\ \A f \in eventSet' : f.id # REFRESH => u < f.time
    BY <1>2, <1>4, <1>5, <2>1
  <2> QED BY <2>1, <2>2, UpToGrows
<1>9. \A k \in DOMAIN eventMap' :
        /\ k \in DOMAIN eventMap
        /\ eventMap'[k].first.cur \in Int /\ eventMap'[k].second.cur = eventMap'[k].first.cur
  BY <1>3 DEF OnSchedule
<1>10. \A k \in drop : /\ k \in DOMAIN eventMap /\ eventMap[k].first \in eventSet
                       /\ eventMap[k].first \notin batch /\ eventMap[k].second \notin batch
  BY <1>1 DEF Counting, Cancels
<1>11. \A k \in DOMAIN eventMap' : eventMap'[k].first \in eventSet' <=> eventMap[k].first \in eventSet \ batch
  BY <1>2, <1>3, PairFacts
<1> DEFINE B == {k \in DOMAIN eventMap : eventMap[k].first \in batch}
           E == {k \in DOMAIN eventMap : eventMap[k].second \in batch}
<1>12. Started' = (Started \cup B) \ E /\ E \subseteq Started \cup B /\ Started \cap B = {}
  <2>1. ASSUME NEW k \in DOMAIN eventMap
        PROVE  k \in Started' <=> k \in (Started \cup B) \ E
    <3>1. k \in Started' <=> k \in DOMAIN eventMap' /\ eventMap[k].first \notin eventSet \ batch
      BY <1>11 DEF Started, Begun
    <3>2. k \in Started <=> eventMap[k].first \notin eventSet
      BY DEF Started, Begun
    <3> QED BY <1>3, <1>10, <3>1, <3>2
  <2>2. Started' \subseteq DOMAIN eventMap /\ Started \subseteq DOMAIN eventMap
    BY <1>3 DEF Started
  <2>3. E \subseteq Started \cup B
    BY <1>1 DEF Started, Begun
  <2>4. Started \cap B = {}
    BY <1>5 DEF Started, Begun
  <2> QED BY <2>1, <2>2, <2>3, <2>4
<1>13. /\ Whole(eventMap) /\ Started \in SUBSET DOMAIN eventMap
       /\ Ledger <=> current_mA = SumOver(Curs(eventMap), Started) /\ device = current_mA
       /\ \A n, t : Plan(n, t) = SumOver(Curs(eventMap), InForce(n, t))
  BY WholeMap DEF OnSchedule
<1>14. /\ Whole(eventMap') /\ Started' \in SUBSET DOMAIN eventMap'
       /\ Ledger' <=> current_mA' = SumOver(Curs(eventMap'), Started') /\ device' = current_mA'
       /\ \A n, t : Plan(n, t)' = SumOver(Curs(eventMap'), InForce(n, t)')
       /\ \A n, t : InForce(n, t)' \in SUBSET DOMAIN eventMap'
  BY <1>9, WholeMapNext
<1>15. ASSUME NEW K \in SUBSET DOMAIN eventMap'
       PROVE  SumOver(Curs(eventMap'), K) = SumOver(Curs(eventMap), K)
  <2>1. IsFiniteSet(K) /\ \A k \in K : Curs(eventMap')[k] \in Int
    BY <1>14, PairSums
  <2>2. \A k \in K : Curs(eventMap')[k] = Curs(eventMap)[k]
    BY <1>3, <1>9 DEF Curs
  <2> QED BY <2>1, <2>2, SumEqual
<1>16. Delta(batch) = SumOver(Curs(eventMap), B) - SumOver(Curs(eventMap), E)
  <2>1. Of(batch, SET_CURRENT_BEGIN) = {eventMap[k].first : k \in B}
    BY <1>5, PairFacts DEF Of, Structure
  <2>2. Of(batch, SET_CURRENT_END) = {eventMap[k].second : k \in E}
    BY <1>5, PairFacts DEF Of, Structure
  <2>3. B \in SUBSET DOMAIN eventMap /\ E \in SUBSET DOMAIN eventMap
    OBVIOUS
  <2> HIDE DEF B, E
  <2> QED BY <1>13, <2>1, <2>2, <2>3, PairSums DEF Delta
<1>17. Ledger'
  <2>0. B \in SUBSET DOMAIN eventMap /\ E \in SUBSET DOMAIN eventMap
    OBVIOUS
  <2> DEFINE f == Curs(eventMap)
  <2>1. \A K \in SUBSET DOMAIN eventMap :
           IsFiniteSet(K) /\ SumOver(f, K) \in Int /\ \A k \in K : f[k] \in Int
    BY <1>13, PairSums
  <2>7. batch = {} => B = {} /\ E = {}
    OBVIOUS
  <2> HIDE DEF f, B, E
  <2>2. SumOver(f, Started \cup B) = SumOver(f, Started) + SumOver(f, B)
    BY <1>12, <1>13, <2>0, <2>1, SumUnion
  <2>3. Started' \in SUBSET DOMAIN eventMap /\ Started' \cup E = Started \cup B /\ Started' \cap E = {}
    BY <1>12, <1>13, <2>0
  <2>4. SumOver(f, Started' \cup E) = SumOver(f, Started') + SumOver(f, E)
    BY <2>0, <2>1, <2>3, SumUnion
  <2>5. /\ SumOver(f, Started) \in Int /\ SumOver(f, B) \in Int /\ SumOver(f, E) \in Int
        /\ SumOver(f, Started') \in Int
    BY <1>13, <2>0, <2>1, <2>3
  <2>6. current_mA = SumOver(f, Started) /\ device = current_mA
    BY <1>13 DEF OnSchedule, f
  <2>8. current_mA' = SumOver(f, Started') /\ device' = current_mA'
    <3>1. SumOver(f, Started') = SumOver(f, Started) + (SumOver(f, B) - SumOver(f, E))
      <4>1. SumOver(f, Started' \cup E) = SumOver(f, Started \cup B)
        BY <2>3
      <4>2. SumOver(f, Started') + SumOver(f, E) = SumOver(f, Started) + SumOver(f, B)
        BY <2>2, <2>4, <4>1
      <4>3. \A a, b, c, d \in Int : a + b = c + d => a = c + (d - b)
        OBVIOUS
      <4> QED BY <2>5, <4>2, <4>3
    <3>2. CASE batch = {} /\ UNCHANGED <<current_mA, device>>
      <4>1. SumOver(f, B) = 0 /\ SumOver(f, E) = 0
        BY <2>7, <3>2, SumEmpty
      <4> QED BY <2>5, <2>6, <3>1, <3>2, <4>1
    <3>3. CASE /\ current_mA' = current_mA + Delta(batch)
               /\ device' = IF Delta(batch) # 0 THEN current_mA' ELSE device
      <4>1. Delta(batch) = SumOver(f, B) - SumOver(f, E) /\ Delta(batch) \in Int
        BY <1>16, <2>5 DEF f
      <4>2. current_mA' = SumOver(f, Started')
        BY <2>6, <3>1, <3>3, <4>1
      <4>3. device' = current_mA'
        BY <2>5, <2>6, <3>3, <4>1
      <4> QED BY <4>2, <4>3
    <3> QED BY <3>2, <3>3 DEF IsPass
  <2>9. SumOver(Curs(eventMap'), Started') = SumOver(f, Started')
    BY <1>14, <1>15 DEF f
  <2> QED BY <1>14, <2>8, <2>9
<1>18. ASSUME NEW k \in DOMAIN eventMap', Begun(k)' PROVE Begins(k)' <= UpTo'
  <2>1. k \in Started \/ k \in B
    BY <1>12, <1>18 DEF Started
  <2>2. Begins(k)' = Begins(k) /\ Begins(k) \in Nat
    BY <1>3, <1>9, PairFacts DEF Begins
  <2>3. CASE k \in Started
    <3>1. Begins(k) <= UpTo
      BY <2>3 DEF Started, OnSchedule
    <3> QED BY <1>6, <1>7, <2>2, <3>1
  <2>4. CASE k \in B
    BY <1>8, <2>2, <2>4 DEF Begins
  <2> QED BY <2>1, <2>3, <2>4
<1>19. ASSUME NEW n \in Names, NEW t \in UpTo' .. MaxTime PROVE Plan(n, t)' = want'[n][t]
  <2>1. t \in UpTo .. MaxTime
    BY <1>6, <1>7 DEF BatteryAssumption
  <2>2. \A k \in drop : k \in Doomed
    BY <1>1 DEF Doomed, Cancels
  <2>3. ASSUME NEW k \in DOMAIN eventMap', k \in Doomed PROVE k \in Doomed'
    <3>1. PICK c \in Cancels : c.seq = k
      BY <2>3 DEF Doomed, Cancels
    <3>2. c.id # REFRESH /\ c \in eventSet /\ c \notin batch /\ k \notin drop
      BY <1>3, <3>1 DEF Cancels, Of, IsPass
    <3> QED BY <1>2, <3>1, <3>2 DEF Doomed, Of, Cancels
  <2>4. ASSUME NEW k \in Doomed' PROVE k \in Doomed
    <3>1. PICK c \in eventSet' : c.id = CANCEL_SET_CURRENT_EVENT /\ c.seq = k
      BY <2>4 DEF Doomed, Of
    <3>2. c \in eventSet
      BY <1>2, <3>1
    <3> QED BY <3>1, <3>2 DEF Doomed, Of
  <2>5. ASSUME NEW k \in DOMAIN eventMap, eventMap[k].second \in batch PROVE ~(t < Ends(k))
    <3>1. Ends(k) <= UpTo' /\ Ends(k) \in Nat
      BY <1>8, <2>5, PairFacts DEF Ends
    <3> QED BY <1>7, <3>1
  <2>6. InForce(n, t)' = InForce(n, t)
    <3>1. ASSUME NEW k \in InForce(n, t)' PROVE k \in InForce(n, t)
      <4>1. k \in DOMAIN eventMap' /\ k \in DOMAIN eventMap /\ eventMap'[k] = eventMap[k]
        BY <1>3, <1>9, <3>1 DEF InForce, Outstanding
      <4> QED BY <2>3, <3>1, <4>1 DEF InForce, Outstanding, Begins, Ends
    <3>2. ASSUME NEW k \in InForce(n, t) PROVE k \in InForce(n, t)'
      <4>1. k \in DOMAIN eventMap /\ k \notin Doomed /\ t < Ends(k)
        BY <3>2 DEF InForce, Outstanding
      <4>2. k \in DOMAIN eventMap' /\ eventMap'[k] = eventMap[k]
        BY <1>3, <2>2, <2>5, <4>1
      <4> QED BY <2>4, <3>2, <4>1, <4>2 DEF InForce, Outstanding, Begins, Ends
    <3> QED BY <3>1, <3>2
  <2>7. Plan(n, t)' = Plan(n, t)
    BY <1>13, <1>14, <1>15, <2>6
  <2>8. Plan(n, t) = want[n][t]
    BY <2>1 DEF OnSchedule
  <2> QED BY <1>4, <2>7, <2>8
<1>20. (last' # NoCall /\ now' < last'.start) => SameWindow(last)'
  <2> SUFFICES ASSUME last' # NoCall, now' < last'.start PROVE SameWindow(last)'
    OBVIOUS
  <2>1. last.seq \in DOMAIN eventMap'
    BY <1>4 DEF Counting, Untouched
  <2>2. SameWindow(last)
    BY <1>4 DEF OnSchedule
  <2> QED BY <1>3, <1>4, <2>1, <2>2 DEF SameWindow
<1>21. call' # NoCall =>
         IF call'.seq \in DOMAIN eventMap' THEN SameWindow(call)'
         ELSE \A k \in Outstanding(call.name)' : call'.start <= Ends(k)' /\ Begins(k)' <= call'.end
  <2> SUFFICES ASSUME call # NoCall
               PROVE  IF call.seq \in DOMAIN eventMap' THEN SameWindow(call)'
                      ELSE \A k \in Outstanding(call.name)' :
                              call.start <= Ends(k)' /\ Begins(k)' <= call.end
    BY <1>4
  <2>1. CASE call.seq \in DOMAIN eventMap'
    <3>1. SameWindow(call)
      BY <1>9, <2>1 DEF OnSchedule
    <3> QED BY <1>3, <1>4, <2>1, <3>1 DEF SameWindow
  <2>2. CASE call.seq \notin DOMAIN eventMap'
    <3>1. call.seq \notin DOMAIN eventMap
      <4> SUFFICES ASSUME call.seq \in DOMAIN eventMap PROVE FALSE
        OBVIOUS
      <4>1. Untouched(call.seq) /\ eventMap[call.seq].first.time = call.start /\ now < call.start
        BY DEF Counting
      <4>2. call.start \in Nat
        BY DEF TypeOK, Calls
      <4>3. eventMap[call.seq].first \notin batch /\ call.seq \notin drop
        BY <1>1, <1>5, <4>1, <4>2 DEF Untouched, Cancels
      <4> QED BY <1>1, <1>3, <2>2, <4>1, <4>3 DEF Untouched
    <3>2. \A k \in Outstanding(call.name) : call.start <= Ends(k) /\ Begins(k) <= call.end
      BY <3>1 DEF OnSchedule
    <3>3. ASSUME NEW k \in Outstanding(call.name)'
          PROVE  k \in Outstanding(call.name) /\ eventMap'[k] = eventMap[k]
      BY <1>3, <1>4, <1>9 DEF Outstanding
    <3> QED BY <2>2, <3>2, <3>3 DEF Ends, Begins
  <2> QED BY <2>1, <2>2
<1>22. 0 <= UpTo'
  BY <1>6, <1>7 DEF OnSchedule
<1> QED BY <1>7, <1>9, <1>17, <1>18, <1>19, <1>20, <1>21, <1>22, Zenon DEF OnSchedule

\* An insertion queues nothing that is due and takes out nothing that is due.
LEMMA UpToSame ==
    ASSUME now' = now, \A e \in eventSet' : e.id # REFRESH => e \in eventSet \/ ~(e.time <= now),
           \A e \in eventSet : e.id # REFRESH /\ e.time <= now => e \in eventSet'
    PROVE  UpTo' = UpTo
<1>1. Work(eventSet', now') = Work(eventSet, now)
  BY DEF Work
<1>2. UpTo' = Reached(eventSet', now')
  <2>1. (Due \ Of(eventSet, REFRESH))' = Work(eventSet', now')
    BY DEF Due, Of, Work
  <2> QED BY <2>1 DEF UpTo, Reached
<1> QED BY <1>1, <1>2, UpToReached DEF Reached

\* A further share has the window of the first, so it changes a current only.
LEMMA AddShareSchedule ==
    ASSUME BatteryAssumption, TypeOK, Structure, Counting, OnSchedule, TypeOK', Structure',
           checkMergeAndInsertEvents, call.seq \in DOMAIN eventMap
    PROVE  OnSchedule' /\ UpTo' = UpTo
<1>0. PICK q : q = call.seq
  OBVIOUS
<1> DEFINE old   == eventMap[q]
           total == call.cur + old.first.cur
           begin == event_t(call.name, SET_CURRENT_BEGIN, total, call.start, q)
           end   == event_t(call.name, SET_CURRENT_END, total, call.end, q)
<1>1. /\ eventSet' = (eventSet \ {old.first, old.second}) \cup {begin, end}
      /\ eventMap' = [eventMap EXCEPT ![q] = [first |-> begin, second |-> end]]
      /\ UNCHANGED <<now, current_mA, device>> /\ call' = NoCall /\ last' = NoCall
  BY <1>0 DEF checkMergeAndInsertEvents, AddShare
<1>2. /\ begin.id = SET_CURRENT_BEGIN /\ begin.seq = q /\ begin.time = call.start
      /\ begin.name = call.name /\ begin.cur = total
      /\ end.id = SET_CURRENT_END /\ end.seq = q /\ end.time = call.end /\ end.cur = total
  BY DEF event_t
<1>3. /\ call # NoCall /\ Untouched(q) /\ old.first.time = call.start /\ now < call.start
      /\ old.first.name = call.name /\ old.second.time = call.end
  BY <1>0 DEF checkMergeAndInsertEvents, Counting, OnSchedule, SameWindow
<1>4. /\ call.cur \in Int /\ call.name \in Names /\ call.start \in Nat /\ call.end \in Nat
      /\ now \in Nat /\ q \in DOMAIN eventMap /\ call.start <= call.end
  BY <1>0, <1>3 DEF TypeOK, Calls, Times, Structure, Drawn
<1>5. old.first.cur \in Int /\ total \in Int
  BY <1>4 DEF OnSchedule
<1>6. want' = Asked(call)
  BY DEF checkMergeAndInsertEvents
<1> HIDE DEF begin, end
<1>7. /\ DOMAIN eventMap' = DOMAIN eventMap
      /\ eventMap'[q].first = begin /\ eventMap'[q].second = end
      /\ \A k \in DOMAIN eventMap : k # q => eventMap'[k] = eventMap[k]
  BY <1>1, <1>4
<1>8. Of(eventSet', CANCEL_SET_CURRENT_EVENT) = Cancels
  BY <1>1, <1>2, <1>4, PairFacts DEF Of, Cancels
<1>9. Doomed' = Doomed /\ q \notin Doomed
  BY <1>3, <1>8 DEF Doomed, Cancels, Untouched
<1>10. \A s : Begun(s)' <=> Begun(s)
  <2>1. ~Begun(q) /\ ~Begun(q)'
    BY <1>1, <1>3, <1>7 DEF Begun, Untouched
  <2>2. \A k \in DOMAIN eventMap :
           k # q => (eventMap[k].first \in eventSet' <=> eventMap[k].first \in eventSet)
    BY <1>1, <1>2, <1>4, PairFacts
  <2>3. \A s : s # q => (Begun(s)' <=> Begun(s))
    BY <1>7, <2>2 DEF Begun
  <2> QED BY <2>1, <2>3, Zenon
<1>11. UpTo' = UpTo
  <2>1. ~(begin.time <= now) /\ ~(end.time <= now) /\ ~(old.first.time <= now) /\ ~(old.second.time <= now)
    BY <1>2, <1>3, <1>4
  <2> QED BY <1>1, <2>1, UpToSame
<1>12. \A k \in DOMAIN eventMap' :
         /\ eventMap'[k].first.cur \in Int /\ eventMap'[k].second.cur = eventMap'[k].first.cur
         /\ Begun(k)' => Begins(k)' <= UpTo'
  <2> SUFFICES ASSUME NEW k \in DOMAIN eventMap
               PROVE  /\ eventMap'[k].first.cur \in Int
                      /\ eventMap'[k].second.cur = eventMap'[k].first.cur
                      /\ Begun(k)' => Begins(k)' <= UpTo'
    BY <1>7
  <2>1. CASE k = q
    BY <1>2, <1>3, <1>5, <1>7, <1>10, <2>1 DEF Begun, Untouched
  <2>2. CASE k # q
    BY <1>7, <1>10, <1>11, <2>2 DEF OnSchedule, Begins
  <2> QED BY <2>1, <2>2
<1>13. /\ Whole(eventMap) /\ Started \in SUBSET DOMAIN eventMap
       /\ Ledger <=> current_mA = SumOver(Curs(eventMap), Started) /\ device = current_mA
       /\ \A n, t : Plan(n, t) = SumOver(Curs(eventMap), InForce(n, t))
       /\ \A n, t : InForce(n, t) \in SUBSET DOMAIN eventMap
  BY WholeMap DEF OnSchedule
<1>14. /\ Whole(eventMap')
       /\ Ledger' <=> current_mA' = SumOver(Curs(eventMap'), Started') /\ device' = current_mA'
       /\ \A n, t : Plan(n, t)' = SumOver(Curs(eventMap'), InForce(n, t)')
  BY <1>12, WholeMapNext
<1> DEFINE f == Curs(eventMap)
           g == Curs(eventMap')
<1>15. g[q] = call.cur + f[q] /\ f[q] \in Int /\ \A k \in DOMAIN eventMap : k # q => g[k] = f[k]
  BY <1>2, <1>4, <1>5, <1>7 DEF Curs
<1>16. \A K \in SUBSET DOMAIN eventMap :
          /\ IsFiniteSet(K) /\ SumOver(f, K) \in Int /\ SumOver(g, K) \in Int
          /\ \A k \in K : f[k] \in Int /\ g[k] \in Int
  BY <1>7, <1>13, <1>14, PairSums
<1> HIDE DEF f, g
<1>17. ASSUME NEW K \in SUBSET DOMAIN eventMap, q \notin K PROVE SumOver(g, K) = SumOver(f, K)
  <2>1. IsFiniteSet(K) /\ \A k \in K : g[k] \in Int /\ g[k] = f[k]
    BY <1>15, <1>16, <1>17
  <2> QED BY <2>1, SumEqual
<1>18. ASSUME NEW K \in SUBSET DOMAIN eventMap, q \in K
       PROVE  SumOver(g, K) = SumOver(f, K) + call.cur
  <2>1. PICK L : L = K \ {q}
    OBVIOUS
  <2>2. L \in SUBSET DOMAIN eventMap /\ q \notin L /\ K = L \cup {q}
    BY <1>18, <2>1
  <2>3. IsFiniteSet(L) /\ \A k \in L \cup {q} : f[k] \in Int /\ g[k] \in Int
    BY <1>16, <2>2
  <2>4. SumOver(f, K) = f[q] + SumOver(f, L) /\ SumOver(g, K) = g[q] + SumOver(g, L)
    BY <2>2, <2>3, SumAdd
  <2>5. SumOver(g, L) = SumOver(f, L) /\ SumOver(f, L) \in Int
    BY <1>16, <1>17, <2>2
  <2>6. \A a, b, c \in Int : (c + a) + b = (a + b) + c
    OBVIOUS
  <2> QED BY <1>4, <1>15, <2>4, <2>5, <2>6
<1>19. Ledger'
  <2>1. Started' = Started /\ q \notin Started
    BY <1>3, <1>7, <1>10 DEF Started, Begun, Untouched
  <2>2. SumOver(g, Started') = SumOver(f, Started)
    BY <1>13, <1>17, <2>1
  <2> QED BY <1>1, <1>13, <1>14, <2>2 DEF OnSchedule, f, g
<1>20. ASSUME NEW n \in Names, NEW t \in UpTo' .. MaxTime PROVE Plan(n, t)' = want'[n][t]
  <2>1. t \in UpTo .. MaxTime /\ t \in Times
    <3>1. UpTo \in Int /\ 0 <= UpTo
      BY UpToFacts DEF OnSchedule
    <3> QED BY <1>11, <3>1 DEF Times, BatteryAssumption
  <2>2. Plan(n, t) = want[n][t]
    BY <2>1 DEF OnSchedule
  <2>3. InForce(n, t)' = InForce(n, t)
    <3>1. \A k \in DOMAIN eventMap : /\ eventMap'[k].first.name = eventMap[k].first.name
                                     /\ eventMap'[k].first.time = eventMap[k].first.time
                                     /\ eventMap'[k].second.time = eventMap[k].second.time
      BY <1>2, <1>3, <1>7
    <3> QED BY <1>7, <1>9, <3>1 DEF InForce, Outstanding, Begins, Ends
  <2>4. Plan(n, t) = SumOver(f, InForce(n, t)) /\ Plan(n, t)' = SumOver(g, InForce(n, t))
    BY <1>13, <1>14, <2>3 DEF f, g
  <2>5. q \in InForce(n, t) <=> n = call.name /\ call.start <= t /\ t < call.end
    BY <1>3, <1>4, <1>9 DEF InForce, Outstanding, Begins, Ends
  <2>6. want'[n][t] = IF n = call.name /\ call.start <= t /\ t < call.end
                      THEN want[n][t] + call.cur ELSE want[n][t]
    <3>1. call.seq \in DOMAIN eventMap /\ want \in [Names -> [Times -> Int]]
      BY DEF TypeOK
    <3>2. CASE n = call.name
      BY <1>6, <2>1, <3>1, <3>2 DEF Asked
    <3>3. CASE n # call.name
      BY <1>6, <3>1, <3>3 DEF Asked
    <3> QED BY <3>2, <3>3
  <2>7. CASE q \in InForce(n, t)
    BY <1>13, <1>18, <2>2, <2>4, <2>5, <2>6, <2>7
  <2>8. CASE q \notin InForce(n, t)
    BY <1>13, <1>17, <2>2, <2>4, <2>5, <2>6, <2>8
  <2> QED BY <2>7, <2>8
<1>21. 0 <= UpTo'
  BY <1>11 DEF OnSchedule
<1> QED BY <1>1, <1>11, <1>12, <1>19, <1>20, <1>21, Zenon DEF OnSchedule

\* The requests the merged one meets, and what becomes of their times.
LEMMA MergeTimes ==
    ASSUME TypeOK, Structure, NEW r \in Calls, Merged(r), r.seq \notin DOMAIN eventMap,
           NEW k \in DOMAIN eventMap
    PROVE  /\ k \in DOMAIN eventMap' /\ k # r.seq
           /\ eventMap'[k].first.name = eventMap[k].first.name
           /\ eventMap'[k].first.cur = eventMap[k].first.cur
           /\ eventMap'[k].second.cur = eventMap[k].second.cur
           /\ Begins(k)' = IF k \in CutHead(r) THEN r.end ELSE Begins(k)
           /\ Ends(k)' = IF k \in CutTail(r) THEN r.start ELSE Ends(k)
<1>1. IsEvent(eventMap[k].first) /\ IsEvent(eventMap[k].second) /\ r.start \in Nat /\ r.end \in Nat
  BY DEF TypeOK, Calls
<1>2. /\ eventMap'[k].first = IF k \in CutHead(r) THEN Moved(eventMap[k].first, r.end)
                              ELSE eventMap[k].first
      /\ eventMap'[k].second = IF k \in CutTail(r) THEN Moved(eventMap[k].second, r.start)
                               ELSE eventMap[k].second
      /\ k \in DOMAIN eventMap'
  BY DEF Merged
<1>3. /\ Moved(eventMap[k].first, r.end).time = r.end
      /\ Moved(eventMap[k].first, r.end).name = eventMap[k].first.name
      /\ Moved(eventMap[k].first, r.end).cur = eventMap[k].first.cur
      /\ Moved(eventMap[k].second, r.start).time = r.start
      /\ Moved(eventMap[k].second, r.start).cur = eventMap[k].second.cur
  BY <1>1 DEF Moved, IsEvent, event_t
<1> QED BY <1>2, <1>3 DEF Begins, Ends

\* The events a merge moves, adds and takes out are all ahead of the clock.
LEMMA MergeUpTo ==
    ASSUME TypeOK, Structure, TypeOK', Structure', NEW r \in Calls, Merged(r),
           r.seq \notin DOMAIN eventMap, now' = now, now < r.start, r.start <= r.end,
           \A k \in Outstanding(r.name) : r.start <= Ends(k)
    PROVE  UpTo' = UpTo
<1>1. now \in Nat /\ r.start \in Nat /\ r.end \in Nat
  BY DEF TypeOK, Times, Calls
<1>2. \A k \in DOMAIN eventMap : eventMap[k].first.time \in Nat /\ eventMap[k].second.time \in Nat
  BY PairFacts
<1>3. /\ eventMap'[r.seq].first.time = r.start /\ eventMap'[r.seq].second.time = r.end
      /\ DOMAIN eventMap' = DOMAIN eventMap \cup {r.seq}
  BY DEF Merged, event_t
<1>4. \A k \in DOMAIN eventMap :
        /\ k \in CutHead(r) => ~(Begins(k) <= now) /\ ~(Begins(k)' <= now)
        /\ k \in CutTail(r) => ~(Ends(k) <= now) /\ ~(Ends(k)' <= now)
        /\ k \notin CutHead(r) => eventMap'[k].first = eventMap[k].first
        /\ k \notin CutTail(r) => eventMap'[k].second = eventMap[k].second
        /\ eventMap'[k].first \in eventSet' <=> eventMap[k].first \in eventSet
  <2> TAKE k \in DOMAIN eventMap
  <2>1. /\ Begins(k)' = IF k \in CutHead(r) THEN r.end ELSE Begins(k)
        /\ Ends(k)' = IF k \in CutTail(r) THEN r.start ELSE Ends(k)
    BY MergeTimes
  <2>2. k \in CutHead(r) => r.start <= Begins(k)
    BY DEF CutHead
  <2>3. k \in CutTail(r) => r.start <= Ends(k)
    BY DEF CutTail
  <2>4. Begins(k) \in Nat /\ Ends(k) \in Nat
    BY <1>2 DEF Begins, Ends
  <2>5. /\ k \in CutHead(r) => ~(Begins(k) <= now) /\ ~(Begins(k)' <= now)
        /\ k \in CutTail(r) => ~(Ends(k) <= now) /\ ~(Ends(k)' <= now)
    BY <1>1, <2>1, <2>2, <2>3, <2>4
  <2> QED BY <2>5 DEF Merged
<1>5. Of(eventSet', CANCEL_SET_CURRENT_EVENT) = Cancels \cup NewCancels(r)
  BY DEF Merged
<1>6. \A c \in NewCancels(r) : ~(c.time <= now)
  BY <1>1 DEF NewCancels, event_t
<1>7. ASSUME NEW e \in eventSet', e.id # REFRESH PROVE e \in eventSet \/ ~(e.time <= now)
  <2>1. e.id \in EventIDs
    BY DEF TypeOK, IsEvent
  <2>2. CASE e.id = SET_CURRENT_BEGIN
    <3>1. e.seq \in DOMAIN eventMap' /\ e = eventMap'[e.seq].first
      BY <2>2 DEF Structure
    <3> QED BY <1>1, <1>3, <1>4, <3>1 DEF Begins
  <2>3. CASE e.id = SET_CURRENT_END
    <3>1. e.seq \in DOMAIN eventMap' /\ e = eventMap'[e.seq].second
      BY <2>3 DEF Structure
    <3>2. e.seq \in DOMAIN eventMap => eventMap[e.seq].second \in eventSet
      BY PairFacts
    <3> QED BY <1>1, <1>3, <1>4, <3>1, <3>2 DEF Ends
  <2>4. CASE e.id = CANCEL_SET_CURRENT_EVENT
    BY <1>5, <1>6, <2>4 DEF Of, Cancels
  <2> QED BY <1>7, <2>1, <2>2, <2>3, <2>4 DEF EventIDs
<1>8. ASSUME NEW e \in eventSet, e.id # REFRESH, e.time <= now PROVE e \in eventSet'
  <2>1. e.id \in EventIDs
    BY DEF TypeOK, IsEvent
  <2>2. CASE e.id = SET_CURRENT_BEGIN
    <3>1. e.seq \in DOMAIN eventMap /\ e = eventMap[e.seq].first
      BY <2>2 DEF Structure
    <3> QED BY <1>4, <1>8, <3>1 DEF Begins
  <2>3. CASE e.id = SET_CURRENT_END
    <3>1. e.seq \in DOMAIN eventMap /\ e = eventMap[e.seq].second
      BY <2>3 DEF Structure
    <3>2. eventMap'[e.seq].second \in eventSet'
      BY <1>3, <3>1 DEF Structure
    <3> QED BY <1>4, <1>8, <3>1, <3>2 DEF Ends
  <2>4. CASE e.id = CANCEL_SET_CURRENT_EVENT
    BY <1>5, <2>4 DEF Of, Cancels
  <2> QED BY <1>8, <2>1, <2>2, <2>3, <2>4 DEF EventIDs
<1> QED BY <1>7, <1>8, UpToSame

\* What a merge makes of the plan for the request's name: inside its window the
\* requests around it and itself, outside what was there.
LEMMA MergePlan ==
    ASSUME TypeOK, Structure, Counting, NEW r \in Calls, Merged(r), r.seq \notin DOMAIN eventMap,
           r.start <= r.end, \A c \in Cancels : c.name # r.name,
           \A k \in Outstanding(r.name) : r.start <= Ends(k) /\ Begins(k) <= r.end,
           NEW n \in Names, NEW t \in Nat
    PROVE  InForce(n, t)' = IF n = r.name /\ r.start <= t /\ t < r.end
                            THEN Around(r) \cup {r.seq} ELSE InForce(n, t)
<1>1. r.start \in Nat /\ r.end \in Nat
  BY DEF Calls
<1>2. \A k \in DOMAIN eventMap : Begins(k) \in Nat /\ Ends(k) \in Nat
  BY PairFacts DEF Begins, Ends
<1>3. /\ DOMAIN eventMap' = DOMAIN eventMap \cup {r.seq} /\ Begins(r.seq)' = r.start
      /\ Ends(r.seq)' = r.end /\ eventMap'[r.seq].first.name = r.name
  BY DEF Merged, event_t, Begins, Ends
<1>4. Doomed' = Doomed \cup Covered(r)
  <2>1. Doomed' = {e.seq : e \in Cancels \cup NewCancels(r)}
    <3>1. Of(eventSet', CANCEL_SET_CURRENT_EVENT) = Cancels \cup NewCancels(r)
      BY DEF Merged
    <3>2. Doomed' = {e.seq : e \in Of(eventSet', CANCEL_SET_CURRENT_EVENT)}
      BY Zenon DEF Doomed, Of
    <3> QED BY <3>1, <3>2
  <2>2. \A k : k \in Covered(r) <=> \E e \in NewCancels(r) : e.seq = k
    <3>1. \A k \in Covered(r) :
            event_t(r.name, CANCEL_SET_CURRENT_EVENT, 0, r.start, k) \in NewCancels(r)
      BY DEF NewCancels
    <3>2. \A k : event_t(r.name, CANCEL_SET_CURRENT_EVENT, 0, r.start, k).seq = k
      BY DEF event_t
    <3>3. \A e \in NewCancels(r) : e.seq \in Covered(r)
      BY <3>2 DEF NewCancels
    <3> QED BY <3>1, <3>2, <3>3
  <2> QED BY <2>1, <2>2 DEF Doomed, Cancels
<1>5. \A k \in Doomed : k \in DOMAIN eventMap /\ eventMap[k].first.name # r.name
  BY DEF Doomed, Cancels, Counting
<1>6. ASSUME NEW k \in DOMAIN eventMap, eventMap[k].first.name # r.name
      PROVE  /\ k \notin Covered(r) \cup Around(r)
             /\ Begins(k)' = Begins(k) /\ Ends(k)' = Ends(k)
  <2>1. k \notin Outstanding(r.name)
    BY <1>6 DEF Outstanding
  <2>2. k \notin Covered(r) \cup Around(r) \cup CutTail(r) \cup CutHead(r)
    BY <2>1 DEF Covered, Around, CutTail, CutHead
  <2> QED BY <2>2, MergeTimes
<1>7. ASSUME NEW k \in DOMAIN eventMap, eventMap[k].first.name = r.name
      PROVE  LET live == k \notin Covered(r) /\ Begins(k)' <= t /\ t < Ends(k)'
             IN  IF r.start <= t /\ t < r.end THEN live <=> k \in Around(r)
                 ELSE live <=> Begins(k) <= t /\ t < Ends(k)
  <2>1. k \in Outstanding(r.name) /\ r.start <= Ends(k) /\ Begins(k) <= r.end
    BY <1>7 DEF Outstanding
  <2>2. /\ k \in Covered(r) <=> r.start <= Begins(k) /\ r.end >= Ends(k)
        /\ k \in Around(r) <=> k \notin Covered(r) /\ r.start >= Begins(k) /\ r.end < Ends(k)
        /\ k \in CutTail(r) <=> k \notin Covered(r) /\ r.start >= Begins(k) /\ r.end >= Ends(k)
        /\ k \in CutHead(r) <=> /\ k \notin Covered(r) \cup Around(r) \cup CutTail(r)
                                /\ r.start <= Begins(k) /\ r.end <= Ends(k)
    BY <2>1 DEF Covered, Around, CutTail, CutHead
  <2>3. /\ Begins(k)' = IF k \in CutHead(r) THEN r.end ELSE Begins(k)
        /\ Ends(k)' = IF k \in CutTail(r) THEN r.start ELSE Ends(k)
    BY MergeTimes
  <2>4. Begins(k) \in Nat /\ Ends(k) \in Nat
    BY <1>2
  <2>5. PICK b, e, b1, e1 : b = Begins(k) /\ e = Ends(k) /\ b1 = Begins(k)' /\ e1 = Ends(k)'
    OBVIOUS
  <2> QED BY <1>1, <2>1, <2>2, <2>3, <2>4, <2>5
<1>8. ASSUME NEW k \in DOMAIN eventMap
      PROVE  /\ k \in DOMAIN eventMap' /\ k # r.seq
             /\ eventMap'[k].first.name = eventMap[k].first.name
  BY MergeTimes
<1>9. \A k : k \in InForce(n, t)' <=> /\ k \in DOMAIN eventMap' /\ eventMap'[k].first.name = n
                                      /\ k \notin Doomed' /\ Begins(k)' <= t /\ t < Ends(k)'
  BY DEF InForce, Outstanding
<1>10. \A k : k \in InForce(n, t) <=> /\ k \in DOMAIN eventMap /\ eventMap[k].first.name = n
                                      /\ k \notin Doomed /\ Begins(k) <= t /\ t < Ends(k)
  BY DEF InForce, Outstanding
<1>11. r.seq \in InForce(n, t)' <=> n = r.name /\ r.start <= t /\ t < r.end
  <2>1. r.seq \notin Doomed'
    BY <1>4, <1>5 DEF Covered, Outstanding
  <2> QED BY <1>3, <1>9, <2>1
<1>12. \A k \in Around(r) : k \in DOMAIN eventMap /\ eventMap[k].first.name = r.name
  BY DEF Around, Outstanding
<1>13. ASSUME NEW k \in DOMAIN eventMap
       PROVE  k \in InForce(n, t)' <=> IF n = r.name /\ r.start <= t /\ t < r.end
                                       THEN k \in Around(r) ELSE k \in InForce(n, t)
  <2>1. CASE eventMap[k].first.name # r.name
    BY <1>4, <1>6, <1>8, <1>9, <1>10, <2>1
  <2>2. CASE eventMap[k].first.name = r.name
    BY <1>4, <1>5, <1>7, <1>8, <1>9, <1>10, <2>2
  <2> QED BY <2>1, <2>2
<1>14. InForce(n, t)' \subseteq DOMAIN eventMap \cup {r.seq} /\ InForce(n, t) \subseteq DOMAIN eventMap
  BY <1>3, <1>9, <1>10
<1>15. CASE n = r.name /\ r.start <= t /\ t < r.end
  <2>1. \A k : k \in InForce(n, t)' <=> k \in Around(r) \cup {r.seq}
    BY <1>11, <1>12, <1>13, <1>14, <1>15
  <2> QED BY <1>15, <2>1
<1>16. CASE ~(n = r.name /\ r.start <= t /\ t < r.end)
  <2>1. \A k : k \in InForce(n, t)' <=> k \in InForce(n, t)
    BY <1>11, <1>13, <1>14, <1>16
  <2>2. InForce(n, t)' = InForce(n, t)
    BY <2>1
  <2> QED BY <1>16, <2>2
<1> QED BY <1>15, <1>16

\* A merge makes the plan for the window what the request asks, and leaves what
\* is in force and the plan for every other moment and name alone.
LEMMA MergeSchedule ==
    ASSUME BatteryAssumption, TypeOK, Structure, Counting, OnSchedule, TypeOK', Structure',
           checkMergeAndInsertEvents, call.seq \notin DOMAIN eventMap
    PROVE  OnSchedule' /\ UpTo' = UpTo
<1>0. PICK r : r = call
  OBVIOUS
<1>1. Merged(r)
  BY <1>0, MergeEffect
<1>2. UNCHANGED <<now, current_mA, device>> /\ call' = NoCall /\ last' = r /\ want' = Asked(r)
  BY <1>0 DEF checkMergeAndInsertEvents
<1>3. /\ r \in Calls /\ r.seq \in Seqs /\ r.start \in Nat /\ r.end \in Nat /\ r.start <= r.end
      /\ r.cur \in Int /\ r.name \in Names
  BY <1>0 DEF checkMergeAndInsertEvents, TypeOK, Structure, Drawn, Calls
<1>4. /\ now < r.start /\ now \in Nat /\ r.seq \notin DOMAIN eventMap
      /\ \A c \in Cancels : c.name # r.name
      /\ \A k \in Outstanding(r.name) : r.start <= Ends(k) /\ Begins(k) <= r.end
  BY <1>0 DEF checkMergeAndInsertEvents, Counting, Cancels, TypeOK, Times, OnSchedule
<1>5. UpTo' = UpTo
  BY <1>1, <1>2, <1>3, <1>4, MergeUpTo
<1>6. UpTo \in Int /\ 0 <= UpTo /\ UpTo <= now
  BY UpToFacts DEF OnSchedule
<1>7. /\ Whole(eventMap) /\ Started \in SUBSET DOMAIN eventMap
      /\ Ledger <=> current_mA = SumOver(Curs(eventMap), Started) /\ device = current_mA
      /\ \A n, t : Plan(n, t) = SumOver(Curs(eventMap), InForce(n, t))
      /\ \A n, t : InForce(n, t) \in SUBSET DOMAIN eventMap
  BY WholeMap DEF OnSchedule
<1>8. /\ Around(r) \in SUBSET DOMAIN eventMap
      /\ Offset(r) = SumOver(Curs(eventMap), Around(r)) /\ Offset(r) \in Int
  <2>1. Around(r) \in SUBSET DOMAIN eventMap
    BY DEF Around, Outstanding
  <2> QED BY <1>7, <2>1, PairSums DEF Offset
<1>9. /\ eventMap'[r.seq].first.cur = r.cur - Offset(r)
      /\ eventMap'[r.seq].second.cur = r.cur - Offset(r)
      /\ eventMap'[r.seq].first.name = r.name /\ eventMap'[r.seq].second.time = r.end
      /\ DOMAIN eventMap' = DOMAIN eventMap \cup {r.seq}
      /\ eventMap'[r.seq].first \in eventSet'
  BY <1>1 DEF Merged, event_t
<1>10. \A s : Begun(s)' <=> Begun(s)
  <2>1. ~Begun(r.seq) /\ ~Begun(r.seq)'
    BY <1>4, <1>9 DEF Begun
  <2>2. \A k \in DOMAIN eventMap : eventMap'[k].first \in eventSet' <=> eventMap[k].first \in eventSet
    BY <1>1 DEF Merged
  <2>3. \A s : s # r.seq => (Begun(s)' <=> Begun(s))
    BY <1>9, <2>2 DEF Begun
  <2> QED BY <2>1, <2>3, Zenon
<1>11. \A k \in DOMAIN eventMap' :
         /\ eventMap'[k].first.cur \in Int /\ eventMap'[k].second.cur = eventMap'[k].first.cur
         /\ Begun(k)' => Begins(k)' <= UpTo'
  <2> SUFFICES ASSUME NEW k \in DOMAIN eventMap'
               PROVE  /\ eventMap'[k].first.cur \in Int
                      /\ eventMap'[k].second.cur = eventMap'[k].first.cur
                      /\ Begun(k)' => Begins(k)' <= UpTo'
    OBVIOUS
  <2>1. CASE k = r.seq
    BY <1>3, <1>8, <1>9, <2>1 DEF Begun
  <2>2. CASE k # r.seq
    <3>1. k \in DOMAIN eventMap
      BY <1>9, <2>2
    <3>2. /\ eventMap'[k].first.cur = eventMap[k].first.cur
          /\ eventMap'[k].second.cur = eventMap[k].second.cur
          /\ Begins(k)' = IF k \in CutHead(r) THEN r.end ELSE Begins(k)
      BY <1>1, <1>3, <1>4, <3>1, MergeTimes
    <3>3. Begun(k) => k \notin CutHead(r)
      <4> SUFFICES ASSUME Begun(k), k \in CutHead(r) PROVE FALSE
        OBVIOUS
      <4>1. Begins(k) <= UpTo /\ Begins(k) \in Nat /\ r.start <= Begins(k)
        BY <3>1, PairFacts DEF OnSchedule, Begins, CutHead
      <4> QED BY <1>3, <1>4, <1>6, <4>1
    <3> QED BY <1>5, <1>10, <3>1, <3>2, <3>3 DEF OnSchedule
  <2> QED BY <2>1, <2>2
<1>12. /\ Whole(eventMap')
       /\ Ledger' <=> current_mA' = SumOver(Curs(eventMap'), Started') /\ device' = current_mA'
       /\ \A n, t : Plan(n, t)' = SumOver(Curs(eventMap'), InForce(n, t)')
  BY <1>11, WholeMapNext
<1> DEFINE f == Curs(eventMap)
           g == Curs(eventMap')
<1>13. g[r.seq] = r.cur - Offset(r) /\ \A k \in DOMAIN eventMap : g[k] = f[k]
  <2>1. \A k \in DOMAIN eventMap : eventMap'[k].first.cur = eventMap[k].first.cur
    BY <1>1, <1>3, <1>4, MergeTimes
  <2> QED BY <1>9, <2>1 DEF Curs
<1>14. ASSUME NEW K \in SUBSET DOMAIN eventMap PROVE SumOver(g, K) = SumOver(f, K)
  <2>1. IsFiniteSet(K) /\ \A k \in K : f[k] \in Int
    BY <1>7, PairSums
  <2>2. \A k \in K : g[k] \in Int /\ g[k] = f[k]
    BY <1>13, <2>1
  <2> HIDE DEF f, g
  <2> QED BY <2>1, <2>2, SumEqual
<1>15. Ledger'
  <2>1. Started' = Started
    <3>1. \A k : k \in Started' <=> k \in Started
      BY <1>9, <1>10 DEF Started, Begun
    <3> QED BY <3>1
  <2>2. SumOver(g, Started') = SumOver(f, Started)
    BY <1>7, <1>14, <2>1
  <2> QED BY <1>2, <1>7, <1>12, <2>2 DEF OnSchedule
<1>16. ASSUME NEW n \in Names, NEW t \in UpTo' .. MaxTime PROVE Plan(n, t)' = want'[n][t]
  <2>1. t \in UpTo .. MaxTime /\ t \in Times /\ t \in Nat
    BY <1>5, <1>6 DEF Times, BatteryAssumption
  <2>2. Plan(n, t) = want[n][t]
    BY <2>1 DEF OnSchedule
  <2>3. InForce(n, t)' = IF n = r.name /\ r.start <= t /\ t < r.end
                         THEN Around(r) \cup {r.seq} ELSE InForce(n, t)
    BY <1>1, <1>3, <1>4, <2>1, MergePlan
  <2>4. want'[n][t] = IF n = r.name /\ r.start <= t /\ t < r.end THEN r.cur ELSE want[n][t]
    <3>1. want \in [Names -> [Times -> Int]]
      BY DEF TypeOK
    <3>2. CASE n = r.name
      BY <1>2, <1>4, <2>1, <3>1, <3>2 DEF Asked
    <3>3. CASE n # r.name
      BY <1>2, <3>1, <3>3 DEF Asked
    <3> QED BY <3>2, <3>3
  <2>5. Plan(n, t)' = SumOver(g, InForce(n, t)') /\ Plan(n, t) = SumOver(f, InForce(n, t))
    BY <1>7, <1>12
  <2>6. CASE n = r.name /\ r.start <= t /\ t < r.end
    <3>1. IsFiniteSet(Around(r)) /\ r.seq \notin Around(r) /\ \A k \in Around(r) : f[k] \in Int
      BY <1>4, <1>7, <1>8, PairSums
    <3>2. \A k \in Around(r) \cup {r.seq} : g[k] \in Int
      BY <1>3, <1>8, <1>13, <3>1
    <3>3. SumOver(g, Around(r)) = Offset(r)
      BY <1>8, <1>14
    <3> HIDE DEF f, g
    <3>4. SumOver(g, Around(r) \cup {r.seq}) = g[r.seq] + SumOver(g, Around(r))
      BY <3>1, <3>2, SumAdd
    <3>5. SumOver(g, Around(r) \cup {r.seq}) = r.cur
      BY <1>3, <1>8, <1>13, <3>3, <3>4
    <3> QED BY <2>3, <2>4, <2>5, <2>6, <3>5
  <2>7. CASE ~(n = r.name /\ r.start <= t /\ t < r.end)
    BY <1>7, <1>14, <2>2, <2>3, <2>4, <2>5, <2>7
  <2> QED BY <2>6, <2>7
<1>17. SameWindow(last)'
  BY <1>2, <1>9 DEF SameWindow
<1>18. 0 <= UpTo'
  BY <1>5, <1>6
<1> QED BY <1>2, <1>5, <1>11, <1>15, <1>16, <1>17, <1>18, Zenon DEF OnSchedule

LEMMA InsertSchedule ==
    ASSUME BatteryAssumption, TypeOK, Structure, Counting, OnSchedule, TypeOK', Structure',
           checkMergeAndInsertEvents
    PROVE  OnSchedule' /\ UpTo' = UpTo
BY AddShareSchedule, MergeSchedule

\* Every step keeps OnSchedule, and none takes the battery back in time.
LEMMA NextSchedule ==
    ASSUME BatteryAssumption, Assumptions \subseteq Discipline,
           TypeOK, Structure, Counting, OnSchedule, TypeOK', Structure', Counting', [Next]_vars
    PROVE  OnSchedule' /\ UpTo <= UpTo'
<1>0. /\ {"ahead", "settled"} \subseteq Discipline /\ "touching" \in Discipline
      /\ now \in Nat /\ UpTo \in Int
  BY UpToFacts DEF Assumptions, TypeOK, Times
<1>1. ASSUME UNCHANGED <<eventSet, eventMap, current_mA, device, call, want>>, now <= now',
             last' = last \/ last' = NoCall
      PROVE  OnSchedule' /\ UpTo <= UpTo'
  BY <1>1, QuietSchedule
<1>a. now <= now
  BY <1>0
<1>2. CASE UNCHANGED vars
  BY <1>1, <1>2, <1>a DEF vars
<1>3. CASE Build
  <2>1. UNCHANGED <<now, call, last, eventMap, current_mA, device, want>>
    BY <1>3 DEF Build, threadVars, callVars
  <2>2. eventSet \subseteq eventSet' /\ \A e \in eventSet' : e \in eventSet \/ e.id = REFRESH
    BY <1>3 DEF Build, setSourceBattery, AggregateBattery, event_t
  <2> QED BY <1>a, <2>1, <2>2, QuietSchedule
<1>4. CASE \E r \in Requests : schedule_set_current(r)
  BY <1>0, <1>4, ScheduleSchedule
<1>5. CASE \E r \in Requests : SecondShare(r.cur)
  BY <1>0, <1>5, ShareSchedule
<1>6. CASE checkMergeAndInsertEvents
  BY <1>0, <1>6, InsertSchedule
<1>7. CASE getStatus
  BY <1>1, <1>7, <1>a DEF getStatus, threadVars, callVars
<1>8. CASE setBatteryStatus
  BY <1>1, <1>8, <1>a DEF setBatteryStatus, threadVars
<1>9. CASE \E mode \in Modes : setRefreshMode(mode)
  <2>1. UNCHANGED <<now, call, last, eventMap, current_mA, device, want>>
    BY <1>9 DEF setRefreshMode
  <2>2. eventSet \subseteq eventSet' /\ \A e \in eventSet' : e \in eventSet \/ e.id = REFRESH
    BY <1>9 DEF setRefreshMode, event_t
  <2> QED BY <1>a, <2>1, <2>2, QuietSchedule
<1>10. CASE \E ms \in Stalenesses : setMaxStaleness(ms)
  BY <1>1, <1>10, <1>a DEF setMaxStaleness, threadVars
<1>11. CASE quit
  BY <1>1, <1>11, <1>a DEF quit, callVars
<1>12. CASE ThreadWakes
  BY <1>1, <1>12, <1>a DEF ThreadWakes, callVars
<1>13. CASE Thread
  <2>1. CASE ThreadWaits
    BY <1>1, <1>a, <2>1 DEF ThreadWaits, callVars
  <2>2. CASE ThreadQuits
    BY <1>1, <1>a, <2>2 DEF ThreadQuits, callVars
  <2>3. CASE RunsEvents
    BY <2>3, EventsPass, PassSchedule
  <2>4. CASE RunsCancel
    BY <2>4, CancelPass, PassSchedule
  <2>5. CASE DiesOfStaleCancel
    BY <1>1, <1>a, <2>5 DEF DiesOfStaleCancel, Dies, callVars
  <2>6. CASE DiesAtEnd
    BY <1>1, <1>a, <2>6 DEF DiesAtEnd, Dies, callVars
  <2> QED BY <1>13, <2>1, <2>2, <2>3, <2>4, <2>5, <2>6 DEF Thread
<1>14. CASE Tick
  <2>1. UNCHANGED <<call, last, eventSet, eventMap, current_mA, device, want>> /\ now' = now + 1
    BY <1>14 DEF Tick, threadVars, callVars
  <2>2. now <= now'
    BY <1>0, <2>1
  <2> QED BY <1>1, <2>1, <2>2
<1> QED BY <1>2, <1>3, <1>4, <1>5, <1>6, <1>7, <1>8, <1>9, <1>10, <1>11, <1>12, <1>13, <1>14
        DEF Next

\* For callers that keep all of Discipline, merging keeps the promise "later
\* requests replace earlier ones" at every moment to come, through any nesting
\* of cut, offset and cancelled requests and however late the thread runs.
THEOREM PlanKeepsLastWish ==
    ASSUME Assumptions \subseteq Discipline
    PROVE  Spec => []PlanIsLastWish
<1> DEFINE Inv == Counting /\ OnSchedule
<1>1. Init => Inv
  BY BatteryAssumption, InitCounting, InitSchedule
<1>2. TypeOK /\ Structure /\ Inv /\ [Next]_vars => Inv'
  <2>1. {"ahead", "settled"} \subseteq Discipline
    BY DEF Assumptions
  <2> QED BY <2>1, BatteryAssumption, NextStructure, NextCounting, NextSchedule
<1>3. Spec => [](TypeOK /\ Structure)
  BY TypeCorrect
<1>4. TypeOK /\ Inv => PlanIsLastWish
  <2> SUFFICES ASSUME TypeOK, OnSchedule, NEW n \in Names, NEW t \in now .. MaxTime
               PROVE  Plan(n, t) = want[n][t]
    BY DEF PlanIsLastWish
  <2>1. UpTo \in Int /\ UpTo <= now /\ now \in Nat
    BY UpToFacts DEF TypeOK, Times
  <2>2. t \in UpTo .. MaxTime
    BY <2>1, BatteryAssumption DEF BatteryAssumption
  <2> QED BY <2>2 DEF OnSchedule
<1> QED BY <1>1, <1>2, <1>3, <1>4, PTL DEF Spec

-----------------------------------------------------------------------------
(***************************************************************************)
(* The battery implements CurrentSchedule.                                 *)
(***************************************************************************)
InStep == UpTo \in Times /\ device = Promise!Total(want, UpTo)

LEMMA TotalWanted == Promise!Total(want, UpTo) = SumOver([n \in Names |-> want[n][UpTo]], Names)
<1> DEFINE h == [n \in Names |-> want[n][UpTo]]
<1>1. Promise!Total(want, UpTo) = SumOver(h, DOMAIN h)
  BY Zenon DEF Promise!Total, Promise!FoldFunction, Promise!FoldFunctionOnSet,
       Promise!MapThenFoldSet,
     SumOver, FoldFunctionOnSet, MapThenFoldSet
<1>2. DOMAIN h = Names
  OBVIOUS
<1> QED BY <1>1, <1>2

\* The requests that have begun are those in force at the moment the battery has
\* got to, so their sum, name by name, is what was wanted then.
LEMMA DeviceInStep ==
    ASSUME BatteryAssumption, TypeOK, Structure, Counting, OnSchedule
    PROVE  InStep
<1>1. UpTo \in Int /\ UpTo <= now /\ \A e \in eventSet : e.id # REFRESH => UpTo < e.time
  BY UpToFacts
<1>2. UpTo \in Times /\ UpTo \in UpTo .. MaxTime
  <2>1. 0 <= UpTo /\ now \in 0 .. MaxTime /\ MaxTime \in Nat
    BY DEF OnSchedule, TypeOK, Times, BatteryAssumption
  <2> QED BY <1>1, <2>1 DEF Times
<1>3. /\ Whole(eventMap) /\ Started \in SUBSET DOMAIN eventMap
      /\ Ledger <=> current_mA = SumOver(Curs(eventMap), Started) /\ device = current_mA
      /\ \A n, t : Plan(n, t) = SumOver(Curs(eventMap), InForce(n, t))
  BY WholeMap DEF OnSchedule
<1>4. PICK group : group = [k \in Started |-> eventMap[k].first.name]
  OBVIOUS
<1>5. ASSUME NEW n \in Names
      PROVE  InForce(n, UpTo) = Group(Started, group, n)
  <2>1. ASSUME NEW k \in Started, group[k] = n PROVE k \in InForce(n, UpTo)
    <3>1. k \in DOMAIN eventMap /\ eventMap[k].first \notin eventSet /\ eventMap[k].first.name = n
      BY <1>4, <2>1 DEF Started, Begun
    <3>2. k \notin Doomed
      BY <3>1 DEF Doomed, Counting
    <3>3. Begins(k) <= UpTo
      BY <2>1 DEF OnSchedule, Started
    <3>4. UpTo < Ends(k)
      BY <1>1, <3>1, PairFacts DEF Ends
    <3> QED BY <3>1, <3>2, <3>3, <3>4 DEF InForce, Outstanding
  <2>2. ASSUME NEW k \in InForce(n, UpTo) PROVE k \in Started /\ group[k] = n
    <3>1. k \in DOMAIN eventMap /\ eventMap[k].first.name = n /\ eventMap[k].first.time <= UpTo
      BY <2>2 DEF InForce, Outstanding, Begins
    <3>2. eventMap[k].first.id # REFRESH /\ eventMap[k].first.time \in Nat
      BY <3>1, PairFacts
    <3>3. eventMap[k].first \notin eventSet
      BY <1>1, <3>1, <3>2
    <3>4. k \in Started
      BY <3>1, <3>3 DEF Started, Begun
    <3> QED BY <1>4, <3>1, <3>4
  <2> QED BY <2>1, <2>2 DEF Group
<1>6. PICK h : h = [n \in Names |-> want[n][UpTo]]
  OBVIOUS
<1>7. \A n \in Names : h[n] = SumOver(Curs(eventMap), InForce(n, UpTo))
  BY <1>2, <1>3, <1>6 DEF OnSchedule
<1>8. SumOver(h, Names) = SumOver(Curs(eventMap), Started)
  <2>1. IsFiniteSet(Started) /\ \A k \in Started : Curs(eventMap)[k] \in Int
    BY <1>3, PairSums
  <2>2. \A k \in Started : group[k] \in Names
    BY <1>3, <1>4 DEF TypeOK, IsEvent
  <2>3. IsFiniteSet(Names)
    BY DEF BatteryAssumption
  <2>4. PICK f : f = Curs(eventMap)
    OBVIOUS
  <2>5. \A n \in Names : h[n] = SumOver(f, Group(Started, group, n))
    BY <1>5, <1>7, <2>4
  <2>6. \A k \in Started : f[k] \in Int /\ group[k] \in Names
    BY <2>1, <2>2, <2>4
  <2>7. SumOver(h, Names) = SumOver(f, Started)
    BY <2>1, <2>3, <2>5, <2>6, SumGroups
  <2> QED BY <2>4, <2>7
<1>9. Promise!Total(want, UpTo) = SumOver(h, Names)
  BY <1>6, TotalWanted
<1> QED BY <1>2, <1>3, <1>8, <1>9 DEF OnSchedule, InStep

\* An insertion is a request about the future, or about no moment there is.
LEMMA InsertRefines ==
    ASSUME BatteryAssumption, TypeOK, Structure, Counting, checkMergeAndInsertEvents, UpTo' = UpTo
    PROVE  Promise!Request \/ UNCHANGED <<now, UpTo, want, device>>
<1>0. PICK r : r = call
  OBVIOUS
<1>1. UNCHANGED <<now, device>> /\ want' = Asked(r)
  BY <1>0 DEF checkMergeAndInsertEvents
<1>2. /\ r.start \in Nat /\ r.end \in Nat /\ r.cur \in Int /\ r.name \in Names /\ now \in Nat
      /\ now < r.start /\ MaxTime \in Nat
  <2>1. r \in Calls /\ now \in Times
    BY <1>0 DEF checkMergeAndInsertEvents, TypeOK
  <2>2. now < r.start
    BY <1>0 DEF checkMergeAndInsertEvents, Counting
  <2> QED BY <2>1, <2>2 DEF Calls, Times, BatteryAssumption
<1>3. want \in [Names -> [Times -> Int]]
  BY DEF TypeOK
<1> DEFINE n == r.name
           s == r.start
           e == IF r.end <= MaxTime THEN r.end ELSE MaxTime + 1
           w == [t \in Times |-> IF s <= t /\ t < r.end
                                 THEN IF r.seq \in DOMAIN eventMap THEN want[n][t] + r.cur ELSE r.cur
                                 ELSE want[n][t]]
<1>4. want' = [want EXCEPT ![n] = w] /\ want'[n] = w
  BY <1>1, <1>2, <1>3 DEF Asked
<1>5. CASE s < e /\ s <= MaxTime
  <2>1. s \in now + 1 .. MaxTime /\ e \in Times \cup {MaxTime + 1} /\ s \in Times
    BY <1>2, <1>5 DEF Times
  <2>2. \A t \in Times : t < r.end <=> t < e
    BY <1>2 DEF Times
  <2>3. s < r.end
    BY <1>2, <1>5
  <2>4. CASE r.seq \notin DOMAIN eventMap
    <3>1. w[s] = r.cur
      BY <1>2, <2>1, <2>3, <2>4
    <3>2. w = [t \in Times |-> IF s <= t /\ t < e THEN r.cur ELSE want[n][t]]
      BY <2>2, <2>4
    <3>3. want' = [want EXCEPT ![n] = Promise!Replaced(@, s, e, want'[n][s])]
      BY <1>4, <3>1, <3>2 DEF Promise!Replaced, Promise!Times, Times
    <3> HIDE DEF n, s, e, w
    <3> QED BY <1>1, <1>2, <2>1, <3>3 DEF Promise!Request, Promise!Times, Times, n
  <2>5. CASE r.seq \in DOMAIN eventMap
    <3>1. w[s] = want[n][s] + r.cur /\ want[n][s] \in Int
      BY <1>2, <1>3, <2>1, <2>3, <2>5
    <3>2. w[s] - want[n][s] = r.cur
      BY <1>2, <3>1
    <3>3. w = [t \in Times |-> IF s <= t /\ t < e THEN want[n][t] + r.cur ELSE want[n][t]]
      BY <2>2, <2>5
    <3>4. want' = [want EXCEPT ![n] = Promise!Raised(@, s, e, want'[n][s] - want[n][s])]
      BY <1>4, <3>2, <3>3 DEF Promise!Raised, Promise!Times, Times
    <3> HIDE DEF n, s, e, w
    <3> QED BY <1>1, <1>2, <2>1, <3>4 DEF Promise!Request, Promise!Times, Times, n
  <2> QED BY <2>4, <2>5
<1>6. CASE ~(s < e /\ s <= MaxTime)
  <2>1. \A t \in Times : ~(s <= t /\ t < r.end)
    BY <1>2, <1>6 DEF Times
  <2>2. w = [t \in Times |-> want[n][t]]
    BY <2>1
  <2>3. w = want[n]
    BY <1>2, <1>3, <2>2
  <2>4. want' = want
    BY <1>3, <1>4, <2>3
  <2> QED BY <1>1, <2>4
<1> QED BY <1>5, <1>6

\* No other step changes what is wanted, and the clock moves by one at most.
LEMMA OthersWantNothing ==
    ASSUME [Next]_vars, ~checkMergeAndInsertEvents
    PROVE  want' = want /\ (now' = now \/ now' = now + 1)
<1>1. CASE UNCHANGED vars \/ Build \/ getStatus \/ setBatteryStatus \/ quit \/ ThreadWakes \/ Tick
  BY <1>1 DEF vars, Build, getStatus, setBatteryStatus, quit, ThreadWakes, Tick, callVars
<1>2. CASE \E r \in Requests : schedule_set_current(r) \/ SecondShare(r.cur)
  BY <1>2 DEF schedule_set_current, SecondShare
<1>3. CASE (\E mode \in Modes : setRefreshMode(mode)) \/ \E ms \in Stalenesses : setMaxStaleness(ms)
  BY <1>3 DEF setRefreshMode, setMaxStaleness
<1>4. CASE ThreadWaits \/ ThreadQuits \/ DiesOfStaleCancel \/ DiesAtEnd
  BY <1>4 DEF ThreadWaits, ThreadQuits, DiesOfStaleCancel, DiesAtEnd, Dies, callVars
<1>5. CASE RunsEvents \/ RunsCancel
  BY <1>5, Zenon DEF RunsEvents, RunsCancel, CancelAt, Apply, callVars
<1> QED BY <1>1, <1>2, <1>3, <1>4, <1>5 DEF Next, Thread

\* For callers that keep all of Discipline the battery keeps the promise of
\* CurrentSchedule: seen from outside, every step of the two threads makes a
\* request about the future, lets the clock go on, or brings the device to the
\* sum of what was last wanted at a moment it had not got to before.
THEOREM PromiseKept ==
    ASSUME Assumptions \subseteq Discipline
    PROVE  Spec => KeepsPromise
<1> DEFINE Inv == TypeOK /\ Structure /\ Counting /\ OnSchedule
<1>1. Init => Promise!Init
  <2>1. Init => UpTo = 0
    BY BatteryAssumption, InitSchedule
  <2> QED BY <2>1 DEF Init, Promise!Init, Times, Promise!Times
<1>2. Init => Inv
  BY BatteryAssumption, InitStructure, InitCounting, InitSchedule
<1>3. Inv /\ [Next]_vars => Inv' /\ UpTo <= UpTo'
  <2>1. {"ahead", "settled"} \subseteq Discipline
    BY DEF Assumptions
  <2> QED BY <2>1, BatteryAssumption, NextStructure, NextCounting, NextSchedule
<1>4. Inv => InStep
  BY BatteryAssumption, DeviceInStep
<1>5. Inv /\ Inv' /\ InStep /\ InStep' /\ [Next]_vars => [Promise!Next]_Promise!vars
  <2> SUFFICES ASSUME Inv, Inv', InStep, InStep', [Next]_vars PROVE [Promise!Next]_Promise!vars
    OBVIOUS
  <2>1. CASE checkMergeAndInsertEvents
    <3>1. UpTo' = UpTo
      BY <2>1, BatteryAssumption, InsertSchedule
    <3>2. Promise!Request \/ UNCHANGED <<now, UpTo, want, device>>
      BY <2>1, <3>1, BatteryAssumption, InsertRefines
    <3> QED BY <3>2 DEF Promise!Next, Promise!vars
  <2>2. CASE ~checkMergeAndInsertEvents
    <3>1. want' = want /\ (now' = now \/ now' = now + 1)
      BY <2>2, OthersWantNothing
    <3>2. UpTo <= UpTo' /\ UpTo \in Int /\ UpTo' \in Int
      BY <1>3 DEF InStep, Times
    <3>3. UpTo' <= now'
      <4>1. \A e \in eventSet' : e.id # REFRESH => -1 < e.time
        BY DEF TypeOK, IsEvent
      <4>2. now' \in Nat
        BY DEF TypeOK, Times
      <4> QED BY <4>1, <4>2, UpToGrows
    <3>4. UpTo' \in UpTo .. now'
      BY <3>2, <3>3 DEF TypeOK, Times
    <3>5. device' = Promise!Total(want, UpTo')
      BY <3>1 DEF InStep
    <3> QED BY <3>1, <3>4, <3>5 DEF Promise!Next, Promise!Advance
  <2> QED BY <2>1, <2>2
<1> QED BY <1>1, <1>2, <1>3, <1>4, <1>5, PTL DEF Spec, KeepsPromise, Promise!Spec

-----------------------------------------------------------------------------
(***************************************************************************)
(* A battery that takes only its own requests stays within its limits.     *)
(***************************************************************************)
Within(cur) == -status.limit.charge <= cur /\ cur <= status.limit.discharge

\* What is wanted, and what is about to be, has passed the checks.
Bounded ==
    /\ \A t \in Times : Within(want[Own][t])
    /\ call # NoCall => call.seq \notin DOMAIN eventMap /\ Within(call.cur)

\* The limits of a battery change once, when it gets to know them.
LEMMA LimitsGrow ==
    ASSUME BatteryAssumption, \A l, m \in Limits : l = m, TypeOK,
           status'.limit = status.limit \/ status'.limit \in Limits, NEW cur \in Int, Within(cur)
    PROVE  Within(cur)'
<1>1. status.limit \in Limits \cup {NoLimit}
  BY DEF TypeOK
<1>2. CASE status'.limit = status.limit
  BY <1>2 DEF Within
<1>3. CASE status'.limit \in Limits /\ status.limit \in Limits
  BY <1>2, <1>3
<1>4. CASE status'.limit \in Limits /\ status.limit = NoLimit
  <2>1. cur = 0
    BY <1>4 DEF Within, NoLimit
  <2>2. status'.limit.charge \in Nat /\ status'.limit.discharge \in Nat
    BY <1>4 DEF BatteryAssumption
  <2> QED BY <2>1, <2>2 DEF Within
<1> QED BY <1>1, <1>2, <1>3, <1>4

LEMMA StepLimit ==
    ASSUME TypeOK, [Next]_vars
    PROVE  status'.limit = status.limit \/ status'.limit \in Limits
<1>0. refresh.limit = status.limit
  BY DEF refresh, TypeOK
<1>1. CASE UNCHANGED status
  BY <1>1
<1>2. CASE Build
  BY <1>2 DEF Build, setSourceBattery, AggregateBattery
<1>3. CASE getStatus \/ setBatteryStatus
  BY <1>0, <1>3 DEF getStatus, setBatteryStatus
<1>4. CASE \E mode \in Modes : setRefreshMode(mode)
  BY <1>0, <1>4 DEF setRefreshMode
<1>5. CASE RunsEvents \/ RunsCancel
  <2>1. status' = refresh \/ status' = status
    BY <1>5, Zenon DEF RunsEvents, RunsCancel, CancelAt, Apply
  <2> QED BY <1>0, <2>1
<1>6. CASE \/ UNCHANGED vars \/ quit \/ ThreadWakes \/ Tick \/ checkMergeAndInsertEvents
           \/ \E r \in Requests : schedule_set_current(r) \/ SecondShare(r.cur)
           \/ \E ms \in Stalenesses : setMaxStaleness(ms)
           \/ ThreadWaits \/ ThreadQuits \/ DiesOfStaleCancel \/ DiesAtEnd
  BY <1>1, <1>6 DEF vars, quit, ThreadWakes, Tick, checkMergeAndInsertEvents,
       schedule_set_current,
     SecondShare, setMaxStaleness, ThreadWaits, ThreadQuits, DiesOfStaleCancel, DiesAtEnd, Dies
<1> QED BY <1>2, <1>3, <1>4, <1>5, <1>6 DEF Next, Thread

\* The map loses requests only, but for an insertion, and so a call's number
\* stays its own.
LEMMA StepKeepsCall ==
    ASSUME BatteryAssumption, TypeOK, Structure, Counting, [Next]_vars, ~checkMergeAndInsertEvents,
           ~\E r \in Requests : schedule_set_current(r) \/ SecondShare(r.cur)
    PROVE  call' = call /\ DOMAIN eventMap' \subseteq DOMAIN eventMap
<1>1. CASE UNCHANGED <<call, eventMap>>
  BY <1>1
<1>2. CASE \/ UNCHANGED vars \/ Build \/ getStatus \/ setBatteryStatus \/ quit \/ ThreadWakes \/ Tick
           \/ \E mode \in Modes : setRefreshMode(mode)
           \/ \E ms \in Stalenesses : setMaxStaleness(ms)
           \/ ThreadWaits \/ ThreadQuits \/ DiesOfStaleCancel \/ DiesAtEnd
  BY <1>1, <1>2 DEF vars, Build, getStatus, setBatteryStatus, quit, ThreadWakes, Tick,
       setRefreshMode,
     setMaxStaleness, ThreadWaits, ThreadQuits, DiesOfStaleCancel, DiesAtEnd, Dies, callVars
<1>3. CASE RunsEvents \/ RunsCancel
  <2>1. \E batch, drop : IsPass(batch, drop)
    BY <1>3, EventsPass, CancelPass
  <2> QED BY <2>1 DEF IsPass
<1> QED BY <1>2, <1>3 DEF Next, Thread

LEMMA NextBounded ==
    ASSUME BatteryAssumption, Names = {Own}, \A l, m \in Limits : l = m,
           TypeOK, Structure, Counting, TypeOK', Bounded, [Next]_vars
    PROVE  Bounded'
<1> DEFINE WithinNext(cur) == -status'.limit.charge <= cur /\ cur <= status'.limit.discharge
<1>1. ASSUME NEW cur \in Int, Within(cur) PROVE WithinNext(cur)
  <2>1. Within(cur)'
    BY <1>1, StepLimit, LimitsGrow
  <2> QED BY <2>1 DEF Within
<1> HIDE DEF WithinNext
<1>2. /\ want \in [Names -> [Times -> Int]] /\ want' \in [Names -> [Times -> Int]]
      /\ call # NoCall => call \in Calls /\ call.cur \in Int /\ call.name = Own
      /\ Own \in Names
  BY DEF TypeOK, Calls
<1>3. \A t \in Times : WithinNext(want'[Own][t])
  <2> SUFFICES ASSUME NEW t \in Times PROVE WithinNext(want'[Own][t])
    OBVIOUS
  <2>1. want[Own][t] \in Int /\ Within(want[Own][t])
    BY <1>2 DEF Bounded
  <2>2. CASE ~checkMergeAndInsertEvents
    BY <1>1, <2>1, <2>2, OthersWantNothing
  <2>3. CASE checkMergeAndInsertEvents
    <3>1. want' = Asked(call) /\ call # NoCall /\ call.seq \notin DOMAIN eventMap
      BY <2>3 DEF checkMergeAndInsertEvents, Bounded
    <3>2. want'[Own][t] = want[Own][t] \/ want'[Own][t] = call.cur
      BY <1>2, <3>1 DEF Asked
    <3>3. call.cur \in Int /\ Within(call.cur)
      BY <1>2, <3>1 DEF Bounded
    <3> QED BY <1>1, <2>1, <3>2, <3>3
  <2> QED BY <2>2, <2>3
<1>4. call' # NoCall => call'.seq \notin DOMAIN eventMap' /\ WithinNext(call'.cur)
  <2>1. CASE checkMergeAndInsertEvents
    BY <2>1 DEF checkMergeAndInsertEvents
  <2>2. CASE \E r \in Requests : schedule_set_current(r)
    <3>1. PICK r \in Requests : schedule_set_current(r)
      BY <2>2
    <3>2. UNCHANGED <<eventMap, status>> /\ (call' # NoCall => call' = Pending(r, nextSeq) /\ Passes(r))
      BY <3>1 DEF schedule_set_current
    <3>3. r.name = Own /\ r.cur \in Int
      BY DEF BatteryAssumption
    <3>4. nextSeq \notin DOMAIN eventMap
      <4>1. nextSeq \in Nat
        BY DEF TypeOK
      <4> QED BY <4>1, PairFacts
    <3>5. status.limit.charge \in Int
      BY DEF TypeOK, BatteryAssumption, NoLimit
    <3>6. call' # NoCall => /\ -r.cur <= status.limit.charge /\ r.cur <= status.limit.discharge
                            /\ call'.cur = r.cur /\ call'.seq = nextSeq
      BY <3>2, <3>3 DEF Passes, Pending
    <3> QED BY <3>2, <3>3, <3>4, <3>5, <3>6 DEF WithinNext
  <2>3. CASE \E r \in Requests : SecondShare(r.cur)
    <3>1. last # NoCall /\ last.name # Own
      BY <2>3 DEF SecondShare
    <3> QED BY <3>1 DEF TypeOK, Calls
  <2>4. CASE /\ ~checkMergeAndInsertEvents
             /\ ~\E r \in Requests : schedule_set_current(r) \/ SecondShare(r.cur)
    <3>1. call' = call /\ DOMAIN eventMap' \subseteq DOMAIN eventMap
      BY <2>4, StepKeepsCall
    <3> QED BY <1>1, <1>2, <3>1 DEF Bounded
  <2> QED BY <2>1, <2>2, <2>3, <2>4
<1> QED BY <1>3, <1>4, Zenon DEF Bounded, Within, WithinNext

\* The sum over one name is what that name wants.
LEMMA OwnDevice ==
    ASSUME BatteryAssumption, Names = {Own}, TypeOK, InStep
    PROVE  UpTo \in Times /\ device = want[Own][UpTo]
<1> DEFINE h == [n \in Names |-> want[n][UpTo]]
<1>1. UpTo \in Times /\ device = SumOver(h, Names)
  BY TotalWanted DEF InStep
<1>2. h[Own] = want[Own][UpTo] /\ h[Own] \in Int
  BY <1>1 DEF TypeOK
<1> HIDE DEF h
<1>3. SumOver(h, {} \cup {Own}) = h[Own] + SumOver(h, {})
  BY <1>2, SumAdd, FS_EmptySet
<1>4. SumOver(h, {}) = 0 /\ {} \cup {Own} = {Own}
  BY SumEmpty
<1> QED BY <1>1, <1>2, <1>3, <1>4

\* A battery kept in ACTIVE mode that takes only its own requests, from callers
\* that keep all of Discipline, and whose limits once known do not change, runs
\* its device at the sum of the requests in force and within the limits after
\* every step, also between the two halves of a change, and its thread lives.
THEOREM DeviceStaysWithinLimits ==
    ASSUME Assumptions \subseteq Discipline, Mode = "ACTIVE", Modes \subseteq {"ACTIVE"},
           Names = {Own}, \A l, m \in Limits : l = m
    PROVE  Spec => []DeviceFollows
<1> DEFINE Inv == Counting /\ OnSchedule /\ Bounded
<1>0. {"ahead", "settled"} \subseteq Discipline
  BY DEF Assumptions
<1>1. Init => Inv
  <2>1. Init => Bounded
    <3> SUFFICES ASSUME Init PROVE Bounded
      OBVIOUS
    <3>1. call = NoCall /\ \A t \in Times : want[Own][t] = 0
      BY BatteryAssumption DEF Init, BatteryAssumption
    <3>2. status.limit.charge \in Nat /\ status.limit.discharge \in Nat
      BY BatteryAssumption DEF Init, BatteryAssumption, NoLimit
    <3> QED BY <3>1, <3>2 DEF Bounded, Within
  <2> QED BY <2>1, BatteryAssumption, InitCounting, InitSchedule
<1>2. TypeOK /\ Structure /\ Inv /\ [Next]_vars => Inv'
  BY <1>0, BatteryAssumption, NextStructure, NextCounting, NextSchedule, NextBounded
<1>3. Spec => [](TypeOK /\ Structure)
  BY TypeCorrect
<1>4. Spec => []NeverDies
  BY <1>0, ThreadSurvives
<1>5. TypeOK /\ Structure /\ Inv /\ NeverDies => DeviceFollows
  <2> SUFFICES ASSUME TypeOK, Structure, Inv, NeverDies PROVE DeviceFollows
    OBVIOUS
  <2>1. InStep
    BY BatteryAssumption, DeviceInStep
  <2>2. UpTo \in Times /\ device = want[Own][UpTo]
    BY <2>1, BatteryAssumption, OwnDevice
  <2>3. DeviceWithinLimits
    BY <2>2 DEF Bounded, Within, DeviceWithinLimits
  <2> QED BY <2>3 DEF DeviceFollows, OnSchedule
<1> QED BY <1>1, <1>2, <1>3, <1>4, <1>5, PTL DEF Spec
=============================================================================
