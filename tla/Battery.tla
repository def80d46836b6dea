------------------------------ MODULE Battery -------------------------------
(***************************************************************************)
(* One battery of BatteryOS V3 (class Battery, BatteryInterface.cpp): the  *)
(* schedule of set_current events, the calls that change it and the event  *)
(* thread that carries it out.                                             *)
(*                                                                         *)
(* Two actors touch a battery: the server thread, which makes one call at  *)
(* a time, and the battery's own event thread.  The event thread holds the *)
(* battery's lock whenever it is not waiting on the condition variable; a  *)
(* call takes the lock for its critical section only, after having read    *)
(* the clock and the status without it.                                    *)
(*                                                                         *)
(* A negative current charges, a positive one discharges.                  *)
(***************************************************************************)
EXTENDS Events

CONSTANTS
    Own,         \* batteryName
    Names,       \* names requests are made under: Own and descendants' names
    Requests,    \* the requests that may arrive: [name, cur, start, end]
    Limits,      \* max_(dis)charging_current_mA a status may carry: [charge, discharge]
    Kind,        \* "partition", "manager", "aggregate" or "physical"
    Mode,        \* refreshMode given to the constructor
    Modes,       \* the refresh modes setRefreshMode is called with
    Stalenesses, \* values maxStaleness is set to
    Discipline,  \* what is assumed of the callers, see Admissible and Tick
    MaxTime,     \* bound on the clock
    MaxCalls     \* bound on the number of calls

Assumptions == {"ahead", "touching", "settled"}

ASSUME BatteryAssumption ==
    /\ Own \in Names /\ IsFiniteSet(Names)
    /\ Requests \subseteq [name : Names, cur : Int, start : Nat, end : Nat]
    /\ \A r \in Requests : r.start <= r.end
    /\ Limits \subseteq [charge : Nat, discharge : Nat]
    /\ Kind \in {"partition", "manager", "aggregate", "physical"}
    /\ Mode \in {"LAZY", "ACTIVE"}
    /\ Kind = "manager" => Mode = "ACTIVE"
    /\ Modes \subseteq {"LAZY", "ACTIVE"}
    /\ Stalenesses \subseteq Nat \ {0} /\ Stalenesses # {}
    /\ Discipline \subseteq Assumptions
    /\ MaxTime \in Nat /\ MaxCalls \in Nat

VARIABLES
    now,          \* the clock
    pc,           \* where the event thread is
    deadline,     \* what wait_until waits for
    quitThread,
    refreshMode,
    maxStaleness,
    status,       \* [limit, time]: the limits in force and status.time
    eventSet,
    eventMap,     \* number of a request -> its pair of events
    current_mA,   \* the sum the event thread keeps
    device,       \* the argument of the last set_current
    call,         \* the schedule_set_current in progress, checked, not yet inserted
    last,         \* the request inserted last, which may have a second share
    nextSeq,      \* SEQUENCE_NUMBER
    calls,        \* number of calls made
    built,        \* the constructor and setSourceBattery are through
    applied,      \* history: BEGINs less ENDs of each number that took effect
    want          \* history: the current last asked for, by name and time

vars == <<now, pc, deadline, quitThread, refreshMode, maxStaleness, status, eventSet,
          eventMap, current_mA, device, call, last, nextSeq, calls, built, applied, want>>

threadVars == <<pc, deadline, current_mA, device, applied>>
configVars == <<quitThread, refreshMode, maxStaleness, built>>
callVars == <<call, last, nextSeq, calls, want>>

NoCall == [none |-> TRUE]
Seqs == 1 .. (MaxCalls + 2)
RequestSeqs == 2 .. (MaxCalls + 1)   \* the first number is that of the first refresh
Times == 0 .. MaxTime
Never == MaxTime + 1                  \* the deadline of a wait without one
Calls == [name : Names, cur : Int, start : Nat, end : Nat, seq : Seqs]
NoLimit == [charge |-> 0, discharge |-> 0]

-----------------------------------------------------------------------------
\* Battery::Battery: everything zero.  A manager is born with its first refresh
\* queued and its source's status; a physical battery never starts a thread.
Init ==
    /\ now = 0 /\ deadline = Never
    /\ pc = IF Kind = "physical" THEN "none" ELSE "woken"
    /\ quitThread = FALSE
    /\ refreshMode = Mode
    /\ maxStaleness \in Stalenesses
    /\ status \in {[limit |-> l, time |-> 0] :
                     l \in IF Kind = "manager" THEN Limits ELSE {NoLimit}}
    /\ eventSet = IF Kind = "manager"
                  THEN {event_t(Own, REFRESH, 0, maxStaleness, 1)} ELSE {}
    /\ eventMap = << >>
    /\ current_mA = 0 /\ device = 0
    /\ call = NoCall /\ last = NoCall
    /\ nextSeq = 2 /\ calls = 0
    /\ \/ Kind \in {"manager", "physical"} /\ built = TRUE
       \/ Kind \in {"partition", "aggregate"} /\ built = FALSE
    /\ applied = [s \in Seqs |-> 0]
    /\ want = [n \in Names |-> [t \in Times |-> 0]]

\* The event thread gives the lock up only while it waits.
LockFree == pc \in {"none", "woken", "wait", "timed", "done"}
Alive == pc # "dead"

\* Mutant: the notification is forgotten.
Notified_Never == pc

\* condition_variable.notify_one: wakes the event thread if it waits.
Notified == IF pc \in {"wait", "timed"} THEN "woken" ELSE pc

-----------------------------------------------------------------------------
\* setSourceBattery of a partition, end of AggregateBattery's constructor: the
\* thread is running already, the first refresh goes into eventSet with neither
\* the lock nor a notification.  (The unlocked insert races with the thread's
\* first look at eventSet; the outcomes are that it sees the event or does not.)
setSourceBattery ==
    /\ Kind = "partition"
    /\ \E l \in Limits : status' = [limit |-> l, time |-> now]
    /\ eventSet' = IF refreshMode = "ACTIVE"
                   THEN eventSet \cup {event_t(Own, REFRESH, 0, now + maxStaleness, 1)}
                   ELSE eventSet

AggregateBattery ==
    /\ Kind = "aggregate"
    /\ eventSet' = eventSet \cup {event_t(Own, REFRESH, 0, now, 1)}
    /\ UNCHANGED status

Build ==
    /\ ~built /\ Alive
    /\ built' = TRUE
    /\ setSourceBattery \/ AggregateBattery
    /\ UNCHANGED <<now, threadVars, quitThread, refreshMode, maxStaleness, eventMap, callVars>>

-----------------------------------------------------------------------------
\* The assumptions about callers under which the schedule is kept.
\*  "ahead":    a request is in the schedule before its start time comes
\*  "touching": it overlaps or touches every request of its name still scheduled
\*  "settled":  no request of its name waits to be cancelled
Outstanding(n) == {k \in DOMAIN eventMap : eventMap[k].first.name = n}

Admissible(r) ==
    /\ "ahead" \in Discipline => now < r.start
    /\ "touching" \in Discipline =>
         \A k \in Outstanding(r.name) :
            r.start <= eventMap[k].second.time /\ eventMap[k].first.time <= r.end
    /\ "settled" \in Discipline =>
         \A e \in Of(eventSet, CANCEL_SET_CURRENT_EVENT) : e.name # r.name

\* Mutant: the charging limit is compared without turning the sign round.
Passes_ChargeSign(r) ==
    r.name = Own =>
        /\ r.start >= now
        /\ r.cur <= status.limit.charge
        /\ r.cur <= status.limit.discharge

\* The checks of schedule_set_current, made without the lock, for the
\* battery's own requests only.
Passes(r) ==
    r.name = Own =>
        /\ r.start >= now
        /\ -r.cur <= status.limit.charge
        /\ r.cur <= status.limit.discharge

\* Mutant: the request goes on without a sequence number of its own.
Pending_NoNumber(r, seq) == [name |-> r.name, cur |-> r.cur, start |-> r.start, end |-> r.end, seq |-> 0]

Pending(r, seq) == [name |-> r.name, cur |-> r.cur, start |-> r.start, end |-> r.end, seq |-> seq]

\* schedule_set_current up to the call of checkMergeAndInsertEvents.  The
\* sequence number is drawn first, a refused request leaves nothing else.  (The
\* second a call sleeps when the status is still zero is time that passes
\* before the lock is taken.)
schedule_set_current(r) ==
    /\ built /\ Alive /\ Kind # "aggregate"
    /\ call = NoCall /\ calls < MaxCalls
    /\ Admissible(r)
    /\ calls' = calls + 1
    /\ nextSeq' = nextSeq + 1
    /\ call' = IF Passes(r) THEN Pending(r, nextSeq) ELSE NoCall
    /\ last' = NoCall
    /\ UNCHANGED <<now, threadVars, configVars, status, eventSet, eventMap, want>>

\* An aggregate of several descendants of this battery forwards its request
\* once for each of them, one after the other, under one sequence number.
SecondShare(cur) ==
    /\ Alive /\ call = NoCall /\ calls < MaxCalls
    /\ last # NoCall /\ last.name # Own
    /\ "ahead" \in Discipline => now < last.start
    /\ calls' = calls + 1
    /\ call' = [last EXCEPT !.cur = cur]
    /\ last' = NoCall
    /\ UNCHANGED <<now, threadVars, configVars, status, eventSet, eventMap, nextSeq, want>>

-----------------------------------------------------------------------------
\* checkMergeAndInsertEvents compares the new request with every scheduled
\* one of the same name; the first case that applies is taken.
Begins(k) == eventMap[k].first.time
Ends(k) == eventMap[k].second.time

\* Mutant: a request around the new one is not offset.
Around_Ignored(r) == {}

Covered(r) == {k \in Outstanding(r.name) : r.start <= Begins(k) /\ r.end >= Ends(k)}
Around(r) == {k \in Outstanding(r.name) \ Covered(r) : r.start >= Begins(k) /\ r.end < Ends(k)}
CutTail(r) == {k \in Outstanding(r.name) \ Covered(r) : r.start >= Begins(k) /\ r.end >= Ends(k)}
CutHead(r) == {k \in Outstanding(r.name) \ (Covered(r) \cup Around(r) \cup CutTail(r)) :
                 r.start <= Begins(k) /\ r.end <= Ends(k)}

Offset(r) == SumCur({eventMap[k].first : k \in Around(r)})

Moved(e, time) == [e EXCEPT !.time = time]

\* A covered request will be cancelled when the new one starts; one that goes
\* on around the new one is offset by its current; one that is cut at the tail
\* ends when the new one starts, one cut at the head begins when it ends.
Merge(r) ==
    LET target == r.cur - Offset(r)
        begin  == event_t(r.name, SET_CURRENT_BEGIN, target, r.start, r.seq)
        end    == event_t(r.name, SET_CURRENT_END, target, r.end, r.seq)
        cut    == [k \in DOMAIN eventMap |->
                     CASE k \in CutTail(r) ->
                            [eventMap[k] EXCEPT !.second = Moved(@, r.start)]
                       [] k \in CutHead(r) ->
                            [eventMap[k] EXCEPT !.first = Moved(@, r.end)]
                       [] OTHER -> eventMap[k]]
    IN  /\ eventSet' =
              (eventSet \ ({eventMap[k].second : k \in CutTail(r)}
                           \cup {eventMap[k].first : k \in CutHead(r)}))
              \cup {cut[k].second : k \in CutTail(r)}
              \cup {cut[k].first : k \in CutHead(r)}
              \cup {event_t(r.name, CANCEL_SET_CURRENT_EVENT, 0, r.start, k) : k \in Covered(r)}
              \cup {begin, end}
        /\ eventMap' = [k \in DOMAIN eventMap \cup {r.seq} |->
                          IF k = r.seq THEN [first |-> begin, second |-> end] ELSE cut[k]]

\* A request whose number is scheduled already adds to it and moves it.
AddShare(r) ==
    LET old   == eventMap[r.seq]
        total == r.cur + old.first.cur
        begin == event_t(r.name, SET_CURRENT_BEGIN, total, r.start, r.seq)
        end   == event_t(r.name, SET_CURRENT_END, total, r.end, r.seq)
    IN  /\ eventSet' = (eventSet \ {old.first, old.second}) \cup {begin, end}
        /\ eventMap' = [eventMap EXCEPT ![r.seq] = [first |-> begin, second |-> end]]

\* What the callers want after request r: a share adds to its first part.
Asked(r) ==
    [want EXCEPT ![r.name] =
        [t \in Times |->
            IF r.start <= t /\ t < r.end
            THEN IF r.seq \in DOMAIN eventMap THEN @[t] + r.cur ELSE r.cur
            ELSE @[t]]]

\* checkMergeAndInsertEvents under the lock, and the notification after it.
checkMergeAndInsertEvents ==
    /\ Alive /\ LockFree /\ call # NoCall
    /\ IF call.seq \in DOMAIN eventMap THEN AddShare(call) ELSE Merge(call)
    /\ want' = Asked(call)
    /\ call' = NoCall
    /\ last' = IF call.seq \in DOMAIN eventMap THEN NoCall ELSE call
    /\ pc' = Notified
    /\ UNCHANGED <<now, deadline, current_mA, device, applied, configVars, status, nextSeq, calls>>

-----------------------------------------------------------------------------
\* refresh() of a partition and of a manager keeps the limits and stamps the
\* status; that of PhysicalBattery returns it as it is.
refresh == IF Kind = "physical" THEN status ELSE [status EXCEPT !.time = now]

\* getStatus and checkAndRefresh.
getStatus ==
    /\ built /\ Alive /\ LockFree
    /\ status' = IF refreshMode = "LAZY" /\ now - status.time > maxStaleness
                 THEN refresh ELSE status
    /\ UNCHANGED <<now, threadVars, configVars, eventSet, eventMap, callVars>>

\* setBatteryStatus: a client writes a whole status, its time stamp included.
setBatteryStatus ==
    /\ built /\ Alive /\ LockFree /\ calls < MaxCalls
    /\ \E l \in Limits, t \in {0, now} : status' = [limit |-> l, time |-> t]
    /\ calls' = calls + 1
    /\ UNCHANGED <<now, threadVars, configVars, eventSet, eventMap, call, last, nextSeq, want>>

\* setRefreshMode: switching to ACTIVE refreshes at once and queues a refresh.
setRefreshMode(mode) ==
    /\ built /\ Alive /\ LockFree /\ calls < MaxCalls
    /\ refreshMode # mode
    /\ refreshMode' = mode
    /\ calls' = calls + 1
    /\ \/ /\ mode = "ACTIVE"
          /\ status' = refresh
          /\ eventSet' = eventSet \cup {event_t(Own, REFRESH, 0, now + maxStaleness, nextSeq)}
          /\ nextSeq' = nextSeq + 1
          /\ pc' = Notified
       \/ mode = "LAZY" /\ UNCHANGED <<status, eventSet, nextSeq, pc>>
    /\ UNCHANGED <<now, deadline, current_mA, device, applied, quitThread, maxStaleness, built,
                   eventMap, call, last, want>>

setMaxStaleness(ms) ==
    /\ built /\ Alive /\ LockFree /\ calls < MaxCalls
    /\ maxStaleness # ms
    /\ maxStaleness' = ms
    /\ calls' = calls + 1
    /\ UNCHANGED <<now, threadVars, quitThread, refreshMode, built, status, eventSet, eventMap,
                   call, last, nextSeq, want>>

\* quit: raises the flag under the lock and wakes the thread; the caller then
\* joins it, that is waits for pc = "done".
quit ==
    /\ built /\ Alive /\ LockFree /\ ~quitThread /\ call = NoCall
    /\ quitThread' = TRUE
    /\ pc' = Notified
    /\ UNCHANGED <<now, deadline, current_mA, device, applied, refreshMode, maxStaleness, built,
                   status, eventSet, eventMap, callVars>>

-----------------------------------------------------------------------------
\* runEventThread.  "woken": it needs the lock; "scan": it has the lock and is
\* at the head of its loop; "wait", "timed": it sleeps on the condition variable.
Due == {e \in eventSet : e.time <= now}

Running == pc \in {"woken", "scan"}

ThreadWaits ==
    /\ Running /\ ~quitThread
    /\ \/ eventSet = {} /\ pc' = "wait" /\ deadline' = Never
       \/ /\ Due = {} /\ pc' = "timed"
          /\ \E e \in eventSet : IsFirst(e, eventSet) /\ deadline' = e.time
    /\ UNCHANGED <<now, current_mA, device, applied, configVars, status, eventSet, eventMap, callVars>>

\* A condition variable may wake without a notification.
ThreadWakes ==
    /\ pc \in {"wait", "timed"}
    /\ pc = "wait" => eventSet # {} \/ quitThread
    /\ pc' = "woken"
    /\ UNCHANGED <<now, deadline, current_mA, device, applied, configVars, status, eventSet,
                   eventMap, callVars>>

ThreadQuits ==
    /\ quitThread
    /\ Running \/ (pc = "timed" /\ now >= deadline)
    /\ pc' = "done"
    /\ UNCHANGED <<now, deadline, current_mA, device, applied, configVars, status, eventSet,
                   eventMap, callVars>>

\* The thread goes through the due events when the first one is due, and when
\* wait_until timed out, whatever became of the event it waited for.  wait_until
\* looks at the clock when it has the lock again, so a thread that was notified
\* may have timed out as well, if the lock comes after the deadline.
AtPass ==
    /\ ~quitThread /\ eventSet # {}
    /\ (Running /\ Due # {}) \/ (pc \in {"timed", "woken"} /\ deadline <= now)

\* In ACTIVE mode a refresh queues the next one, maxStaleness after its own
\* time, and the loop goes on to that one too if it lies within the horizon,
\* the last moment the loop covers completely.  Only that the numbers of
\* refreshes differ matters, so a chain of them keeps its number.
NextRefresh(t, horizon) == t + maxStaleness * ((horizon - t) \div maxStaleness + 1)

\* Mutant: the refresh is queued again for the time it has had.
Requeued_SameTime(batch, horizon) == IF refreshMode = "ACTIVE" THEN Of(batch, REFRESH) ELSE {}

Requeued(batch, horizon) ==
    IF refreshMode = "ACTIVE"
    THEN {Moved(e, NextRefresh(e.time, horizon)) : e \in Of(batch, REFRESH)}
    ELSE {}

Queued(batch, horizon) == eventSet \cup Requeued(batch, horizon)

\* The loop's iterator stops at the first due CANCEL, or else at the first
\* event that is not due, whatever it is, or else at end().
DueCancels == Of(Due, CANCEL_SET_CURRENT_EVENT)
Later == {e \in Queued(Due, now) : e.time > now}

StopsAtCancel(c) ==
    /\ c.id = CANCEL_SET_CURRENT_EVENT
    /\ IF DueCancels # {} THEN IsFirst(c, DueCancels) ELSE IsFirst(c, Later)

\* Mutant: the loop goes past a CANCEL.
BatchBefore_All(c) == Due \ DueCancels

\* The events collected before the iterator stops at c.
BatchBefore(c) == {e \in Due : Before(e, c)}

Delta(batch) == SumCur(Of(batch, SET_CURRENT_BEGIN)) - SumCur(Of(batch, SET_CURRENT_END))

Count(batch, id, s) == IF \E e \in batch : e.id = id /\ e.seq = s THEN 1 ELSE 0

\* The second half of the loop body: the collected events take effect, unless
\* cancelling left the set empty, and set_current follows if the sum changed.
Apply(batch, set, map) ==
    /\ status' = IF Of(batch, REFRESH) # {} THEN refresh ELSE status
    /\ IF set = {}
       THEN /\ eventSet' = set /\ eventMap' = map
            /\ UNCHANGED <<current_mA, device, applied>>
       ELSE /\ eventSet' = set \ batch
            /\ eventMap' = Without(map, {e.seq : e \in Of(batch, SET_CURRENT_END)})
            /\ current_mA' = current_mA + Delta(batch)
            /\ device' = IF Delta(batch) # 0 THEN current_mA' ELSE device
            /\ applied' = [s \in Seqs |-> applied[s] + Count(batch, SET_CURRENT_BEGIN, s)
                                                     - Count(batch, SET_CURRENT_END, s)]
    /\ pc' = "scan"
    /\ UNCHANGED <<now, deadline, configVars, callVars>>

RunsEvents ==
    /\ AtPass /\ DueCancels = {}
    /\ \A c \in Later : ~StopsAtCancel(c)
    /\ Apply(Due, Queued(Due, now), eventMap)

\* Cancelling erases the request's pair, the CANCEL event and the map entry.
\* (The code reads the CANCEL event's number once more after freeing it; the
\* allocator does not overwrite that part of the node, so the number is right.)
CancelAt(c, gone) ==
    LET batch == BatchBefore(c)
        horizon == IF c.time <= now THEN c.time - 1 ELSE now
    IN  Apply(batch, Queued(batch, horizon) \ gone, Without(eventMap, {c.seq}))

\* Mutant: the pair of the cancelled request stays in the set.
RunsCancel_KeepsPair ==
    /\ AtPass
    /\ \E c \in eventSet :
         /\ StopsAtCancel(c) /\ c.seq \in DOMAIN eventMap
         /\ CancelAt(c, {c})

\* Mutant: the CANCEL event stays in the set.
RunsCancel_KeepsEvent ==
    /\ AtPass
    /\ \E c \in eventSet :
         /\ StopsAtCancel(c) /\ c.seq \in DOMAIN eventMap
         /\ CancelAt(c, {eventMap[c.seq].first, eventMap[c.seq].second})

RunsCancel ==
    /\ AtPass
    /\ \E c \in eventSet :
         /\ StopsAtCancel(c) /\ c.seq \in DOMAIN eventMap
         /\ CancelAt(c, {c, eventMap[c.seq].first, eventMap[c.seq].second})

Dies ==
    /\ pc' = "dead"
    /\ UNCHANGED <<now, deadline, current_mA, device, applied, configVars, status, eventSet,
                   eventMap, callVars>>

\* eventMap.at of a request that is gone throws, and nothing catches it.
DiesOfStaleCancel ==
    /\ AtPass
    /\ \E c \in eventSet : StopsAtCancel(c) /\ c.seq \notin DOMAIN eventMap
    /\ Dies

\* With every event due the code reads eventID through end().  In libstdc++
\* that is the number of nodes of the set: three look like a CANCEL, and the
\* number looked up is no request's, so eventMap.at throws.
DiesAtEnd ==
    /\ AtPass /\ DueCancels = {} /\ Later = {}
    /\ Cardinality(eventSet) = CANCEL_SET_CURRENT_EVENT
    /\ Dies

-----------------------------------------------------------------------------
\* Time passes whatever the threads do, but under "ahead" a call in progress
\* reaches the lock before the start time of its request.
Tick ==
    /\ now < MaxTime /\ Alive
    /\ ("ahead" \in Discipline /\ call # NoCall) => now + 1 < call.start
    /\ now' = now + 1
    /\ UNCHANGED <<threadVars, configVars, status, eventSet, eventMap, callVars>>

Thread == ThreadWaits \/ ThreadQuits \/ RunsEvents \/ RunsCancel \/ DiesOfStaleCancel \/ DiesAtEnd

Next ==
    \/ Build
    \/ \E r \in Requests : schedule_set_current(r)
    \/ \E r \in Requests : SecondShare(r.cur)
    \/ checkMergeAndInsertEvents
    \/ getStatus
    \/ setBatteryStatus
    \/ \E mode \in Modes : setRefreshMode(mode)
    \/ \E ms \in Stalenesses : setMaxStaleness(ms)
    \/ quit
    \/ ThreadWakes
    \/ Thread
    \/ Tick

Spec == Init /\ [][Next]_vars

\* The clock runs, the server thread finishes the call it is in, and an event
\* thread that can take the lock and has something to do does it.
Fairness == WF_vars(Tick) /\ WF_vars(Build) /\ WF_vars(checkMergeAndInsertEvents) /\ WF_vars(Thread)
FairSpec == Spec /\ Fairness

-----------------------------------------------------------------------------
\* That the currents are integers too is a part of OnSchedule: a target is a sum
\* of the currents around it.
IsEvent(e) ==
    /\ e = event_t(e.name, e.id, e.cur, e.time, e.seq)
    /\ e.name \in Names /\ e.id \in EventIDs /\ e.time \in Nat /\ e.seq \in Seqs

TypeOK ==
    /\ now \in Times /\ deadline \in Nat
    /\ pc \in {"none", "woken", "scan", "wait", "timed", "done", "dead"}
    /\ quitThread \in BOOLEAN /\ built \in BOOLEAN
    /\ refreshMode \in {"LAZY", "ACTIVE"} /\ maxStaleness \in Stalenesses
    /\ status \in [limit : Limits \cup {NoLimit}, time : Times]
    /\ \A e \in eventSet : IsEvent(e)
    /\ DOMAIN eventMap \subseteq Seqs
    /\ \A k \in DOMAIN eventMap :
         /\ eventMap[k] = [first |-> eventMap[k].first, second |-> eventMap[k].second]
         /\ IsEvent(eventMap[k].first) /\ IsEvent(eventMap[k].second)
    /\ call \in Calls \cup {NoCall} /\ last \in Calls \cup {NoCall}
    /\ nextSeq \in Nat /\ calls \in 0 .. MaxCalls
    /\ applied \in [Seqs -> Int]
    /\ want \in [Names -> [Times -> Int]]

Begun(k) == k \in DOMAIN eventMap /\ eventMap[k].first \notin eventSet

\* Whoever asks and however the two threads interleave, the set and the map of
\* runEventThread and checkMergeAndInsertEvents stay in step: the END events
\* queued are exactly those of the requests in the map, so every request that
\* is in force will end, and no BEGIN is queued for a request that is gone.
SetMatchesMap ==
    /\ Of(eventSet, SET_CURRENT_END) = {eventMap[k].second : k \in DOMAIN eventMap}
    /\ Of(eventSet, SET_CURRENT_BEGIN) \subseteq {eventMap[k].first : k \in DOMAIN eventMap}
    /\ \A k \in DOMAIN eventMap : eventMap[k].first.time <= eventMap[k].second.time

\* SetMatchesMap as an inductive invariant: what an event of the set and an
\* entry of the map know of each other, and where sequence numbers come from.
Drawn(x) == x # NoCall => x.seq < nextSeq /\ x.start <= x.end

Structure ==
    /\ 2 <= nextSeq /\ nextSeq <= calls + 2
    /\ Drawn(call) /\ Drawn(last)
    /\ \A k \in DOMAIN eventMap :
         /\ k < nextSeq
         /\ eventMap[k].first.id = SET_CURRENT_BEGIN /\ eventMap[k].first.seq = k
         /\ eventMap[k].second.id = SET_CURRENT_END /\ eventMap[k].second.seq = k
         /\ eventMap[k].first.time <= eventMap[k].second.time
         /\ eventMap[k].second \in eventSet
    /\ \A e \in eventSet :
         /\ e.id = SET_CURRENT_BEGIN =>
              e.seq \in DOMAIN eventMap /\ e = eventMap[e.seq].first
         /\ e.id = SET_CURRENT_END =>
              e.seq \in DOMAIN eventMap /\ e = eventMap[e.seq].second

\* A request counts once from its BEGIN to its END and not at all before and
\* after, also when it is cut, shared or cancelled in between: nothing is
\* counted twice by runEventThread and nothing stays behind.
CountedOnce == \A s \in Seqs : applied[s] = IF Begun(s) THEN 1 ELSE 0

\* CountedOnce as an inductive invariant, for callers that are ahead of time
\* and leave no cancellation outstanding: a request in force has begun, one to
\* be cancelled has not, and the call in progress concerns neither.
Untouched(k) ==
    /\ k \in DOMAIN eventMap /\ eventMap[k].first \in eventSet
    /\ \A c \in Of(eventSet, CANCEL_SET_CURRENT_EVENT) : c.seq # k

Counting ==
    /\ CountedOnce
    /\ \A k \in DOMAIN eventMap : Begun(k) => eventMap[k].first.time <= now
    /\ \A c \in Of(eventSet, CANCEL_SET_CURRENT_EVENT) :
         /\ c.seq \in DOMAIN eventMap
         /\ eventMap[c.seq].first \in eventSet /\ eventMap[c.seq].first.name = c.name
         /\ c.time <= eventMap[c.seq].first.time
         /\ \A d \in Of(eventSet, CANCEL_SET_CURRENT_EVENT) : d.seq = c.seq => d = c
    /\ (last # NoCall /\ now < last.start) =>
         Untouched(last.seq) /\ eventMap[last.seq].first.time = last.start
    /\ call # NoCall =>
         /\ now < call.start
         /\ IF call.seq \in DOMAIN eventMap
            THEN Untouched(call.seq) /\ eventMap[call.seq].first.time = call.start
            ELSE \A c \in Of(eventSet, CANCEL_SET_CURRENT_EVENT) : c.name # call.name

\* The current the event thread keeps, adding at every BEGIN and subtracting at
\* every END, is that of the requests in force, and it is the device's.
Ledger ==
    /\ current_mA = SumCur({eventMap[k].first : k \in {s \in DOMAIN eventMap : Begun(s)}})
    /\ device = current_mA

\* What the schedule will do at time t for the requests of name n.
Doomed == {e.seq : e \in Of(eventSet, CANCEL_SET_CURRENT_EVENT)}
InForce(n, t) == {k \in Outstanding(n) \ Doomed : Begins(k) <= t /\ t < Ends(k)}
Plan(n, t) == SumCur({eventMap[k].first : k \in InForce(n, t)})

\* Merging keeps the promise "later requests replace earlier ones": at every
\* moment still to come the events queued for a name add up to the current
\* last asked for, through any nesting of cut, offset and cancelled requests.
PlanIsLastWish ==
    \A n \in Names : \A t \in now .. MaxTime : Plan(n, t) = want[n][t]

\* How far the battery has got: the last moment before the first event queued.
UpTo == IF Due \ Of(eventSet, REFRESH) = {} THEN now
        ELSE Min({e.time : e \in Due \ Of(eventSet, REFRESH)}) - 1

\* PlanIsLastWish and Ledger as an inductive invariant, for callers that keep
\* all of Discipline: what has begun has begun by UpTo, the plan is kept from
\* UpTo on, and the call in progress finds the requests it was checked against,
\* or the pair of its number, as they were.
SameWindow(x) ==
    /\ eventMap[x.seq].first.name = x.name
    /\ eventMap[x.seq].second.time = x.end

OnSchedule ==
    /\ Ledger
    /\ \A k \in DOMAIN eventMap :
         /\ eventMap[k].first.cur \in Int /\ eventMap[k].second.cur = eventMap[k].first.cur
         /\ Begun(k) => Begins(k) <= UpTo
    /\ 0 <= UpTo
    /\ \A n \in Names : \A t \in UpTo .. MaxTime : Plan(n, t) = want[n][t]
    /\ (last # NoCall /\ now < last.start) => SameWindow(last)
    /\ call # NoCall =>
         IF call.seq \in DOMAIN eventMap THEN SameWindow(call)
         ELSE \A k \in Outstanding(call.name) : call.start <= Ends(k) /\ Begins(k) <= call.end

\* The battery never runs into the two lookups that end the process.
NeverDies == pc # "dead"

\* A battery that takes only its own requests stays within its limits at every
\* moment, also in the middle of a change from one request to the next.
DeviceWithinLimits ==
    -status.limit.charge <= device /\ device <= status.limit.discharge

\* The device runs at the sum of the requests in force and within its limits
\* whatever the order in which runEventThread applies what is due together, and
\* the thread lives to apply it.
DeviceFollows == Ledger /\ DeviceWithinLimits /\ NeverDies

\* In ACTIVE mode the chain of refreshes never breaks: however the modes and
\* the staleness are switched, however late the thread runs and whatever it
\* cancels, a refresh is queued no further ahead than a staleness.
RefreshKeepsComing ==
    (built /\ refreshMode = "ACTIVE" /\ pc # "none") =>
        \E e \in Of(eventSet, REFRESH), s \in Stalenesses : e.time <= now + s

Promise == INSTANCE CurrentSchedule WITH upto <- UpTo, out <- device
KeepsPromise == Promise!Spec

\* quit always gets its thread to stop, so that the join after it returns.
QuitStops == quitThread ~> pc \in {"done", "none"}

\* Every request in the schedule comes to its end, and the battery is back to
\* no current when it has none left, unless it is shut down first, and then its
\* thread stops.
EveryRequestEnds ==
    /\ \A s \in RequestSeqs : (s \in DOMAIN eventMap) ~> (s \notin DOMAIN eventMap \/ quitThread)
    /\ []<>(quitThread \/ DOMAIN eventMap # {} \/ device = 0)
    /\ QuitStops

=============================================================================
