------------------------------ MODULE Splitter ------------------------------
(***************************************************************************)
(* Version 2 of BatteryOS: a splitter (BALSplitter.hpp), the children that *)
(* share it and the source battery below it (BatteryInterface.cpp).        *)
(*                                                                         *)
(* Unlike version 3, events carry absolute currents and the last one wins. *)
(* A request of a child is queued at the splitter, which only keeps the    *)
(* books of its children, and at the source, which has to carry the total. *)
(* Each of the two has a queue, a lock and a background thread; requests   *)
(* are made by the server thread, which holds the splitter's lock while it *)
(* calls the source.                                                       *)
(*                                                                         *)
(* A negative current charges, a positive one discharges.                  *)
(***************************************************************************)
EXTENDS Integers, FiniteSets, FiniteSetsExt, Functions

CONSTANTS
    Children,
    Requests,        \* the requests that may arrive: [child, cur, when, until]
    InitialLimit,    \* a child's scale of the limits of the source: [charge, discharge]
    Limits,          \* limits a refresh may leave a child with
    DeviceLimit,     \* the currents the device takes: [charge, discharge]
    get_delay(_, _), \* how far ahead the device has to be told, from current to current
    Staleness,       \* max_staleness of the splitter
    MaxTime,         \* bound on the clock
    MaxCalls         \* bound on the number of requests

Source == "source"

ASSUME SplitterAssumption ==
    /\ IsFiniteSet(Children) /\ Source \notin Children
    /\ Requests \subseteq [child : Children \cup {Source}, cur : Int, when : Nat, until : Nat]
    /\ \A r \in Requests : r.when <= r.until /\ r.until <= MaxTime
    /\ Limits \subseteq [charge : Nat, discharge : Nat] /\ InitialLimit \in Limits
    /\ DeviceLimit \in [charge : Nat, discharge : Nat]
    /\ \A i, j \in {r.cur : r \in Requests} \cup {0} : get_delay(i, j) \in Nat
    /\ Staleness \in Nat \ {0}
    /\ MaxTime \in Nat /\ MaxCalls \in Nat

VARIABLES
    now,          \* the clock
    queue,        \* event_queue of the splitter
    childCurrent, \* children_current_now
    charge,       \* children_estimated_charge_now, from zero
    estimatedAt,  \* children_last_charge_estimate_timepoint
    limit,        \* the limits in children_status_now
    sourceQueue,  \* event_queue of the source
    current_now,  \* current_now of the source
    device,       \* the current the source's device runs at
    call,         \* the request queued at the splitter, on its way to the source
    nextSeq,      \* current_sequence_number; one for both queues is as good
    calls,        \* number of requests made
    quitted,      \* the batteries whose thread has been stopped
    wish,         \* history: the current last accepted, by child and time
    used,         \* history: charge the wishes up to now come to, by child
    late,         \* history: an event was still queued when its time had passed
    refused,      \* history: the device has refused a current
    sins          \* history: what callers did that the splitter is not prepared for

vars == <<now, queue, childCurrent, charge, estimatedAt, limit, sourceQueue, current_now, device,
          call, nextSeq, calls, quitted, wish, used, late, refused, sins>>

splitterVars == <<queue, childCurrent, charge, estimatedAt, limit>>
sourceVars == <<sourceQueue, current_now, device, refused>>
callVars == <<call, nextSeq, calls>>
history == <<wish, used, late, sins>>

Times == 0 .. MaxTime
NoCall == [none |-> TRUE]
Nobody == "nobody"

\* event_t.  time_added orders events as the sequence number does.
Event(func, time, seq, child, cur) ==
    [func |-> func, time |-> time, seq |-> seq, child |-> child, cur |-> cur]
Refresh(time) == Event("REFRESH", time, 0, Nobody, 0)

\* make_splitter: the children are idle and the first refresh is queued.
Init ==
    /\ now = 0
    /\ queue = {Refresh(Staleness)} /\ sourceQueue = {}
    /\ childCurrent = [c \in Children |-> 0]
    /\ charge = [c \in Children |-> 0] /\ estimatedAt = [c \in Children |-> 0]
    /\ limit = [c \in Children |-> InitialLimit]
    /\ current_now = 0 /\ device = 0
    /\ call = NoCall /\ nextSeq = 1 /\ calls = 0 /\ quitted = {}
    /\ wish = [c \in Children |-> [t \in Times |-> 0]]
    /\ used = [c \in Children |-> 0]
    /\ late = FALSE /\ refused = FALSE /\ sins = {}

-----------------------------------------------------------------------------
\* operator<: by time, then by age.
Before(e, f) == e.time < f.time \/ (e.time = f.time /\ e.seq < f.seq)

\* Preview: the current that x has at time t if the events of q are carried out
\* on top of base, the current x has now.
Upto(q, x, t) == {e \in q : e.func # "REFRESH" /\ e.child = x /\ e.time <= t}

LastCurrent(past, base) ==
    IF past = {} THEN base ELSE (CHOOSE e \in past : \A f \in past : f = e \/ Before(f, e)).cur

Preview(q, base, x, t) == LastCurrent(Upto(q, x, t), base)

\* Mutant: the events the window covers stay in the queue.
InWindow_None(q, x, when, until) == {}

\* The events of x that a new window removes.
InWindow(q, x, when, until) ==
    {e \in q : e.func # "REFRESH" /\ e.child = x /\ when <= e.time /\ e.time <= until}

\* The new events: the current from when on, and at until what would have been
\* the current then.
WithWindow(q, x, cur, when, until, resume) ==
    (q \ InWindow(q, x, when, until))
        \cup {Event("SET_CURRENT", when, nextSeq, x, cur),
              Event("SET_CURRENT_END", until, nextSeq + 1, x, resume)}

-----------------------------------------------------------------------------
Total(f) == FoldFunction(+, 0, f)

Planned(c, t) == Preview(queue, childCurrent[c], c, t)
SourcePlanned(t) == Preview(sourceQueue, current_now, Source, t)

\* What a caller may do that the splitter is not prepared for:
\*  "moving":   the current of another child changes within the window
\*  "direct":   a request is made of the source itself
\*  "tardy":    the start time passes between the splitter's check and the source's
Moving(r) ==
    \E d \in Children \ {r.child} : \E t \in r.when .. r.until - 1 :
        Planned(d, t) # Planned(d, r.when)

SinsOf(r) ==
    IF r.child = Source THEN {"direct"} ELSE IF Moving(r) THEN {"moving"} ELSE {}

MayCall == call = NoCall /\ calls < MaxCalls /\ quitted = {}

\* Mutant: a charging current is measured against the discharging limit.
WithinLimit_OneWay(c, cur) == cur <= limit[c].discharge /\ -cur <= limit[c].discharge

WithinLimit(c, cur) ==
    IF cur >= 0 THEN cur <= limit[c].discharge ELSE -cur <= limit[c].charge

\* Mutant: the total forgets the currents of the other children.
Forwarded_Alone(r) == r.cur
\* The total at the start of the window, the child's new current included.
Forwarded(r) ==
    Total([d \in Children |-> IF d = r.child THEN r.cur ELSE Planned(d, r.when)])

\* schedule_set_current of a child, schedule_set_current_of up to the call of the
\* source.  The splitter's lock stays taken until that call returns.
schedule_set_current_of(r) ==
    /\ MayCall /\ r.child \in Children
    /\ r.when >= now /\ WithinLimit(r.child, r.cur)
    /\ queue' = WithWindow(queue, r.child, r.cur, r.when, r.until,
                           Planned(r.child, r.until))
    /\ call' = [cur |-> Forwarded(r), when |-> r.when, until |-> r.until]
    /\ nextSeq' = nextSeq + 2
    /\ calls' = calls + 1
    /\ wish' = [wish EXCEPT ![r.child] =
                  [t \in Times |-> IF r.when <= t /\ t < r.until THEN r.cur ELSE @[t]]]
    /\ sins' = sins \cup SinsOf(r)
    /\ UNCHANGED <<now, childCurrent, charge, estimatedAt, limit, sourceVars, quitted, used, late>>

\* The current just before the window, for the delay: the last event up to its
\* start, a refresh (whose current is zero) included.
BeforeSet(when) == LastCurrent({e \in sourceQueue : e.time <= when}, current_now)

\* The critical section of Battery::schedule_set_current, for a window that has
\* not begun.
AtSource(cur, when, until) ==
    LET begin == when - get_delay(BeforeSet(when), cur)
        end == until - get_delay(cur, SourcePlanned(until))
    IN  sourceQueue' = WithWindow(sourceQueue, Source, cur, begin, end, SourcePlanned(end))

\* The source reads the clock for itself, and may refuse what the splitter has
\* already queued; the caller is told, the splitter's queue keeps it.
Forward ==
    /\ call # NoCall
    /\ \/ /\ call.when >= now
          /\ AtSource(call.cur, call.when, call.until)
          /\ nextSeq' = nextSeq + 2
          /\ UNCHANGED sins
       \/ /\ call.when < now
          /\ sins' = sins \cup {"tardy"}
          /\ UNCHANGED <<sourceQueue, nextSeq>>
    /\ call' = NoCall
    /\ UNCHANGED <<now, splitterVars, current_now, device, refused, calls, quitted, wish, used, late>>

\* schedule_set_current of the source itself: by a client, an aggregate or a
\* second splitter, which nothing keeps from sharing the source.
schedule_set_current(r) ==
    /\ MayCall /\ r.child = Source
    /\ r.when >= now
    /\ AtSource(r.cur, r.when, r.until)
    /\ nextSeq' = nextSeq + 2 /\ calls' = calls + 1
    /\ sins' = sins \cup SinsOf(r)
    /\ UNCHANGED <<now, splitterVars, current_now, device, refused, call, quitted, wish, used, late>>

-----------------------------------------------------------------------------
DueAt(q) == {e \in q : e.time <= now}
DueFor(x, q) == Upto(q, x, now)

\* Mutant: the elapsed time is charged at the new current.
Estimated_New(c, new) == charge[c] - new * (now - estimatedAt[c])
\* The charge of child c, counted up to now at the current it had.
Estimated(c, new) == charge[c] - childCurrent[c] * (now - estimatedAt[c])

\* The refresh that follows one that was due.
NextRefresh == {Refresh(now + Staleness)}

\* One pass of the splitter's background_func.  set_current is called for every
\* event that is due, in order: the first one of a child counts its charge, the
\* others come at the same time and count nothing, the last one stays.  Then a
\* refresh, if one was due: it counts the charge of all children, and leaves
\* them with other limits.
SplitterPass ==
    /\ call = NoCall /\ "splitter" \notin quitted /\ DueAt(queue) # {}
    /\ LET touched == {c \in Children : DueFor(c, queue) # {}}
           refresh == \E e \in DueAt(queue) : e.func = "REFRESH"
           counted == IF refresh THEN Children ELSE touched
       IN  /\ childCurrent' = [c \in Children |-> Planned(c, now)]
           /\ charge' = [c \in Children |->
                           IF c \in counted THEN Estimated(c, Planned(c, now)) ELSE charge[c]]
           /\ estimatedAt' = [c \in Children |-> IF c \in counted THEN now ELSE estimatedAt[c]]
           /\ queue' = (queue \ DueAt(queue)) \cup IF refresh THEN NextRefresh ELSE {}
           /\ IF refresh THEN limit' \in [Children -> Limits] ELSE UNCHANGED limit
    /\ UNCHANGED <<now, sourceVars, callVars, quitted, history>>

\* Mutant: of the events that are due the first one is applied.
LastDue_First ==
    (CHOOSE e \in DueAt(sourceQueue) : \A f \in DueAt(sourceQueue) : f = e \/ Before(e, f)).cur
\* Of the events that are due only the last one is applied.
LastDue == SourcePlanned(now)

\* The device: a current beyond its limits is refused, with no effect.
DeviceTakes(cur) == -DeviceLimit.charge <= cur /\ cur <= DeviceLimit.discharge

\* One pass of the source's background_func.  (A request may free the event whose
\* time the thread waits for, and wait_until reads that time again when it wakes;
\* whatever it reads, the thread only looks at the queue once more.)
SourcePass ==
    /\ Source \notin quitted /\ DueAt(sourceQueue) # {}
    /\ sourceQueue' = sourceQueue \ DueAt(sourceQueue)
    /\ \/ /\ DeviceTakes(LastDue)
          /\ device' = LastDue /\ current_now' = LastDue
          /\ UNCHANGED refused
       \/ /\ ~DeviceTakes(LastDue)
          /\ refused' = TRUE
          /\ UNCHANGED <<device, current_now>>
    /\ UNCHANGED <<now, splitterVars, callVars, quitted, history>>

\* BOSDirectory::quit stops one battery after the other.
quit(b) ==
    /\ call = NoCall /\ b \notin quitted
    /\ quitted' = quitted \cup {b}
    /\ UNCHANGED <<now, splitterVars, sourceVars, callVars, history>>

\* Time passes whatever the threads do.
Tick ==
    /\ now < MaxTime
    /\ now' = now + 1
    /\ used' = [c \in Children |-> used[c] + wish[c][now]]
    /\ late' = (late \/ DueAt(queue) # {})
    /\ UNCHANGED <<splitterVars, sourceVars, callVars, quitted, wish, sins>>

Next ==
    \/ \E r \in Requests : schedule_set_current_of(r) \/ schedule_set_current(r)
    \/ Forward
    \/ SplitterPass \/ SourcePass
    \/ \E b \in {"splitter", Source} : quit(b)
    \/ Tick

Spec == Init /\ [][Next]_vars

\* The clock runs, the server thread finishes its call, and a thread handles what
\* is due.
Fairness == WF_vars(Tick) /\ WF_vars(Forward) /\ WF_vars(SplitterPass) /\ WF_vars(SourcePass)
FairSpec == Spec /\ Fairness

-----------------------------------------------------------------------------
IsEvent(e) ==
    /\ e.func \in {"REFRESH", "SET_CURRENT", "SET_CURRENT_END"}
    /\ e.child \in Children \cup {Source, Nobody} /\ e.cur \in Int /\ e.time \in Int
    /\ e.seq \in 0 .. 4 * MaxCalls

TypeOK ==
    /\ now \in Times
    /\ \A e \in queue : IsEvent(e) /\ e.child # Source /\ e.time \in 0 .. MaxTime + Staleness
    /\ \A e \in sourceQueue : IsEvent(e) /\ e.child = Source
    /\ childCurrent \in [Children -> Int]
    /\ charge \in [Children -> Int] /\ estimatedAt \in [Children -> Times]
    /\ limit \in [Children -> Limits]
    /\ current_now \in Int /\ device \in Int
    /\ call = NoCall \/ call \in [cur : Int, when : Nat, until : Nat]
    /\ nextSeq \in Nat /\ calls \in 0 .. MaxCalls
    /\ quitted \subseteq {"splitter", Source}
    /\ late \in BOOLEAN /\ refused \in BOOLEAN
    /\ sins \subseteq {"moving", "direct", "tardy"}

\* However windows of one child nest, overlap, touch or repeat, and however late
\* the thread is, the splitter's queue holds what the child asked for last: each
\* request replaces its window and what lay beyond it comes back.
PlanIsLastWish ==
    \A c \in Children : \A t \in now .. MaxTime : Planned(c, t) = wish[c][t]

\* What BALSplitter forwards makes the source carry its children: at every moment
\* to come the source is to run at the sum of what the children asked for.
Carries ==
    call = NoCall =>
        \A t \in now .. MaxTime : SourcePlanned(t) = Total([c \in Children |-> wish[c][t]])

\* That holds as long as no child's current changes within another's window, no
\* request is late at the source, and nobody else uses the source.
SourceCarriesChildren == sins = {} => Carries

\* Limits checked for each child when it asks are enough: at no later moment does
\* the total come to more than the device takes.
DeviceNeverRefuses == sins = {} => ~refused

\* The books: as long as the splitter's thread is never late, the charge counted
\* for a child, by set_current at every change and by every refresh in between,
\* is what its requests come to.
EstimateIsUse ==
    ~late =>
        \A c \in Children : charge[c] - childCurrent[c] * (now - estimatedAt[c]) = -used[c]

\* When the last window is over the device and all children are at rest, whoever
\* shared the source and whatever came late, unless the batteries were shut down.
ComesToRest ==
    <>[](\/ quitted # {}
         \/ device = 0 /\ \A c \in Children : childCurrent[c] = 0)

\* The source serves its children: it is to carry their sum, and the device takes it.
SourceServes == SourceCarriesChildren /\ DeviceNeverRefuses

\* The splitter's books are in order: charge, queues and counters.
BooksInOrder == TypeOK /\ EstimateIsUse

-----------------------------------------------------------------------------
(***************************************************************************)
(* The invariants above as an inductive one.                               *)
(***************************************************************************)
\* What children may be granted, and that a device carries any sum of it: their
\* scales of the source's limits come to no more than one.
Allowed ==
    {0} \cup {i \in {r.cur : r \in Requests} :
                \E l \in Limits : -l.charge <= i /\ i <= l.discharge}
SharesFit == \A f \in [Children -> Allowed] : DeviceTakes(Total(f))

\* Events are numbered in the order they were queued.
Numbered ==
    /\ \A e \in queue \cup sourceQueue : e.seq < nextSeq
    /\ \A e \in queue : e.func # "REFRESH" => e.child \in Children
    /\ \A e \in sourceQueue : e.func # "REFRESH"
    /\ 1 <= nextSeq /\ nextSeq + (IF call = NoCall THEN 0 ELSE 2) <= 4 * calls + 1

Counted ==
    /\ wish \in [Children -> [Times -> Allowed]] /\ used \in [Children -> Int]
    /\ \A c \in Children : estimatedAt[c] <= now
    /\ call # NoCall => call.when <= call.until /\ call.until <= MaxTime

\* Among the events of x up to t there is a last one, unless there are none.
IsLast(e, S) == e \in S /\ \A f \in S : f = e \/ Before(f, e)
HasLast(S) == S = {} \/ \E e \in S : IsLast(e, S)

\* What the source is to run at once the request under way has reached it.
Awaited(t) ==
    IF call # NoCall /\ call.when <= t /\ t < call.until THEN call.cur ELSE SourcePlanned(t)
Sum(t) == Total([c \in Children |-> wish[c][t]])

\* Every current on its way to the device is a sum of what children were granted.
Carried ==
    sins = {} =>
        /\ \A t \in now .. MaxTime : Awaited(t) = Sum(t)
        /\ \A e \in sourceQueue : DeviceTakes(e.cur)
        /\ DeviceTakes(current_now) /\ (call # NoCall => DeviceTakes(call.cur))
        /\ ~refused
=============================================================================
