------------------------------- MODULE Tower --------------------------------
(***************************************************************************)
(* Version 2: devices under an aggregator (AggregatorBattery.cpp) under a  *)
(* splitter (BALSplitter.hpp), as main.cpp builds them.  A status travels  *)
(* up, read at a different time at every level; a current travels down,    *)
(* divided by statuses that may be stale by then.                          *)
(*                                                                         *)
(* Two threads use the aggregator: the server thread with the calls of     *)
(* clients, and the background thread of the splitter, whose refresh reads *)
(* the aggregator.  The aggregator is lazy: whoever asks for its status    *)
(* refreshes it when it is stale, under its lock.  The splitter's lock is  *)
(* held during a refresh and during a request of a child.  Every device    *)
(* has a background thread that carries out what was scheduled.            *)
(*                                                                         *)
(* A requested current starts at once and stays; Splitter has the windows. *)
(***************************************************************************)
EXTENDS Policies

CONSTANTS
    DeviceStatuses,  \* a sequence: the statuses each device may show, the first one initially
    Scales,          \* a sequence: the scale of each child, in parts
    Targets,         \* currents that may be asked for
    Staleness,       \* max_staleness of the aggregator, in hours
    MaxHours, MaxChanges, MaxCalls

Policy == {"Proportional", "Tranche", "Reservation"}
Devices == DOMAIN DeviceStatuses
Children == DOMAIN Scales
Threads == {"server", "refresher"}

ASSUME TowerAssumption ==
    /\ Len(Scales) > 0 /\ Sum(Scales) = Parts   \* make_splitter
    /\ \A d \in Devices : Len(DeviceStatuses[d]) > 0
    /\ Targets \subseteq Int /\ Staleness \in Nat \ {0}
    /\ MaxHours \in Nat /\ MaxChanges \in Nat /\ MaxCalls \in Nat

VARIABLES
    policy,   \* policy_type
    dev,      \* the status of each device
    due,      \* the currents scheduled at each device and not yet set, at most one
    agg,      \* status of the aggregator
    age,      \* hours since its timestamp; it starts at 0, the epoch
    lock,     \* the thread that holds the aggregator's lock
    reading,  \* the statuses of the devices the refresh in progress has read
    job,      \* what each thread is doing
    original, \* child_original_status; empty until the splitter is built
    split,    \* children_status_now
    asked,    \* children_current_now
    next,     \* the same at the splitter, for each child
    est,      \* children_estimated_charge_now, in parts
    seen,     \* history: what the last refresh of the splitter was computed from
    shares,   \* history: the shares of the current last handed down
    hours, changes, calls

vars == <<policy, dev, due, agg, age, lock, reading, job, original, split, asked, next, est, seen,
          shares, hours, changes, calls>>
aggVars == <<agg, age, lock, reading>>
splitVars == <<original, split, asked, next, est, seen>>
counters == <<hours, changes, calls>>

NoOne == "noone"
None == [none |-> TRUE]
At(pc, kind, target) == [pc |-> pc, kind |-> kind, target |-> target]
Idle == At("idle", "none", 0)

Free == lock = NoOne
SplitterFree ==
    /\ original # <<>>
    /\ job["refresher"] = Idle
    /\ job["server"].kind # "child"

\* The constructor of the aggregator, with FAKE statuses of n sources.
MadeUp(n) ==
    [capacity |-> 20000 * n, max_capacity |-> 40000 * n, max_charging |-> 60000 * n,
     max_discharging |-> 60000 * n, current |-> 0]

\* make_aggregator, and make_splitter up to the constructor's get_status.  The
\* status the aggregator is constructed with is made up, and older than any
\* staleness.
Init ==
    /\ policy \in Policy
    /\ dev = [d \in Devices |-> DeviceStatuses[d][1]]
    /\ due = [d \in Devices |-> <<>>]
    /\ agg = MadeUp(Len(DeviceStatuses))
    /\ age = Staleness /\ lock = NoOne /\ reading = <<>>
    /\ job = [t \in Threads |-> IF t = "server" THEN At("get", "build", 0) ELSE Idle]
    /\ original = <<>> /\ split = <<>> /\ seen = None
    /\ asked = [c \in Children |-> 0] /\ next = [c \in Children |-> <<>>]
    /\ est = [c \in Children |-> 0]
    /\ shares = None
    /\ hours = 0 /\ changes = 0 /\ calls = 0

-----------------------------------------------------------------------------
(***************************************************************************)
(* The status on its way up.                                               *)
(***************************************************************************)
\* The splitter's constructor.
Build(s) ==
    LET child(c) == [f \in Fields |-> IF f = "current" THEN 0
                                      ELSE Truncated(s[f] * Scales[c], Parts)]
    IN  /\ original' = [c \in Children |-> child(c)]
        /\ split' = original'
        /\ est' = [c \in Children |-> s.capacity * Scales[c]]
        /\ seen' = [refreshed |-> FALSE, source |-> s, wild |-> FALSE, asked |-> asked, est |-> est']
        /\ UNCHANGED <<asked, next>>

\* The refresh of the splitter.
Resplit(s) ==
    LET r == refresh(policy, s, original, Scales, asked, est)
    IN  /\ split' = r.status
        /\ est' = r.est
        /\ seen' = [refreshed |-> TRUE, source |-> s, wild |-> r.wild, asked |-> asked, est |-> est]
        /\ UNCHANGED <<original, asked, next>>

\* get_status of the aggregator returns s to thread t.
Answered(t, s) ==
    LET j == job[t]
    IN  /\ job' = [job EXCEPT ![t] = IF j.kind \in {"child", "direct"}
                                     THEN At("schedule", j.kind, j.target) ELSE Idle]
        /\ CASE j.kind = "build" -> Build(s)
             [] j.kind = "refresh" -> Resplit(s)
             [] OTHER -> UNCHANGED splitVars

\* check_staleness_and_refresh.
Stale == age >= Staleness

\* Battery::get_status, of the aggregator.
GetStatus(t) ==
    /\ job[t].pc = "get" /\ Free
    /\ IF Stale
       THEN /\ lock' = t
            /\ UNCHANGED <<agg, age, reading, job, splitVars>>
       ELSE Answered(t, agg) /\ UNCHANGED aggVars
    /\ UNCHANGED <<policy, dev, due, shares, counters>>

Refreshing(t) == lock = t /\ job[t].pc = "get"

\* AggregatorBattery::refresh: one thread per device reads its status, in any order.
Read(d) ==
    /\ \E t \in Threads : Refreshing(t)
    /\ d \notin DOMAIN reading
    /\ reading' = [e \in DOMAIN reading \cup {d} |-> IF e = d THEN dev[d] ELSE reading[e]]
    /\ UNCHANGED <<policy, dev, due, agg, age, lock, job, splitVars, shares, counters>>

\* Mutant: what was read stays for the next refresh.
Refreshed_Kept(t) ==
    /\ Refreshing(t) /\ DOMAIN reading = Devices
    /\ agg' = Aggregated(reading)
    /\ age' = 0 /\ lock' = NoOne
    /\ Answered(t, agg')
    /\ UNCHANGED <<policy, dev, due, reading, shares, counters>>

\* All have been read.
Refreshed(t) ==
    /\ Refreshing(t) /\ DOMAIN reading = Devices
    /\ agg' = Aggregated(reading)
    /\ age' = 0 /\ lock' = NoOne /\ reading' = <<>>
    /\ Answered(t, agg')
    /\ UNCHANGED <<policy, dev, due, shares, counters>>

\* The background thread of the splitter comes to its REFRESH event.
RefreshSplitter ==
    /\ SplitterFree
    /\ job' = [job EXCEPT !["refresher"] = At("get", "refresh", 0)]
    /\ UNCHANGED <<policy, dev, due, aggVars, splitVars, shares, counters>>

-----------------------------------------------------------------------------
(***************************************************************************)
(* The current on its way down.                                            *)
(***************************************************************************)
Exceeds(target, s) ==
    \/ target >= 0 /\ target > s.max_discharging
    \/ target < 0 /\ -target > s.max_charging

Plan(c) == IF next[c] = <<>> THEN asked[c] ELSE next[c][1]

\* Mutant: the current the child has so far is counted, too.
Forwarded_Twice(c, target) == Sum([e \in Children |-> Plan(e)]) + target

\* What the source is asked to carry.
Forwarded(c, target) == Sum([e \in Children |-> IF e = c THEN target ELSE Plan(e)])

\* schedule_set_current_of: the splitter queues the child's current and forwards
\* the total of all children.  It has recorded the child's current whatever the
\* source answers.
ScheduleChild(c, target) ==
    /\ calls < MaxCalls /\ calls' = calls + 1
    /\ job["server"] = Idle /\ SplitterFree
    /\ ~Exceeds(target, split[c])
    /\ next' = [next EXCEPT ![c] = <<target>>]
    /\ job' = [job EXCEPT !["server"] = At("get", "child", Forwarded(c, target))]
    /\ UNCHANGED <<policy, dev, due, aggVars, original, split, asked, est, seen, shares, hours,
                   changes>>

\* BALSplitter::set_current, for an event of the background thread.
SetChild(c) ==
    /\ SplitterFree /\ next[c] # <<>>
    /\ asked' = [asked EXCEPT ![c] = next[c][1]]
    /\ next' = [next EXCEPT ![c] = <<>>]
    /\ UNCHANGED <<policy, dev, due, aggVars, job, original, split, est, seen, shares, counters>>

\* A client asks the aggregator itself, for its status or for a current.
CallAggregator(kind, target) ==
    /\ calls < MaxCalls /\ calls' = calls + 1
    /\ job["server"] = Idle
    /\ job' = [job EXCEPT !["server"] = At("get", kind, target)]
    /\ UNCHANGED <<policy, dev, due, aggVars, splitVars, shares, hours, changes>>

Scheduling == Free /\ job["server"].pc = "schedule"
Empty(target) == target >= 0 /\ agg.capacity = 0
Full(target) == target < 0 /\ agg.capacity >= agg.max_capacity

\* AggregatorBattery::schedule_set_current, with the status as it is by now.
Refuse ==
    /\ Scheduling
    /\ LET target == job["server"].target
       IN  Empty(target) \/ Full(target) \/ Exceeds(target, agg)
    /\ job' = [job EXCEPT !["server"] = Idle]
    /\ UNCHANGED <<policy, dev, due, aggVars, splitVars, shares, counters>>

Accept ==
    /\ Scheduling
    /\ LET target == job["server"].target
       IN  ~(Empty(target) \/ Full(target) \/ Exceeds(target, agg))
    /\ lock' = "server"
    /\ job' = [job EXCEPT !["server"].pc = "share"]
    /\ shares' = [target |-> job["server"].target, by |-> agg, of |-> <<>>, from |-> <<>>]
    /\ UNCHANGED <<policy, dev, due, agg, age, reading, splitVars, counters>>

\* A device's share: in proportion to its charge, or to the room it has left.
Share(target, s) ==
    CASE target > 0 -> Truncated(s.capacity * target, agg.capacity)
      [] target < 0 -> Truncated((s.max_capacity - s.capacity) * target,
                                 agg.max_capacity - agg.capacity)
      [] OTHER -> 0

\* The next device, in the order of the directory.  Battery::schedule_set_current
\* of the device only queues the share.
SendShare ==
    /\ lock = "server" /\ job["server"].pc = "share"
    /\ LET d == Len(shares.of) + 1
           share == Share(shares.target, dev[d])
       IN  /\ due' = [due EXCEPT ![d] = <<share>>]
           /\ shares' = [shares EXCEPT !.of = Append(@, share), !.from = Append(@, dev[d])]
           /\ IF d = Len(dev)
              THEN lock' = NoOne /\ job' = [job EXCEPT !["server"] = Idle]
              ELSE UNCHANGED <<lock, job>>
    /\ UNCHANGED <<policy, dev, agg, age, reading, splitVars, counters>>

\* PseudoBattery::set_current, by the device's background thread.
SetDevice(d) ==
    /\ due[d] # <<>>
    /\ due' = [due EXCEPT ![d] = <<>>]
    /\ dev' = IF Exceeds(due[d][1], dev[d]) THEN dev ELSE [dev EXCEPT ![d].current = due[d][1]]
    /\ UNCHANGED <<policy, aggVars, job, splitVars, shares, counters>>

-----------------------------------------------------------------------------
\* PseudoBattery::set_status: the device shows another status.
ChangeDevice(d, s) ==
    /\ changes < MaxChanges /\ changes' = changes + 1
    /\ dev' = [dev EXCEPT ![d] = [s EXCEPT !.current = dev[d].current]] /\ dev' # dev
    /\ UNCHANGED <<policy, due, aggVars, job, splitVars, shares, hours, calls>>

\* An hour goes by.  The splitter takes a child's current times the time since
\* the last estimate from its estimated charge whenever it looks at it.
Hour ==
    /\ hours < MaxHours /\ hours' = hours + 1
    /\ age' = IF age < Staleness THEN age + 1 ELSE age
    /\ est' = [c \in Children |-> est[c] - asked[c] * Parts]
    /\ UNCHANGED <<policy, dev, due, agg, lock, reading, job, original, split, asked, next, seen,
                   shares, changes, calls>>

Step ==
    \/ \E t \in Threads : GetStatus(t) \/ Refreshed(t)
    \/ \E d \in Devices : Read(d) \/ SetDevice(d)
    \/ Refuse \/ Accept \/ SendShare
    \/ \E c \in Children : SetChild(c)

Call ==
    \/ \E c \in Children, target \in Targets : ScheduleChild(c, target)
    \/ CallAggregator("status", 0)
    \/ \E target \in Targets : CallAggregator("direct", target)

Next ==
    \/ Step \/ Call \/ RefreshSplitter \/ Hour
    \/ \E d \in Devices : \E k \in DOMAIN DeviceStatuses[d] : ChangeDevice(d, DeviceStatuses[d][k])

Spec == Init /\ [][Next]_vars

-----------------------------------------------------------------------------
StatusOK(s) == DOMAIN s = Fields /\ \A f \in Fields : s[f] \in Int
Jobs == [pc : {"get", "schedule", "share"}, kind : {"build", "refresh", "child", "direct", "status"},
         target : Int] \cup {Idle}

\* The state has the shape of the objects' fields, and the aggregator's lock is
\* held exactly while its status is refreshed or a current is shared.
TypeOK ==
    /\ policy \in Policy
    /\ \A d \in Devices : StatusOK(dev[d]) /\ due[d] \in Seq(Int) /\ Len(due[d]) <= 1
    /\ StatusOK(agg) /\ age \in 0 .. Staleness
    /\ lock \in Threads \cup {NoOne} /\ DOMAIN reading \subseteq Devices
    /\ job \in [Threads -> Jobs]
    /\ \A c \in DOMAIN split : StatusOK(split[c]) /\ StatusOK(original[c])
    /\ lock \in Threads => job[lock] # Idle
    /\ (lock # NoOne /\ job[lock].pc = "get") \/ reading = <<>>

\* What the children may receive of a source: enough for the 1 every child is
\* left with, no more charge than fits, and a current that children drawing
\* in that direction are allowed to carry.
Carries(s, statuses) ==
    /\ s.capacity >= Len(statuses) /\ s.capacity <= s.max_capacity
    /\ \A f \in Limits : s[f] >= Len(statuses)
    /\ LET top(c) == IF seen.asked[c] >= 0 THEN statuses[c].max_discharging ELSE 0
           bottom(c) == IF seen.asked[c] >= 0 THEN 0 ELSE -statuses[c].max_charging
       IN  /\ s.current <= Sum([c \in Children |-> top(c)])
           /\ s.current >= Sum([c \in Children |-> bottom(c)])

Resplitted == seen # None /\ seen.refreshed

\* Nothing of the source is lost or given twice (DISTRIBUTE_MAX_STATUS and the
\* loops of refresh_tranche and refresh_reservation): after a refresh every field
\* of the children adds up to the source's.  The shares of the proportional
\* policy are rounded one by one.
Conserved ==
    Resplitted /\ Carries(seen.source, split) =>
        \A f \in Fields :
            LET off == Sum(Field(split, f)) - seen.source[f]
            IN  IF policy = "Proportional"
                THEN f \in Fields \ {"current"} => Magnitude(off) < Len(Scales)
                ELSE off = 0

\* The loops that count size_t i down to 0 end inside the vector when the
\* children can take what the source has.
InBounds ==
    (seen # None /\ seen.wild) => ~Carries(seen.source, split)

\* Missing charge is taken from the last child first: a child has less than its
\* estimate only when every later one is down to its last mAh.
Seniority ==
    (Resplitted /\ policy # "Proportional" /\ Carries(seen.source, split)) =>
        \A c \in Children : split[c].capacity < Truncated(seen.est[c], Parts) =>
            \A e \in Children : e > c => split[e].capacity = 1

\* A current the aggregator accepts by the statuses its devices still have when
\* they are asked is one every device can carry, and rounding costs less than
\* 1 mA per device.
SharesFit ==
    (/\ shares # None /\ Len(shares.of) = Len(dev)
     /\ \A f \in Fields \ {"current"} : shares.by[f] = Aggregated(shares.from)[f]) =>
            /\ \A d \in Devices : ~Exceeds(shares.of[d], shares.from[d])
            /\ Magnitude(shares.target - Sum(shares.of)) < Len(dev)

\* What the splitter accepts for its children the aggregator refuses only when it
\* is empty or full, or when its limits are no longer those the children were
\* given, or a child draws more than it is now given.
RefusedForAReason ==
    [][Refuse /\ job["server"].kind = "child" =>
         \/ Empty(job["server"].target) \/ Full(job["server"].target)
         \/ \E f \in Limits : agg[f] # seen.source[f]
         \/ \E c \in Children : Exceeds(Plan(c), split[c])
         \/ seen.wild]_vars

\* A refresh gives the children all of the source and nothing twice, and what is
\* missing is missing at the junior end.
FairlyShared == Conserved /\ Seniority

\* Statuses stay within their types and loops within their vectors, as long as the
\* children can take what the source has.
WithinBounds == TypeOK /\ InBounds
=============================================================================
