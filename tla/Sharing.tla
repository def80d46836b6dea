------------------------------ MODULE Sharing -------------------------------
(***************************************************************************)
(* Version 3: how a requested current comes down from a partition, or from *)
(* an aggregate itself, to the batteries an aggregate is made of.          *)
(*                                                                         *)
(*    child ... child     PartitionBattery: checks its own limits          *)
(*          manager       PartitionManager: passes the request on          *)
(*         aggregate      AggregateBattery: a share for each parent        *)
(*    parent ... parent   physical batteries: enter it into their schedule *)
(*                                                                         *)
(* Only the battery that was called checks limits, against a status it     *)
(* derived from those below at an earlier moment.  Doubles are exact       *)
(* fractions; voltage, windows and the schedules (Battery) are left out.   *)
(***************************************************************************)
EXTENDS Integers, Sequences, FiniteSets, FiniteSetsExt

CONSTANTS
    Parents,        \* the sequence of the aggregate's parents
    Children,
    Proportion,     \* charge_proportion and capacity_proportion of a child
    Statuses,       \* statuses a device may report
    Currents,       \* currents somebody may ask for, integers
    MaxChanges, MaxRequests

Aggregate == "aggregate"
Nobody == "nobody"

VARIABLES
    device,      \* the status of each parent
    aggregate,   \* status of the aggregate
    source,      \* status the manager took from the aggregate when it was made
    child,       \* status of each child
    request,     \* the request at hand
    c_rate,      \* of the request at hand
    todo,        \* parents still to be asked
    asked,       \* what each parent was asked to carry for the request at hand
    granted,     \* requests that were granted, with what was asked for them
    moved,       \* a device has changed since the aggregate looked
    changes, requests

vars == <<device, aggregate, source, child, request, c_rate, todo, asked, granted, moved, changes,
          requests>>

-----------------------------------------------------------------------------
Ratio(n, d) == LET g == Max({k \in 1 .. d : n % k = 0 /\ d % k = 0}) IN [n |-> n \div g, d |-> d \div g]
Whole(n) == [n |-> n, d |-> 1]
Plus(a, b) == Ratio(a.n * b.d + b.n * a.d, a.d * b.d)
Times(a, b) == Ratio(a.n * b.n, a.d * b.d)
Minus(a, b) == Plus(a, [n |-> -b.n, d |-> b.d])
Over(a, b) == IF b.n < 0 THEN Ratio(-a.n * b.d, a.d * (-b.n)) ELSE Ratio(a.n * b.d, a.d * b.n)
Below(a, b) == a.n * b.d < b.n * a.d
Zero == Whole(0)

ParentSet == {Parents[i] : i \in DOMAIN Parents}
Total(f(_)) == FoldSet(LAMBDA p, sum : Plus(sum, f(p)), Zero, ParentSet)
Least(f(_)) == CHOOSE r \in {f(p) : p \in ParentSet} : \A p \in ParentSet : ~Below(f(p), r)

ToCharge(s) == Minus(s.max_capacity, s.capacity)

calc_c_rate(current, capacity) == IF capacity = Zero THEN Zero ELSE Over(current, capacity)

\* set_c_rate: the rate every parent can go along with.
eff_charge_c_rate(d) == Least(LAMBDA p : calc_c_rate(d[p].max_charging, ToCharge(d[p])))
eff_discharge_c_rate(d) == Least(LAMBDA p : calc_c_rate(d[p].max_discharging, d[p].capacity))

\* calcStatusVals.
calcStatusVals(d) ==
    [capacity |-> Total(LAMBDA p : d[p].capacity),
     max_capacity |-> Total(LAMBDA p : d[p].max_capacity),
     max_charging |-> Total(LAMBDA p : Times(ToCharge(d[p]), eff_charge_c_rate(d))),
     max_discharging |-> Total(LAMBDA p : Times(d[p].capacity, eff_discharge_c_rate(d)))]

\* initBatteryStatus.
initBatteryStatus(s, c) ==
    [capacity |-> Times(s.capacity, Proportion[c].capacity),
     max_capacity |-> Times(s.max_capacity, Proportion[c].capacity),
     max_charging |-> Times(s.max_charging, Proportion[c].charge),
     max_discharging |-> Times(s.max_discharging, Proportion[c].charge)]

\* The aggregate has been refreshed once, and the manager made from it.
Init ==
    /\ device \in [ParentSet -> Statuses]
    /\ aggregate = calcStatusVals(device) /\ source = aggregate
    /\ child = [c \in Children |-> initBatteryStatus(source, c)]
    /\ request = [who |-> Nobody] /\ c_rate = Zero /\ todo = <<>>
    /\ asked = [p \in ParentSet |-> Zero] /\ granted = {} /\ moved = FALSE
    /\ changes = 0 /\ requests = 0

-----------------------------------------------------------------------------
\* A device reports another status.
Change(p, s) ==
    /\ changes < MaxChanges /\ changes' = changes + 1
    /\ s # device[p] /\ device' = [device EXCEPT ![p] = s] /\ moved' = TRUE
    /\ UNCHANGED <<aggregate, source, child, request, c_rate, todo, asked, granted, requests>>

\* checkAndRefresh: LAZY and older than maxStaleness, or not.
CheckAndRefresh(stale) ==
    /\ aggregate' = IF stale THEN calcStatusVals(device) ELSE aggregate
    /\ moved' = IF stale THEN FALSE ELSE moved

\* setMaxChargingCurrent and setMaxDischargingCurrent.
SetLimits(mine, s, part) ==
    [mine EXCEPT !.max_charging = Times(s.max_charging, part),
                 !.max_discharging = Times(s.max_discharging, part)]

\* PartitionManager::refresh with refreshProportional; other policies do nothing.
\* The manager's event thread does this, in the middle of a request too.
RefreshManager(stale) ==
    /\ CheckAndRefresh(stale)
    /\ child' = [c \in Children |-> SetLimits(child[c], aggregate', Proportion[c].charge)]
    /\ UNCHANGED <<device, source, request, c_rate, todo, asked, granted, changes, requests>>

Within(current, s) ==
    /\ ~Below(s.max_charging, Whole(-current))
    /\ ~Below(s.max_discharging, Whole(current))

\* schedule_set_current of a child within its limits, or of the aggregate, which
\* looks at its limits later; a request out of bounds is refused on the spot.
Request(who, current) ==
    /\ request.who = Nobody /\ requests < MaxRequests /\ requests' = requests + 1
    /\ who \in Children => Within(current, child[who])
    /\ request' = [who |-> who, current |-> current, at |-> "aggregate"]
    /\ UNCHANGED <<device, aggregate, source, child, c_rate, todo, asked, granted, moved, changes>>

\* AggregateBattery::schedule_set_current up to the loop: a refusal ...
Refuse(stale) ==
    /\ request.who = Aggregate /\ request.at = "aggregate"
    /\ CheckAndRefresh(stale)
    /\ ~Within(request.current, aggregate')
    /\ request' = [who |-> Nobody]
    /\ UNCHANGED <<device, source, child, c_rate, todo, asked, granted, changes, requests>>

\* ... or the rate at which all parents are to go.
Accept(stale) ==
    /\ request.who # Nobody /\ request.at = "aggregate"
    /\ CheckAndRefresh(stale)
    /\ request.who = Aggregate => Within(request.current, aggregate')
    /\ c_rate' = calc_c_rate(Whole(request.current), aggregate'.capacity)
    /\ todo' = Parents
    /\ asked' = [p \in ParentSet |-> Zero]
    /\ request' = [request EXCEPT !.at = "parents"]
    /\ UNCHANGED <<device, source, child, granted, changes, requests>>

\* A parent's share, from its capacity at this moment.
Share(s) ==
    IF request.current < 0
    THEN Times(Minus(Zero, ToCharge(s)), c_rate)
    ELSE Times(s.capacity, c_rate)

\* One parent after the other; a physical battery checks nothing in a request that
\* is not its own.
AskParent ==
    /\ request.who # Nobody /\ request.at = "parents" /\ todo # <<>>
    /\ asked' = [asked EXCEPT ![Head(todo)] = Share(device[Head(todo)])]
    /\ todo' = Tail(todo)
    /\ UNCHANGED <<device, aggregate, source, child, request, c_rate, granted, moved, changes, requests>>

\* The manager and the child enter the request into their own schedules.
Grant ==
    /\ request.who # Nobody /\ request.at = "parents" /\ todo = <<>>
    /\ granted' = granted \cup {[current |-> request.current, shares |-> asked, moved |-> moved]}
    /\ request' = [who |-> Nobody]
    /\ c_rate' = Zero /\ asked' = [p \in ParentSet |-> Zero]
    /\ UNCHANGED <<device, aggregate, source, child, todo, moved, changes, requests>>

Next ==
    \/ \E p \in ParentSet, s \in Statuses : Change(p, s)
    \/ \E stale \in BOOLEAN : RefreshManager(stale) \/ Refuse(stale) \/ Accept(stale)
    \/ \E who \in Children \cup {Aggregate}, current \in Currents : Request(who, current)
    \/ AskParent \/ Grant

Spec == Init /\ [][Next]_vars

-----------------------------------------------------------------------------
\* What the parents were asked for adds up to the command they were asked for it,
\* as long as no device changed in between ("the source battery operates based on
\* the sum of the commands").
SourceOperatesOnSum ==
    \A g \in granted : ~g.moved => Total(LAMBDA p : g.shares[p]) = Whole(g.current)
=============================================================================
