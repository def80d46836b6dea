------------------------------ MODULE Charging ------------------------------
(***************************************************************************)
(* The PartitionBattery of BatteryOS V3: while current flows, a thread of  *)
(* the battery (runChargingThread) counts the charge.  set_current starts  *)
(* and joins it.                                                           *)
(*                                                                         *)
(* The charging thread shares status with everybody and takes no lock.     *)
(* The battery's lock keeps set_current (in the event thread), getStatus   *)
(* and setBatteryStatus (in the server's thread) apart from each other,    *)
(* hence the one variable caller; the partition manager's refresh takes no *)
(* lock either.  The reads of a decision are one step, its write another.  *)
(*                                                                         *)
(* A negative current charges.  Capacities are in twentieths of a mAh, so  *)
(* that the charge of one turn of the loop, current / 20, is whole.        *)
(***************************************************************************)
EXTENDS Integers

CONSTANTS
    MaxCapacity,  \* max_capacity_mAh
    Initial,      \* capacity_mAh to begin with
    Currents,     \* the arguments of set_current
    Limits,       \* max_(dis)charging_current_mA: [charge, discharge]
    MaxCalls      \* bound on the number of calls

ASSUME ChargingAssumption ==
    /\ MaxCapacity \in Nat /\ Initial \in 0 .. MaxCapacity
    /\ Currents \subseteq Int
    /\ Limits \subseteq [charge : Nat, discharge : Nat] /\ Limits # {}
    /\ MaxCalls \in Nat

VARIABLES
    current,        \* status.current_mA
    requested,      \* requested_current_mA
    capacity,       \* status.capacity_mAh
    limit,          \* status.max_(dis)charging_current_mA
    runningThread,
    thread,         \* where the charging thread is
    local,          \* its variable capacity
    pending,        \* what it is about to write to status.current_mA
    caller,         \* where the holder of the lock, or the destructor, is
    arg,            \* the argument of the set_current in progress
    copy,           \* the status a getStatus in progress has read
    calls,
    turns,          \* history: turns with current while set_current(0) waits,
                    \* since the limits last changed
    account,        \* history: the capacity there should be
    sins            \* history: what callers have done so far, see Sin

vars == <<current, requested, capacity, limit, runningThread, thread, local, pending, caller,
          arg, copy, calls, turns, account, sins>>

status == <<current, requested, capacity, limit>>
callVars == <<runningThread, caller, arg, copy, calls, sins>>
threadVars == <<thread, local, pending, turns, account>>

Init ==
    /\ current = 0 /\ requested = 0 /\ capacity = Initial
    /\ limit \in Limits
    /\ runningThread = FALSE
    /\ thread = "none" /\ local = 0 /\ pending = 0
    /\ caller = "idle" /\ arg = 0 /\ copy = <<>> /\ calls = 0
    /\ turns = 0 /\ account = Initial /\ sins = {}

-----------------------------------------------------------------------------
\* The charging thread sleeps, or does not run.
Resting == thread \in {"none", "asleep", "exited"}

\* What a caller may do that the charging thread is not prepared for:
\*  "overlap":  set_current, setBatteryStatus or the manager come while the
\*              thread is in the body of its loop, not in its sleep
\*  "read":     getStatus does
\*  "change":   a current is set on another one, with no zero between them
\*  "touch":    setBatteryStatus
Sin(S) == sins' = sins \cup S
Overlap == IF Resting THEN {} ELSE {"overlap"}

MayChange == caller = "idle" /\ calls < MaxCalls

\* set_current: the two assignments, then the thread is started or joined.
set_current(c) ==
    /\ MayChange
    /\ Sin(Overlap \cup IF c # 0 /\ requested # 0 THEN {"change"} ELSE {})
    /\ current' = c
    /\ arg' = c /\ caller' = "assigned" /\ calls' = calls + 1
    /\ UNCHANGED <<requested, capacity, limit, runningThread, copy, threadVars>>

AssignRequested ==
    /\ caller = "assigned"
    /\ requested' = arg
    /\ caller' = "branch"
    /\ UNCHANGED <<current, capacity, limit, runningThread, arg, copy, calls, threadVars, sins>>

\* Mutant: the flag is not raised.
runningNow_Not == FALSE

runningNow == TRUE

\* Assigning to a std::thread that has not been joined ends the process.
StartsThread ==
    /\ caller = "branch" /\ arg # 0 /\ ~runningThread
    /\ runningThread' = runningNow /\ arg' = 0
    /\ \/ thread = "none" /\ thread' = "begin" /\ caller' = "idle"
       \/ thread # "none" /\ caller' = "terminated" /\ UNCHANGED thread
    /\ UNCHANGED <<status, local, pending, copy, calls, turns, account, sins>>

SetReturns ==
    /\ caller = "branch" /\ (arg = 0 <=> ~runningThread)
    /\ caller' = "idle" /\ arg' = 0
    /\ UNCHANGED <<status, runningThread, copy, calls, threadVars, sins>>

Joins ==
    /\ caller = "branch" /\ arg = 0 /\ runningThread
    /\ caller' = "join"
    /\ UNCHANGED <<status, runningThread, arg, copy, calls, threadVars, sins>>

\* thread.join() returns when the thread has ended.
Joined ==
    /\ caller = "join" /\ thread = "exited"
    /\ thread' = "none" /\ runningThread' = FALSE /\ caller' = "idle"
    /\ turns' = 0
    /\ UNCHANGED <<status, arg, copy, calls, local, pending, account, sins>>

-----------------------------------------------------------------------------
\* getStatus of a lazy battery copies status, by way of refresh, and assigns the
\* copy to status.
getStatus ==
    /\ MayChange
    /\ Sin(IF Resting THEN {} ELSE {"read"})
    /\ copy' = [current |-> current, capacity |-> capacity, limit |-> limit]
    /\ caller' = "copied" /\ calls' = calls + 1
    /\ UNCHANGED <<status, runningThread, arg, threadVars>>

AssignStatus ==
    /\ caller = "copied"
    /\ current' = copy.current /\ capacity' = copy.capacity /\ limit' = copy.limit
    /\ copy' = <<>> /\ caller' = "idle"
    /\ UNCHANGED <<requested, runningThread, arg, calls, threadVars, sins>>

\* setBatteryStatus: a client writes the whole status.
setBatteryStatus(c, level, l) ==
    /\ MayChange
    /\ Sin(Overlap \cup {"touch"})
    /\ current' = c /\ capacity' = level /\ limit' = l
    /\ account' = level
    /\ calls' = calls + 1
    /\ UNCHANGED <<requested, runningThread, caller, arg, copy, thread, local, pending, turns>>

\* setMaxChargingCurrent and setMaxDischargingCurrent, called without the lock by
\* the manager's refreshProportional.
setLimits(l) ==
    /\ l # limit /\ calls < MaxCalls
    /\ caller \notin {"destroyJoin", "destroyed", "terminated"}   \* the manager's pointer is weak
    /\ Sin(IF caller = "idle" THEN Overlap ELSE {"overlap"})
    /\ limit' = l /\ turns' = 0
    /\ calls' = calls + 1
    /\ UNCHANGED <<current, requested, capacity, runningThread, caller, arg, copy, thread, local,
                   pending, account>>

\* The destructor, after quit() has joined the event thread.
destroy ==
    /\ caller = "idle"
    /\ Sin(Overlap)
    /\ \/ /\ runningThread
          /\ current' = 0
          /\ caller' = "destroyJoin"
       \/ /\ ~runningThread
          /\ caller' = IF thread = "none" THEN "destroyed" ELSE "terminated"
          /\ UNCHANGED current
    /\ UNCHANGED <<requested, capacity, limit, runningThread, arg, copy, calls, threadVars>>

Destroyed ==
    /\ caller = "destroyJoin" /\ thread = "exited"
    /\ thread' = "none" /\ caller' = "destroyed"
    /\ UNCHANGED <<status, runningThread, arg, copy, calls, local, pending, turns, account, sins>>

-----------------------------------------------------------------------------
\* runChargingThread.
\* The new thread reads the capacity once, when it comes to run.
Begins ==
    /\ thread = "begin"
    /\ local' = capacity
    /\ thread' = "test"
    /\ UNCHANGED <<status, callVars, pending, turns, account>>

\* Mutant: the loop is never left.
Ended_Never == FALSE

\* Mutant: the loop is not begun with a full or an empty battery.
Ended_AtBounds == current = 0 \/ local \in {0, MaxCapacity}

Ended == current = 0

Tests ==
    /\ thread = "test"
    /\ IF Ended THEN thread' = "exited" /\ local' = 0
                ELSE thread' = "adjust" /\ UNCHANGED local
    /\ UNCHANGED <<status, callVars, pending, turns, account>>

\* Mutant: a current is never set back to zero.
Adjusted_Kept == IF requested = 0 THEN current ELSE requested

\* The current is cut to the limit, or else set back to what was requested.
Adjusted ==
    IF current < 0
    THEN IF -current > limit.charge THEN -limit.charge ELSE requested
    ELSE IF current > limit.discharge THEN limit.discharge ELSE requested

AdjustReads ==
    /\ thread = "adjust"
    /\ IF Adjusted = current THEN thread' = "count" /\ UNCHANGED pending
                             ELSE thread' = "adjusted" /\ pending' = Adjusted
    /\ UNCHANGED <<status, callVars, local, turns, account>>

AdjustWrites ==
    /\ thread = "adjusted"
    /\ current' = pending /\ pending' = 0
    /\ thread' = "count"
    /\ UNCHANGED <<requested, capacity, limit, callVars, local, turns, account>>

Within(level) == IF level > MaxCapacity THEN MaxCapacity ELSE IF level < 0 THEN 0 ELSE level

\* Mutant: charging takes charge out.
Counted_Sign == local + current

Counted == local - current

Counts ==
    /\ thread = "count"
    /\ local' = Counted
    /\ turns' = IF caller = "join" /\ current # 0 /\ turns < 3 THEN turns + 1 ELSE turns
    /\ account' = Within(account - current)
    /\ thread' = "bound"
    /\ UNCHANGED <<status, callVars, pending>>

\* Mutant: a full battery goes on charging.
Full_Never == FALSE

Full == current < 0 /\ local >= MaxCapacity
Empty == current > 0 /\ local <= 0

\* The battery is full or empty: the current is to stop.
BoundReads ==
    /\ thread = "bound"
    /\ \/ Full /\ local' = MaxCapacity /\ thread' = "stop"
       \/ Empty /\ local' = 0 /\ thread' = "stop"
       \/ ~Full /\ ~Empty /\ thread' = "store" /\ UNCHANGED local
    /\ UNCHANGED <<status, callVars, pending, turns, account>>

BoundWrites ==
    /\ thread = "stop"
    /\ current' = 0
    /\ thread' = "store"
    /\ UNCHANGED <<requested, capacity, limit, callVars, local, pending, turns, account>>

Stores ==
    /\ thread = "store"
    /\ capacity' = local
    /\ thread' = "asleep"
    /\ UNCHANGED <<current, requested, limit, callVars, local, pending, turns, account>>

Wakes ==
    /\ thread = "asleep"
    /\ Sin(CASE caller \in {"assigned", "branch"} -> {"overlap"}
             [] caller = "copied" -> {"read"}
             [] OTHER -> {})
    /\ thread' = "test"
    /\ UNCHANGED <<status, runningThread, caller, arg, copy, calls, local, pending, turns, account>>

-----------------------------------------------------------------------------
Thread ==
    \/ Begins \/ Tests \/ AdjustReads \/ AdjustWrites
    \/ Counts \/ BoundReads \/ BoundWrites \/ Stores \/ Wakes

Caller == AssignStatus \/ AssignRequested \/ StartsThread \/ SetReturns \/ Joins \/ Joined \/ Destroyed

Next ==
    \/ \E c \in Currents : set_current(c)
    \/ getStatus
    \/ \E c \in Currents, level \in {0, MaxCapacity}, l \in Limits : setBatteryStatus(c, level, l)
    \/ \E l \in Limits : setLimits(l)
    \/ destroy
    \/ Caller
    \/ Thread

Spec == Init /\ [][Next]_vars

\* Threads run, and a call that has been made goes on.
Fairness == WF_vars(Thread) /\ WF_vars(Caller)
FairSpec == Spec /\ Fairness

-----------------------------------------------------------------------------
TypeOK ==
    /\ current \in Int /\ requested \in Int /\ capacity \in Int /\ limit \in Limits
    /\ runningThread \in BOOLEAN
    /\ thread \in {"none", "begin", "test", "adjust", "adjusted", "count", "bound", "stop", "store",
                   "asleep", "exited"}
    /\ caller \in {"idle", "copied", "assigned", "branch", "join", "destroyJoin", "destroyed",
                   "terminated"}
    /\ turns \in 0 .. 3
    /\ local \in Int /\ pending \in Int /\ calls \in 0 .. MaxCalls
    /\ caller \notin {"destroyed", "terminated"} => (runningThread <=> thread # "none")

\* The handle of the charging thread is never overwritten or destroyed while the
\* thread has not been joined, which would end the process: runningThread is
\* true exactly as long as there is a thread to join, whether it still runs or
\* has stopped by itself at a full or an empty battery.
NeverTerminated == caller # "terminated"

\* However the threads race, set_current(0) returns: the thread it joins sees
\* the zero in the end, even if it first writes an older current over it.
StopReturns == (caller = "join") ~> (caller = "idle")

\* It takes at most two more turns with current once the limits stand still: one
\* with the older current written over the zero and one cut to the limit, before
\* requested is restored.
StopsSoon == caller = "join" => turns <= 2

\* The destructor returns, at the latest when the battery is full or empty.
DestructorReturns == (caller = "destroyJoin") ~> (caller = "destroyed")

\* As long as nothing has overlapped the loop of the charging thread, the
\* capacity reported stays between empty and full.
CapacityInBounds ==
    sins \subseteq {"change", "touch"} => 0 <= capacity /\ capacity <= MaxCapacity

\* As long as, besides, nobody has written the capacity, the capacity reported
\* between two turns of the loop is the charge put in less the charge taken out,
\* up to full and down to empty, through any number of threads started and joined.
CapacityAccounted == (sins \subseteq {"change"} /\ Resting) => capacity = account

\* A thread counts the charge whenever there is current, if currents are set from
\* zero only.
CountsFromZero ==
    (sins = {} /\ current # 0 /\ caller = "idle") => thread \notin {"none", "exited"}

\* The thread and the flag that says there is one never come apart, so that no
\* handle is overwritten or destroyed with its thread unjoined.
ThreadHeld == TypeOK /\ NeverTerminated

\* Charge is counted when there is current, the count is the charge that flowed,
\* and it stays between empty and full, except for what racing accesses spoil.
CapacityKept == CapacityInBounds /\ CapacityAccounted /\ CountsFromZero

\* Neither set_current(0) nor the destructor waits for ever for the thread.
JoinsReturn == StopReturns /\ DestructorReturns

-----------------------------------------------------------------------------
(***************************************************************************)
(* The properties above as inductive invariants.                           *)
(***************************************************************************)
InLoop == {"test", "adjust", "adjusted", "count", "stop", "store", "asleep"}

Shape ==
    /\ arg \in Int /\ account \in Int
    /\ sins \subseteq {"overlap", "read", "change", "touch"}
    /\ caller = "copied" => copy \in [current : Int, capacity : Int, limit : Limits]
    /\ caller = "branch" => requested = arg
    /\ caller = "destroyed" => thread = "none"

\* Nothing has overlapped the loop: whoever holds the lock while the thread is in
\* it waits for it, and a copy of the status is still what the status is.
Undisturbed == sins \cap {"overlap", "read"} = {}

Apart ==
    Undisturbed =>
        /\ ~Resting => caller \in {"idle", "join", "destroyJoin"}
        /\ caller = "copied" => copy = [current |-> current, capacity |-> capacity, limit |-> limit]

\* Between counting and testing the count may be out of bounds on the side the
\* current goes to, and nowhere else.
Bounded ==
    Undisturbed =>
        /\ capacity \in 0 .. MaxCapacity
        /\ thread \in InLoop => local \in 0 .. MaxCapacity
        /\ thread = "bound" => (current <= 0 => local >= 0) /\ (current >= 0 => local <= MaxCapacity)

\* The account is in the status while the thread rests, in the thread's variable
\* while it is in its loop.
Accounted ==
    sins \subseteq {"change"} =>
        /\ Resting \/ thread \in {"begin", "test"} => capacity = account
        /\ thread \in InLoop => local = account
        /\ thread = "bound" => account = Within(local)

\* Currents are set from zero only: no thread is left over when one is set.
Fresh ==
    sins = {} =>
        /\ caller \in {"idle", "copied"} /\ requested = 0 => thread = "none"
        /\ caller \in {"assigned", "branch"} => current = arg /\ (arg # 0 => thread = "none")
        /\ thread = "exited" => current = 0
        /\ thread = "none" /\ caller \notin {"assigned", "branch"} => current = 0

Fits(c) == -limit.charge <= c /\ c <= limit.discharge

\* After the first turn the current is adjusted to the limits, after the second
\* to the request, which is zero.
Stopping ==
    /\ caller # "join" => turns = 0
    /\ caller = "join" =>
         /\ requested = 0
         /\ turns = 1 => (thread = "adjusted" => Fits(pending)) /\ (thread = "count" => Fits(current))
         /\ turns = 2 => /\ Fits(current)
                         /\ thread = "adjusted" => pending = 0
                         /\ thread = "count" => current = 0
    /\ turns <= 2
=============================================================================
