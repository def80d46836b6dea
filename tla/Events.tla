------------------------------- MODULE Events -------------------------------
(***************************************************************************)
(* The events of a battery's schedule (event_t.hpp) and the std::set and   *)
(* std::map that hold them, as pure operators.                             *)
(*                                                                         *)
(* A current is an integer number of mA: the constructor of event_t takes  *)
(* an int64_t, so whatever the request said is truncated when it becomes   *)
(* an event.  Times are ticks of the millisecond clock.  std::set compares *)
(* by the key (time, id, seq); the copies of one key kept in the set and   *)
(* in the map are always equal, so plain set union and difference stand    *)
(* for insert and erase.                                                   *)
(***************************************************************************)
EXTENDS Integers, FiniteSetsExt

\* enum class EventID: the numbers matter, they order simultaneous events.
REFRESH == 0
SET_CURRENT_END == 1
SET_CURRENT_BEGIN == 2
CANCEL_SET_CURRENT_EVENT == 3

EventIDs == {REFRESH, SET_CURRENT_END, SET_CURRENT_BEGIN, CANCEL_SET_CURRENT_EVENT}

event_t(name, id, cur, time, seq) ==
    [name |-> name, id |-> id, cur |-> cur, time |-> time, seq |-> seq]

\* Mutant: at one time the lower EventIDs first, so CANCEL after BEGIN.
Before_LowFirst(e, f) ==
    \/ e.time < f.time
    \/ e.time = f.time /\ e.id < f.id
    \/ e.time = f.time /\ e.id = f.id /\ e.seq < f.seq

\* operator<: by time; at one time CANCEL, BEGIN, END, REFRESH; then by number.
Before(e, f) ==
    \/ e.time < f.time
    \/ e.time = f.time /\ e.id > f.id
    \/ e.time = f.time /\ e.id = f.id /\ e.seq < f.seq

\* e is *S.begin().
IsFirst(e, S) == e \in S /\ \A f \in S : f = e \/ Before(e, f)

Of(S, id) == {e \in S : e.id = id}

\* Mutant: the entries of eventMap are never erased.
Without_Keeps(m, K) == m

\* The map m after erasing the keys in K.
Without(m, K) == [k \in DOMAIN m \ K |-> m[k]]

SumCur(S) == MapThenSumSet(LAMBDA e : e.cur, S)
=============================================================================
