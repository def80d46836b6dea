------------------------------ MODULE Policies ------------------------------
(***************************************************************************)
(* Version 2: how BALSplitter::refresh hands the status of a source out to *)
(* its children, under its three policies (BALSplitter.cpp).               *)
(*                                                                         *)
(* Children are 1 .. n.  A status has the fields of BatteryStatus without  *)
(* voltage and timestamp, in whole mA and mAh; the doubles in between are  *)
(* exact fractions here.  A scale is a number of parts out of Parts, and   *)
(* an estimated charge counts in parts of a mAh.                           *)
(***************************************************************************)
EXTENDS Integers, Sequences, SequencesExt

CONSTANT Parts

ASSUME PartsAssumption == Parts \in Nat \ {0}

Limits == {"max_charging", "max_discharging", "max_capacity"}
Fields == Limits \cup {"capacity", "current"}

\* The total of one value per child.
Sum(values) == FoldLeft(+, 0, values)
Field(statuses, f) == [i \in DOMAIN statuses |-> statuses[i][f]]

\* Conversion of a fraction to int64_t, towards zero, and round, half away from zero.
Magnitude(n) == IF n < 0 THEN -n ELSE n
Signed(num, den, q) == IF (num < 0) # (den < 0) THEN -q ELSE q
Truncated(num, den) == Signed(num, den, Magnitude(num) \div Magnitude(den))
Rounded(num, den) ==
    Signed(num, den, (2 * Magnitude(num) + Magnitude(den)) \div (2 * Magnitude(den)))

-----------------------------------------------------------------------------
(***************************************************************************)
(* The loops that distribute a remainder.  Every child either absorbs all  *)
(* of it, which ends the loop, or is set to a bound and leaves the rest.   *)
(* A loop that goes backwards tests size_t i >= 0 and so cannot end by     *)
(* itself: when no child absorbs, it goes past the children.               *)
(***************************************************************************)
Absorbs(v, rem) == [value |-> v + rem, rem |-> 0, done |-> TRUE]
BoundTo(bound, v, rem) == [value |-> bound, rem |-> rem + (v - bound), done |-> FALSE]

Loop(order, values, rem, Step(_, _, _)) ==
    LET Visit(s, i) ==
          IF s.done THEN s
          ELSE LET r == Step(i, s.values[i], s.rem)
               IN  [values |-> [s.values EXCEPT ![i] = r.value], rem |-> r.rem, done |-> r.done]
    IN  FoldLeft(Visit, [values |-> values, rem |-> rem, done |-> FALSE], order)

FromFirst(values, rem, Step(_, _, _)) ==
    [Loop([i \in DOMAIN values |-> i], values, rem, Step) EXCEPT !.done = TRUE]
FromLast(values, rem, Step(_, _, _)) ==
    Loop(Reverse([i \in DOMAIN values |-> i]), values, rem, Step)

\* Mutant: an exhausted child is left with nothing.
DISTRIBUTE_MAX_STATUS_Zero(values, rem, benefit) ==
    LET Step(i, v, r) == IF v + r < 0 THEN [BoundTo(1, v, r) EXCEPT !.value = 0] ELSE Absorbs(v, r)
    IN  IF rem >= 0
        THEN [values |-> [values EXCEPT ![benefit] = @ + rem], rem |-> 0, done |-> TRUE]
        ELSE FromLast(values, rem, Step)

\* A limit: more goes to the child that benefits, less is taken from the last
\* child first, down to 1.
DISTRIBUTE_MAX_STATUS(values, rem, benefit) ==
    LET Step(i, v, r) == IF v + r < 0 THEN BoundTo(1, v, r) ELSE Absorbs(v, r)
    IN  IF rem >= 0
        THEN [values |-> [values EXCEPT ![benefit] = @ + rem], rem |-> 0, done |-> TRUE]
        ELSE FromLast(values, rem, Step)

\* Mutant: a child that comes to its limit exactly does not end the loop.
DistributeCurrent_Strict(policy, values, rem, limits) ==
    LET More(i, v, r) ==
          LET top == IF v >= 0 THEN limits[i].max_discharging ELSE 0
          IN  IF v + r >= top THEN BoundTo(top, v, r) ELSE Absorbs(v, r)
        Less(i, v, r) ==
          LET bottom == IF v >= 0 THEN 0 ELSE -limits[i].max_charging
          IN  IF v + r <= bottom THEN BoundTo(bottom, v, r) ELSE Absorbs(v, r)
    IN  IF rem >= 0 THEN FromLast(values, rem, More)
        ELSE IF policy = "Tranche" THEN FromFirst(values, rem, Less)
        ELSE FromLast(values, rem, Less)

\* Current beyond what the children asked for: a discharging child takes it up
\* to its limit, a charging one until it no longer charges.  Current that is
\* missing: the other way round.
DistributeCurrent(policy, values, rem, limits) ==
    LET More(i, v, r) ==
          LET top == IF v >= 0 THEN limits[i].max_discharging ELSE 0
          IN  IF v + r > top THEN BoundTo(top, v, r) ELSE Absorbs(v, r)
        Less(i, v, r) ==
          LET bottom == IF v >= 0 THEN 0 ELSE -limits[i].max_charging
          IN  IF v + r < bottom THEN BoundTo(bottom, v, r) ELSE Absorbs(v, r)
    IN  IF rem >= 0 THEN FromLast(values, rem, More)
        ELSE IF policy = "Tranche" THEN FromFirst(values, rem, Less)
        ELSE FromLast(values, rem, Less)

\* Mutant: the first child pays first.
DistributeCapacity_Junior(policy, values, rem, limits) ==
    LET More(i, v, r) ==
          IF v + r > limits[i].max_capacity THEN BoundTo(limits[i].max_capacity, v, r)
          ELSE Absorbs(v, r)
        Less(i, v, r) == IF v + r <= 0 THEN BoundTo(1, v, r) ELSE Absorbs(v, r)
    IN  IF rem < 0 THEN FromFirst(values, rem, Less)
        ELSE IF policy = "Tranche" THEN FromFirst(values, rem, More)
        ELSE FromLast(values, rem, More)

\* Charge beyond the estimates fills children up, charge that is missing is
\* taken from the last child first, down to 1.
DistributeCapacity(policy, values, rem, limits) ==
    LET More(i, v, r) ==
          IF v + r > limits[i].max_capacity THEN BoundTo(limits[i].max_capacity, v, r)
          ELSE Absorbs(v, r)
        Less(i, v, r) == IF v + r <= 0 THEN BoundTo(1, v, r) ELSE Absorbs(v, r)
    IN  IF rem < 0 THEN FromLast(values, rem, Less)
        ELSE IF policy = "Tranche" THEN FromFirst(values, rem, More)
        ELSE FromLast(values, rem, More)

-----------------------------------------------------------------------------
(***************************************************************************)
(* A policy answers with the new statuses of the children, their estimated *)
(* charges, and whether a loop went past the children.                     *)
(***************************************************************************)
\* The children start from what they were promised and what they asked for; the
\* remainder of every field is distributed, limits before what they limit.
Distributed(policy, source, original, asked, est) ==
    LET benefit == IF policy = "Tranche" THEN 1 ELSE Len(original)
        limit == [f \in Limits |->
                    DISTRIBUTE_MAX_STATUS(Field(original, f), source[f] - Sum(Field(original, f)),
                                          benefit)]
        limits == [i \in DOMAIN original |-> [f \in Limits |-> limit[f].values[i]]]
        charges == [i \in DOMAIN est |-> Truncated(est[i], Parts)]
        cur == DistributeCurrent(policy, asked, source.current - Sum(asked), limits)
        cap == DistributeCapacity(policy, charges, source.capacity - Sum(charges), limits)
    IN  [status |-> [i \in DOMAIN original |->
                        [max_charging |-> limits[i].max_charging,
                         max_discharging |-> limits[i].max_discharging,
                         max_capacity |-> limits[i].max_capacity,
                         capacity |-> cap.values[i], current |-> cur.values[i]]],
         est |-> est,
         wild |-> ~(cur.done /\ cap.done /\ \A f \in Limits : limit[f].done)]

\* More of anything goes to the first child that can take it ...
refresh_tranche(source, original, asked, est) ==
    Distributed("Tranche", source, original, asked, est)

\* ... or to the last.
refresh_reservation(source, original, asked, est) ==
    Distributed("Reservation", source, original, asked, est)

\* refresh_proportional: limits by scale, charge by estimated charge, current
\* by requested current.
refresh_proportional(source, scale, asked, est) ==
    LET net == Sum(asked)
        ofSign(sgn) == Sum([i \in DOMAIN asked |-> IF asked[i] * sgn > 0 THEN asked[i] ELSE 0])
        scaled(f, i) == Truncated(source[f] * scale[i], Parts)
        lost == Sum(est) = 0
        capacity(i) == IF lost THEN scaled("capacity", i)
                       ELSE Rounded(est[i] * source.capacity, Sum(est))
        current(i) ==
            IF net # 0 THEN Truncated(asked[i] * source.current, net)
            ELSE IF asked[i] * source.current > 0
            THEN Truncated(source.current * asked[i], ofSign(source.current))
            ELSE asked[i]
    IN  [status |-> [i \in DOMAIN scale |->
                        [max_charging |-> scaled("max_charging", i),
                         max_discharging |-> scaled("max_discharging", i),
                         max_capacity |-> scaled("max_capacity", i),
                         capacity |-> capacity(i), current |-> current(i)]],
         est |-> IF lost THEN [i \in DOMAIN est |-> capacity(i) * Parts] ELSE est,
         wild |-> FALSE]

\* BALSplitter::refresh.
refresh(policy, source, original, scale, asked, est) ==
    CASE policy = "Proportional" -> refresh_proportional(source, scale, asked, est)
      [] policy = "Tranche" -> refresh_tranche(source, original, asked, est)
      [] policy = "Reservation" -> refresh_reservation(source, original, asked, est)

-----------------------------------------------------------------------------
\* The inverse C-rate of a battery as a fraction.  With a limit of 0 it is
\* infinite, or, without charge, NaN, which std::max ignores.
LongerOf(s, t) == IF s.num * t.den < t.num * s.den THEN t ELSE s
Time(num, den) == [num |-> num, den |-> den]

\* The limit that empties, or fills, all batteries in the time the slowest takes.
LimitFor(total, times) ==
    LET longest == FoldLeft(LongerOf, Time(0, 1), times)
    IN  IF longest.num = 0 THEN 1 ELSE Truncated(total * longest.den, longest.num)

\* Mutant: every device takes its own time.
Aggregated_Sum(devices) ==
    LET total(f) == Sum(Field(devices, f))
    IN  [capacity |-> total("capacity"), max_capacity |-> total("max_capacity"),
         current |-> total("current"), max_charging |-> total("max_charging"),
         max_discharging |-> total("max_discharging")]

\* The status AggregatorBattery::refresh computes from those of its sources.
Aggregated(devices) ==
    LET total(f) == Sum(Field(devices, f))
        room(d) == d.max_capacity - d.capacity
        emptying == [i \in DOMAIN devices |-> Time(devices[i].capacity, devices[i].max_discharging)]
        filling == [i \in DOMAIN devices |-> Time(room(devices[i]), devices[i].max_charging)]
    IN  [capacity |-> total("capacity"), max_capacity |-> total("max_capacity"),
         current |-> total("current"),
         max_charging |-> LimitFor(total("max_capacity") - total("capacity"), filling),
         max_discharging |-> LimitFor(total("capacity"), emptying)]
=============================================================================
