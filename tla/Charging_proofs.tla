-------------------------- MODULE Charging_proofs ---------------------------
(***************************************************************************)
(* Proofs about the charging thread: no handle of a thread is lost, and    *)
(* what the capacity and the stop of the thread depend on.                 *)
(***************************************************************************)
EXTENDS Charging, TLAPS

\* Every step keeps the types, and the thread and its flag together.
LEMMA TypeStep ==
    ASSUME ChargingAssumption, TypeOK, Shape, NeverTerminated, [Next]_vars
    PROVE  (TypeOK /\ Shape /\ NeverTerminated)'
<1> USE ChargingAssumption DEF ChargingAssumption, TypeOK, Shape, NeverTerminated, Resting
<1>1. ASSUME NEW c \in Currents, set_current(c) PROVE (TypeOK /\ Shape /\ NeverTerminated)'
  BY <1>1 DEF set_current, MayChange, Sin, Overlap, Resting, threadVars
<1>2. CASE getStatus
  BY <1>2 DEF getStatus, MayChange, Sin, Resting, status, threadVars
<1>3. ASSUME NEW c \in Currents, NEW level \in {0, MaxCapacity}, NEW l \in Limits,
             setBatteryStatus(c, level, l)
      PROVE  (TypeOK /\ Shape /\ NeverTerminated)'
  BY <1>3 DEF setBatteryStatus, MayChange, Sin, Overlap, Resting
<1>4. ASSUME NEW l \in Limits, setLimits(l) PROVE (TypeOK /\ Shape /\ NeverTerminated)'
  BY <1>4 DEF setLimits, Sin, Overlap, Resting
<1>5. CASE destroy
  BY <1>5 DEF destroy, Sin, Overlap, Resting, threadVars
<1>6. CASE AssignStatus
  BY <1>6 DEF AssignStatus, threadVars
<1>7. CASE AssignRequested
  BY <1>7 DEF AssignRequested, threadVars
<1>8. CASE StartsThread
  BY <1>8 DEF StartsThread, runningNow, status
<1>9. CASE SetReturns
  BY <1>9 DEF SetReturns, status, threadVars
<1>10. CASE Joins
  BY <1>10 DEF Joins, status, threadVars
<1>11. CASE Joined
  <2>1. runningThread' = FALSE /\ thread' = "none" /\ caller' = "idle"
    BY <1>11 DEF Joined
  <2>2. TypeOK'
    <3>1. UNCHANGED <<current, requested, capacity, limit, calls, local, pending>> /\ turns' = 0
      BY <1>11 DEF Joined, status
    <3>2. runningThread' \in BOOLEAN /\ (runningThread' <=> thread' # "none")
      BY <2>1, Zenon
    <3> QED BY <2>1, <3>1, <3>2
  <2>3. Shape' /\ NeverTerminated'
    BY <1>11, <2>1 DEF Joined, status
  <2> QED BY <2>2, <2>3
<1>12. CASE Destroyed
  BY <1>12 DEF Destroyed, status
<1>13. CASE Begins
  BY <1>13 DEF Begins, status, callVars
<1>14. CASE Tests
  BY <1>14 DEF Tests, Ended, status, callVars
<1>15. CASE AdjustReads
  BY <1>15 DEF AdjustReads, Adjusted, status, callVars
<1>16. CASE AdjustWrites
  BY <1>16 DEF AdjustWrites, callVars
<1>17. CASE Counts
  BY <1>17 DEF Counts, Counted, Within, status, callVars
<1>18. CASE BoundReads
  BY <1>18 DEF BoundReads, Full, Empty, status, callVars
<1>19. CASE BoundWrites
  BY <1>19 DEF BoundWrites, callVars
<1>20. CASE Stores
  BY <1>20 DEF Stores, callVars
<1>21. CASE Wakes
  BY <1>21 DEF Wakes, Sin, status
<1>22. CASE UNCHANGED vars
  BY <1>22 DEF vars
<1> QED
  BY <1>1, <1>2, <1>3, <1>4, <1>5, <1>6, <1>7, <1>8, <1>9, <1>10, <1>11, <1>12, <1>13, <1>14,
       <1>15, <1>16, <1>17, <1>18, <1>19, <1>20, <1>21, <1>22 DEF Next, Caller, Thread

\* As long as no access overlaps the loop, thread and callers take turns.
LEMMA ApartStep ==
    ASSUME ChargingAssumption, TypeOK, Shape, NeverTerminated, Apart, [Next]_vars
    PROVE  Apart'
<1> USE ChargingAssumption DEF ChargingAssumption, TypeOK, Shape, Apart, Undisturbed, Resting
<1>1. ASSUME NEW c \in Currents, set_current(c) PROVE Apart'
  BY <1>1 DEF set_current, MayChange, Sin, Overlap, Resting, threadVars
<1>2. CASE getStatus
  BY <1>2 DEF getStatus, MayChange, Sin, Resting, status, threadVars
<1>3. ASSUME NEW c \in Currents, NEW level \in {0, MaxCapacity}, NEW l \in Limits,
             setBatteryStatus(c, level, l)
      PROVE  Apart'
  BY <1>3 DEF setBatteryStatus, MayChange, Sin, Overlap, Resting
<1>4. ASSUME NEW l \in Limits, setLimits(l) PROVE Apart'
  BY <1>4 DEF setLimits, Sin, Overlap, Resting
<1>5. CASE destroy
  BY <1>5 DEF destroy, Sin, Overlap, Resting, threadVars
<1>6. CASE AssignStatus
  BY <1>6 DEF AssignStatus, threadVars
<1>7. CASE AssignRequested
  BY <1>7 DEF AssignRequested, threadVars
<1>8. CASE StartsThread
  BY <1>8 DEF StartsThread, runningNow, status
<1>9. CASE SetReturns
  BY <1>9 DEF SetReturns, status, threadVars
<1>10. CASE Joins
  BY <1>10 DEF Joins, status, threadVars
<1>11. CASE Joined
  BY <1>11 DEF Joined, status
<1>12. CASE Destroyed
  BY <1>12 DEF Destroyed, status
<1>13. CASE Begins
  BY <1>13 DEF Begins, status, callVars
<1>14. CASE Tests
  BY <1>14 DEF Tests, Ended, status, callVars
<1>15. CASE AdjustReads
  BY <1>15 DEF AdjustReads, Adjusted, status, callVars
<1>16. CASE AdjustWrites
  BY <1>16 DEF AdjustWrites, callVars
<1>17. CASE Counts
  BY <1>17 DEF Counts, Counted, Within, status, callVars
<1>18. CASE BoundReads
  BY <1>18 DEF BoundReads, Full, Empty, status, callVars
<1>19. CASE BoundWrites
  BY <1>19 DEF BoundWrites, callVars
<1>20. CASE Stores
  BY <1>20 DEF Stores, callVars
<1>21. CASE Wakes
  <2>1. sins \subseteq sins' /\ thread = "asleep" /\ UNCHANGED <<caller, copy, current, capacity, limit>>
    BY <1>21 DEF Wakes, Sin, status
  <2>2. caller \in {"assigned", "branch"} => "overlap" \in sins'
    BY <1>21 DEF Wakes, Sin
  <2>3. caller = "copied" => "read" \in sins'
    BY <1>21 DEF Wakes, Sin
  <2>4. ASSUME Undisturbed' PROVE caller \in {"idle", "join", "destroyJoin"}
    BY <2>1, <2>2, <2>3, <2>4 DEF NeverTerminated
  <2> QED BY <2>1, <2>4
<1>22. CASE UNCHANGED vars
  BY <1>22 DEF vars
<1> QED
  BY <1>1, <1>2, <1>3, <1>4, <1>5, <1>6, <1>7, <1>8, <1>9, <1>10, <1>11, <1>12, <1>13, <1>14,
       <1>15, <1>16, <1>17, <1>18, <1>19, <1>20, <1>21, <1>22 DEF Next, Caller, Thread

\* The count leaves its bounds only between counting and testing.
LEMMA BoundedStep ==
    ASSUME ChargingAssumption, TypeOK, Shape, Apart, Bounded, [Next]_vars
    PROVE  Bounded'
<1> USE ChargingAssumption DEF ChargingAssumption, TypeOK, Shape, Apart, Bounded, Undisturbed,
     Resting, InLoop
<1>1. ASSUME NEW c \in Currents, set_current(c) PROVE Bounded'
  BY <1>1 DEF set_current, MayChange, Sin, Overlap, Resting, threadVars
<1>2. CASE getStatus
  BY <1>2 DEF getStatus, MayChange, Sin, Resting, status, threadVars
<1>3. ASSUME NEW c \in Currents, NEW level \in {0, MaxCapacity}, NEW l \in Limits,
             setBatteryStatus(c, level, l)
      PROVE  Bounded'
  BY <1>3 DEF setBatteryStatus, MayChange, Sin, Overlap, Resting
<1>4. ASSUME NEW l \in Limits, setLimits(l) PROVE Bounded'
  BY <1>4 DEF setLimits, Sin, Overlap, Resting
<1>5. CASE destroy
  BY <1>5 DEF destroy, Sin, Overlap, Resting, threadVars
<1>6. CASE AssignStatus
  BY <1>6 DEF AssignStatus, threadVars
<1>7. CASE AssignRequested
  BY <1>7 DEF AssignRequested, threadVars
<1>8. CASE StartsThread
  BY <1>8 DEF StartsThread, runningNow, status
<1>9. CASE SetReturns
  BY <1>9 DEF SetReturns, status, threadVars
<1>10. CASE Joins
  BY <1>10 DEF Joins, status, threadVars
<1>11. CASE Joined
  BY <1>11 DEF Joined, status
<1>12. CASE Destroyed
  BY <1>12 DEF Destroyed, status
<1>13. CASE Begins
  BY <1>13 DEF Begins, status, callVars
<1>14. CASE Tests
  BY <1>14 DEF Tests, Ended, status, callVars
<1>15. CASE AdjustReads
  BY <1>15 DEF AdjustReads, Adjusted, status, callVars
<1>16. CASE AdjustWrites
  BY <1>16 DEF AdjustWrites, callVars
<1>17. CASE Counts
  BY <1>17 DEF Counts, Counted, Within, status, callVars
<1>18. CASE BoundReads
  BY <1>18 DEF BoundReads, Full, Empty, status, callVars
<1>19. CASE BoundWrites
  BY <1>19 DEF BoundWrites, callVars
<1>20. CASE Stores
  BY <1>20 DEF Stores, callVars
<1>21. CASE Wakes
  BY <1>21 DEF Wakes, Sin, status
<1>22. CASE UNCHANGED vars
  BY <1>22 DEF vars
<1> QED
  BY <1>1, <1>2, <1>3, <1>4, <1>5, <1>6, <1>7, <1>8, <1>9, <1>10, <1>11, <1>12, <1>13, <1>14,
       <1>15, <1>16, <1>17, <1>18, <1>19, <1>20, <1>21, <1>22 DEF Next, Caller, Thread

\* The count is the account, in whichever variable it is at the moment.
LEMMA AccountedStep ==
    ASSUME ChargingAssumption, TypeOK, Shape, Apart, Bounded, Accounted, [Next]_vars
    PROVE  Accounted'
<1> USE ChargingAssumption DEF ChargingAssumption, TypeOK, Shape, Apart, Bounded, Accounted,
     Undisturbed, Resting, InLoop, Within
<1>1. ASSUME NEW c \in Currents, set_current(c) PROVE Accounted'
  BY <1>1 DEF set_current, MayChange, Sin, Overlap, Resting, threadVars
<1>2. CASE getStatus
  BY <1>2 DEF getStatus, MayChange, Sin, Resting, status, threadVars
<1>3. ASSUME NEW c \in Currents, NEW level \in {0, MaxCapacity}, NEW l \in Limits,
             setBatteryStatus(c, level, l)
      PROVE  Accounted'
  BY <1>3 DEF setBatteryStatus, MayChange, Sin, Overlap, Resting
<1>4. ASSUME NEW l \in Limits, setLimits(l) PROVE Accounted'
  BY <1>4 DEF setLimits, Sin, Overlap, Resting
<1>5. CASE destroy
  BY <1>5 DEF destroy, Sin, Overlap, Resting, threadVars
<1>6. CASE AssignStatus
  BY <1>6 DEF AssignStatus, threadVars
<1>7. CASE AssignRequested
  BY <1>7 DEF AssignRequested, threadVars
<1>8. CASE StartsThread
  BY <1>8 DEF StartsThread, runningNow, status
<1>9. CASE SetReturns
  BY <1>9 DEF SetReturns, status, threadVars
<1>10. CASE Joins
  BY <1>10 DEF Joins, status, threadVars
<1>11. CASE Joined
  BY <1>11 DEF Joined, status
<1>12. CASE Destroyed
  BY <1>12 DEF Destroyed, status
<1>13. CASE Begins
  BY <1>13 DEF Begins, status, callVars
<1>14. CASE Tests
  <2>1. UNCHANGED <<capacity, account, sins>>
    BY <1>14 DEF Tests, status, callVars
  <2>2. thread = "test" /\ thread' \in {"exited", "adjust"}
    BY <1>14 DEF Tests
  <2>3. thread' = "adjust" => local' = local
    BY <1>14 DEF Tests
  <2> QED BY <2>1, <2>2, <2>3
<1>15. CASE AdjustReads
  BY <1>15 DEF AdjustReads, Adjusted, status, callVars
<1>16. CASE AdjustWrites
  BY <1>16 DEF AdjustWrites, callVars
<1>17. CASE Counts
  BY <1>17 DEF Counts, Counted, Within, status, callVars
<1>18. CASE BoundReads
  BY <1>18 DEF BoundReads, Full, Empty, status, callVars
<1>19. CASE BoundWrites
  BY <1>19 DEF BoundWrites, callVars
<1>20. CASE Stores
  BY <1>20 DEF Stores, callVars
<1>21. CASE Wakes
  BY <1>21 DEF Wakes, Sin, status
<1>22. CASE UNCHANGED vars
  BY <1>22 DEF vars
<1> QED
  BY <1>1, <1>2, <1>3, <1>4, <1>5, <1>6, <1>7, <1>8, <1>9, <1>10, <1>11, <1>12, <1>13, <1>14,
       <1>15, <1>16, <1>17, <1>18, <1>19, <1>20, <1>21, <1>22 DEF Next, Caller, Thread

\* A current set from zero finds no thread left over.
LEMMA FreshStep ==
    ASSUME ChargingAssumption, TypeOK, Shape, Apart, Fresh, [Next]_vars
    PROVE  Fresh'
<1> USE ChargingAssumption DEF ChargingAssumption, TypeOK, Shape, Apart, Fresh, Undisturbed,
     Resting
<1>1. ASSUME NEW c \in Currents, set_current(c) PROVE Fresh'
  BY <1>1 DEF set_current, MayChange, Sin, Overlap, Resting, threadVars
<1>2. CASE getStatus
  BY <1>2 DEF getStatus, MayChange, Sin, Resting, status, threadVars
<1>3. ASSUME NEW c \in Currents, NEW level \in {0, MaxCapacity}, NEW l \in Limits,
             setBatteryStatus(c, level, l)
      PROVE  Fresh'
  BY <1>3 DEF setBatteryStatus, MayChange, Sin, Overlap, Resting
<1>4. ASSUME NEW l \in Limits, setLimits(l) PROVE Fresh'
  BY <1>4 DEF setLimits, Sin, Overlap, Resting
<1>5. CASE destroy
  BY <1>5 DEF destroy, Sin, Overlap, Resting, threadVars
<1>6. CASE AssignStatus
  BY <1>6 DEF AssignStatus, threadVars
<1>7. CASE AssignRequested
  BY <1>7 DEF AssignRequested, threadVars
<1>8. CASE StartsThread
  <2>1. thread' = "begin" /\ caller' = "idle" /\ UNCHANGED <<current, requested, sins>> /\ caller = "branch"
    BY <1>8 DEF StartsThread, status
  <2>2. arg # 0
    BY <1>8 DEF StartsThread
  <2> QED BY <2>1, <2>2
<1>9. CASE SetReturns
  BY <1>9 DEF SetReturns, status, threadVars
<1>10. CASE Joins
  BY <1>10 DEF Joins, status, threadVars
<1>11. CASE Joined
  BY <1>11 DEF Joined, status
<1>12. CASE Destroyed
  BY <1>12 DEF Destroyed, status
<1>13. CASE Begins
  BY <1>13 DEF Begins, status, callVars
<1>14. CASE Tests
  BY <1>14 DEF Tests, Ended, status, callVars
<1>15. CASE AdjustReads
  BY <1>15 DEF AdjustReads, Adjusted, status, callVars
<1>16. CASE AdjustWrites
  BY <1>16 DEF AdjustWrites, callVars
<1>17. CASE Counts
  BY <1>17 DEF Counts, Counted, Within, status, callVars
<1>18. CASE BoundReads
  BY <1>18 DEF BoundReads, Full, Empty, status, callVars
<1>19. CASE BoundWrites
  BY <1>19 DEF BoundWrites, callVars
<1>20. CASE Stores
  BY <1>20 DEF Stores, callVars
<1>21. CASE Wakes
  BY <1>21 DEF Wakes, Sin, status
<1>22. CASE UNCHANGED vars
  BY <1>22 DEF vars
<1> QED
  BY <1>1, <1>2, <1>3, <1>4, <1>5, <1>6, <1>7, <1>8, <1>9, <1>10, <1>11, <1>12, <1>13, <1>14,
       <1>15, <1>16, <1>17, <1>18, <1>19, <1>20, <1>21, <1>22 DEF Next, Caller, Thread

\* Each turn that set_current(0) waits for brings the current closer to zero.
LEMMA StoppingStep ==
    ASSUME ChargingAssumption, TypeOK, Shape, Stopping, [Next]_vars
    PROVE  Stopping'
<1> USE ChargingAssumption DEF ChargingAssumption, TypeOK, Shape, Stopping, Fits
<1>1. ASSUME NEW c \in Currents, set_current(c) PROVE Stopping'
  BY <1>1 DEF set_current, MayChange, Sin, Overlap, Resting, threadVars
<1>2. CASE getStatus
  BY <1>2 DEF getStatus, MayChange, Sin, Resting, status, threadVars
<1>3. ASSUME NEW c \in Currents, NEW level \in {0, MaxCapacity}, NEW l \in Limits,
             setBatteryStatus(c, level, l)
      PROVE  Stopping'
  BY <1>3 DEF setBatteryStatus, MayChange, Sin, Overlap, Resting
<1>4. ASSUME NEW l \in Limits, setLimits(l) PROVE Stopping'
  BY <1>4 DEF setLimits, Sin, Overlap, Resting
<1>5. CASE destroy
  BY <1>5 DEF destroy, Sin, Overlap, Resting, threadVars
<1>6. CASE AssignStatus
  BY <1>6 DEF AssignStatus, threadVars
<1>7. CASE AssignRequested
  BY <1>7 DEF AssignRequested, threadVars
<1>8. CASE StartsThread
  BY <1>8 DEF StartsThread, runningNow, status
<1>9. CASE SetReturns
  BY <1>9 DEF SetReturns, status, threadVars
<1>10. CASE Joins
  BY <1>10 DEF Joins, status, threadVars
<1>11. CASE Joined
  BY <1>11 DEF Joined, status
<1>12. CASE Destroyed
  BY <1>12 DEF Destroyed, status
<1>13. CASE Begins
  BY <1>13 DEF Begins, status, callVars
<1>14. CASE Tests
  BY <1>14 DEF Tests, Ended, status, callVars
<1>15. CASE AdjustReads
  BY <1>15 DEF AdjustReads, Adjusted, status, callVars
<1>16. CASE AdjustWrites
  BY <1>16 DEF AdjustWrites, callVars
<1>17. CASE Counts
  BY <1>17 DEF Counts, Counted, Within, status, callVars
<1>18. CASE BoundReads
  BY <1>18 DEF BoundReads, Full, Empty, status, callVars
<1>19. CASE BoundWrites
  BY <1>19 DEF BoundWrites, callVars
<1>20. CASE Stores
  BY <1>20 DEF Stores, callVars
<1>21. CASE Wakes
  BY <1>21 DEF Wakes, Sin, status
<1>22. CASE UNCHANGED vars
  BY <1>22 DEF vars
<1> QED
  BY <1>1, <1>2, <1>3, <1>4, <1>5, <1>6, <1>7, <1>8, <1>9, <1>10, <1>11, <1>12, <1>13, <1>14,
       <1>15, <1>16, <1>17, <1>18, <1>19, <1>20, <1>21, <1>22 DEF Next, Caller, Thread

-----------------------------------------------------------------------------
LEMMA InitInv ==
    ASSUME ChargingAssumption, Init
    PROVE  TypeOK /\ Shape /\ NeverTerminated /\ Apart /\ Bounded /\ Accounted /\ Fresh /\ Stopping
<1>1. runningThread \in BOOLEAN /\ (runningThread <=> thread # "none")
  BY Zenon DEF Init
<1>2. TypeOK /\ Shape /\ NeverTerminated
  BY <1>1 DEF ChargingAssumption, Init, TypeOK, Shape, NeverTerminated
<1>3. Apart /\ Bounded /\ Accounted /\ Fresh /\ Stopping
  BY DEF ChargingAssumption, Init, Apart, Bounded, Accounted, Fresh, Stopping, Resting, InLoop
<1> QED BY <1>2, <1>3

\* The handle of the charging thread and the flag runningThread never come apart
\* (set_current, ~PartitionBattery), whoever calls and however the threads race.
THEOREM HandleKept == Spec => []ThreadHeld
<1>1. Init => TypeOK /\ Shape /\ NeverTerminated
  BY ChargingAssumption, InitInv
<1>2. (TypeOK /\ Shape /\ NeverTerminated) /\ [Next]_vars => (TypeOK /\ Shape /\ NeverTerminated)'
  BY ChargingAssumption, TypeStep
<1>3. TypeOK /\ Shape /\ NeverTerminated => ThreadHeld
  BY DEF ThreadHeld
<1> QED
  BY <1>1, <1>2, <1>3, PTL DEF Spec

\* set_current(0) waits for at most two turns of runChargingThread with current,
\* whatever currents, limits and number of calls came before.
THEOREM StopsWithinTwoTurns == Spec => []StopsSoon
<1> DEFINE Inv == TypeOK /\ Shape /\ NeverTerminated /\ Stopping
<1>1. Init => Inv
  BY ChargingAssumption, InitInv
<1>2. Inv /\ [Next]_vars => Inv'
  BY ChargingAssumption, TypeStep, StoppingStep
<1>3. Inv => StopsSoon
  BY DEF StopsSoon, Stopping
<1> QED
  BY <1>1, <1>2, <1>3, PTL DEF Spec

\* What the invariants say of the capacity a client is told.
LEMMA CapacityFollows ==
    ASSUME TypeOK, Shape, Apart, Bounded, Accounted, Fresh
    PROVE  CapacityKept
<1>1. CapacityInBounds
  BY DEF CapacityInBounds, TypeOK, Bounded, Undisturbed
<1>2. CapacityAccounted
  BY DEF CapacityAccounted, Accounted
<1>3. CountsFromZero
  BY DEF CountsFromZero, Fresh
<1> QED
  BY <1>1, <1>2, <1>3 DEF CapacityKept

\* The capacity is the charge that flowed and stays between empty and full, except
\* for what racing accesses spoil, for every capacity, current, limit and number
\* of calls (runChargingThread).
THEOREM CapacityRight == Spec => []CapacityKept
<1> DEFINE Inv == TypeOK /\ Shape /\ NeverTerminated /\ Apart /\ Bounded /\ Accounted /\ Fresh
<1>1. Init => Inv
  BY ChargingAssumption, InitInv
<1>2. Inv /\ [Next]_vars => Inv'
  BY ChargingAssumption, TypeStep, ApartStep, BoundedStep, AccountedStep, FreshStep
<1>3. Inv => CapacityKept
  BY CapacityFollows
<1> QED
  BY <1>1, <1>2, <1>3, PTL DEF Spec
=============================================================================
