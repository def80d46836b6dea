--------------------------- MODULE Splitter_proofs ---------------------------
(***************************************************************************)
(* Proofs about Splitter, for every set of children, requests and limits.  *)
(***************************************************************************)
EXTENDS Splitter, Sums, TLAPS

-----------------------------------------------------------------------------
\* What the model adds up is a sum over the children.
LEMMA TotalSums ==
    ASSUME NEW S, NEW f, DOMAIN f = S
    PROVE  Total(f) = SumOver(f, S)
BY DEF Total, FoldFunction, SumOver

LEMMA TotalType ==
    ASSUME NEW S, IsFiniteSet(S), NEW f \in [S -> Int]
    PROVE  Total(f) \in Int
BY TotalSums, SumType

LEMMA TotalZero ==
    ASSUME NEW S, IsFiniteSet(S)
    PROVE  Total([s \in S |-> 0]) = 0
<1>1. PICK f : f = [s \in S |-> 0]
  OBVIOUS
<1>2. DOMAIN f = S /\ \A s \in S : f[s] = 0
  BY <1>1
<1> QED BY <1>1, <1>2, TotalSums, SumZero

-----------------------------------------------------------------------------
(***************************************************************************)
(* What a queue foretells (preview, schedule_set_current).                 *)
(***************************************************************************)
Dated(q) == \A e \in q : e.time \in Int /\ e.seq \in Int
Older(q) == Dated(q) /\ \A e \in q : e.seq < nextSeq

\* The last event up to t is what counts at t, and without one the current stays.
LEMMA PreviewLast ==
    ASSUME NEW q, NEW base, NEW x, NEW t, Dated(q)
    PROVE  /\ \A e : IsLast(e, Upto(q, x, t)) => Preview(q, base, x, t) = e.cur
           /\ Upto(q, x, t) = {} => Preview(q, base, x, t) = base
<1>1. ASSUME NEW e, IsLast(e, Upto(q, x, t)) PROVE Preview(q, base, x, t) = e.cur
  <2>1. PICK d : d = CHOOSE g \in Upto(q, x, t) : \A f \in Upto(q, x, t) : f = g \/ Before(f, g)
    OBVIOUS
  <2>2. d \in Upto(q, x, t) /\ \A f \in Upto(q, x, t) : f = d \/ Before(f, d)
    BY <1>1, <2>1 DEF IsLast
  <2>3. d = e
    <3>1. d = e \/ (Before(d, e) /\ Before(e, d))
      BY <1>1, <2>2 DEF IsLast
    <3>2. d \in q /\ e \in q
      BY <1>1, <2>2 DEF IsLast, Upto
    <3> QED BY <3>1, <3>2 DEF Before, Dated
  <2>4. Upto(q, x, t) # {}
    BY <2>2
  <2> QED BY <2>1, <2>3, <2>4 DEF Preview, LastCurrent
<1>2. Upto(q, x, t) = {} => Preview(q, base, x, t) = base
  BY DEF Preview, LastCurrent
<1> QED BY <1>1, <1>2

\* The event queued last is the last of those that are not later.
LEMMA AddLast ==
    ASSUME NEW S, NEW a, HasLast(S), a.time \in Int, a.seq \in Int,
           \A e \in S : e.time \in Int /\ e.seq \in Int /\ e.seq < a.seq
    PROVE  HasLast(S \cup {a})
<1>1. CASE S = {}
  BY <1>1 DEF HasLast, IsLast
<1>2. CASE S # {}
  <2>1. PICK e \in S : IsLast(e, S)
    BY <1>2 DEF HasLast
  <2>2. CASE e.time <= a.time
    <3>1. \A f \in S : Before(f, a)
      BY <2>1, <2>2 DEF IsLast, Before
    <3> QED BY <3>1 DEF HasLast, IsLast
  <2>3. CASE a.time < e.time
    <3>1. Before(a, e)
      BY <2>3 DEF Before
    <3> QED BY <2>1, <3>1 DEF HasLast, IsLast
  <2> QED BY <2>2, <2>3
<1> QED BY <1>1, <1>2

\* The events of x after a window was entered.
Begin(x, cur, when) == Event("SET_CURRENT", when, nextSeq, x, cur)
End(x, until, resume) == Event("SET_CURRENT_END", until, nextSeq + 1, x, resume)
Kept(q, x, when, until, t) == {e \in Upto(q, x, t) : e.time < when \/ until < e.time}

LEMMA WindowUpto ==
    ASSUME NEW q, NEW x, NEW cur, NEW when \in Int, NEW until \in Int, NEW resume, NEW t \in Int,
           nextSeq \in Int, Older(q)
    PROVE  Upto(WithWindow(q, x, cur, when, until, resume), x, t) =
             Kept(q, x, when, until, t)
             \cup (IF when <= t THEN {Begin(x, cur, when)} ELSE {})
             \cup (IF until <= t THEN {End(x, until, resume)} ELSE {})
<1>1. /\ Begin(x, cur, when).func = "SET_CURRENT" /\ Begin(x, cur, when).child = x
      /\ Begin(x, cur, when).time = when
      /\ End(x, until, resume).func = "SET_CURRENT_END" /\ End(x, until, resume).child = x
      /\ End(x, until, resume).time = until
  BY DEF Begin, End, Event
<1>2. WithWindow(q, x, cur, when, until, resume) =
        (q \ InWindow(q, x, when, until)) \cup {Begin(x, cur, when), End(x, until, resume)}
  BY DEF WithWindow, Begin, End
<1> QED BY <1>1, <1>2 DEF Upto, InWindow, Kept, Older, Dated

\* What a window leaves has a last event, too.
LEMMA KeptLast ==
    ASSUME NEW q, NEW x, NEW when \in Int, NEW until \in Int, NEW t \in Int, Older(q),
           \A s \in Int : HasLast(Upto(q, x, s))
    PROVE  HasLast(Kept(q, x, when, until, t))
<1>1. CASE Upto(q, x, t) = {}
  BY <1>1 DEF Kept, HasLast
<1>2. CASE Upto(q, x, t) # {}
  <2>1. PICK e \in Upto(q, x, t) : IsLast(e, Upto(q, x, t))
    BY <1>2 DEF HasLast
  <2>2. CASE e.time < when \/ until < e.time
    BY <2>1, <2>2 DEF HasLast, IsLast, Kept
  <2>3. CASE when <= e.time /\ e.time <= until
    <3>1. \A f \in Upto(q, x, t) : f.time <= e.time /\ f.time \in Int /\ e.time \in Int /\ e.time <= t
      BY <2>1 DEF IsLast, Before, Older, Dated, Upto
    <3>2. Kept(q, x, when, until, t) = Upto(q, x, when - 1)
      BY <2>3, <3>1 DEF Kept, Upto, Older, Dated
    <3> QED BY <3>2
  <2>4. e.time \in Int
    BY DEF Upto, Older, Dated
  <2> QED BY <2>2, <2>3, <2>4
<1> QED BY <1>1, <1>2

\* So does the queue with the window, whichever way its ends lie.
LEMMA WindowLast ==
    ASSUME NEW q, NEW x, NEW cur, NEW when \in Int, NEW until \in Int, NEW resume, NEW t \in Int,
           nextSeq \in Int, Older(q), \A s \in Int : HasLast(Upto(q, x, s))
    PROVE  HasLast(Upto(WithWindow(q, x, cur, when, until, resume), x, t))
<1> DEFINE K == Kept(q, x, when, until, t)
           a == Begin(x, cur, when)
           b == End(x, until, resume)
<1>1. HasLast(K)
  BY KeptLast
<1>2. \A e \in K : e.time \in Int /\ e.seq \in Int /\ e.seq < nextSeq
  BY DEF Kept, Upto, Older, Dated
<1>3. a.time \in Int /\ a.seq = nextSeq /\ b.time \in Int /\ b.seq = nextSeq + 1
  BY DEF Begin, End, Event
<1>4. Upto(WithWindow(q, x, cur, when, until, resume), x, t) =
        K \cup (IF when <= t THEN {a} ELSE {}) \cup (IF until <= t THEN {b} ELSE {})
  BY WindowUpto
<1> HIDE DEF K, a, b
<1>5. PICK L : L = K \cup (IF when <= t THEN {a} ELSE {})
  OBVIOUS
<1>6. HasLast(L)
  <2>1. CASE when <= t
    BY <1>1, <1>2, <1>3, <1>5, <2>1, AddLast
  <2>2. CASE ~(when <= t)
    BY <1>1, <1>5, <2>2
  <2> QED BY <2>1, <2>2
<1>7. \A e \in L : e.time \in Int /\ e.seq \in Int /\ e.seq < nextSeq + 1
  BY <1>2, <1>3, <1>5
<1>8. CASE until <= t
  <2>1. HasLast(L \cup {b})
    BY <1>3, <1>6, <1>7, AddLast
  <2> QED BY <1>4, <1>5, <1>8, <2>1
<1>9. CASE ~(until <= t)
  BY <1>4, <1>5, <1>6, <1>9
<1> QED BY <1>8, <1>9

\* A window gives its current from its start to its end, and changes nothing before
\* and after: what would have been the current at its end comes back there.
LEMMA WindowPlan ==
    ASSUME NEW q, NEW x, NEW cur, NEW when \in Int, NEW until \in Int, NEW base, NEW t \in Int,
           nextSeq \in Int, Older(q), \A s \in Int : HasLast(Upto(q, x, s)), when <= until
    PROVE  Preview(WithWindow(q, x, cur, when, until, Preview(q, base, x, until)), base, x, t) =
             IF when <= t /\ t < until THEN cur ELSE Preview(q, base, x, t)
<1>1. PICK resume : resume = Preview(q, base, x, until)
  OBVIOUS
<1>2. PICK w : w = WithWindow(q, x, cur, when, until, resume)
  OBVIOUS
<1>3. PICK a : a = Begin(x, cur, when)
  OBVIOUS
<1>4. PICK b : b = End(x, until, resume)
  OBVIOUS
<1>5. a.time = when /\ a.seq = nextSeq /\ a.cur = cur /\ b.time = until /\ b.seq = nextSeq + 1 /\ b.cur = resume
  BY <1>3, <1>4 DEF Begin, End, Event
<1>6. Upto(w, x, t) = Kept(q, x, when, until, t) \cup (IF when <= t THEN {a} ELSE {})
                        \cup (IF until <= t THEN {b} ELSE {})
  BY <1>2, <1>3, <1>4, WindowUpto
<1>7. \A e \in Upto(q, x, t) : e.time \in Int /\ e.seq \in Int /\ e.seq < nextSeq /\ e.time <= t
  BY DEF Upto, Older, Dated
<1>8. Dated(w) /\ Dated(q)
  <2>1. \A e \in w : e \in q \/ e = a \/ e = b
    BY <1>2, <1>3, <1>4 DEF WithWindow, Begin, End
  <2> QED BY <1>5, <2>1 DEF Older, Dated
<1>9. CASE t < when
  <2>1. Upto(w, x, t) = Upto(q, x, t)
    BY <1>6, <1>7, <1>9 DEF Kept
  <2>2. Preview(w, base, x, t) = Preview(q, base, x, t)
    BY <2>1 DEF Preview
  <2> QED BY <1>1, <1>2, <1>9, <2>2
<1>10. CASE when <= t /\ t < until
  <2>1. IsLast(a, Upto(w, x, t))
    BY <1>5, <1>6, <1>7, <1>10 DEF Kept, IsLast, Before
  <2> QED BY <1>1, <1>2, <1>5, <1>8, <1>10, <2>1, PreviewLast
<1>11. CASE until <= t
  <2>1. Upto(w, x, t) = Kept(q, x, when, until, t) \cup {a, b}
    BY <1>6, <1>11
  <2>2. CASE Upto(q, x, t) = {}
    <3>1. Upto(q, x, until) = {}
      BY <1>11, <2>2 DEF Upto, Older, Dated
    <3>2. resume = base /\ Preview(q, base, x, t) = base
      BY <1>1, <1>8, <2>2, <3>1, PreviewLast
    <3>3. IsLast(b, Upto(w, x, t))
      BY <1>5, <2>1, <2>2 DEF Kept, IsLast, Before
    <3> QED BY <1>1, <1>2, <1>5, <1>8, <1>11, <3>2, <3>3, PreviewLast
  <2>3. CASE Upto(q, x, t) # {}
    <3>1. PICK e \in Upto(q, x, t) : IsLast(e, Upto(q, x, t))
      BY <2>3 DEF HasLast
    <3>2. Preview(q, base, x, t) = e.cur
      BY <1>8, <3>1, PreviewLast
    <3>3. \A f \in Upto(q, x, t) : f = e \/ Before(f, e)
      BY <3>1 DEF IsLast
    <3>4. CASE until < e.time
      <4>1. IsLast(e, Upto(w, x, t))
        BY <1>5, <1>7, <2>1, <3>1, <3>3, <3>4 DEF Kept, IsLast, Before
      <4> QED BY <1>1, <1>2, <1>8, <1>11, <3>2, <4>1, PreviewLast
    <3>5. CASE e.time <= until
      <4>1. IsLast(e, Upto(q, x, until))
        BY <1>7, <1>11, <3>1, <3>3, <3>5 DEF IsLast, Upto, Older, Dated
      <4>2. resume = e.cur
        BY <1>1, <1>8, <4>1, PreviewLast
      <4>3. \A f \in Upto(q, x, t) : f.time <= until
        BY <1>7, <3>1, <3>3, <3>5 DEF Before
      <4>4. IsLast(b, Upto(w, x, t))
        BY <1>5, <1>7, <2>1, <4>3 DEF Kept, IsLast, Before
      <4> QED BY <1>1, <1>2, <1>5, <1>8, <1>11, <3>2, <4>2, <4>4, PreviewLast
    <3> QED BY <1>7, <3>1, <3>4, <3>5
  <2> QED BY <2>2, <2>3
<1> QED BY <1>9, <1>10, <1>11

\* What is foretold for another child stays.
LEMMA WindowOthers ==
    ASSUME NEW q, NEW x, NEW cur, NEW when \in Int, NEW until \in Int, NEW resume, NEW t \in Int,
           NEW y, y # x
    PROVE  /\ Upto(WithWindow(q, x, cur, when, until, resume), y, t) = Upto(q, y, t)
           /\ \A base : Preview(WithWindow(q, x, cur, when, until, resume), base, y, t) =
                          Preview(q, base, y, t)
<1>1. Upto(WithWindow(q, x, cur, when, until, resume), y, t) = Upto(q, y, t)
  <2>1. Begin(x, cur, when).child = x /\ End(x, until, resume).child = x
    BY DEF Begin, End, Event
  <2>2. WithWindow(q, x, cur, when, until, resume) =
          (q \ InWindow(q, x, when, until)) \cup {Begin(x, cur, when), End(x, until, resume)}
    BY DEF WithWindow, Begin, End
  <2> QED BY <2>1, <2>2 DEF Upto, InWindow
<1> QED BY <1>1 DEF Preview

Later(S) == {e \in S : e.time > now}

\* What is due can be carried out and taken out of the queue: what is foretold for
\* later stays (background_func).
LEMMA PassPlan ==
    ASSUME NEW q, NEW w, NEW x, NEW t \in Int, NEW base, now \in Int, Dated(q),
           \A s \in Int : HasLast(Upto(q, x, s)),
           Upto(w, x, t) = Later(Upto(q, x, t)), Dated(w)
    PROVE  /\ HasLast(Upto(w, x, t))
           /\ now <= t => Preview(w, Preview(q, base, x, now), x, t) = Preview(q, base, x, t)
<1> USE DEF Later
<1>1. \A e \in Upto(q, x, t) : e.time \in Int /\ e.seq \in Int /\ e.time <= t
  BY DEF Upto, Dated
<1>2. CASE Upto(q, x, t) = {}
  <2>1. Upto(w, x, t) = {}
    BY <1>2
  <2>2. now <= t => Upto(q, x, now) = {}
    BY <1>2 DEF Upto, Dated
  <2> QED BY <1>2, <2>1, <2>2, PreviewLast DEF HasLast
<1>3. CASE Upto(q, x, t) # {}
  <2>1. PICK e \in Upto(q, x, t) : IsLast(e, Upto(q, x, t))
    BY <1>3 DEF HasLast
  <2>2. Preview(q, base, x, t) = e.cur /\ \A f \in Upto(q, x, t) : f = e \/ Before(f, e)
    BY <2>1, PreviewLast DEF IsLast
  <2>3. CASE e.time > now
    <3>1. IsLast(e, Upto(w, x, t))
      BY <2>1, <2>2, <2>3 DEF IsLast
    <3>2. e \in Upto(w, x, t)
      BY <3>1 DEF IsLast
    <3>3. HasLast(Upto(w, x, t))
      BY <3>1, <3>2 DEF HasLast
    <3>4. Preview(w, Preview(q, base, x, now), x, t) = e.cur
      <4>1. PICK v : v = Preview(q, base, x, now)
        OBVIOUS
      <4>2. \A d : IsLast(d, Upto(w, x, t)) => Preview(w, v, x, t) = d.cur
        BY PreviewLast
      <4>3. Preview(w, v, x, t) = e.cur
        BY <3>1, <4>2
      <4> QED BY <4>1, <4>3
    <3> QED BY <2>2, <3>3, <3>4
  <2>4. CASE e.time <= now
    <3>1. \A f \in Upto(q, x, t) : f.time <= now
      BY <1>1, <2>1, <2>2, <2>4 DEF Before
    <3>2. Upto(w, x, t) = {}
      BY <1>1, <3>1
    <3>3. ASSUME now <= t PROVE Preview(q, base, x, now) = e.cur
      <4>1. IsLast(e, Upto(q, x, now))
        BY <1>1, <2>1, <2>2, <2>4, <3>3 DEF IsLast, Upto, Dated
      <4> QED BY <4>1, PreviewLast
    <3> QED BY <2>2, <3>2, <3>3, PreviewLast DEF HasLast
  <2> QED BY <1>1, <2>1, <2>3, <2>4
<1> QED BY <1>2, <1>3

-----------------------------------------------------------------------------
(***************************************************************************)
(* The books: what the splitter's queue and its estimates hold.            *)
(***************************************************************************)
\* The device may have to be told ahead (get_delay).
Delays == \A i, j \in Int : get_delay(i, j) \in Nat

LastOnes ==
    \A t \in Int : /\ \A c \in Children : HasLast(Upto(queue, c, t))
                   /\ HasLast(Upto(sourceQueue, Source, t))

Books == TypeOK /\ Numbered /\ Counted /\ LastOnes /\ PlanIsLastWish /\ EstimateIsUse

\* What the proofs use of the constants.
LEMMA Constants ==
    /\ IsFiniteSet(Children) /\ Source \notin Children /\ MaxTime \in Nat /\ MaxCalls \in Nat
    /\ Staleness \in Nat /\ InitialLimit \in Limits /\ Limits \subseteq [charge : Nat, discharge : Nat]
    /\ \A r \in Requests : /\ r.child \in Children \cup {Source} /\ r.cur \in Int
                           /\ r.when \in Nat /\ r.until \in Nat /\ r.when <= r.until /\ r.until <= MaxTime
    /\ Allowed \subseteq Int /\ 0 \in Allowed
BY SplitterAssumption DEF Allowed

LEMMA Facts ==
    ASSUME Books
    PROVE  /\ Older(queue) /\ Older(sourceQueue) /\ nextSeq \in Nat /\ now \in Nat
           /\ \A c \in Children : \A s \in Int : HasLast(Upto(queue, c, s))
           /\ \A s \in Int : HasLast(Upto(sourceQueue, Source, s))
<1>1. nextSeq \in Nat /\ now \in Nat
  BY DEF Books, TypeOK, Times
<1>2. Older(queue)
  BY Constants DEF Books, TypeOK, IsEvent, Numbered, Older, Dated
<1>3. Older(sourceQueue)
  BY Constants DEF Books, TypeOK, IsEvent, Numbered, Older, Dated
<1> QED BY <1>1, <1>2, <1>3 DEF Books, LastOnes

\* What is foretold is a current.
LEMMA PlannedType ==
    ASSUME Books, NEW t \in Int
    PROVE  (\A c \in Children : Planned(c, t) \in Int) /\ SourcePlanned(t) \in Int
<1>1. ASSUME NEW c \in Children PROVE Planned(c, t) \in Int
  <2>1. childCurrent[c] \in Int /\ \A e \in queue : e.cur \in Int
    BY DEF Books, TypeOK, IsEvent
  <2>2. Dated(queue)
    BY Facts DEF Older
  <2>3. CASE Upto(queue, c, t) = {}
    BY <2>1, <2>2, <2>3, PreviewLast DEF Planned
  <2>4. CASE Upto(queue, c, t) # {}
    <3>1. PICK e \in Upto(queue, c, t) : IsLast(e, Upto(queue, c, t))
      BY <2>4, Facts DEF HasLast
    <3>2. Planned(c, t) = e.cur
      BY <2>2, <3>1, PreviewLast DEF Planned
    <3> QED BY <2>1, <3>2 DEF Upto
  <2> QED BY <2>3, <2>4
<1>2. SourcePlanned(t) \in Int
  <2>1. current_now \in Int /\ \A e \in sourceQueue : e.cur \in Int
    BY DEF Books, TypeOK, IsEvent
  <2>2. Dated(sourceQueue)
    BY Facts DEF Older
  <2>3. CASE Upto(sourceQueue, Source, t) = {}
    BY <2>1, <2>2, <2>3, PreviewLast DEF SourcePlanned
  <2>4. CASE Upto(sourceQueue, Source, t) # {}
    <3>1. PICK e \in Upto(sourceQueue, Source, t) : IsLast(e, Upto(sourceQueue, Source, t))
      BY <2>4, Facts DEF HasLast
    <3>2. SourcePlanned(t) = e.cur
      BY <2>2, <3>1, PreviewLast DEF SourcePlanned
    <3> QED BY <2>1, <3>2 DEF Upto
  <2> QED BY <2>3, <2>4
<1> QED BY <1>1, <1>2

\* So is the current just before a window; the source's queue holds no refresh.
LEMMA BeforeSetIs ==
    ASSUME Books, NEW t \in Int
    PROVE  BeforeSet(t) = SourcePlanned(t)
<1>1. {e \in sourceQueue : e.time <= t} = Upto(sourceQueue, Source, t)
  BY DEF Books, Numbered, TypeOK, Upto
<1> QED BY <1>1 DEF BeforeSet, SourcePlanned, Preview

LEMMA BooksInit == Init => Books
<1> SUFFICES ASSUME Init PROVE Books
  OBVIOUS
<1>1. \A e \in queue : e = [func |-> "REFRESH", time |-> Staleness, seq |-> 0, child |-> Nobody, cur |-> 0]
  BY DEF Init, Refresh, Event
<1>2. TypeOK
  <2>1. /\ now \in Times
        /\ \A e \in queue : IsEvent(e) /\ e.child # Source /\ e.time \in 0 .. MaxTime + Staleness
        /\ \A e \in sourceQueue : IsEvent(e) /\ e.child = Source
    BY <1>1, Constants DEF Init, IsEvent, Times, Nobody, Source
  <2>2. /\ childCurrent \in [Children -> Int]
        /\ charge \in [Children -> Int] /\ estimatedAt \in [Children -> Times]
        /\ limit \in [Children -> Limits] /\ current_now \in Int /\ device \in Int
        /\ nextSeq \in Nat /\ calls \in 0 .. MaxCalls
    BY Constants DEF Init, Times
  <2>3. /\ quitted \subseteq {"splitter", Source} /\ late \in BOOLEAN /\ refused \in BOOLEAN
        /\ sins \subseteq {"moving", "direct", "tardy"} /\ call = NoCall
    BY DEF Init
  <2> QED BY <2>1, <2>2, <2>3 DEF TypeOK
<1>3. Numbered /\ Counted
  BY <1>1, Constants DEF Init, Numbered, Counted, Times
<1>4. \A c, t : Upto(queue, c, t) = {} /\ Upto(sourceQueue, c, t) = {}
  BY <1>1 DEF Init, Upto
<1>5. LastOnes
  BY <1>4 DEF LastOnes, HasLast
<1>6. PlanIsLastWish
  BY <1>4, Constants DEF PlanIsLastWish, Planned, Preview, LastCurrent, Init, Times
<1>7. EstimateIsUse
  <2>1. 0 * (0 - 0) = 0
    OBVIOUS
  <2>2. now = 0 /\ \A c \in Children : charge[c] = 0 /\ childCurrent[c] = 0 /\ estimatedAt[c] = 0 /\ used[c] = 0
    BY DEF Init
  <2>3. \A k \in Int : -k = 0 - k
    OBVIOUS
  <2>4. ASSUME NEW c \in Children
        PROVE  charge[c] - childCurrent[c] * (now - estimatedAt[c]) = -used[c]
    <3>1. PICK k \in Int : k = used[c]
      BY <2>2
    <3>2. -used[c] = 0 - used[c]
      BY <2>3, <3>1
    <3> QED BY <2>1, <2>2, <3>2
  <2> QED BY <2>4 DEF EstimateIsUse
<1> QED BY <1>2, <1>3, <1>5, <1>6, <1>7 DEF Books

\* A request at the source: its queue keeps its shape whatever the delays are.
LEMMA AtSourceBooks ==
    ASSUME Books, Delays, NEW cur \in Int, NEW when \in Int, NEW until \in Int,
           AtSource(cur, when, until), nextSeq' = nextSeq + 2, nextSeq + 1 <= 4 * MaxCalls
    PROVE  /\ \A e \in sourceQueue' : /\ IsEvent(e) /\ e.child = Source /\ e.func # "REFRESH"
                                      /\ e.seq < nextSeq'
           /\ \A t \in Int : HasLast(Upto(sourceQueue', Source, t))
<1>1. PICK begin : begin = when - get_delay(BeforeSet(when), cur)
  OBVIOUS
<1>2. PICK end : end = until - get_delay(cur, SourcePlanned(until))
  OBVIOUS
<1>3. begin \in Int /\ end \in Int
  <2>1. BeforeSet(when) \in Int /\ SourcePlanned(until) \in Int
    BY PlannedType, BeforeSetIs
  <2>2. get_delay(BeforeSet(when), cur) \in Nat /\ get_delay(cur, SourcePlanned(until)) \in Nat
    BY <2>1 DEF Delays
  <2> QED BY <1>1, <1>2, <2>2
<1>4. PICK resume : resume = SourcePlanned(end)
  OBVIOUS
<1>5. resume \in Int
  BY <1>3, <1>4, PlannedType
<1>6. sourceQueue' = WithWindow(sourceQueue, Source, cur, begin, end, resume)
  BY <1>1, <1>2, <1>4 DEF AtSource
<1>7. \A t \in Int : HasLast(Upto(sourceQueue', Source, t))
  BY <1>3, <1>6, Facts, WindowLast
<1>8. PICK a : a = Event("SET_CURRENT", begin, nextSeq, Source, cur)
  OBVIOUS
<1>9. PICK b : b = Event("SET_CURRENT_END", end, nextSeq + 1, Source, resume)
  OBVIOUS
<1>10. \A e \in sourceQueue' : e \in sourceQueue \/ e = a \/ e = b
  BY <1>6, <1>8, <1>9 DEF WithWindow
<1>11. nextSeq \in Nat /\ 1 <= nextSeq /\ MaxCalls \in Nat
  BY Constants, Facts DEF Books, Numbered
<1>12. IsEvent(a) /\ a.child = Source /\ a.func # "REFRESH" /\ a.seq < nextSeq'
  BY <1>3, <1>8, <1>11 DEF IsEvent, Event
<1>13. IsEvent(b) /\ b.child = Source /\ b.func # "REFRESH" /\ b.seq < nextSeq'
  BY <1>3, <1>5, <1>9, <1>11 DEF IsEvent, Event
<1>14. \A e \in sourceQueue : IsEvent(e) /\ e.child = Source /\ e.func # "REFRESH" /\ e.seq < nextSeq'
  <2>1. \A e \in sourceQueue : e.seq \in Int /\ e.seq < nextSeq
    BY Facts DEF Older, Dated
  <2> QED BY <1>11, <2>1 DEF Books, TypeOK, Numbered
<1> QED BY <1>7, <1>10, <1>12, <1>13, <1>14

\* The splitter's half of the state stays as it is.
LEMMA SplitterKept ==
    ASSUME Books, UNCHANGED <<now, splitterVars, wish, used, late>>
    PROVE  /\ PlanIsLastWish' /\ EstimateIsUse'
           /\ \A t \in Int : \A c \in Children : HasLast(Upto(queue', c, t))
<1>1. UNCHANGED <<queue, childCurrent, charge, estimatedAt, now, wish, used, late>>
  BY DEF splitterVars
<1>2. PlanIsLastWish'
  BY <1>1 DEF Books, PlanIsLastWish, Planned
<1>3. EstimateIsUse'
  BY <1>1 DEF Books, EstimateIsUse
<1>4. \A t \in Int : \A c \in Children : HasLast(Upto(queue', c, t))
  BY <1>1 DEF Books, LastOnes
<1> QED BY <1>2, <1>3, <1>4

\* A child's request at the splitter (schedule_set_current_of).
LEMMA RequestBooks ==
    ASSUME Books, Delays, NEW r \in Requests, schedule_set_current_of(r)
    PROVE  Books'
<1> USE DEF sourceVars
<1>1. PICK c : c = r.child
  OBVIOUS
<1>2. /\ c \in Children /\ r.cur \in Int /\ r.when \in Nat /\ r.until \in Nat
      /\ r.when <= r.until /\ r.until <= MaxTime /\ now <= r.when
      /\ calls < MaxCalls /\ call = NoCall
  BY <1>1, Constants, Facts DEF schedule_set_current_of, MayCall
<1>3. PICK resume : resume = Planned(c, r.until)
  OBVIOUS
<1>4. resume \in Int
  BY <1>2, <1>3, PlannedType
<1>5. /\ queue' = WithWindow(queue, c, r.cur, r.when, r.until, resume)
      /\ call' = [cur |-> Forwarded(r), when |-> r.when, until |-> r.until]
      /\ nextSeq' = nextSeq + 2 /\ calls' = calls + 1
      /\ UNCHANGED <<now, childCurrent, charge, estimatedAt, limit, sourceQueue, current_now, device,
                     refused, quitted, used, late>>
  BY <1>1, <1>3 DEF schedule_set_current_of
<1>6. nextSeq \in Nat /\ 1 <= nextSeq /\ nextSeq <= 4 * calls + 1 /\ calls \in Nat /\ MaxCalls \in Nat
  BY <1>2, Constants DEF Books, TypeOK, Numbered
<1>7. Forwarded(r) \in Int
  <2>1. [d \in Children |-> IF d = r.child THEN r.cur ELSE Planned(d, r.when)] \in [Children -> Int]
    BY <1>2, PlannedType
  <2> QED BY <2>1, Constants, TotalType DEF Forwarded
<1>8. call' \in [cur : Int, when : Nat, until : Nat] /\ call' # NoCall
  BY <1>2, <1>5, <1>7 DEF NoCall
<1>9. PICK a : a = Event("SET_CURRENT", r.when, nextSeq, c, r.cur)
  OBVIOUS
<1>10. PICK b : b = Event("SET_CURRENT_END", r.until, nextSeq + 1, c, resume)
  OBVIOUS
<1>11. \A e \in queue' : e \in queue \/ e = a \/ e = b
  BY <1>5, <1>9, <1>10 DEF WithWindow
<1>12. Staleness \in Nat /\ MaxTime \in Nat /\ c # Source
  BY <1>2, Constants
<1>13. /\ IsEvent(a) /\ a.child = c /\ a.time \in 0 .. MaxTime + Staleness /\ a.seq < nextSeq'
  BY <1>2, <1>5, <1>6, <1>9, <1>12 DEF IsEvent, Event
<1>14. /\ IsEvent(b) /\ b.child = c /\ b.time \in 0 .. MaxTime + Staleness /\ b.seq < nextSeq'
  BY <1>2, <1>4, <1>5, <1>6, <1>10, <1>12 DEF IsEvent, Event
<1>15. \A e \in queue \cup sourceQueue : e.seq < nextSeq'
  <2>1. \A e \in queue \cup sourceQueue : e.seq \in Int /\ e.seq < nextSeq
    BY Facts DEF Older, Dated
  <2> QED BY <1>5, <1>6, <2>1
<1>16. TypeOK'
  <2>1. \A e \in queue' : IsEvent(e) /\ e.child # Source /\ e.time \in 0 .. MaxTime + Staleness
    BY <1>2, <1>11, <1>12, <1>13, <1>14 DEF Books, TypeOK
  <2>2. \A e \in sourceQueue' : IsEvent(e) /\ e.child = Source
    BY <1>5 DEF Books, TypeOK
  <2>3. nextSeq' \in Nat /\ calls' \in 0 .. MaxCalls
    BY <1>2, <1>5, <1>6
  <2>4. sins' \subseteq {"moving", "direct", "tardy"}
    BY DEF schedule_set_current_of, SinsOf, Books, TypeOK
  <2> QED BY <1>5, <1>8, <2>1, <2>2, <2>3, <2>4 DEF Books, TypeOK
<1>17. Numbered'
  <2>1. \A e \in queue' : e.func # "REFRESH" => e.child \in Children
    BY <1>2, <1>11, <1>13, <1>14 DEF Books, Numbered
  <2>2. \A e \in queue' \cup sourceQueue' : e.seq < nextSeq'
    BY <1>5, <1>11, <1>13, <1>14, <1>15
  <2>3. nextSeq' + 2 <= 4 * calls' + 1 /\ 1 <= nextSeq'
    BY <1>5, <1>6
  <2> QED BY <1>5, <1>8, <2>1, <2>2, <2>3 DEF Books, Numbered
<1>18. wish' = [wish EXCEPT ![c] = [t \in Times |-> IF r.when <= t /\ t < r.until THEN r.cur ELSE wish[c][t]]]
  BY <1>1 DEF schedule_set_current_of
<1>19. r.cur \in Allowed
  <2>1. limit[c] \in Limits /\ limit[c].charge \in Nat /\ limit[c].discharge \in Nat
    BY <1>2, Constants DEF Books, TypeOK
  <2>2. -limit[c].charge <= r.cur /\ r.cur <= limit[c].discharge
    BY <1>1, <1>2, <2>1 DEF schedule_set_current_of, WithinLimit
  <2> QED BY <2>1, <2>2 DEF Allowed
<1>20. Counted'
  <2>1. [t \in Times |-> IF r.when <= t /\ t < r.until THEN r.cur ELSE wish[c][t]] \in [Times -> Allowed]
    BY <1>2, <1>19 DEF Books, Counted
  <2>2. wish' \in [Children -> [Times -> Allowed]]
    BY <1>2, <1>18, <2>1 DEF Books, Counted
  <2> QED BY <1>2, <1>5, <2>2 DEF Books, Counted
<1>21. LastOnes'
  <2>1. ASSUME NEW t \in Int, NEW d \in Children PROVE HasLast(Upto(queue', d, t))
    <3>1. CASE d = c
      BY <1>2, <1>5, <1>6, <3>1, Facts, WindowLast
    <3>2. CASE d # c
      <4>1. Upto(queue', d, t) = Upto(queue, d, t)
        BY <1>2, <1>5, <1>6, <3>2, Facts, WindowOthers
      <4> QED BY <4>1, Facts
    <3> QED BY <3>1, <3>2
  <2> QED BY <1>5, <2>1, Facts DEF LastOnes
<1>22. PlanIsLastWish'
  <2>1. ASSUME NEW d \in Children, NEW t \in now .. MaxTime PROVE Planned(d, t)' = wish'[d][t]
    <3>1. t \in Int /\ t \in Times /\ Planned(d, t) = wish[d][t]
      BY <2>1, Facts DEF Books, PlanIsLastWish, Times
    <3>2. CASE d = c
      <4>1. Planned(d, t)' = Preview(WithWindow(queue, c, r.cur, r.when, r.until,
                                                Preview(queue, childCurrent[c], c, r.until)),
                                     childCurrent[c], c, t)
        BY <1>3, <1>5, <3>2 DEF Planned
      <4>2. Planned(d, t)' = IF r.when <= t /\ t < r.until THEN r.cur ELSE Planned(c, t)
        BY <1>2, <1>6, <3>1, <4>1, Facts, WindowPlan DEF Planned
      <4>3. wish'[c][t] = IF r.when <= t /\ t < r.until THEN r.cur ELSE wish[c][t]
        BY <1>2, <1>18, <3>1 DEF Books, Counted
      <4> QED BY <3>1, <3>2, <4>2, <4>3
    <3>3. CASE d # c
      <4>1. Planned(d, t)' = Planned(d, t)
        <5>1. Upto(queue', d, t) = Upto(queue, d, t)
          BY <1>2, <1>5, <1>6, <3>1, <3>3, Facts, WindowOthers
        <5> QED BY <1>5, <5>1 DEF Planned, Preview
      <4>2. wish'[d] = wish[d]
        BY <1>18, <3>3 DEF Books, Counted
      <4> QED BY <3>1, <4>1, <4>2
    <3> QED BY <3>2, <3>3
  <2> QED BY <1>5, <2>1 DEF PlanIsLastWish
<1>23. EstimateIsUse'
  BY <1>5 DEF Books, EstimateIsUse
<1> QED BY <1>16, <1>17, <1>20, <1>21, <1>22, <1>23 DEF Books

\* The rest of the request, at the source, and requests of others there.
LEMMA SourceBooks ==
    ASSUME Books, Delays, Forward \/ \E r \in Requests : schedule_set_current(r)
    PROVE  Books'
<1>1. /\ UNCHANGED <<now, splitterVars, current_now, device, refused, quitted, wish, used, late>>
      /\ call' = NoCall
  BY DEF Forward, schedule_set_current, MayCall
<1>2. nextSeq \in Nat /\ 1 <= nextSeq /\ calls \in Nat /\ MaxCalls \in Nat
  BY Constants DEF Books, TypeOK, Numbered
<1>3. /\ \A e \in sourceQueue' : IsEvent(e) /\ e.child = Source /\ e.func # "REFRESH" /\ e.seq < nextSeq'
      /\ \A t \in Int : HasLast(Upto(sourceQueue', Source, t))
      /\ nextSeq' \in Nat /\ nextSeq <= nextSeq' /\ nextSeq' <= 4 * calls' + 1 /\ calls' \in 0 .. MaxCalls
      /\ sins' \subseteq {"moving", "direct", "tardy"}
  <2>1. CASE Forward /\ call.when >= now
    <3>1. /\ AtSource(call.cur, call.when, call.until) /\ nextSeq' = nextSeq + 2
          /\ calls' = calls /\ sins' = sins
      BY <2>1, Facts DEF Forward, Books, TypeOK
    <3>2. call.cur \in Int /\ call.when \in Int /\ call.until \in Int /\ call # NoCall
      BY <2>1 DEF Forward, Books, TypeOK
    <3>3. nextSeq + 2 <= 4 * calls + 1 /\ calls <= MaxCalls
      BY <1>2, <3>2 DEF Books, TypeOK, Numbered
    <3>4. nextSeq + 1 <= 4 * MaxCalls
      BY <1>2, <3>3
    <3>5. /\ \A e \in sourceQueue' : /\ IsEvent(e) /\ e.child = Source /\ e.func # "REFRESH"
                                     /\ e.seq < nextSeq'
          /\ \A t \in Int : HasLast(Upto(sourceQueue', Source, t))
      BY <3>1, <3>2, <3>4, AtSourceBooks
    <3> QED BY <1>2, <3>1, <3>3, <3>5 DEF Books, TypeOK
  <2>2. CASE Forward /\ ~(call.when >= now)
    <3>1. sourceQueue' = sourceQueue /\ nextSeq' = nextSeq /\ calls' = calls /\ sins' = sins \cup {"tardy"}
      BY <2>2 DEF Forward
    <3>2. nextSeq <= 4 * calls + 1 /\ calls \in 0 .. MaxCalls
      BY <1>2 DEF Books, TypeOK, Numbered
    <3> QED BY <1>2, <3>1, <3>2, Facts DEF Books, TypeOK, Numbered
  <2>3. ASSUME NEW r \in Requests, schedule_set_current(r)
        PROVE  /\ \A e \in sourceQueue' : /\ IsEvent(e) /\ e.child = Source /\ e.func # "REFRESH"
                                          /\ e.seq < nextSeq'
               /\ \A t \in Int : HasLast(Upto(sourceQueue', Source, t))
               /\ nextSeq' \in Nat /\ nextSeq <= nextSeq' /\ nextSeq' <= 4 * calls' + 1
               /\ calls' \in 0 .. MaxCalls
               /\ sins' \subseteq {"moving", "direct", "tardy"}
    <3>1. /\ AtSource(r.cur, r.when, r.until) /\ nextSeq' = nextSeq + 2 /\ calls' = calls + 1
          /\ calls < MaxCalls /\ call = NoCall
      BY <2>3 DEF schedule_set_current, MayCall
    <3>2. r.cur \in Int /\ r.when \in Int /\ r.until \in Int
      BY Constants
    <3>3. nextSeq <= 4 * calls + 1
      BY <1>2, <3>1 DEF Books, Numbered
    <3>4. nextSeq + 1 <= 4 * MaxCalls
      BY <1>2, <3>1, <3>3
    <3>5. /\ \A e \in sourceQueue' : /\ IsEvent(e) /\ e.child = Source /\ e.func # "REFRESH"
                                     /\ e.seq < nextSeq'
          /\ \A t \in Int : HasLast(Upto(sourceQueue', Source, t))
      BY <3>1, <3>2, <3>4, AtSourceBooks
    <3>6. sins' \subseteq {"moving", "direct", "tardy"}
      BY <2>3 DEF schedule_set_current, SinsOf, Books, TypeOK
    <3> QED BY <1>2, <3>1, <3>3, <3>5, <3>6
  <2> QED BY <2>1, <2>2, <2>3
<1>4. UNCHANGED <<queue, childCurrent, charge, estimatedAt, limit>>
  BY <1>1 DEF splitterVars
<1>5. TypeOK'
  BY <1>1, <1>3, <1>4 DEF Books, TypeOK
<1>6. Numbered'
  <2>1. \A e \in queue : e.seq < nextSeq'
    BY <1>2, <1>3, Facts DEF Older, Dated
  <2>2. \A e \in queue' \cup sourceQueue' : e.seq < nextSeq'
    BY <1>3, <1>4, <2>1
  <2>3. 1 <= nextSeq' /\ nextSeq' + 0 <= 4 * calls' + 1
    <3>1. nextSeq <= nextSeq' /\ nextSeq' \in Nat /\ nextSeq' <= 4 * calls' + 1 /\ calls' \in 0 .. MaxCalls
      BY <1>3
    <3>2. calls' \in Nat
      BY <1>2, <3>1
    <3>3. 1 <= nextSeq'
      BY <1>2, <3>1
    <3>4. nextSeq' + 0 = nextSeq'
      <4>1. \A k \in Nat : k + 0 = k
        OBVIOUS
      <4> QED BY <3>1, <4>1
    <3> QED BY <3>1, <3>3, <3>4
  <2>4. (IF call' = NoCall THEN 0 ELSE 2) = 0
    BY <1>1
  <2>5. \A e \in queue' : e.func # "REFRESH" => e.child \in Children
    BY <1>4 DEF Books, Numbered
  <2> QED BY <1>3, <2>2, <2>3, <2>4, <2>5 DEF Numbered
<1>7. Counted'
  BY <1>1, <1>4 DEF Books, Counted
<1>8. LastOnes'
  BY <1>1, <1>3, SplitterKept DEF LastOnes
<1> QED BY <1>1, <1>5, <1>6, <1>7, <1>8, SplitterKept DEF Books

\* One pass of the splitter's thread (background_func, set_current).
LEMMA SplitterPassBooks ==
    ASSUME Books, SplitterPass
    PROVE  Books'
<1> USE DEF sourceVars, callVars, history
<1>1. /\ UNCHANGED <<now, sourceQueue, current_now, device, refused, call, nextSeq, calls, quitted,
                     wish, used, late, sins>>
      /\ call = NoCall
  BY DEF SplitterPass
<1>2. PICK refresh : refresh = \E e \in DueAt(queue) : e.func = "REFRESH"
  OBVIOUS
<1>3. PICK counted : counted = IF refresh THEN Children ELSE {c \in Children : DueFor(c, queue) # {}}
  OBVIOUS
<1>4. /\ childCurrent' = [c \in Children |-> Planned(c, now)]
      /\ charge' = [c \in Children |-> IF c \in counted THEN Estimated(c, Planned(c, now)) ELSE charge[c]]
      /\ estimatedAt' = [c \in Children |-> IF c \in counted THEN now ELSE estimatedAt[c]]
      /\ queue' = (queue \ DueAt(queue)) \cup (IF refresh THEN NextRefresh ELSE {})
      /\ (limit' \in [Children -> Limits] \/ limit' = limit)
  BY <1>2, <1>3 DEF SplitterPass
<1>5. /\ \A c \in Children : /\ Planned(c, now) \in Int /\ childCurrent[c] \in Int /\ charge[c] \in Int
                             /\ estimatedAt[c] \in Times /\ estimatedAt[c] \in Int
      /\ now \in Int /\ now \in Times
  BY PlannedType, Facts, Constants DEF Books, TypeOK, Times
<1>6. \A c \in Children : Estimated(c, Planned(c, now)) \in Int
  BY <1>5 DEF Estimated
<1>7. PICK n : n = Refresh(now + Staleness)
  OBVIOUS
<1>8. \A e \in queue' : (e \in queue /\ e.time > now) \/ e = n
  BY <1>4, <1>5, <1>7, Facts DEF NextRefresh, DueAt, Older, Dated
<1>9. /\ n.func = "REFRESH" /\ n.time = now + Staleness /\ n.seq = 0 /\ n.child = Nobody /\ n.cur = 0
  BY <1>7 DEF Refresh, Event
<1>10. IsEvent(n) /\ n.child # Source /\ n.time \in 0 .. MaxTime + Staleness /\ n.time \in Int
  BY <1>5, <1>9, Constants DEF IsEvent, Nobody, Source, Times
<1>11. TypeOK'
  <2>1. \A e \in queue' : IsEvent(e) /\ e.child # Source /\ e.time \in 0 .. MaxTime + Staleness
    BY <1>8, <1>10 DEF Books, TypeOK
  <2>2. childCurrent' \in [Children -> Int] /\ estimatedAt' \in [Children -> Times]
    BY <1>4, <1>5
  <2>3. charge' \in [Children -> Int]
    BY <1>4, <1>5, <1>6
  <2>4. limit' \in [Children -> Limits]
    BY <1>4 DEF Books, TypeOK
  <2> QED BY <1>1, <2>1, <2>2, <2>3, <2>4 DEF Books, TypeOK
<1>12. Numbered'
  <2>1. \A e \in queue' : e.seq < nextSeq /\ (e.func # "REFRESH" => e.child \in Children)
    BY <1>8, <1>9, Facts DEF Books, Numbered
  <2> QED BY <1>1, <2>1 DEF Books, Numbered
<1>13. Counted'
  <2>1. \A c \in Children : estimatedAt'[c] <= now
    BY <1>4, <1>5 DEF Books, Counted
  <2> QED BY <1>1, <2>1 DEF Books, Counted
<1>14. ASSUME NEW c \in Children, NEW t \in Int
       PROVE  /\ HasLast(Upto(queue', c, t))
              /\ now <= t => Planned(c, t)' = Planned(c, t)
  <2>1. Upto(queue', c, t) = Later(Upto(queue, c, t))
    <3>1. \A e \in queue : e.time > now => e \in queue'
      BY <1>4, <1>5, Facts DEF DueAt, Older, Dated
    <3> QED BY <1>8, <1>9, <3>1 DEF Upto, Later
  <2>2. Dated(queue')
    BY <1>8, <1>9, <1>10, Facts DEF Older, Dated
  <2>3. PICK base : base = childCurrent[c]
    OBVIOUS
  <2>4. /\ HasLast(Upto(queue', c, t))
        /\ now <= t => Preview(queue', Preview(queue, base, c, now), c, t) = Preview(queue, base, c, t)
    <3>1. Dated(queue) /\ now \in Int /\ \A s \in Int : HasLast(Upto(queue, c, s))
      BY Facts DEF Older
    <3>2. PICK w : w = queue'
      OBVIOUS
    <3>3. Dated(w) /\ Upto(w, c, t) = Later(Upto(queue, c, t))
      BY <2>1, <2>2, <3>2
    <3>4. /\ HasLast(Upto(w, c, t))
          /\ now <= t => Preview(w, Preview(queue, base, c, now), c, t) = Preview(queue, base, c, t)
      BY <3>1, <3>3, PassPlan
    <3> QED BY <3>2, <3>4
  <2>5. childCurrent'[c] = Preview(queue, base, c, now)
    BY <1>4, <2>3 DEF Planned
  <2> QED BY <2>3, <2>4, <2>5 DEF Planned
<1>15. LastOnes'
  BY <1>1, <1>14, Facts DEF LastOnes
<1>16. PlanIsLastWish'
  <2>1. ASSUME NEW c \in Children, NEW t \in now .. MaxTime PROVE Planned(c, t)' = wish[c][t]
    BY <1>5, <1>14, <2>1 DEF Books, PlanIsLastWish
  <2> QED BY <1>1, <2>1 DEF PlanIsLastWish
<1>17. EstimateIsUse'
  <2> SUFFICES ASSUME ~late, NEW c \in Children
               PROVE  charge'[c] - childCurrent'[c] * (now - estimatedAt'[c]) = -used[c]
    BY <1>1 DEF EstimateIsUse
  <2>1. charge[c] - childCurrent[c] * (now - estimatedAt[c]) = -used[c]
    BY DEF Books, EstimateIsUse
  <2>2. CASE c \in counted
    <3>1. charge'[c] = charge[c] - childCurrent[c] * (now - estimatedAt[c]) /\ estimatedAt'[c] = now
      BY <1>4, <2>2 DEF Estimated
    <3>2. \A k \in Int : k * (now - now) = 0
      BY <1>5
    <3>3. childCurrent'[c] * (now - estimatedAt'[c]) = 0
      BY <1>4, <1>5, <3>1, <3>2
    <3>4. charge'[c] \in Int
      BY <1>4, <1>5, <1>6
    <3> QED BY <2>1, <3>1, <3>3, <3>4
  <2>3. CASE c \notin counted
    <3>1. Upto(queue, c, now) = {}
      BY <1>3, <2>3 DEF DueFor
    <3>2. Planned(c, now) = childCurrent[c]
      BY <3>1 DEF Planned, Preview, LastCurrent
    <3> QED BY <1>4, <2>1, <2>3, <3>2
  <2> QED BY <2>2, <2>3
<1> QED BY <1>11, <1>12, <1>13, <1>15, <1>16, <1>17 DEF Books

\* A pass of the source's thread takes what is due; what it foretells for later
\* stays, unless the device refuses.
LEMMA SourcePassPlan ==
    ASSUME Books, SourcePass, NEW t \in Int
    PROVE  /\ HasLast(Upto(sourceQueue', Source, t))
           /\ DeviceTakes(LastDue) /\ now <= t => SourcePlanned(t)' = SourcePlanned(t)
<1>1. PICK w : w = sourceQueue'
  OBVIOUS
<1>2. PICK base : base = current_now
  OBVIOUS
<1>3. Dated(sourceQueue) /\ now \in Int /\ \A s \in Int : HasLast(Upto(sourceQueue, Source, s))
  BY Facts DEF Older
<1>4. w = sourceQueue \ DueAt(sourceQueue)
  BY <1>1 DEF SourcePass
<1>5. Dated(w) /\ Upto(w, Source, t) = Later(Upto(sourceQueue, Source, t))
  BY <1>3, <1>4 DEF Dated, DueAt, Upto, Later
<1>6. /\ HasLast(Upto(w, Source, t))
      /\ now <= t => Preview(w, Preview(sourceQueue, base, Source, now), Source, t) =
                       Preview(sourceQueue, base, Source, t)
  BY <1>3, <1>5, PassPlan
<1>7. DeviceTakes(LastDue) => current_now' = Preview(sourceQueue, base, Source, now)
  BY <1>2 DEF SourcePass, LastDue, SourcePlanned
<1> QED BY <1>1, <1>2, <1>6, <1>7 DEF SourcePlanned

LEMMA SourcePassBooks ==
    ASSUME Books, SourcePass
    PROVE  Books'
<1> USE DEF callVars, history
<1>1. UNCHANGED <<now, splitterVars, call, nextSeq, calls, quitted, wish, used, late, sins>>
  BY DEF SourcePass
<1>2. UNCHANGED <<queue, childCurrent, charge, estimatedAt, limit>>
  BY <1>1 DEF splitterVars
<1>3. sourceQueue' \subseteq sourceQueue
  BY DEF SourcePass
<1>4. current_now' \in Int /\ device' \in Int /\ refused' \in BOOLEAN
  <2>1. LastDue \in Int
    BY PlannedType, Facts DEF LastDue
  <2> QED BY <2>1 DEF SourcePass, Books, TypeOK
<1>5. TypeOK'
  BY <1>1, <1>2, <1>3, <1>4 DEF Books, TypeOK
<1>6. Numbered'
  BY <1>1, <1>2, <1>3 DEF Books, Numbered
<1>7. Counted'
  BY <1>1, <1>2 DEF Books, Counted
<1>8. LastOnes'
  BY <1>1, SplitterKept, SourcePassPlan DEF LastOnes
<1> QED BY <1>1, <1>5, <1>6, <1>7, <1>8, SplitterKept DEF Books

LEMMA QuitBooks ==
    ASSUME Books, UNCHANGED <<now, splitterVars, sourceVars, callVars, history>>,
           quitted' \subseteq {"splitter", Source}
    PROVE  Books'
<1> USE DEF callVars, history, sourceVars, splitterVars
<1>1. TypeOK'
  BY DEF Books, TypeOK
<1>2. Numbered'
  BY DEF Books, Numbered
<1>3. Counted'
  BY DEF Books, Counted
<1>4. LastOnes'
  BY DEF Books, LastOnes
<1> QED BY <1>1, <1>2, <1>3, <1>4, SplitterKept DEF Books

\* Time passes: while the splitter's thread is not late, a child runs at its wish.
LEMMA TickBooks ==
    ASSUME Books, Tick
    PROVE  Books'
<1> USE DEF callVars, sourceVars, splitterVars
<1>1. /\ UNCHANGED <<queue, childCurrent, charge, estimatedAt, limit, sourceQueue, current_now, device,
                     refused, call, nextSeq, calls, quitted, wish, sins>>
      /\ now' = now + 1 /\ now < MaxTime
  BY DEF Tick
<1>2. now \in Nat /\ MaxTime \in Nat /\ now \in Times /\ now' \in Times /\ now \in now .. MaxTime
  BY <1>1, Facts, Constants DEF Times
<1>3. \A c \in Children : used[c] \in Int /\ wish[c][now] \in Int
  BY <1>2, Constants DEF Books, Counted
<1>4. used' = [c \in Children |-> used[c] + wish[c][now]]
  BY DEF Tick
<1>5. late' \in BOOLEAN
  BY DEF Tick
<1>6. TypeOK'
  BY <1>1, <1>2, <1>5 DEF Books, TypeOK
<1>7. Numbered'
  BY <1>1 DEF Books, Numbered
<1>8. Counted'
  <2>1. used' \in [Children -> Int]
    BY <1>3, <1>4
  <2>2. \A c \in Children : estimatedAt[c] <= now + 1
    <3>1. \A c \in Children : estimatedAt[c] \in Int /\ estimatedAt[c] <= now
      BY DEF Books, Counted, TypeOK, Times
    <3> QED BY <1>2, <3>1
  <2> QED BY <1>1, <2>1, <2>2 DEF Books, Counted
<1>9. LastOnes'
  BY <1>1 DEF Books, LastOnes
<1>10. PlanIsLastWish'
  <2>1. now' .. MaxTime \subseteq now .. MaxTime
    BY <1>1, <1>2
  <2>2. ASSUME NEW c \in Children, NEW t \in now' .. MaxTime PROVE Planned(c, t)' = wish[c][t]
    <3>1. Planned(c, t) = wish[c][t]
      BY <2>1 DEF Books, PlanIsLastWish
    <3> QED BY <1>1, <3>1 DEF Planned
  <2> QED BY <1>1, <2>2 DEF PlanIsLastWish
<1>11. EstimateIsUse'
  <2> SUFFICES ASSUME ~late', NEW c \in Children
               PROVE  charge[c] - childCurrent[c] * (now' - estimatedAt[c]) = -(used'[c])
    BY <1>1 DEF EstimateIsUse
  <2>1. ~late /\ DueAt(queue) = {}
    BY DEF Tick
  <2>2. Upto(queue, c, now) = {}
    BY <2>1 DEF DueAt, Upto
  <2>3. childCurrent[c] = wish[c][now]
    <3>1. Planned(c, now) = childCurrent[c]
      BY <2>2 DEF Planned, Preview, LastCurrent
    <3> QED BY <1>2, <3>1 DEF Books, PlanIsLastWish
  <2>4. charge[c] - childCurrent[c] * (now - estimatedAt[c]) = -used[c]
    BY <2>1 DEF Books, EstimateIsUse
  <2>5. /\ charge[c] \in Int /\ childCurrent[c] \in Int /\ now - estimatedAt[c] \in Int
        /\ now' - estimatedAt[c] = (now - estimatedAt[c]) + 1 /\ used[c] \in Int
    BY <1>1, <1>2, <1>3 DEF Books, TypeOK, Times
  <2>6. \A i, j, k, l \in Int : i - j * k = -l => i - j * (k + 1) = -(l + j)
    <3>1. \A j, k \in Int : j * (k + 1) = j * k + j
      OBVIOUS
    <3>2. \A j, k \in Int : j * k \in Int
      OBVIOUS
    <3>3. \A i, m, j, l \in Int : i - m = -l => i - (m + j) = -(l + j)
      OBVIOUS
    <3> QED BY <3>1, <3>2, <3>3
  <2>7. used'[c] = used[c] + childCurrent[c]
    BY <1>4, <2>3
  <2> QED BY <2>4, <2>5, <2>6, <2>7
<1> QED BY <1>6, <1>7, <1>8, <1>9, <1>10, <1>11 DEF Books

LEMMA BooksStep ==
    ASSUME Books, Delays, [Next]_vars
    PROVE  Books'
<1>1. ASSUME NEW r \in Requests, schedule_set_current_of(r) PROVE Books'
  BY <1>1, RequestBooks
<1>2. CASE Forward \/ \E r \in Requests : schedule_set_current(r)
  BY <1>2, SourceBooks
<1>3. CASE SplitterPass
  BY <1>3, SplitterPassBooks
<1>4. CASE SourcePass
  BY <1>4, SourcePassBooks
<1>5. ASSUME NEW b \in {"splitter", Source}, quit(b) PROVE Books'
  BY <1>5, QuitBooks DEF quit, Books, TypeOK
<1>6. CASE Tick
  BY <1>6, TickBooks
<1>7. CASE UNCHANGED vars
  <2>1. UNCHANGED <<now, splitterVars, sourceVars, callVars, history>> /\ quitted' = quitted
    BY <1>7 DEF vars, splitterVars, sourceVars, callVars, history
  <2> QED BY <2>1, QuitBooks DEF Books, TypeOK
<1> QED BY <1>1, <1>2, <1>3, <1>4, <1>5, <1>6, <1>7 DEF Next

-----------------------------------------------------------------------------
(***************************************************************************)
(* What the source is to carry.                                            *)
(***************************************************************************)
\* The device takes a current at once: get_delay is zero unless a class overrides
\* it, as only the Sonnen (sonnen.hpp:39) and plug-ins (Dynamic.hpp:85) do.
AtOnce == \A i, j \in Int : get_delay(i, j) = 0

\* Whatever is foretold for the source is queued there, or it runs already.
LEMMA PlannedTaken ==
    ASSUME Books, Carried, sins = {}, NEW t \in Int
    PROVE  DeviceTakes(SourcePlanned(t))
<1>1. DeviceTakes(current_now) /\ \A e \in sourceQueue : DeviceTakes(e.cur)
  BY DEF Carried
<1>2. Dated(sourceQueue)
  BY Facts DEF Older
<1>3. CASE Upto(sourceQueue, Source, t) = {}
  BY <1>1, <1>2, <1>3, PreviewLast DEF SourcePlanned
<1>4. CASE Upto(sourceQueue, Source, t) # {}
  <2>1. PICK e \in Upto(sourceQueue, Source, t) : IsLast(e, Upto(sourceQueue, Source, t))
    BY <1>4, Facts DEF HasLast
  <2>2. SourcePlanned(t) = e.cur /\ e \in sourceQueue
    BY <1>2, <2>1, PreviewLast DEF SourcePlanned, Upto
  <2> QED BY <1>1, <2>2
<1> QED BY <1>3, <1>4

LEMMA CarriedInit == Init => Carried
<1> SUFFICES ASSUME Init PROVE Carried
  OBVIOUS
<1>1. ASSUME NEW t \in now .. MaxTime PROVE Awaited(t) = Sum(t)
  <2>1. t \in Times
    BY Constants DEF Init, Times
  <2>2. [c \in Children |-> wish[c][t]] = [c \in Children |-> 0]
    BY <2>1 DEF Init
  <2>3. Sum(t) = 0
    BY <2>2, TotalZero, Constants DEF Sum
  <2>4. SourcePlanned(t) = 0
    BY DEF Init, SourcePlanned, Preview, LastCurrent, Upto
  <2> QED BY <2>3, <2>4 DEF Init, Awaited
<1>2. DeviceTakes(current_now)
  <2>1. DeviceLimit.charge \in Nat /\ DeviceLimit.discharge \in Nat
    BY SplitterAssumption
  <2> QED BY <2>1 DEF Init, DeviceTakes
<1> QED BY <1>1, <1>2 DEF Init, Carried

\* Nothing that the source is to carry changes.
LEMMA CarriedSame ==
    ASSUME Carried, UNCHANGED <<sourceQueue, current_now, call, wish, refused, sins>>,
           now' .. MaxTime \subseteq now .. MaxTime
    PROVE  Carried'
<1>1. ASSUME sins = {}, NEW t \in now' .. MaxTime PROVE Awaited(t)' = Sum(t)'
  <2>1. Awaited(t) = Sum(t)
    BY <1>1 DEF Carried
  <2> QED BY <2>1 DEF Awaited, Sum, SourcePlanned
<1>2. ASSUME sins = {}
      PROVE  /\ \A e \in sourceQueue' : DeviceTakes(e.cur)
             /\ DeviceTakes(current_now') /\ (call' # NoCall => DeviceTakes(call'.cur)) /\ ~refused'
  BY <1>2 DEF Carried
<1> QED BY <1>1, <1>2 DEF Carried, DeviceTakes

\* A child's request: the total that goes to the source is the sum of the wishes
\* within the window, as the other children's currents do not change there.
LEMMA RequestCarried ==
    ASSUME Books, Carried, SharesFit, NEW r \in Requests, schedule_set_current_of(r)
    PROVE  Carried'
<1> SUFFICES ASSUME sins' = {} PROVE Carried'
  BY DEF Carried
<1>1. sins = {} /\ ~Moving(r)
  BY Constants DEF schedule_set_current_of, SinsOf
<1>2. PICK c : c = r.child
  OBVIOUS
<1>3. /\ c \in Children /\ r.cur \in Int /\ r.when \in Nat /\ r.until \in Nat
      /\ r.when <= r.until /\ r.until <= MaxTime /\ now <= r.when /\ call = NoCall
      /\ now \in Nat /\ MaxTime \in Nat
  BY <1>2, Constants, Facts DEF schedule_set_current_of, MayCall
<1>4. /\ UNCHANGED <<now, sourceQueue, current_now, refused>>
      /\ call' = [cur |-> Forwarded(r), when |-> r.when, until |-> r.until] /\ call' # NoCall
  BY DEF schedule_set_current_of, sourceVars, NoCall
<1>5. wish' = [wish EXCEPT ![c] = [t \in Times |-> IF r.when <= t /\ t < r.until THEN r.cur ELSE wish[c][t]]]
  BY <1>2 DEF schedule_set_current_of
<1>6. wish \in [Children -> [Times -> Allowed]]
  BY DEF Books, Counted
<1>7. PICK f : f = [d \in Children |-> IF d = r.child THEN r.cur ELSE Planned(d, r.when)]
  OBVIOUS
<1>8. Forwarded(r) = Total(f)
  BY <1>7 DEF Forwarded
<1>9. \A d \in Children : \A t \in now .. MaxTime : Planned(d, t) = wish[d][t]
  BY DEF Books, PlanIsLastWish
<1>10. DeviceTakes(Total(f))
  <2>1. r.cur \in Allowed
    <3>1. limit[c] \in Limits /\ limit[c].charge \in Nat /\ limit[c].discharge \in Nat
      BY <1>3, Constants DEF Books, TypeOK
    <3>2. -limit[c].charge <= r.cur /\ r.cur <= limit[c].discharge
      BY <1>2, <1>3, <3>1 DEF schedule_set_current_of, WithinLimit
    <3> QED BY <3>1, <3>2 DEF Allowed
  <2>2. r.when \in now .. MaxTime /\ r.when \in Times
    BY <1>3 DEF Times
  <2>3. f \in [Children -> Allowed]
    BY <1>6, <1>7, <1>9, <2>1, <2>2
  <2> QED BY <2>3 DEF SharesFit
<1>11. ASSUME NEW t \in now .. MaxTime PROVE Awaited(t)' = Sum(t)'
  <2>1. t \in Times /\ t \in Int
    BY <1>3 DEF Times
  <2>2. CASE r.when <= t /\ t < r.until
    <3>1. \A d \in Children : d # c => Planned(d, r.when) = wish[d][t]
      <4>1. t \in r.when .. r.until - 1
        BY <1>3, <2>1, <2>2
      <4>2. \A d \in Children \ {r.child} : Planned(d, t) = Planned(d, r.when)
        BY <1>1, <4>1 DEF Moving
      <4> QED BY <1>2, <1>9, <4>2
    <3>2. \A d \in Children : wish'[d][t] = f[d]
      BY <1>2, <1>3, <1>5, <1>6, <1>7, <2>1, <2>2, <3>1
    <3>3. [d \in Children |-> wish'[d][t]] = f
      BY <1>7, <3>2
    <3>4. Awaited(t)' = Total(f)
      BY <1>4, <1>8, <2>2 DEF Awaited
    <3> QED BY <3>3, <3>4 DEF Sum
  <2>3. CASE ~(r.when <= t /\ t < r.until)
    <3>1. \A d \in Children : wish'[d][t] = wish[d][t]
      BY <1>3, <1>5, <1>6, <2>1, <2>3
    <3>2. [d \in Children |-> wish'[d][t]] = [d \in Children |-> wish[d][t]]
      BY <3>1
    <3>3. Awaited(t)' = SourcePlanned(t)
      BY <1>4, <2>3 DEF Awaited, SourcePlanned
    <3>4. SourcePlanned(t) = Sum(t)
      BY <1>1, <1>3 DEF Carried, Awaited
    <3> QED BY <3>2, <3>3, <3>4 DEF Sum
  <2> QED BY <2>2, <2>3
<1>12. DeviceTakes(call'.cur)
  BY <1>4, <1>8, <1>10
<1>13. /\ \A e \in sourceQueue' : DeviceTakes(e.cur)
       /\ DeviceTakes(current_now') /\ ~refused'
  BY <1>1, <1>4 DEF Carried
<1> QED BY <1>4, <1>11, <1>12, <1>13 DEF Carried, DeviceTakes

\* The request reaches the source in time.
LEMMA ForwardCarried ==
    ASSUME Books, Carried, AtOnce, Forward
    PROVE  Carried'
<1> SUFFICES ASSUME sins' = {} PROVE Carried'
  BY DEF Carried
<1>1. /\ sins = {} /\ call # NoCall /\ AtSource(call.cur, call.when, call.until) /\ call' = NoCall
      /\ UNCHANGED <<now, current_now, refused, wish>>
  BY DEF Forward
<1>2. call.cur \in Int /\ call.when \in Int /\ call.until \in Int /\ call.when <= call.until
  BY <1>1 DEF Books, TypeOK, Counted
<1>3. PICK resume : resume = SourcePlanned(call.until)
  OBVIOUS
<1>4. sourceQueue' = WithWindow(sourceQueue, Source, call.cur, call.when, call.until, resume)
  <2>1. BeforeSet(call.when) \in Int /\ resume \in Int
    BY <1>2, <1>3, PlannedType, BeforeSetIs
  <2>2. get_delay(BeforeSet(call.when), call.cur) = 0 /\ get_delay(call.cur, SourcePlanned(call.until)) = 0
    BY <1>2, <1>3, <2>1 DEF AtOnce
  <2>3. \A k \in Int : k - 0 = k
    OBVIOUS
  <2>4. call.when - 0 = call.when /\ call.until - 0 = call.until
    BY <1>2, <2>3
  <2> QED BY <1>1, <1>3, <2>2, <2>4 DEF AtSource
<1>5. nextSeq \in Int /\ Older(sourceQueue) /\ (\A s \in Int : HasLast(Upto(sourceQueue, Source, s))) /\ now \in Int
  BY Facts
<1>6. ASSUME NEW t \in now .. MaxTime PROVE Awaited(t)' = Sum(t)'
  <2>1. t \in Int
    BY <1>5, Constants
  <2>2. PICK base : base = current_now
    OBVIOUS
  <2>3. sourceQueue' = WithWindow(sourceQueue, Source, call.cur, call.when, call.until,
                                  Preview(sourceQueue, base, Source, call.until))
    BY <1>3, <1>4, <2>2 DEF SourcePlanned
  <2>4. Preview(sourceQueue', base, Source, t) =
          IF call.when <= t /\ t < call.until THEN call.cur ELSE Preview(sourceQueue, base, Source, t)
    BY <1>2, <1>5, <2>1, <2>3, WindowPlan
  <2>5. SourcePlanned(t)' = Awaited(t)
    BY <1>1, <2>2, <2>4 DEF SourcePlanned, Awaited
  <2>6. Awaited(t)' = SourcePlanned(t)'
    BY <1>1 DEF Awaited
  <2>7. Awaited(t) = Sum(t)
    BY <1>1 DEF Carried
  <2> QED BY <1>1, <2>5, <2>6, <2>7 DEF Sum
<1>7. DeviceTakes(call.cur) /\ DeviceTakes(resume) /\ DeviceTakes(current_now) /\ ~refused
  BY <1>1, <1>2, <1>3, PlannedTaken DEF Carried
<1>8. ASSUME NEW e \in sourceQueue' PROVE DeviceTakes(e.cur)
  <2>1. PICK a : a = Event("SET_CURRENT", call.when, nextSeq, Source, call.cur)
    OBVIOUS
  <2>2. PICK b : b = Event("SET_CURRENT_END", call.until, nextSeq + 1, Source, resume)
    OBVIOUS
  <2>3. a.cur = call.cur /\ b.cur = resume
    BY <2>1, <2>2 DEF Event
  <2>4. e \in sourceQueue \/ e = a \/ e = b
    BY <1>4, <2>1, <2>2 DEF WithWindow
  <2> QED BY <1>1, <1>7, <2>3, <2>4 DEF Carried
<1> QED BY <1>1, <1>6, <1>7, <1>8 DEF Carried, DeviceTakes

\* The source's thread: the device takes what is due.
LEMMA SourcePassCarried ==
    ASSUME Books, Carried, SourcePass
    PROVE  Carried'
<1>1. UNCHANGED <<now, call, wish, sins>> /\ sourceQueue' \subseteq sourceQueue
  BY DEF SourcePass, callVars, history
<1> SUFFICES ASSUME sins = {} PROVE Carried'
  BY <1>1 DEF Carried
<1>2. now \in Int
  BY Facts
<1>3. DeviceTakes(LastDue)
  BY <1>2, PlannedTaken DEF LastDue
<1>4. current_now' = LastDue /\ refused' = refused
  BY <1>3 DEF SourcePass
<1>5. ASSUME NEW t \in now .. MaxTime PROVE Awaited(t)' = Sum(t)'
  <2>1. t \in Int /\ now <= t
    BY <1>2, Constants
  <2>2. SourcePlanned(t)' = SourcePlanned(t)
    BY <1>3, <2>1, SourcePassPlan
  <2>3. Awaited(t) = Sum(t)
    BY DEF Carried
  <2> QED BY <1>1, <2>2, <2>3 DEF Awaited, Sum
<1>6. /\ \A e \in sourceQueue' : DeviceTakes(e.cur)
      /\ DeviceTakes(current_now') /\ (call' # NoCall => DeviceTakes(call'.cur)) /\ ~refused'
  BY <1>1, <1>3, <1>4 DEF Carried
<1> QED BY <1>1, <1>5, <1>6 DEF Carried, DeviceTakes

LEMMA CarriedStep ==
    ASSUME Books, Carried, AtOnce, SharesFit, [Next]_vars
    PROVE  Carried'
<1>1. ASSUME NEW r \in Requests, schedule_set_current_of(r) PROVE Carried'
  BY <1>1, RequestCarried
<1>2. ASSUME NEW r \in Requests, schedule_set_current(r) PROVE Carried'
  BY <1>2 DEF schedule_set_current, SinsOf, Carried
<1>3. CASE Forward
  BY <1>3, ForwardCarried
<1>4. CASE SplitterPass
  BY <1>4, CarriedSame DEF SplitterPass, sourceVars, callVars, history
<1>5. CASE SourcePass
  BY <1>5, SourcePassCarried
<1>6. ASSUME NEW b \in {"splitter", Source}, quit(b) PROVE Carried'
  BY <1>6, CarriedSame DEF quit, sourceVars, callVars, history
<1>7. CASE Tick
  <2>1. now' .. MaxTime \subseteq now .. MaxTime
    BY <1>7, Facts, Constants DEF Tick
  <2> QED BY <1>7, <2>1, CarriedSame DEF Tick, sourceVars, callVars
<1>8. CASE UNCHANGED vars
  BY <1>8, CarriedSame DEF vars
<1> QED BY <1>1, <1>2, <1>3, <1>4, <1>5, <1>6, <1>7, <1>8 DEF Next

-----------------------------------------------------------------------------
(***************************************************************************)
(* The theorems.                                                           *)
(***************************************************************************)
\* However the windows of a child nest, overlap, touch or repeat, and however late
\* the splitter's thread is, the splitter's queue holds what the child asked for
\* last (schedule_set_current_of and background_func).
THEOREM LastWishKept ==
    ASSUME Delays
    PROVE  Spec => []PlanIsLastWish
<1>1. Books => PlanIsLastWish
  BY DEF Books
<1> QED BY <1>1, BooksInit, BooksStep, PTL DEF Spec

\* The types hold and, as long as the splitter's thread is never late, the charge
\* it counts for each child, by set_current and refresh, is what the child's
\* requests come to.
THEOREM BooksBalance ==
    ASSUME Delays
    PROVE  Spec => []BooksInOrder
<1>1. Books => BooksInOrder
  BY DEF Books, BooksInOrder
<1> QED BY <1>1, BooksInit, BooksStep, PTL DEF Spec

\* What BALSplitter forwards makes the source carry the sum of what its children
\* asked for, and the limits checked for each child keep the device from refusing
\* it: as long as nobody else uses the source, no request is late there and no
\* child's current changes within another's window.  The device takes currents at
\* once, and takes any sum of what children may be granted.
THEOREM SourceCarries ==
    ASSUME AtOnce, SharesFit
    PROVE  Spec => []SourceServes
<1>1. Delays
  BY DEF AtOnce, Delays
<1>2. Init => Books /\ Carried
  BY BooksInit, CarriedInit
<1>3. Books /\ Carried /\ [Next]_vars => (Books /\ Carried)'
  BY <1>1, BooksStep, CarriedStep
<1>4. Books /\ Carried => SourceServes
  BY DEF Carried, Awaited, Sum, SourceServes, SourceCarriesChildren, Carries, DeviceNeverRefuses
<1> QED BY <1>2, <1>3, <1>4, PTL DEF Spec
=============================================================================
