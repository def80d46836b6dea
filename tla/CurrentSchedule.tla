-------------------------- MODULE CurrentSchedule ---------------------------
(***************************************************************************)
(* What a battery promises those who schedule currents on it, with no      *)
(* event, number, thread or lock in sight: for every name and every moment *)
(* the current asked for last is the one wanted, a request speaks of the   *)
(* future only, and the battery's current is the sum over the names of     *)
(* what was wanted at the moment the battery has got to.  The battery may  *)
(* lag behind the clock, but never goes back and never skips to a current  *)
(* nobody wanted.                                                          *)
(***************************************************************************)
EXTENDS Integers, Functions

CONSTANTS Names, MaxTime

VARIABLES
    now,    \* the clock
    upto,   \* the moment the battery has got to
    want,   \* the current wanted, by name and time
    out     \* the battery's current

vars == <<now, upto, want, out>>

Times == 0 .. MaxTime

Total(w, t) == FoldFunction(+, 0, [n \in Names |-> w[n][t]])

Init ==
    /\ now = 0 /\ upto = 0 /\ out = 0
    /\ want = [n \in Names |-> [t \in Times |-> 0]]

Replaced(w, s, e, c) == [t \in Times |-> IF s <= t /\ t < e THEN c ELSE w[t]]
Raised(w, s, e, c) == [t \in Times |-> IF s <= t /\ t < e THEN w[t] + c ELSE w[t]]

\* A request is about a window of the future: there it replaces what its name
\* wanted, or, as a further share of one request, adds to it.  A window may go
\* on past the last moment there is.
Request ==
    /\ \E n \in Names, s \in now + 1 .. MaxTime, e \in Times \cup {MaxTime + 1} :
         \/ want' = [want EXCEPT ![n] = Replaced(@, s, e, want'[n][s])]
         \/ want' = [want EXCEPT ![n] = Raised(@, s, e, want'[n][s] - want[n][s])]
    /\ UNCHANGED <<now, upto, out>>

\* The clock goes on, or the battery catches up with it, or both.
Advance ==
    /\ now' \in {now, now + 1}
    /\ upto' \in upto .. now'
    /\ out' = Total(want, upto')
    /\ UNCHANGED want

Next == Request \/ Advance

Spec == Init /\ [][Next]_vars
=============================================================================
