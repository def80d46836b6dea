------------------------------ MODULE MCBattery -----------------------------
(***************************************************************************)
(* Instances of Battery for TLC.  The requests are windows of a few ticks, *)
(* and every window has a current of its own, so that no two mistakes      *)
(* cancel out.                                                             *)
(***************************************************************************)
EXTENDS Battery

CONSTANTS own, child

Request(n, s, e, c) == [name |-> n, cur |-> c, start |-> s, end |-> e]

\* All windows over five moments; the limits refuse some of them.
OwnWindows == {Request(own, w[1], w[2], 8 * w[1] - 3 * w[2]) :
                 w \in {v \in (1 .. 4) \X (2 .. 5) : v[1] < v[2]}}
TightLimit == {[charge |-> 4, discharge |-> 12]}

\* Windows that may have passed when the request arrives.
AnyWindows == {Request(n, w[1], w[2], 5 * w[1] + w[2]) :
                 n \in {own, child}, w \in {<<0, 2>>, <<1, 2>>, <<1, 4>>, <<2, 4>>, <<3, 4>>}}

WideLimit == {[charge |-> 100, discharge |-> 100]}
=============================================================================
