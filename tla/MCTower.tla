------------------------------ MODULE MCTower -------------------------------
\* Two devices and two children with the scales of main.cpp, 0.6 and 0.4.
EXTENDS Tower

S(cap, max, charging, discharging) ==
    [capacity |-> cap, max_capacity |-> max, max_charging |-> charging,
     max_discharging |-> discharging, current |-> 0]

\* A device that loses charge and power, and a smaller one that fills up.
TwoDevices == <<<<S(10, 20, 5, 4), S(4, 20, 2, 1)>>,
                <<S(6, 10, 2, 3), S(10, 10, 2, 3)>>>>
SixFour == <<6, 4>>
SomeTargets == {-3, 4}
=============================================================================
