----------------------------- MODULE MCSharing ------------------------------
\* Two devices under an aggregate that two children share.
EXTENDS Sharing

TwoDevices == <<"bat0", "bat1">>
Halves == [c \in Children |-> [charge |-> Ratio(1, 2), capacity |-> Ratio(1, 2)]]
Levels ==
    {[capacity |-> Whole(k), max_capacity |-> Whole(4), max_charging |-> Whole(2),
      max_discharging |-> Whole(2)] : k \in {1, 3}}
ChargeAndDischarge == {-1, 0, 1}
=============================================================================
