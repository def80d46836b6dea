------------------------------ MODULE MCServer ------------------------------
(***************************************************************************)
(* Instances of Server: an admin and batteries b1 and b2, with one client  *)
(* each, with a second client of b1, and with a second admin.              *)
(***************************************************************************)
EXTENDS Server

CONSTANTS a1, a2, c1, c2

Aim == [c \in Clients |-> CASE c \in {a1, a2} -> "admin" [] c = c1 -> "b1" [] OTHER -> "b2"]
AimSame == [c \in Clients |-> CASE c \in {a1, a2} -> "admin" [] OTHER -> "b1"]

PManagers == <<"pManager1", "pManager2">>

Asks(op, names) == [op |-> op, names |-> names]

Singly == {Asks("Create_Physical", <<"b1">>), Asks("Create_Aggregate", <<"b2">>)}
Jointly == {Asks("Create_Physical", <<"b1">>), Asks("Create_Partition", <<"b1", "b2">>)}
Secured == {Asks("Create_Dynamic", <<"b1">>), Asks("Create_Secure", <<"b2">>)}
NamedAdmin == {Asks("Create_Physical", <<"admin">>)}
AllKinds == Jointly \cup Secured \cup NamedAdmin \cup {Asks("Create_Aggregate", <<"b1">>)}
=============================================================================
