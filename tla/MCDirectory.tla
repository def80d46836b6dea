---------------------------- MODULE MCDirectory -----------------------------
(***************************************************************************)
(* Instances of Directory for TLC.  User names are interchangeable.        *)
(***************************************************************************)
EXTENDS Directory, TLC

CONSTANTS pManager1, pManager2

TwoManagers == <<pManager1, pManager2>>
AnyUserName == Permutations(Names)
=============================================================================
