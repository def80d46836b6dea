----------------------------- MODULE MCRegistry -----------------------------
\* Names that are all alike: a topology of four batteries and their messages.
EXTENDS Registry, TLC

CONSTANTS b1, b2, b3, b4, b5

Alike == Permutations(Names)
=============================================================================
