----------------------------- MODULE MCSplitter -----------------------------
(***************************************************************************)
(* Instances of Splitter: two children and windows over four moments.      *)
(***************************************************************************)
EXTENDS Splitter

CONSTANTS a, b

Request(c, w, u, i) == [child |-> c, cur |-> i, when |-> w, until |-> u]

NoDelay(from, to) == 0

\* Windows that nest, overlap, touch and are empty, one with more current than a
\* child may have, and one of somebody who uses the source directly.
AllCallers == {Request(a, 0, 3, 3), Request(a, 1, 2, 2), Request(a, 2, 4, 3),
               Request(b, 0, 3, -1), Request(b, 2, 2, 1),
               Request(b, 1, 2, -3), Request(Source, 1, 3, 5)}
Share == [charge |-> 1, discharge |-> 3]
SomeLimits == {Share, [charge |-> 0, discharge |-> 2]}
SourceLimit == [charge |-> 2, discharge |-> 6]
=============================================================================
