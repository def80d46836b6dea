-------------------------- MODULE Registry_proofs --------------------------
(***************************************************************************)
(* Proofs about Registry, for every set of names and libraries.            *)
(***************************************************************************)
EXTENDS Registry, Sums

\* Every dynamic battery is of a library that was loaded, and what was loaded stays
\* mapped until a creation misses a symbol or the server quits.
LibrariesHeld ==
    /\ DOMAIN lib = OfKind("dynamic")
    /\ \A n \in DOMAIN lib : lib[n] \in loaded
    /\ ~should_quit /\ "symbols missing" \notin sins => loaded \subseteq mapped

\* What is left alone when no library is touched.
LEMMA LibrariesSame ==
    ASSUME LibrariesHeld, OfKind("dynamic")' = OfKind("dynamic"),
           UNCHANGED <<lib, loaded, mapped, should_quit>>, sins \subseteq sins'
    PROVE  LibrariesHeld'
BY DEF LibrariesHeld

LEMMA DynamicHeld ==
    ASSUME LibrariesHeld, NEW n, NEW l, make_dynamic(n, l)
    PROVE  LibrariesHeld'
<1> USE DEF edges, libVars
<1>1. should_quit' = should_quit
  BY DEF make_dynamic
<1>2. CASE l \in loaded \ mapped
  <2>1. UNCHANGED <<kind, lib, loaded, mapped, sins>>
    BY <1>2 DEF make_dynamic
  <2> QED BY <1>1, <2>1 DEF LibrariesHeld, OfKind
<1>3. CASE LoadFails(l) /\ UNCHANGED <<kind, edges, lib, sins>>
  BY <1>1, <1>3 DEF LibrariesHeld, OfKind, LoadFails
<1>4. CASE /\ SymbolsMissing(l)
           /\ sins' = IF l \in loaded THEN sins \cup {"symbols missing"} ELSE sins
           /\ UNCHANGED <<kind, edges, lib>>
  BY <1>1, <1>4 DEF LibrariesHeld, OfKind, SymbolsMissing
<1>5. ASSUME Loaded(l), sins' = sins
      PROVE  ~should_quit' /\ "symbols missing" \notin sins' => loaded' \subseteq mapped'
  BY <1>1, <1>5 DEF LibrariesHeld, Loaded
<1>6. CASE InitFails(l) /\ UNCHANGED <<kind, edges, lib, sins>>
  BY <1>5, <1>6 DEF LibrariesHeld, OfKind, InitFails, Loaded
<1>7. CASE /\ Loaded(l) /\ ~Exists(n)
           /\ DynamicBattery(n, l)
           /\ UNCHANGED sins
  <2>1. kind' = With(kind, n, "dynamic") /\ lib' = With(lib, n, l) /\ n \notin DOMAIN kind
    BY <1>7 DEF DynamicBattery, AddBattery, Exists
  <2>2. n \notin DOMAIN lib
    BY <2>1 DEF LibrariesHeld, OfKind
  <2>3. /\ DOMAIN kind' = DOMAIN kind \cup {n} /\ kind'[n] = "dynamic"
        /\ \A x \in DOMAIN kind : kind'[x] = kind[x]
    BY <2>1 DEF With
  <2>4. /\ DOMAIN lib' = DOMAIN lib \cup {n} /\ lib'[n] = l
        /\ \A x \in DOMAIN lib : lib'[x] = lib[x]
    BY <2>1, <2>2 DEF With
  <2>5. OfKind("dynamic")' = OfKind("dynamic") \cup {n}
    BY <2>3 DEF OfKind
  <2>6. loaded' = loaded \cup {l}
    BY <1>7 DEF Loaded
  <2> QED BY <1>5, <1>7, <2>4, <2>5, <2>6 DEF LibrariesHeld
<1> QED BY <1>2, <1>3, <1>4, <1>6, <1>7 DEF make_dynamic

LEMMA LibrariesStep ==
    ASSUME LibrariesHeld, [Next]_vars
    PROVE  LibrariesHeld'
<1> USE DEF edges, libVars
<1>1. ASSUME NEW n, MakeLeaf(n) PROVE LibrariesHeld'
  <2>1. kind' = With(kind, n, "leaf") /\ n \notin DOMAIN kind
    BY <1>1 DEF MakeLeaf, AddBattery, Exists
  <2>2. OfKind("dynamic")' = OfKind("dynamic")
    BY <2>1 DEF OfKind, With
  <2> QED BY <1>1, <2>2, LibrariesSame DEF MakeLeaf
<1>2. ASSUME NEW n, NEW s, make_aggregator(n, s) PROVE LibrariesHeld'
  <2>1. kind' = With(kind, n, "aggregator") /\ n \notin DOMAIN kind
    BY <1>2 DEF make_aggregator, Exists
  <2>2. OfKind("dynamic")' = OfKind("dynamic")
    BY <2>1 DEF OfKind, With
  <2>3. UNCHANGED <<lib, loaded, mapped, should_quit>> /\ sins \subseteq sins'
    BY <1>2 DEF make_aggregator
  <2> QED BY <2>2, <2>3, LibrariesSame
<1>3. ASSUME NEW n, NEW s, NEW ns, make_splitter(n, s, ns) PROVE LibrariesHeld'
  <2>1. PICK S : S = Range(ns)
    OBVIOUS
  <2>2. kind' = [x \in DOMAIN kind \cup (S \cup {n}) |->
                   IF x \in S THEN "splitted" ELSE IF x = n THEN "splitter" ELSE kind[x]]
    BY <1>3, <2>1 DEF make_splitter
  <2>3. (S \cup {n}) \cap DOMAIN kind = {}
    BY <1>3, <2>1 DEF make_splitter, SplitterChecked, Exists
  <2>4. OfKind("dynamic")' = OfKind("dynamic")
    BY <2>2, <2>3 DEF OfKind
  <2>5. UNCHANGED <<lib, loaded, mapped, should_quit>> /\ sins \subseteq sins'
    BY <1>3 DEF make_splitter
  <2> QED BY <2>4, <2>5, LibrariesSame
<1>4. ASSUME NEW n, make_JBDBMS(n) \/ remove_battery(n) \/ GetStatus(n) \/ ScheduleSetCurrent(n)
      PROVE  LibrariesHeld'
  <2>1. UNCHANGED <<kind, lib, loaded, mapped, should_quit, sins>>
    BY <1>4 DEF make_JBDBMS, JBDBMS, remove_battery, GetStatus, ScheduleSetCurrent, libVars
  <2> QED BY <2>1 DEF LibrariesHeld, OfKind
<1>5. CASE Shutdown
  BY <1>5 DEF Shutdown, LibrariesHeld, OfKind
<1>6. CASE UNCHANGED vars
  BY <1>6 DEF vars, LibrariesHeld, OfKind
<1> QED BY <1>1, <1>2, <1>3, <1>4, <1>5, <1>6, DynamicHeld
        DEF Next, make_null, make_pseudo, make_networked_battery

LEMMA LibrariesInit == Init => LibrariesHeld
BY DEF Init, LibrariesHeld, OfKind

\* The library of a dynamic battery stays mapped as long as the server runs, unless
\* a later creation from it missed a symbol and closed the handle (make_dynamic,
\* loaded_dynamic_libs), for every sequence of messages.
THEOREM LibraryStays == Spec => []LibraryKept
<1>1. Init => LibrariesHeld
  BY LibrariesInit
<1>2. LibrariesHeld /\ [Next]_vars => LibrariesHeld'
  BY LibrariesStep
<1>3. LibrariesHeld => LibraryKept
  BY DEF LibrariesHeld, LibraryKept
<1> QED BY <1>1, <1>2, <1>3, PTL DEF Spec

-----------------------------------------------------------------------------
(***************************************************************************)
(* The maps of parents and children, and how an edge is entered in both.   *)
(***************************************************************************)
Maps(D) == [parents : [D -> Seq(D)], children : [D -> Seq(D)]]
Mirrors(M, D) == \A p, c \in D : Times(M.parents[c], p) = Times(M.children[p], c)

LEMMA RangeIn ==
    ASSUME NEW S, NEW s \in Seq(S)
    PROVE  Range(s) \subseteq S
<1>1. \A i \in DOMAIN s : s[i] \in S
  OBVIOUS
<1> QED BY <1>1 DEF Range

LEMMA RangeAppend ==
    ASSUME NEW S, NEW s \in Seq(S), NEW x \in S
    PROVE  Range(Append(s, x)) = Range(s) \cup {x}
<1>1. /\ DOMAIN s = 1 .. Len(s) /\ Len(s) \in Nat /\ DOMAIN Append(s, x) = 1 .. Len(s) + 1
      /\ \A i \in 1 .. Len(s) : Append(s, x)[i] = s[i]
      /\ Append(s, x)[Len(s) + 1] = x
  OBVIOUS
<1>2. \A i \in 1 .. Len(s) + 1 : i \in 1 .. Len(s) \/ i = Len(s) + 1
  BY <1>1
<1>3. 1 .. Len(s) \subseteq 1 .. Len(s) + 1 /\ Len(s) + 1 \in 1 .. Len(s) + 1
  BY <1>1
<1> QED BY <1>1, <1>2, <1>3, Zenon DEF Range

\* How often something is in a sequence that one more is added to.
LEMMA TimesAppend ==
    ASSUME NEW S, NEW s \in Seq(S), NEW x \in S, NEW y
    PROVE  /\ Times(s, y) \in Nat
           /\ Times(Append(s, x), y) = IF x = y THEN Times(s, y) + 1 ELSE Times(s, y)
<1> DEFINE P == {i \in DOMAIN s : s[i] = y}
           Q == {i \in DOMAIN Append(s, x) : Append(s, x)[i] = y}
<1>1. /\ DOMAIN s = 1 .. Len(s) /\ Len(s) \in Nat /\ DOMAIN Append(s, x) = 1 .. Len(s) + 1
      /\ \A i \in 1 .. Len(s) : Append(s, x)[i] = s[i]
      /\ Append(s, x)[Len(s) + 1] = x
  OBVIOUS
<1>2. IsFiniteSet(P) /\ Cardinality(P) \in Nat
  <2>1. IsFiniteSet(1 .. Len(s))
    BY <1>1, FS_Interval
  <2>2. P \subseteq 1 .. Len(s)
    BY <1>1
  <2> QED BY <2>1, <2>2, FS_Subset, FS_CardinalityType
<1>3. CASE x = y
  <2>1. Q = P \cup {Len(s) + 1} /\ Len(s) + 1 \notin P
    BY <1>1, <1>3
  <2>2. Cardinality(P \cup {Len(s) + 1}) = Cardinality(P) + 1
    BY <1>2, <2>1, FS_AddElement
  <2> QED BY <1>2, <1>3, <2>1, <2>2 DEF Times
<1>4. CASE x # y
  <2>1. Q = P
    BY <1>1, <1>4
  <2> QED BY <1>2, <1>4, <2>1 DEF Times
<1> QED BY <1>3, <1>4

LEMMA TimesNone ==
    ASSUME NEW S, NEW s \in Seq(S), NEW y, y \notin S
    PROVE  Times(s, y) = 0
<1>1. {i \in DOMAIN s : s[i] = y} = {}
  OBVIOUS
<1> QED BY <1>1, FS_EmptySet DEF Times

\* add_edge enters both ends of an edge, or nothing.
LEMMA EdgeEntered ==
    ASSUME NEW D, NEW M \in Maps(D), NEW f, NEW t
    PROVE  /\ add_edge(f, t, M) \in Maps(D)
           /\ ~(f \in D /\ t \in D) => add_edge(f, t, M) = M
           /\ f \in D /\ t \in D =>
                /\ \A x \in D : add_edge(f, t, M).parents[x] =
                                   IF x = t THEN Append(M.parents[x], f) ELSE M.parents[x]
                /\ \A x \in D : add_edge(f, t, M).children[x] =
                                   IF x = f THEN Append(M.children[x], t) ELSE M.children[x]
<1>1. M.parents \in [D -> Seq(D)] /\ M.children \in [D -> Seq(D)]
  BY DEF Maps
<1>2. CASE ~(f \in D /\ t \in D)
  BY <1>1, <1>2 DEF add_edge
<1>3. CASE f \in D /\ t \in D
  <2>1. add_edge(f, t, M) = [parents |-> [M.parents EXCEPT ![t] = Append(M.parents[t], f)],
                             children |-> [M.children EXCEPT ![f] = Append(M.children[f], t)]]
    BY <1>1, <1>3 DEF add_edge
  <2>2. Append(M.parents[t], f) \in Seq(D) /\ Append(M.children[f], t) \in Seq(D)
    BY <1>1, <1>3
  <2>3. /\ [M.parents EXCEPT ![t] = Append(M.parents[t], f)] \in [D -> Seq(D)]
        /\ [M.children EXCEPT ![f] = Append(M.children[f], t)] \in [D -> Seq(D)]
    BY <1>1, <2>2
  <2> QED BY <1>1, <1>3, <2>1, <2>3 DEF Maps
<1> QED BY <1>2, <1>3

LEMMA EdgeMirrored ==
    ASSUME NEW D, NEW M \in Maps(D), NEW f, NEW t, Mirrors(M, D)
    PROVE  Mirrors(add_edge(f, t, M), D)
<1> DEFINE N == add_edge(f, t, M)
<1>1. CASE ~(f \in D /\ t \in D)
  BY <1>1, EdgeEntered
<1>2. CASE f \in D /\ t \in D
  <2> SUFFICES ASSUME NEW p \in D, NEW c \in D
               PROVE  Times(N.parents[c], p) = Times(N.children[p], c)
    BY DEF Mirrors
  <2>1. /\ N.parents[c] = IF c = t THEN Append(M.parents[c], f) ELSE M.parents[c]
        /\ N.children[p] = IF p = f THEN Append(M.children[p], t) ELSE M.children[p]
    BY <1>2, EdgeEntered
  <2>2. M.parents[c] \in Seq(D) /\ M.children[p] \in Seq(D)
    BY DEF Maps
  <2>3. Times(M.parents[c], p) = Times(M.children[p], c)
    BY DEF Mirrors
  <2>4. Times(N.parents[c], p) = IF c = t /\ p = f THEN Times(M.parents[c], p) + 1 ELSE Times(M.parents[c], p)
    <3> HIDE DEF N
    <3> QED BY <1>2, <2>1, <2>2, TimesAppend
  <2>5. Times(N.children[p], c) = IF c = t /\ p = f THEN Times(M.children[p], c) + 1 ELSE Times(M.children[p], c)
    <3> HIDE DEF N
    <3> QED BY <1>2, <2>1, <2>2, TimesAppend
  <2> QED BY <2>3, <2>4, <2>5
<1> QED BY <1>1, <1>2

\* Batteries are entered without edges.
LEMMA NewEntered ==
    ASSUME NEW D, NEW M \in Maps(D), Mirrors(M, D), NEW new, new \cap D = {},
           NEW N, N = [parents |-> [x \in D \cup new |-> IF x \in new THEN <<>> ELSE M.parents[x]],
                       children |-> [x \in D \cup new |-> IF x \in new THEN <<>> ELSE M.children[x]]]
    PROVE  N \in Maps(D \cup new) /\ Mirrors(N, D \cup new)
<1>1. M.parents \in [D -> Seq(D)] /\ M.children \in [D -> Seq(D)]
  BY DEF Maps
<1>2. \A x \in D : /\ M.parents[x] \in Seq(D) /\ M.children[x] \in Seq(D)
                   /\ M.parents[x] \in Seq(D \cup new) /\ M.children[x] \in Seq(D \cup new)
  BY <1>1
<1>3. <<>> \in Seq(D \cup new) /\ <<>> \in Seq({})
  OBVIOUS
<1>4. N \in Maps(D \cup new)
  BY <1>2, <1>3 DEF Maps
<1>5. ASSUME NEW p \in D \cup new, NEW c \in D \cup new
      PROVE  Times(N.parents[c], p) = Times(N.children[p], c)
  <2>0. Times(<<>>, p) = 0 /\ Times(<<>>, c) = 0
    <3>1. p \notin {} /\ c \notin {}
      OBVIOUS
    <3> QED BY <1>3, <3>1, TimesNone
  <2>1. CASE p \in D /\ c \in D
    BY <2>1 DEF Mirrors
  <2>2. CASE p \in new /\ c \in D
    <3>1. N.parents[c] \in Seq(D) /\ N.children[p] = <<>> /\ p \notin D
      BY <1>2, <2>2
    <3>2. Times(N.parents[c], p) = 0
      BY <3>1, TimesNone
    <3> QED BY <2>0, <3>1, <3>2
  <2>3. CASE p \in D /\ c \in new
    <3>1. N.children[p] \in Seq(D) /\ N.parents[c] = <<>> /\ c \notin D
      BY <1>2, <2>3
    <3>2. Times(N.children[p], c) = 0
      BY <3>1, TimesNone
    <3> QED BY <2>0, <3>1, <3>2
  <2>4. CASE p \in new /\ c \in new
    <3>1. N.children[p] = <<>> /\ N.parents[c] = <<>>
      BY <2>4
    <3> QED BY <2>0, <3>1
  <2> QED BY <2>1, <2>2, <2>3, <2>4
<1> QED BY <1>4, <1>5 DEF Mirrors

-----------------------------------------------------------------------------
(***************************************************************************)
(* add_edges, one edge after the other.                                    *)
(***************************************************************************)
Entered(g, i, links, maps) ==
    IF i = 0 THEN maps ELSE add_edge(links[i][1], links[i][2], g[i - 1])
IsLoop(g, k, links, maps) == g = [i \in 0 .. k |-> Entered(g, i, links, maps)]

LEMMA LoopIs ==
    ASSUME NEW links, NEW maps
    PROVE  add_edges(links, maps) = (CHOOSE g : IsLoop(g, Len(links), links, maps))[Len(links)]
BY DEF add_edges, IsLoop, Entered

LEMMA LoopExists ==
    ASSUME NEW links, NEW maps
    PROVE  \A k \in Nat : \E g : IsLoop(g, k, links, maps)
<1> DEFINE G == {k \in Nat : \E g : IsLoop(g, k, links, maps)}
<1>1. 0 \in G
  <2>1. PICK g : g = [i \in 0 .. 0 |-> maps]
    OBVIOUS
  <2>2. \A i \in 0 .. 0 : Entered(g, i, links, maps) = maps
    BY DEF Entered
  <2>3. IsLoop(g, 0, links, maps)
    BY <2>1, <2>2 DEF IsLoop
  <2> QED BY <2>3
<1>2. ASSUME NEW k \in Nat, k \in G PROVE k + 1 \in G
  <2>1. PICK g : IsLoop(g, k, links, maps)
    BY <1>2
  <2>2. PICK h : h = [i \in 0 .. k + 1 |-> IF i = k + 1 THEN Entered(g, k + 1, links, maps) ELSE g[i]]
    OBVIOUS
  <2>3. \A i \in 0 .. k : h[i] = g[i] /\ g[i] = Entered(g, i, links, maps)
    BY <2>1, <2>2 DEF IsLoop
  <2>4. ASSUME NEW i \in 0 .. k + 1 PROVE h[i] = Entered(h, i, links, maps)
    <3>1. i # 0 => i - 1 \in 0 .. k
      OBVIOUS
    <3>2. Entered(h, i, links, maps) = Entered(g, i, links, maps)
      BY <2>3, <3>1 DEF Entered
    <3>3. CASE i = k + 1
      BY <2>2, <3>2, <3>3
    <3>4. CASE i # k + 1
      BY <2>3, <3>2, <3>4
    <3> QED BY <3>3, <3>4
  <2>5. h = [i \in 0 .. k + 1 |-> h[i]]
    BY <2>2
  <2>6. IsLoop(h, k + 1, links, maps)
    BY <2>4, <2>5 DEF IsLoop
  <2> QED BY <2>6
<1> HIDE DEF G
<1>3. \A k \in Nat : k \in G
  BY <1>1, <1>2, CountUp
<1> QED BY <1>3 DEF G

\* What every edge keeps, the loop keeps.
LEMMA LoopKeeps ==
    ASSUME NEW links, Len(links) \in Nat, NEW maps, NEW G, maps \in G,
           \A i \in 1 .. Len(links) : \A M \in G : add_edge(links[i][1], links[i][2], M) \in G
    PROVE  add_edges(links, maps) \in G
<1>1. PICK g : IsLoop(g, Len(links), links, maps) /\ add_edges(links, maps) = g[Len(links)]
  BY LoopIs, LoopExists
<1> DEFINE T == {i \in Nat : i <= Len(links) => g[i] \in G}
<1>2. \A i \in 0 .. Len(links) : g[i] = Entered(g, i, links, maps)
  BY <1>1 DEF IsLoop
<1>3. 0 \in T
  BY <1>2 DEF Entered
<1>4. ASSUME NEW i \in Nat, i \in T PROVE i + 1 \in T
  <2> SUFFICES ASSUME i + 1 <= Len(links) PROVE g[i + 1] \in G
    OBVIOUS
  <2>1. g[i] \in G /\ i + 1 \in 1 .. Len(links) /\ i + 1 \in 0 .. Len(links) /\ (i + 1) - 1 = i
    BY <1>4
  <2>2. g[i + 1] = add_edge(links[i + 1][1], links[i + 1][2], g[i])
    BY <1>2, <2>1 DEF Entered
  <2> QED BY <2>1, <2>2
<1>5. \A i \in Nat : i \in T
  <2> HIDE DEF T
  <2> QED BY <1>3, <1>4, CountUp
<1> QED BY <1>1, <1>5

\* Three edges.
LEMMA LoopOfThree ==
    ASSUME NEW links, Len(links) = 3, NEW maps
    PROVE  add_edges(links, maps) =
             add_edge(links[3][1], links[3][2],
               add_edge(links[2][1], links[2][2], add_edge(links[1][1], links[1][2], maps)))
<1>1. PICK g : IsLoop(g, 3, links, maps) /\ add_edges(links, maps) = g[3]
  BY LoopIs, LoopExists
<1>2. \A i \in 0 .. 3 : g[i] = Entered(g, i, links, maps)
  BY <1>1 DEF IsLoop
<1>3. g[0] = maps
  BY <1>2 DEF Entered
<1>4. g[1] = add_edge(links[1][1], links[1][2], g[0])
  BY <1>2 DEF Entered
<1>5. g[2] = add_edge(links[2][1], links[2][2], g[1])
  BY <1>2 DEF Entered
<1>6. g[3] = add_edge(links[3][1], links[3][2], g[2])
  BY <1>2 DEF Entered
<1> QED BY <1>1, <1>3, <1>4, <1>5, <1>6

-----------------------------------------------------------------------------
(***************************************************************************)
(* The topology grows at its end only.                                     *)
(***************************************************************************)
\* New batteries are computed from old ones, or from new ones in an order, and
\* the old ones stay as they are.
LEMMA TopologyGrows ==
    ASSUME RegistryInv, fate = "up", NEW new, new \cap DOMAIN kind = {},
           DOMAIN kind' = DOMAIN kind \cup new,
           \A x \in DOMAIN kind : kind'[x] = kind[x] /\ parents'[x] = parents[x],
           \A p \in DOMAIN kind : \A c \in Range(children'[p]) :
               c \in Range(children[p]) \/ kind'[c] # "splitted",
           \A c \in OfKind("splitted") : policy'[c] = policy[c],
           sins \subseteq sins',
           \A x \in new : kind'[x] \in {"leaf", "dynamic"} => parents'[x] = <<>>,
           \A S \in SUBSET new : S # {} => \E n \in S : Range(parents'[n]) \cap S = {},
           \A s \in new : kind'[s] = "splitter" =>
               /\ Len(parents'[s]) = 1 /\ Range(parents'[s]) \cap OfKind("splitter")' = {}
               /\ \A c \in Range(children'[s]) : kind'[c] = "splitted" => policy'[c] = s,
           \A c \in new : kind'[c] = "splitted" =>
               kind'[policy'[c]] = "splitter" /\ (parents'[c] = <<policy'[c]>> \/ "twin children" \in sins'),
           "splitter as source" \notin sins' =>
               \A a \in new : kind'[a] = "aggregator" => Range(parents'[a]) \cap OfKind("splitter")' = {}
    PROVE  Acyclic' /\ SplittersWhole' /\ SourcesSound'
<1>1. \A x \in DOMAIN kind : Range(parents[x]) \subseteq DOMAIN kind /\ Range(children[x]) \subseteq DOMAIN kind
  <2> SUFFICES ASSUME NEW x \in DOMAIN kind
               PROVE  Range(parents[x]) \subseteq DOMAIN kind /\ Range(children[x]) \subseteq DOMAIN kind
    OBVIOUS
  <2>1. parents[x] \in Seq(DOMAIN kind) /\ children[x] \in Seq(DOMAIN kind)
    BY DEF RegistryInv, Filed
  <2> QED BY <2>1, RangeIn
<1>2. OfKind("splitter")' \cap DOMAIN kind = OfKind("splitter")
  BY DEF OfKind
<1>3. Acyclic'
  <2>1. \A n \in DOMAIN kind' : kind'[n] \in {"leaf", "dynamic"} => parents'[n] = <<>>
    BY DEF RegistryInv, Acyclic
  <2>2. ASSUME NEW S \in SUBSET DOMAIN kind', S # {}
        PROVE  \E n \in S : Range(parents'[n]) \cap S = {}
    <3>1. CASE S \cap DOMAIN kind = {}
      <4>1. S \in SUBSET new
        BY <3>1
      <4> QED BY <2>2, <4>1
    <3>2. CASE S \cap DOMAIN kind # {}
      <4>1. PICK n \in S \cap DOMAIN kind : Range(parents[n]) \cap (S \cap DOMAIN kind) = {}
        BY <3>2 DEF RegistryInv, Acyclic
      <4>2. parents'[n] = parents[n] /\ Range(parents[n]) \subseteq DOMAIN kind
        BY <1>1, <4>1
      <4>3. Range(parents'[n]) \cap S = {}
        BY <4>1, <4>2
      <4> QED BY <4>3
    <3> QED BY <3>1, <3>2
  <2> QED BY <2>1, <2>2 DEF Acyclic
<1>4. SplittersWhole'
  <2>1. ASSUME NEW s \in OfKind("splitter")' PROVE Len(parents'[s]) = 1
    <3>1. CASE s \in new
      BY <3>1 DEF OfKind
    <3>2. CASE s \in DOMAIN kind
      <4>1. s \in OfKind("splitter") /\ parents'[s] = parents[s]
        BY <1>2, <3>2
      <4> QED BY <4>1 DEF RegistryInv, SplittersWhole
    <3> QED BY <3>1, <3>2 DEF OfKind
  <2>2. ASSUME NEW s \in OfKind("splitter")', NEW c \in Range(children'[s]), kind'[c] = "splitted"
        PROVE  policy'[c] = s
    <3>1. CASE s \in new
      BY <2>2, <3>1 DEF OfKind
    <3>2. CASE s \in DOMAIN kind
      <4>1. c \in Range(children[s]) /\ c \in DOMAIN kind
        BY <1>1, <2>2, <3>2
      <4>2. s \in OfKind("splitter") /\ c \in OfKind("splitted") /\ kind[c] = "splitted"
        BY <1>2, <2>2, <3>2, <4>1 DEF OfKind
      <4> QED BY <4>1, <4>2 DEF RegistryInv, SplittersWhole
    <3> QED BY <3>1, <3>2 DEF OfKind
  <2>3. ASSUME NEW c \in OfKind("splitted")'
        PROVE  /\ kind'[policy'[c]] = "splitter"
               /\ parents'[c] = <<policy'[c]>> \/ "twin children" \in sins'
    <3>1. CASE c \in new
      BY <2>3, <3>1 DEF OfKind
    <3>2. CASE c \in DOMAIN kind
      <4>1. c \in OfKind("splitted") /\ policy'[c] = policy[c] /\ parents'[c] = parents[c]
        BY <2>3, <3>2 DEF OfKind
      <4>2. policy[c] \in DOMAIN kind
        BY <4>1 DEF RegistryInv, Filed
      <4>3. kind[policy[c]] = "splitter" /\ (parents[c] = <<policy[c]>> \/ "twin children" \in sins)
        BY <4>1 DEF RegistryInv, SplittersWhole
      <4> QED BY <4>1, <4>2, <4>3
    <3> QED BY <3>1, <3>2 DEF OfKind
  <2> QED BY <2>1, <2>2, <2>3 DEF SplittersWhole
<1>5. SourcesSound'
  <2>1. ASSUME NEW x \in DOMAIN kind, Range(parents[x]) \cap OfKind("splitter") = {}
        PROVE  Range(parents'[x]) \cap OfKind("splitter")' = {}
    BY <1>1, <1>2, <2>1
  <2>2. \A s \in OfKind("splitter")' : Range(parents'[s]) \cap OfKind("splitter")' = {}
    <3>1. \A s \in OfKind("splitter") : Range(parents[s]) \cap OfKind("splitter") = {} /\ s \in DOMAIN kind
      BY DEF RegistryInv, SourcesSound, OfKind
    <3>2. \A s \in OfKind("splitter")' : s \in OfKind("splitter") \/ (s \in new /\ kind'[s] = "splitter")
      BY DEF OfKind
    <3> QED BY <2>1, <3>1, <3>2
  <2>3. ASSUME "splitter as source" \notin sins', NEW a \in OfKind("aggregator")'
        PROVE  Range(parents'[a]) \cap OfKind("splitter")' = {}
    <3>1. (a \in new /\ kind'[a] = "aggregator") \/ (a \in OfKind("aggregator") /\ a \in DOMAIN kind)
      BY DEF OfKind
    <3>2. "splitter as source" \notin sins
      BY <2>3
    <3> QED BY <2>1, <2>3, <3>1, <3>2 DEF RegistryInv, SourcesSound
  <2> QED BY <2>2, <2>3 DEF SourcesSound
<1> QED BY <1>3, <1>4, <1>5

\* The maps of a state.
LEMMA MapsNow ==
    ASSUME RegistryInv
    PROVE  /\ [parents |-> parents, children |-> children] \in Maps(DOMAIN kind)
           /\ fate = "up" => Mirrors([parents |-> parents, children |-> children], DOMAIN kind)
BY DEF RegistryInv, Filed, MapsMirror, Maps, Mirrors

LEMMA MapsNext ==
    ASSUME NEW M, NEW D, M \in Maps(D), D = DOMAIN kind', parents' = M.parents, children' = M.children
    PROVE  /\ parents' \in [DOMAIN kind' -> Seq(DOMAIN kind')] /\ children' \in [DOMAIN kind' -> Seq(DOMAIN kind')]
           /\ Mirrors(M, D) => MapsMirror'
BY DEF Maps, Mirrors, MapsMirror

\* A battery without sources.
LEMMA PlainAdded ==
    ASSUME RegistryInv, fate = "up", NEW n \in Names, NEW k \in {"leaf", "dynamic"}, ~Exists(n), AddBattery(n, k),
           UNCHANGED <<policy, fate>>, sins \subseteq sins', loaded' \subseteq Libs, mapped' \subseteq Libs,
           DOMAIN lib' = OfKind("dynamic")', should_quit' \in BOOLEAN
    PROVE  RegistryInv'
<1> DEFINE D == DOMAIN kind
           new == {n}
           M == [parents |-> parents, children |-> children]
           N == [parents |-> [x \in D \cup new |-> IF x \in new THEN <<>> ELSE M.parents[x]],
                 children |-> [x \in D \cup new |-> IF x \in new THEN <<>> ELSE M.children[x]]]
<1>1. n \notin D /\ DOMAIN parents = D /\ DOMAIN children = D /\ new \cap D = {}
  BY DEF Exists, RegistryInv, Filed, TypeOK
<1>2. /\ DOMAIN kind' = D \cup new /\ kind'[n] = k
      /\ \A x \in D : kind'[x] = kind[x]
      /\ parents' = N.parents /\ children' = N.children
  BY <1>1 DEF AddBattery, With
<1>3. M \in Maps(D) /\ Mirrors(M, D)
  BY MapsNow
<1>4. N \in Maps(D \cup new) /\ Mirrors(N, D \cup new)
  <2> HIDE DEF M, D, new
  <2> QED BY <1>1, <1>3, NewEntered
<1>5. /\ \A x \in D : parents'[x] = parents[x] /\ children'[x] = children[x]
      /\ parents'[n] = <<>> /\ children'[n] = <<>>
  BY <1>1, <1>2
<1>6. /\ parents' \in [DOMAIN kind' -> Seq(DOMAIN kind')] /\ children' \in [DOMAIN kind' -> Seq(DOMAIN kind')]
      /\ MapsMirror'
  <2> HIDE DEF N
  <2> QED BY <1>2, <1>4, MapsNext
<1>7. OfKind("splitted")' = OfKind("splitted")
  BY <1>1, <1>2 DEF OfKind
<1>8. Filed'
  <2>1. TypeOK'
    BY <1>2, <1>6 DEF TypeOK, RegistryInv, Filed, Kinds
  <2>2. DOMAIN policy' = OfKind("splitted")' /\ \A c \in DOMAIN policy' : policy'[c] \in DOMAIN kind'
    BY <1>2, <1>7 DEF RegistryInv, Filed
  <2> QED BY <1>6, <2>1, <2>2 DEF Filed
<1>9. Acyclic' /\ SplittersWhole' /\ SourcesSound'
  <2>1. \A S \in SUBSET new : S # {} => \E x \in S : Range(parents'[x]) \cap S = {}
    BY <1>5 DEF Range
  <2>2. \A p \in D : \A c \in Range(children'[p]) : c \in Range(children[p])
    BY <1>5
  <2> QED BY <1>1, <1>2, <1>5, <2>1, <2>2, TopologyGrows
<1> QED BY <1>6, <1>8, <1>9 DEF RegistryInv

-----------------------------------------------------------------------------
\* An aggregator: its sources are batteries that were there, or it is stuck.
LEMMA AggregatorAdded ==
    ASSUME RegistryInv, NEW n \in Names, NEW sources \in Seq(Names), make_aggregator(n, sources)
    PROVE  RegistryInv'
<1> DEFINE D == DOMAIN kind
           new == {n}
           E == D \cup new
           M == [parents |-> parents, children |-> children]
           N == [parents |-> [x \in E |-> IF x \in new THEN <<>> ELSE M.parents[x]],
                 children |-> [x \in E |-> IF x \in new THEN <<>> ELSE M.children[x]]]
           links == [i \in DOMAIN sources |-> <<sources[i], n>>]
           G == {X \in Maps(E) :
                   /\ Mirrors(X, E)
                   /\ \A x \in D : X.parents[x] = parents[x]
                   /\ Range(X.parents[n]) \subseteq Range(sources)
                   /\ \A p \in D : Range(X.children[p]) \subseteq Range(children[p]) \cup {n}}
           P == add_edges(links, N)
<1>1. n \notin D /\ DOMAIN parents = D /\ DOMAIN children = D /\ new \cap D = {} /\ fate = "up"
  BY DEF make_aggregator, Message, Exists, RegistryInv, Filed, TypeOK
<1>2. N = [parents |-> With(parents, n, <<>>), children |-> With(children, n, <<>>)]
  BY <1>1 DEF With
<1>3. /\ kind' = With(kind, n, "aggregator") /\ parents' = P.parents /\ children' = P.children
      /\ fate' = (IF n \in Range(sources) THEN "stuck" ELSE "up")
      /\ UNCHANGED <<policy, lib, loaded, mapped, should_quit>>
      /\ sins \subseteq sins'
      /\ "splitter as source" \notin sins' => Range(sources) \cap OfKind("splitter") = {}
  <2>1. LET maps == add_edges(links, N)
        IN  parents' = maps.parents /\ children' = maps.children
    BY <1>2 DEF make_aggregator
  <2>2. /\ kind' = With(kind, n, "aggregator")
        /\ fate' = (IF n \in Range(sources) THEN "stuck" ELSE "up")
        /\ UNCHANGED <<policy, lib, loaded, mapped, should_quit>>
        /\ sins' = sins \cup {s \in {"unknown source", "splitter as source"} :
                                CASE s = "unknown source" -> ~(Range(sources) \subseteq DOMAIN kind)
                                  [] OTHER -> Range(sources) \cap OfKind("splitter") # {}}
    BY DEF make_aggregator, libVars
  <2>3. sins \subseteq sins' /\ ("splitter as source" \notin sins' => Range(sources) \cap OfKind("splitter") = {})
    BY <2>2
  <2> QED BY <2>1, <2>2, <2>3
<1>4. DOMAIN kind' = E /\ kind'[n] = "aggregator" /\ \A x \in D : kind'[x] = kind[x]
  BY <1>1, <1>3 DEF With
<1>5. M \in Maps(D) /\ Mirrors(M, D)
  BY <1>1, MapsNow
<1>6. N \in Maps(E) /\ Mirrors(N, E)
  <2> HIDE DEF M, D, new
  <2> QED BY <1>1, <1>5, NewEntered
<1>7. N \in G
  <2>1. \A x \in D : N.parents[x] = parents[x] /\ N.children[x] = children[x]
    BY <1>1
  <2>2. N.parents[n] = <<>>
    OBVIOUS
  <2>3. Range(N.parents[n]) \subseteq Range(sources)
    BY <2>2 DEF Range
  <2> QED BY <1>6, <2>1, <2>3
<1>8. /\ Len(links) = Len(sources) /\ Len(sources) \in Nat
      /\ \A i \in 1 .. Len(links) : links[i] = <<sources[i], n>> /\ sources[i] \in Range(sources)
  BY DEF Range
<1>9. ASSUME NEW i \in 1 .. Len(links), NEW X \in G
      PROVE  add_edge(links[i][1], links[i][2], X) \in G
  <2>0. /\ X \in Maps(E) /\ Mirrors(X, E)
        /\ \A x \in D : X.parents[x] = parents[x]
        /\ Range(X.parents[n]) \subseteq Range(sources)
        /\ \A p \in D : Range(X.children[p]) \subseteq Range(children[p]) \cup {n}
        /\ n \in E /\ D \subseteq E
    OBVIOUS
  <2>1. PICK f : f = sources[i]
    OBVIOUS
  <2>2. links[i][1] = f /\ links[i][2] = n /\ f \in Range(sources)
    <3> HIDE DEF links
    <3> QED BY <1>8, <2>1
  <2> DEFINE Y == add_edge(f, n, X)
  <2> HIDE DEF G, E, links, N
  <2>3. Y \in Maps(E) /\ Mirrors(Y, E)
    BY <2>0, EdgeEntered, EdgeMirrored
  <2>4. CASE f \notin E
    <3>1. Y = X
      BY <2>0, <2>4, EdgeEntered
    <3> QED BY <1>9, <2>2, <3>1
  <2>5. CASE f \in E
    <3>1. /\ \A x \in E : Y.parents[x] = IF x = n THEN Append(X.parents[x], f) ELSE X.parents[x]
          /\ \A x \in E : Y.children[x] = IF x = f THEN Append(X.children[x], n) ELSE X.children[x]
      BY <2>0, <2>5, EdgeEntered
    <3>2. \A x \in E : X.parents[x] \in Seq(E) /\ X.children[x] \in Seq(E)
      BY <2>0 DEF Maps
    <3> HIDE DEF Y
    <3>3. \A x \in D : Y.parents[x] = parents[x]
      BY <1>1, <2>0, <3>1
    <3>4. Range(Y.parents[n]) \subseteq Range(sources)
      <4>1. Y.parents[n] = Append(X.parents[n], f) /\ X.parents[n] \in Seq(E)
        BY <2>0, <3>1, <3>2
      <4>2. Range(Y.parents[n]) = Range(X.parents[n]) \cup {f}
        BY <2>5, <4>1, RangeAppend
      <4> QED BY <2>0, <2>2, <4>2
    <3>5. ASSUME NEW p \in D PROVE Range(Y.children[p]) \subseteq Range(children[p]) \cup {n}
      <4>1. CASE p = f
        <5>1. Y.children[p] = Append(X.children[p], n) /\ X.children[p] \in Seq(E) /\ n \in E
          BY <2>0, <3>1, <3>2, <4>1
        <5>2. Range(Y.children[p]) = Range(X.children[p]) \cup {n}
          BY <5>1, RangeAppend
        <5> QED BY <2>0, <5>2
      <4>2. CASE p # f
        BY <2>0, <3>1, <4>2
      <4> QED BY <4>1, <4>2
    <3>6. Y \in G
      BY <2>3, <3>3, <3>4, <3>5 DEF G
    <3> QED BY <2>2, <3>6 DEF Y
  <2> QED BY <2>4, <2>5
<1>10. P \in G
  <2> HIDE DEF G, N, links
  <2> QED BY <1>7, <1>8, <1>9, LoopKeeps
<1>11. /\ P \in Maps(E) /\ Mirrors(P, E)
       /\ \A x \in D : parents'[x] = parents[x]
       /\ Range(parents'[n]) \subseteq Range(sources)
       /\ \A p \in D : Range(children'[p]) \subseteq Range(children[p]) \cup {n}
  <2> HIDE DEF P
  <2> QED BY <1>3, <1>10
<1>12. /\ parents' \in [DOMAIN kind' -> Seq(DOMAIN kind')] /\ children' \in [DOMAIN kind' -> Seq(DOMAIN kind')]
       /\ MapsMirror'
  <2> HIDE DEF P, E
  <2> QED BY <1>3, <1>4, <1>11, MapsNext
<1>13. OfKind("splitted")' = OfKind("splitted") /\ OfKind("dynamic")' = OfKind("dynamic")
       /\ OfKind("splitter")' = OfKind("splitter")
  BY <1>1, <1>4 DEF OfKind
<1>14. Filed'
  <2>1. TypeOK'
    BY <1>3, <1>4, <1>12, <1>13 DEF TypeOK, RegistryInv, Filed, Kinds
  <2>2. DOMAIN policy' = OfKind("splitted")' /\ \A c \in DOMAIN policy' : policy'[c] \in DOMAIN kind'
    BY <1>3, <1>4, <1>13 DEF RegistryInv, Filed
  <2> QED BY <1>12, <2>1, <2>2 DEF Filed
<1>15. CASE fate' = "up"
  <2>1. n \notin Range(parents'[n])
    BY <1>3, <1>11, <1>15
  <2>2. \A S \in SUBSET new : S # {} => \E x \in S : Range(parents'[x]) \cap S = {}
    <3>1. \A S \in SUBSET new : S # {} => S = {n}
      OBVIOUS
    <3> QED BY <2>1, <3>1
  <2>3. \A p \in D : \A c \in Range(children'[p]) : c \in Range(children[p]) \/ kind'[c] # "splitted"
    BY <1>4, <1>11
  <2>4. "splitter as source" \notin sins' => Range(parents'[n]) \cap OfKind("splitter")' = {}
    BY <1>3, <1>11, <1>13
  <2>5. Acyclic' /\ SplittersWhole' /\ SourcesSound'
    <3>1. \A c \in OfKind("splitted") : policy'[c] = policy[c]
      BY <1>3
    <3>2. /\ \A x \in new : kind'[x] = "aggregator"
          /\ DOMAIN kind' = D \cup new /\ \A x \in D : kind'[x] = kind[x] /\ parents'[x] = parents[x]
          /\ "splitter as source" \notin sins' =>
               \A a \in new : kind'[a] = "aggregator" => Range(parents'[a]) \cap OfKind("splitter")' = {}
      BY <1>4, <1>11, <2>4
    <3> HIDE DEF new, D, P
    <3>3. new \cap D = {} /\ fate = "up" /\ sins \subseteq sins'
      BY <1>1, <1>3
    <3> QED BY <2>2, <2>3, <3>1, <3>2, <3>3, TopologyGrows DEF D
  <2> QED BY <1>12, <1>14, <2>5 DEF RegistryInv
<1>16. CASE fate' # "up"
  BY <1>12, <1>14, <1>16 DEF RegistryInv, Acyclic, SplittersWhole, SourcesSound
<1> QED BY <1>15, <1>16

\* What three edges leave behind: one from source to n, and two from n to c and d.
Linked(P, N, E, source, n, c, d) ==
    /\ P \in Maps(E) /\ Mirrors(P, E)
    /\ \A x \in E : x \notin {n, c, d} => P.parents[x] = N.parents[x]
    /\ \A x \in E : x \notin {n, source} => P.children[x] = N.children[x]
    /\ n \notin {c, d, source} =>
         /\ P.parents[n] = Append(N.parents[n], source)
         /\ c # d => P.parents[c] = Append(N.parents[c], n) /\ P.parents[d] = Append(N.parents[d], n)
         /\ c = d => P.parents[c] = Append(Append(N.parents[c], n), n)
         /\ P.children[n] = Append(Append(N.children[n], c), d)
         /\ P.children[source] = Append(N.children[source], n)

LEMMA ThreeEdges ==
    ASSUME NEW E, NEW N \in Maps(E), Mirrors(N, E), NEW source \in E, NEW n \in E, NEW c \in E, NEW d \in E,
           NEW P, P = add_edge(n, d, add_edge(n, c, add_edge(source, n, N)))
    PROVE  Linked(P, N, E, source, n, c, d)
<1>1. PICK X : X = add_edge(source, n, N)
  OBVIOUS
<1>2. PICK Y : Y = add_edge(n, c, X)
  OBVIOUS
<1>3. P = add_edge(n, d, Y)
  BY <1>1, <1>2
<1>4. /\ X \in Maps(E) /\ Mirrors(X, E)
      /\ \A x \in E : X.parents[x] = IF x = n THEN Append(N.parents[x], source) ELSE N.parents[x]
      /\ \A x \in E : X.children[x] = IF x = source THEN Append(N.children[x], n) ELSE N.children[x]
  BY <1>1, EdgeEntered, EdgeMirrored
<1>5. /\ Y \in Maps(E) /\ Mirrors(Y, E)
      /\ \A x \in E : Y.parents[x] = IF x = c THEN Append(X.parents[x], n) ELSE X.parents[x]
      /\ \A x \in E : Y.children[x] = IF x = n THEN Append(X.children[x], c) ELSE X.children[x]
  BY <1>2, <1>4, EdgeEntered, EdgeMirrored
<1>6. /\ P \in Maps(E) /\ Mirrors(P, E)
      /\ \A x \in E : P.parents[x] = IF x = d THEN Append(Y.parents[x], n) ELSE Y.parents[x]
      /\ \A x \in E : P.children[x] = IF x = n THEN Append(Y.children[x], d) ELSE Y.children[x]
  BY <1>3, <1>5, EdgeEntered, EdgeMirrored
<1>7. /\ \A x \in E : x \notin {n, c, d} => P.parents[x] = N.parents[x]
      /\ \A x \in E : x \notin {n, source} => P.children[x] = N.children[x]
  BY <1>4, <1>5, <1>6
<1>8. ASSUME n \notin {c, d, source}
      PROVE  /\ P.parents[n] = Append(N.parents[n], source)
             /\ c # d => P.parents[c] = Append(N.parents[c], n) /\ P.parents[d] = Append(N.parents[d], n)
             /\ c = d => P.parents[c] = Append(Append(N.parents[c], n), n)
             /\ P.children[n] = Append(Append(N.children[n], c), d)
             /\ P.children[source] = Append(N.children[source], n)
  <2>1. P.parents[n] = Append(N.parents[n], source)
    BY <1>4, <1>5, <1>6, <1>8
  <2>2. ASSUME c # d
        PROVE  P.parents[c] = Append(N.parents[c], n) /\ P.parents[d] = Append(N.parents[d], n)
    <3>1. X.parents[c] = N.parents[c] /\ X.parents[d] = N.parents[d]
      BY <1>4, <1>8
    <3>2. Y.parents[c] = Append(X.parents[c], n) /\ Y.parents[d] = X.parents[d]
      BY <1>5, <2>2
    <3>3. P.parents[c] = Y.parents[c] /\ P.parents[d] = Append(Y.parents[d], n)
      BY <1>6, <2>2
    <3> QED BY <3>1, <3>2, <3>3
  <2>3. c = d => P.parents[c] = Append(Append(N.parents[c], n), n)
    BY <1>4, <1>5, <1>6, <1>8
  <2>4. P.children[n] = Append(Append(N.children[n], c), d)
    <3>1. X.children[n] = N.children[n]
      BY <1>4, <1>8
    <3>2. Y.children[n] = Append(X.children[n], c)
      BY <1>5
    <3>3. P.children[n] = Append(Y.children[n], d)
      BY <1>6
    <3> QED BY <3>1, <3>2, <3>3
  <2>5. P.children[source] = Append(N.children[source], n)
    BY <1>4, <1>5, <1>6, <1>8
  <2> QED BY <2>1, <2>2, <2>3, <2>4, <2>5
<1> QED BY <1>6, <1>7, <1>8 DEF Linked

LEMMA Singles ==
    ASSUME NEW x
    PROVE  Append(<<>>, x) = <<x>> /\ Len(<<x>>) = 1 /\ Range(<<x>>) = {x}
BY DEF Range

LEMMA Pairs ==
    ASSUME NEW x, NEW y
    PROVE  /\ Len(<<x, y>>) = 2 /\ Range(<<x, y>>) = {x, y}
           /\ Range(Append(Append(<<>>, x), y)) = {x, y}
<1>1. Len(<<x, y>>) = 2
  OBVIOUS
<1>2. DOMAIN <<x, y>> = {1, 2} /\ <<x, y>>[1] = x /\ <<x, y>>[2] = y
  OBVIOUS
<1>3. Range(<<x, y>>) = {x, y}
  BY <1>2, Zenon DEF Range
<1>4. Range(Append(Append(<<>>, x), y)) = {x, y}
  <2>1. PICK S : S = {x, y}
    OBVIOUS
  <2>2. Range(Append(Append(<<>>, x), y)) = Range(Append(<<>>, x)) \cup {y}
    <3>1. PICK s : s = Append(<<>>, x)
      OBVIOUS
    <3>2. s \in Seq(S) /\ y \in S
      BY <2>1, <3>1
    <3>3. Range(Append(s, y)) = Range(s) \cup {y}
      BY <3>2, RangeAppend
    <3> QED BY <3>1, <3>3, Zenon
  <2>3. Range(Append(<<>>, x)) = {x}
    BY Singles, Zenon
  <2> QED BY <2>2, <2>3
<1> QED BY <1>1, <1>3, <1>4

\* A splitter and its children: the children are computed from the splitter, the
\* splitter from a source that was there and is no splitter.
LEMMA SplitterAdded ==
    ASSUME RegistryInv, NEW n \in Names, NEW source \in Names, NEW c \in Names, NEW d \in Names,
           make_splitter(n, source, <<c, d>>)
    PROVE  RegistryInv'
<1> DEFINE D == DOMAIN kind
           new == {c, d, n}
           E == D \cup new
           M == [parents |-> parents, children |-> children]
           N == [parents |-> [x \in E |-> IF x \in new THEN <<>> ELSE M.parents[x]],
                 children |-> [x \in E |-> IF x \in new THEN <<>> ELSE M.children[x]]]
           links == <<<<source, n>>>> \o [i \in DOMAIN <<c, d>> |-> <<n, <<c, d>>[i]>>]
           P == add_edge(n, d, add_edge(n, c, add_edge(source, n, N)))
<1>1. Range(<<c, d>>) = {c, d} /\ Len(<<c, d>>) = 2 /\ Range(<<c, d>>) \cup {n} = new
  <2>1. Range(<<c, d>>) = {c, d} /\ Len(<<c, d>>) = 2
    BY Pairs, Zenon
  <2>2. {c, d} \cup {n} = new
    OBVIOUS
  <2> QED BY <2>1, <2>2, Zenon
<1>2. /\ n \notin D /\ c \notin D /\ d \notin D /\ source \in D /\ fate = "up"
      /\ DOMAIN parents = D /\ DOMAIN children = D /\ new \cap D = {}
  BY <1>1 DEF make_splitter, SplitterChecked, Message, Exists, RegistryInv, Filed, TypeOK
<1>3. /\ Len(links) = 3 /\ links[1] = <<source, n>> /\ links[2] = <<n, c>> /\ links[3] = <<n, d>>
  OBVIOUS
<1>4. add_edges(links, N) = P
  <2> HIDE DEF links, N
  <2> QED BY <1>3, LoopOfThree
<1>5. /\ kind' = [x \in D \cup new |-> IF x \in {c, d} THEN "splitted"
                                       ELSE IF x = n THEN "splitter" ELSE kind[x]]
      /\ parents' = P.parents /\ children' = P.children
      /\ policy' = attach_to_policy({c, d}, n)
  <2>1. N = [parents |-> [x \in DOMAIN parents \cup new |-> IF x \in new THEN <<>> ELSE parents[x]],
             children |-> [x \in DOMAIN children \cup new |-> IF x \in new THEN <<>> ELSE children[x]]]
    BY <1>2
  <2> HIDE DEF P
  <2>2. LET maps == add_edges(links, N)
        IN  /\ kind' = [x \in D \cup new |-> IF x \in {c, d} THEN "splitted"
                                             ELSE IF x = n THEN "splitter" ELSE kind[x]]
            /\ parents' = maps.parents /\ children' = maps.children
            /\ policy' = attach_to_policy({c, d}, n)
    <3> HIDE DEF new, N
    <3> QED BY <1>1, <2>1 DEF make_splitter
  <2> QED BY <1>4, <2>2
<1>6. /\ UNCHANGED <<lib, loaded, mapped, should_quit>> /\ sins \subseteq sins'
      /\ c = d => "twin children" \in sins'
      /\ fate' \in {"up", "exited", "stuck", "undefined"}
      /\ fate' = "up" => kind[source] # "splitter" /\ n \notin {c, d}
  <2>1. /\ UNCHANGED <<lib, loaded, mapped, should_quit>>
        /\ sins' = sins \cup (IF Cardinality(Range(<<c, d>>)) < Len(<<c, d>>) THEN {"twin children"} ELSE {})
        /\ \E stale \in BOOLEAN :
             fate' = CASE kind[source] = "splitter" -> "exited"
                       [] stale /\ StatusOutcome(source) # "up" -> StatusOutcome(source)
                       [] n \in Range(<<c, d>>) -> "stuck"
                       [] OTHER -> "up"
    BY DEF make_splitter, libVars
  <2>2. StatusOutcome(source) \in {"up", "exited", "undefined"}
    BY DEF StatusOutcome, Outcome
  <2>3. c = d => Cardinality(Range(<<c, d>>)) = 1
    BY <1>1, FS_Singleton
  <2>4. c = d => "twin children" \in sins'
    <3>1. c = d => Cardinality(Range(<<c, d>>)) < Len(<<c, d>>)
      <4>1. PICK k, l : k = Cardinality(Range(<<c, d>>)) /\ l = Len(<<c, d>>)
        OBVIOUS
      <4>2. l = 2 /\ (c = d => k = 1)
        BY <1>1, <2>3, <4>1, Zenon
      <4>3. c = d => k < l
        BY <4>2
      <4> QED BY <4>1, <4>3, Zenon
    <3> QED BY <2>1, <3>1, Zenon
  <2>5. fate' \in {"up", "exited", "stuck", "undefined"} /\ (fate' = "up" => kind[source] # "splitter")
    BY <2>1, <2>2
  <2>6. /\ sins \subseteq sins' /\ (fate' = "up" => n \notin {c, d})
    <3>1. StatusOutcome(source) # "up" => StatusOutcome(source) \in {"exited", "undefined"}
      BY <2>2
    <3>2. sins \subseteq sins'
      BY <2>1
    <3>3. PICK stale \in BOOLEAN :
             fate' = CASE kind[source] = "splitter" -> "exited"
                       [] stale /\ StatusOutcome(source) # "up" -> StatusOutcome(source)
                       [] n \in {c, d} -> "stuck"
                       [] OTHER -> "up"
      BY <1>1, <2>1
    <3>4. CASE n \in {c, d}
      <4>1. fate' # "up"
        BY <3>1, <3>3, <3>4
      <4> QED BY <3>2, <4>1
    <3> QED BY <3>2, <3>4
  <2> QED BY <2>1, <2>4, <2>5, <2>6
<1>7. /\ DOMAIN kind' = E /\ \A x \in D : kind'[x] = kind[x]
      /\ kind'[c] = "splitted" /\ kind'[d] = "splitted" /\ (n \notin {c, d} => kind'[n] = "splitter")
      /\ kind'[n] \in {"splitted", "splitter"}
  BY <1>2, <1>5
<1>8. M \in Maps(D) /\ Mirrors(M, D)
  BY <1>2, MapsNow
<1>9. N \in Maps(E) /\ Mirrors(N, E)
  <2> HIDE DEF M, D, new
  <2> QED BY <1>2, <1>8, NewEntered
<1>10. /\ \A x \in D : N.parents[x] = parents[x] /\ N.children[x] = children[x]
       /\ \A x \in new : N.parents[x] = <<>> /\ N.children[x] = <<>>
  BY <1>2
<1>11. source \in E /\ n \in E /\ c \in E /\ d \in E
  BY <1>2
<1>12. Linked(P, N, E, source, n, c, d) /\ P \in Maps(E) /\ Mirrors(P, E)
  <2>1. PICK X : X = P
    OBVIOUS
  <2>2. X = add_edge(n, d, add_edge(n, c, add_edge(source, n, N)))
    BY <2>1
  <2> HIDE DEF N, E, P
  <2>3. Linked(X, N, E, source, n, c, d)
    BY <1>9, <1>11, <2>2, ThreeEdges
  <2> QED BY <2>1, <2>3 DEF Linked
<1> HIDE DEF P, N
<1>13. /\ parents' \in [DOMAIN kind' -> Seq(DOMAIN kind')] /\ children' \in [DOMAIN kind' -> Seq(DOMAIN kind')]
       /\ MapsMirror'
  <2> HIDE DEF E
  <2> QED BY <1>5, <1>7, <1>12, MapsNext
<1>14. Filed'
  <2>1. OfKind("dynamic")' = OfKind("dynamic")
    BY <1>2, <1>7 DEF OfKind
  <2>2. TypeOK'
    <3>1. DOMAIN kind' \subseteq Names /\ \A x \in DOMAIN kind' : kind'[x] \in Kinds
      BY <1>7 DEF RegistryInv, Filed, TypeOK, Kinds
    <3> HIDE DEF E
    <3> QED BY <1>6, <1>13, <2>1, <3>1 DEF TypeOK, RegistryInv, Filed
  <2>3. DOMAIN policy' = DOMAIN policy \cup {c, d}
        /\ \A x \in DOMAIN policy' : policy'[x] = IF x \in {c, d} THEN n ELSE policy[x]
    BY <1>5 DEF attach_to_policy
  <2>4. DOMAIN policy = OfKind("splitted") /\ \A x \in DOMAIN policy : policy[x] \in D
    BY DEF RegistryInv, Filed
  <2>5. OfKind("splitted")' = OfKind("splitted") \cup {c, d}
    <3>1. n \notin {c, d} => kind'[n] # "splitted"
      BY <1>7
    <3> QED BY <1>7, <3>1 DEF OfKind
  <2>6. DOMAIN policy' = OfKind("splitted")' /\ \A x \in DOMAIN policy' : policy'[x] \in DOMAIN kind'
    BY <1>7, <2>3, <2>4, <2>5
  <2> QED BY <1>13, <2>2, <2>6 DEF Filed
<1>15. CASE fate' # "up"
  BY <1>13, <1>14, <1>15 DEF RegistryInv, Acyclic, SplittersWhole, SourcesSound
<1>16. CASE fate' = "up"
  <2>1. n \notin {c, d, source} /\ kind'[n] = "splitter" /\ kind[source] # "splitter"
    BY <1>2, <1>6, <1>7, <1>16
  <2>2. /\ parents'[n] = <<source>> /\ Range(children'[n]) = {c, d}
        /\ c # d => parents'[c] = <<n>> /\ parents'[d] = <<n>>
        /\ c = d => Range(parents'[c]) = {n}
        /\ children'[source] = Append(children[source], n)
        /\ \A x \in D : parents'[x] = parents[x]
        /\ \A x \in D : x # source => children'[x] = children[x]
    <3>1. \A x \in {n, c, d} : N.parents[x] = <<>> /\ N.children[x] = <<>>
      BY <1>10
    <3>2. parents'[n] = <<source>>
      <4>1. parents'[n] = Append(<<>>, source)
        BY <1>5, <1>12, <2>1, <3>1 DEF Linked
      <4> QED BY <4>1, Singles, Zenon
    <3>3. Range(children'[n]) = {c, d}
      <4>1. children'[n] = Append(Append(<<>>, c), d)
        BY <1>5, <1>12, <2>1, <3>1 DEF Linked
      <4> QED BY <4>1, Pairs, Zenon
    <3>4. c # d => parents'[c] = <<n>> /\ parents'[d] = <<n>>
      <4>1. c # d => parents'[c] = Append(<<>>, n) /\ parents'[d] = Append(<<>>, n)
        BY <1>5, <1>12, <2>1, <3>1 DEF Linked
      <4> QED BY <4>1, Singles, Zenon
    <3>5. c = d => Range(parents'[c]) = {n}
      <4>1. c = d => parents'[c] = Append(Append(<<>>, n), n)
        BY <1>5, <1>12, <2>1, <3>1 DEF Linked
      <4>2. Range(Append(Append(<<>>, n), n)) = {n, n} /\ {n, n} = {n}
        BY Pairs, Zenon
      <4> QED BY <4>1, <4>2, Zenon
    <3>6. children'[source] = Append(children[source], n)
      BY <1>2, <1>5, <1>10, <1>12, <2>1 DEF Linked
    <3>7. /\ \A x \in D : parents'[x] = parents[x]
          /\ \A x \in D : x # source => children'[x] = children[x]
      BY <1>2, <1>5, <1>10, <1>12 DEF Linked
    <3> QED BY <3>2, <3>3, <3>4, <3>5, <3>6, <3>7
  <2>3. /\ Range(parents'[n]) = {source} /\ Len(parents'[n]) = 1 /\ Range(children'[n]) = {c, d}
        /\ Range(parents'[c]) = {n} /\ Range(parents'[d]) = {n}
    <3>1. Range(<<source>>) = {source} /\ Len(<<source>>) = 1 /\ Range(<<n>>) = {n}
      BY Singles, Zenon
    <3>3. Range(parents'[n]) = {source} /\ Len(parents'[n]) = 1 /\ Range(children'[n]) = {c, d}
      BY <2>2, <3>1, Zenon
    <3>4. c # d => Range(parents'[c]) = {n} /\ Range(parents'[d]) = {n}
      BY <2>2, <3>1, Zenon
    <3>5. c = d => Range(parents'[c]) = {n} /\ Range(parents'[d]) = {n}
      BY <2>2, Zenon
    <3> QED BY <3>3, <3>4, <3>5, Zenon
  <2>4. ASSUME NEW S \in SUBSET new, S # {} PROVE \E x \in S : Range(parents'[x]) \cap S = {}
    <3>1. CASE n \in S
      BY <1>2, <2>3, <3>1
    <3>2. CASE n \notin S
      <4>1. PICK x \in S : x \in {c, d}
        BY <2>4, <3>2
      <4> QED BY <2>3, <3>2, <4>1
    <3> QED BY <3>1, <3>2
  <2>5. \A p \in D : \A x \in Range(children'[p]) : x \in Range(children[p]) \/ kind'[x] # "splitted"
    <3>1. children[source] \in Seq(D) /\ children[source] \in Seq(E)
      BY <1>2 DEF RegistryInv, Filed
    <3>2. Range(children'[source]) = Range(children[source]) \cup {n}
      BY <1>11, <2>2, <3>1, RangeAppend
    <3> QED BY <2>1, <2>2, <3>2
  <2>6. /\ policy'[c] = n /\ policy'[d] = n /\ \A x \in OfKind("splitted") : policy'[x] = policy[x]
    <3>1. \A x \in OfKind("splitted") : x \in DOMAIN policy /\ x \in D
      BY DEF RegistryInv, Filed, OfKind
    <3> QED BY <1>2, <1>5, <3>1 DEF attach_to_policy
  <2>7. source \notin OfKind("splitter")'
    BY <1>2, <1>7, <2>1 DEF OfKind
  <2>8. /\ \A x \in new : kind'[x] \notin {"leaf", "dynamic", "aggregator"}
        /\ \A x \in new : kind'[x] = "splitter" => x = n
        /\ \A x \in new : kind'[x] = "splitted" => x \in {c, d}
    BY <1>7, <2>1
  <2>9. \A s \in new : kind'[s] = "splitter" =>
               /\ Len(parents'[s]) = 1 /\ Range(parents'[s]) \cap OfKind("splitter")' = {}
               /\ \A x \in Range(children'[s]) : kind'[x] = "splitted" => policy'[x] = s
    BY <2>3, <2>6, <2>7, <2>8
  <2>10. \A x \in new : kind'[x] = "splitted" =>
               kind'[policy'[x]] = "splitter" /\ (parents'[x] = <<policy'[x]>> \/ "twin children" \in sins')
    BY <1>6, <2>1, <2>2, <2>6, <2>8
  <2>11. Acyclic' /\ SplittersWhole' /\ SourcesSound'
    <3>1. DOMAIN kind' = D \cup new /\ \A x \in D : kind'[x] = kind[x] /\ parents'[x] = parents[x]
      BY <1>7, <2>2
    <3>2. new \cap D = {} /\ fate = "up" /\ sins \subseteq sins'
      BY <1>2, <1>6
    <3> HIDE DEF new, D
    <3> QED BY <2>4, <2>5, <2>6, <2>8, <2>9, <2>10, <3>1, <3>2, TopologyGrows DEF D
  <2> QED BY <1>13, <1>14, <2>11 DEF RegistryInv
<1> QED BY <1>15, <1>16

-----------------------------------------------------------------------------
(***************************************************************************)
(* Every message.                                                          *)
(***************************************************************************)
LEMMA SourcesAreSequences == Sources \subseteq Seq(Names)
BY DEF Sources, SeqOf

\* A message that leaves the directory alone, whatever becomes of the server.
LEMMA DirectorySame ==
    ASSUME RegistryInv, UNCHANGED <<kind, parents, children, policy, lib>>, sins \subseteq sins',
           fate' = "up" => fate = "up", fate' \in {"up", "exited", "stuck", "undefined"},
           loaded' \subseteq Libs, mapped' \subseteq Libs, should_quit' \in BOOLEAN
    PROVE  RegistryInv'
<1>1. OfKind("splitted")' = OfKind("splitted") /\ OfKind("dynamic")' = OfKind("dynamic")
      /\ OfKind("splitter")' = OfKind("splitter") /\ OfKind("aggregator")' = OfKind("aggregator")
  BY DEF OfKind
<1>2. Filed'
  BY <1>1 DEF RegistryInv, Filed, TypeOK
<1>3. MapsMirror' /\ Acyclic'
  BY DEF RegistryInv, MapsMirror, Acyclic
<1>4. SplittersWhole'
  BY <1>1 DEF RegistryInv, SplittersWhole
<1>5. SourcesSound'
  BY <1>1 DEF RegistryInv, SourcesSound
<1> QED BY <1>2, <1>3, <1>4, <1>5 DEF RegistryInv

LEMMA Outcomes ==
    ASSUME NEW n
    PROVE  StatusOutcome(n) \in {"up", "exited", "undefined"} /\ ScheduleOutcome(n) \in {"up", "exited", "undefined"}
BY DEF StatusOutcome, ScheduleOutcome, Outcome

LEMMA InitRegistry == Init => RegistryInv
<1> SUFFICES ASSUME Init PROVE RegistryInv
  OBVIOUS
<1>1. /\ kind = <<>> /\ parents = <<>> /\ children = <<>> /\ policy = <<>> /\ lib = <<>>
      /\ loaded = {} /\ mapped = {} /\ fate = "up" /\ should_quit = FALSE
  BY DEF Init
<1>2. DOMAIN <<>> = {} /\ <<>> \in [{} -> Seq({})]
  OBVIOUS
<1>3. DOMAIN kind = {} /\ \A k : OfKind(k) = {}
  BY <1>1, <1>2 DEF OfKind
<1>4. Filed
  <2>1. TypeOK
    BY <1>1, <1>2, <1>3 DEF TypeOK
  <2>2. DOMAIN policy = {} /\ parents \in [{} -> Seq({})] /\ children \in [{} -> Seq({})]
    BY <1>1, <1>2, Zenon
  <2> QED BY <1>3, <2>1, <2>2 DEF Filed
<1>5. MapsMirror /\ Acyclic /\ SplittersWhole /\ SourcesSound
  BY <1>3 DEF MapsMirror, Acyclic, SplittersWhole, SourcesSound
<1> QED BY <1>4, <1>5 DEF RegistryInv

LEMMA DynamicAdded ==
    ASSUME RegistryInv, LibrariesHeld, NEW n \in Names, NEW l \in Libs, make_dynamic(n, l)
    PROVE  RegistryInv'
<1> USE DEF edges, libVars
<1>1. /\ should_quit' = should_quit /\ policy' = policy /\ fate = "up"
      /\ loaded \subseteq Libs /\ mapped \subseteq Libs /\ should_quit \in BOOLEAN
      /\ fate \in {"up", "exited", "stuck", "undefined"}
  BY DEF make_dynamic, Message, RegistryInv, Filed, TypeOK
<1>2. CASE l \in loaded \ mapped
  <2>1. fate' = "undefined" /\ UNCHANGED <<kind, parents, children, lib, loaded, mapped, sins>>
    BY <1>2 DEF make_dynamic
  <2> QED BY <1>1, <2>1, DirectorySame
<1>3. CASE fate' = fate /\ LoadFails(l) /\ UNCHANGED <<kind, edges, lib, sins>>
  BY <1>1, <1>3, DirectorySame DEF LoadFails
<1>4. CASE /\ fate' = fate /\ SymbolsMissing(l)
           /\ sins' = IF l \in loaded THEN sins \cup {"symbols missing"} ELSE sins
           /\ UNCHANGED <<kind, edges, lib>>
  <2>1. sins \subseteq sins' /\ loaded' \subseteq Libs /\ mapped' \subseteq Libs
    BY <1>1, <1>4 DEF SymbolsMissing
  <2> QED BY <1>1, <1>4, <2>1, DirectorySame
<1>5. CASE fate' = fate /\ InitFails(l) /\ UNCHANGED <<kind, edges, lib, sins>>
  <2>1. loaded' \subseteq Libs /\ mapped' \subseteq Libs
    BY <1>1, <1>5 DEF InitFails, Loaded
  <2> QED BY <1>1, <1>5, <2>1, DirectorySame
<1>6. CASE /\ fate' = fate /\ Loaded(l) /\ ~Exists(n)
           /\ DynamicBattery(n, l)
           /\ UNCHANGED sins
  <2>1. loaded' \subseteq Libs /\ mapped' \subseteq Libs
    BY <1>1, <1>6 DEF Loaded
  <2>2. AddBattery(n, "dynamic")
    BY <1>6 DEF DynamicBattery
  <2>3. DOMAIN lib' = OfKind("dynamic")'
    <3>1. LibrariesHeld'
      BY DynamicHeld
    <3> QED BY <3>1 DEF LibrariesHeld
  <2> QED BY <1>1, <1>6, <2>1, <2>2, <2>3, PlainAdded
<1> QED BY <1>2, <1>3, <1>4, <1>5, <1>6 DEF make_dynamic

LEMMA NextRegistry == ASSUME RegistryInv, LibrariesHeld, [Next]_vars PROVE RegistryInv'
<1>0. /\ loaded \subseteq Libs /\ mapped \subseteq Libs /\ should_quit \in BOOLEAN
      /\ fate \in {"up", "exited", "stuck", "undefined"}
  BY DEF RegistryInv, Filed, TypeOK
<1>1. CASE UNCHANGED vars
  BY <1>0, <1>1, DirectorySame DEF vars
<1>2. ASSUME NEW n \in Names, MakeLeaf(n) PROVE RegistryInv'
  <2>1. /\ fate = "up" /\ ~Exists(n) /\ AddBattery(n, "leaf")
        /\ UNCHANGED <<policy, lib, loaded, mapped, fate, should_quit, sins>>
    BY <1>2 DEF MakeLeaf, Message, libVars
  <2>2. OfKind("dynamic")' = OfKind("dynamic")
    BY <2>1 DEF OfKind, AddBattery, With, Exists
  <2>3. DOMAIN lib' = OfKind("dynamic")'
    BY <2>1, <2>2 DEF RegistryInv, Filed, TypeOK
  <2> QED BY <1>0, <2>1, <2>3, PlainAdded
<1>3. ASSUME NEW n \in Names, NEW s \in Sources, make_aggregator(n, s) PROVE RegistryInv'
  BY <1>3, AggregatorAdded, SourcesAreSequences
<1>4. ASSUME NEW n \in Names, NEW s \in Names, NEW c \in Names, NEW d \in Names, make_splitter(n, s, <<c, d>>)
      PROVE  RegistryInv'
  BY <1>4, SplitterAdded
<1>5. ASSUME NEW n \in Names, NEW l \in Libs, make_dynamic(n, l) PROVE RegistryInv'
  BY <1>5, DynamicAdded
<1>6. ASSUME NEW n \in Names,
             make_JBDBMS(n) \/ remove_battery(n) \/ GetStatus(n) \/ ScheduleSetCurrent(n)
      PROVE  RegistryInv'
  <2>1. /\ fate = "up" /\ UNCHANGED <<kind, parents, children, policy, lib, loaded, mapped, should_quit, sins>>
    BY <1>6 DEF make_JBDBMS, JBDBMS, remove_battery, GetStatus, ScheduleSetCurrent, Message,
         edges, libVars
  <2>2. fate' \in {"up", "exited", "undefined"}
    BY <1>6, Outcomes DEF make_JBDBMS, JBDBMS, remove_battery, GetStatus, ScheduleSetCurrent
  <2> QED BY <1>0, <2>1, <2>2, DirectorySame
<1>7. CASE Shutdown
  <2>1. /\ fate = "up" /\ UNCHANGED <<kind, parents, children, policy, lib, loaded, sins>>
        /\ should_quit' = TRUE /\ mapped' = {} /\ fate' \in {"up", "undefined"}
    BY <1>7 DEF Shutdown, Message, edges
  <2> QED BY <1>0, <2>1, DirectorySame
<1> QED BY <1>1, <1>2, <1>3, <1>4, <1>5, <1>6, <1>7
        DEF Next, make_null, make_pseudo, make_networked_battery

-----------------------------------------------------------------------------
(***************************************************************************)
(* Calls that go through the topology.                                     *)
(***************************************************************************)
\* What calls from n reach stays within a set that has n and is closed under them.
LEMMA AsksWithin ==
    ASSUME NEW n, NEW S \in SUBSET DOMAIN kind, n \in S, \A y \in S : Asks(y) \subseteq S
    PROVE  Closure(n, Asks) \subseteq S
BY DEF Closure

LEMMA ForwardsWithin ==
    ASSUME NEW n, NEW S \in SUBSET DOMAIN kind, n \in S, \A y \in S : Forwards(y) \subseteq S
    PROVE  Closure(n, Forwards) \subseteq S
BY DEF Closure

\* From a battery that is no splitter no call reaches a splitter.
LEMMA CallsAvoidSplitters ==
    ASSUME RegistryInv, fate = "up", "splitter as source" \notin sins,
           NEW y \in DOMAIN kind, kind[y] # "splitter"
    PROVE  /\ Asks(y) \subseteq {x \in DOMAIN kind : kind[x] # "splitter"}
           /\ Forwards(y) \subseteq {x \in DOMAIN kind : kind[x] # "splitter"}
<1> DEFINE S == {x \in DOMAIN kind : kind[x] # "splitter"}
<1>1. \A x \in DOMAIN kind : Range(parents[x]) \subseteq DOMAIN kind
  <2>1. ASSUME NEW x \in DOMAIN kind PROVE Range(parents[x]) \subseteq DOMAIN kind
    <3>1. parents[x] \in Seq(DOMAIN kind)
      BY DEF RegistryInv, Filed
    <3> QED BY <3>1, RangeIn
  <2> QED BY <2>1
<1>2. CASE kind[y] = "aggregator"
  <2>1. Range(parents[y]) \subseteq S
    BY <1>1, <1>2 DEF RegistryInv, SourcesSound, OfKind
  <2> QED BY <1>2, <2>1 DEF Asks, Forwards
<1>3. CASE kind[y] = "splitted"
  <2>1. policy[y] \in DOMAIN kind /\ kind[policy[y]] = "splitter"
    BY <1>3 DEF RegistryInv, Filed, SplittersWhole, OfKind
  <2>2. Range(parents[policy[y]]) \subseteq S
    BY <1>1, <2>1 DEF RegistryInv, SourcesSound, OfKind
  <2> QED BY <1>3, <2>2 DEF Asks, Forwards, get_status_of
<1>4. CASE kind[y] \notin {"aggregator", "splitted"}
  BY <1>4 DEF Asks, Forwards
<1> QED BY <1>2, <1>3, <1>4

LEMMA CallsSurvive ==
    ASSUME RegistryInv, LibrariesHeld, fate = "up", ~should_quit,
           "splitter as source" \notin sins, "symbols missing" \notin sins,
           NEW n \in DOMAIN kind, kind[n] # "splitter"
    PROVE  StatusOutcome(n) = "up" /\ ScheduleOutcome(n) = "up"
<1> DEFINE S == {x \in DOMAIN kind : kind[x] # "splitter"}
<1>1. S \in SUBSET DOMAIN kind /\ n \in S
  OBVIOUS
<1>2. \A y \in S : Asks(y) \subseteq S /\ Forwards(y) \subseteq S
  BY CallsAvoidSplitters
<1>3. \A x \in S : kind[x] # "splitter" /\ ~(kind[x] = "dynamic" /\ lib[x] \notin mapped)
  BY DEF LibrariesHeld, OfKind
<1>4. \A R \in SUBSET S : Outcome(R) = "up"
  BY <1>3 DEF Outcome
<1> HIDE DEF S
<1>5. \A x \in S : Closure(x, Asks) \subseteq S
  BY <1>1, <1>2, AsksWithin
<1>6. Closure(n, Forwards) \subseteq S
  BY <1>1, <1>2, ForwardsWithin
<1>7. StatusOutcome(n) = "up"
  BY <1>1, <1>4, <1>5 DEF StatusOutcome
<1>8. Closure(n, Forwards) \cup UNION {Closure(x, Asks) : x \in Closure(n, Forwards)} \in SUBSET S
  BY <1>5, <1>6
<1>9. ScheduleOutcome(n) = "up"
  BY <1>4, <1>8 DEF ScheduleOutcome
<1> QED BY <1>7, <1>9

-----------------------------------------------------------------------------
LEMMA RegistryAlways == Spec => [](RegistryInv /\ LibrariesHeld)
<1>1. Init => RegistryInv /\ LibrariesHeld
  BY InitRegistry, LibrariesInit
<1>2. RegistryInv /\ LibrariesHeld /\ [Next]_vars => (RegistryInv /\ LibrariesHeld)'
  BY NextRegistry, LibrariesStep
<1> QED BY <1>1, <1>2, PTL DEF Spec

\* parent_map and children_map hold the same edges, each as often, after every sequence
\* of accepted messages, for every number of batteries and of sources named in a
\* message (add_battery, add_edge).
THEOREM MapsStayAlike == Spec => []MapsAgree
<1>1. RegistryInv => MapsAgree
  BY DEF RegistryInv, Filed, MapsAgree
<1> QED BY <1>1, RegistryAlways, PTL

\* No sequence of accepted messages builds a cycle that a later message could go
\* round, though make_aggregator does not look at its sources: the one that would
\* close a cycle locks the server at once.  Every splitter is between one source
\* and the children attached to it.
THEOREM TopologyWellFounded == Spec => []WellFounded
<1>1. RegistryInv => WellFounded
  BY DEF RegistryInv, WellFounded
<1> QED BY <1>1, RegistryAlways, PTL

\* A message about a battery ends the server in no other case than the three that
\* earlier messages asked for: it is about a splitter, something was built on a
\* splitter, or a library was closed under its batteries (BALSplitter::get_status,
\* DynamicBattery::refresh).
THEOREM ServerSurvives == Spec => MessagesSurvived
<1> DEFINE Survives == \A n \in DOMAIN kind :
                         (GetStatus(n) \/ ScheduleSetCurrent(n)) /\ fate' # "up" =>
                             \/ kind[n] = "splitter"
                             \/ {"splitter as source", "symbols missing"} \cap sins # {}
<1>1. ASSUME RegistryInv, LibrariesHeld PROVE Survives
  <2> SUFFICES ASSUME NEW n \in DOMAIN kind, GetStatus(n) \/ ScheduleSetCurrent(n),
                      kind[n] # "splitter", {"splitter as source", "symbols missing"} \cap sins = {}
               PROVE  fate' = "up"
    OBVIOUS
  <2>1. fate = "up" /\ ~should_quit
    BY DEF GetStatus, ScheduleSetCurrent, Message
  <2>2. StatusOutcome(n) = "up" /\ ScheduleOutcome(n) = "up"
    BY <1>1, <2>1, CallsSurvive
  <2> QED BY <2>2 DEF GetStatus, ScheduleSetCurrent
<1>2. RegistryInv /\ LibrariesHeld => [Survives]_vars
  BY <1>1
<1>3. [](RegistryInv /\ LibrariesHeld) => [][Survives]_vars
  BY <1>2, PTL
<1> QED BY <1>3, RegistryAlways, PTL DEF MessagesSurvived
=============================================================================
