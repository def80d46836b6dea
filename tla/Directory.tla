------------------------------ MODULE Directory -----------------------------
(***************************************************************************)
(* The battery directory of V3 (BatteryDirectory.cpp and, on top of it,    *)
(* BatteryDirectoryManager.cpp): which batteries exist, what they are made *)
(* of, and how a battery goes together with everything built on it.        *)
(*                                                                         *)
(* The directory keeps the topology twice over, as lists of names in two   *)
(* graphs; the batteries keep it a third time, as pointers.  An object is  *)
(* a number here, so that a battery created again under an old name is     *)
(* another object.  Aggregates own their parents and managers their source *)
(* (shared_ptr); a manager only watches its partitions and a partition its *)
(* manager (weak_ptr).  The server calls the directory from one thread.    *)
(***************************************************************************)
EXTENDS Naturals, Sequences, SequencesExt, FiniteSetsExt

CONSTANTS
    Names,        \* the names users choose
    ManagerNames, \* the sequence "pManager1", "pManager2", ...
    MaxParents,   \* bound on the length of the list of parents
    MaxParts,     \* bound on the number of partitions of one source
    MaxMade,      \* bound on the number of objects made
    Careful       \* what is assumed of the callers, see Sensible

Cares == {"distinct parents", "new names", "no manager names", "none after the end"}

ASSUME DirectoryAssumption ==
    /\ IsInjective(ManagerNames)
    /\ MaxParents \in Nat /\ MaxParts \in Nat /\ MaxMade \in Nat
    /\ Careful \subseteq Cares

VARIABLES
    batteryMap,       \* name -> [type, id, parents, children], the last two objects
    childGraph,       \* name -> names of its parents, as often as they were given
    parentGraph,      \* name -> names of its children
    pManagerCounter,
    running,          \* the batteries whose current is not zero
    destroyed,
    exited,           \* ERROR() has ended the process
    made              \* number of objects made so far

vars == <<batteryMap, childGraph, parentGraph, pManagerCounter, running, destroyed, exited, made>>
dirVars == <<batteryMap, childGraph, parentGraph>>

AllNames == Names \cup Range(ManagerNames)
Empty == [x \in {} |-> << >>]

Init ==
    /\ batteryMap = Empty /\ childGraph = Empty /\ parentGraph = Empty
    /\ pManagerCounter = 1
    /\ running = {}
    /\ destroyed = FALSE /\ exited = FALSE
    /\ made = 0

-----------------------------------------------------------------------------
\* The operations of BatteryDirectory, on a directory d = [map, child, parent].
Here == [map |-> batteryMap, child |-> childGraph, parent |-> parentGraph]

Put(f, k, v) == [x \in DOMAIN f \cup {k} |-> IF x = k THEN v ELSE f[x]]
At(f, k) == IF k \in DOMAIN f THEN f[k] ELSE << >>

addBattery(d, name, battery) == [d EXCEPT !.map = Put(@, name, battery)]

\* Mutant: the edge is entered in one graph only.
addEdge_OneWay(d, p, c) == [d EXCEPT !.child = Put(@, c, Append(At(@, c), p))]

addEdge(d, p, c) ==
    [d EXCEPT !.child = Put(@, c, Append(At(@, c), p)),
              !.parent = Put(@, p, Append(At(@, p), c))]

\* Mutant: a battery may be built on twice.
canBeSource_Again(name) == name \in DOMAIN batteryMap

canBeSource(name) == name \in DOMAIN batteryMap /\ name \notin DOMAIN parentGraph

\* Mutant: the parents' lists keep the name.
unlinkChild_KeepsLists(d, n) ==
    [map |-> [x \in DOMAIN d.map \ {n} |-> d.map[x]],
     child |-> [x \in DOMAIN d.child \ {n} |-> d.child[x]],
     parent |-> [x \in DOMAIN d.parent \ {n} |-> d.parent[x]]]

\* Mutant: the name's own list of parents stays.
unlinkChild_KeepsParents(d, n) ==
    LET parents == Range(At(d.child, n))
        Others(p) == SelectSeq(d.parent[p], LAMBDA c : c # n)
    IN  [map |-> [x \in DOMAIN d.map \ {n} |-> d.map[x]],
         child |-> d.child,
         parent |-> [p \in {q \in DOMAIN d.parent \ {n} : q \in parents => Others(q) # << >>} |->
                       IF p \in parents THEN Others(p) ELSE d.parent[p]]]

\* The end of removeBattery: the name leaves its parents' lists, every occurrence
\* of it, lists that become empty are erased, and the battery goes.
unlinkChild(d, n) ==
    LET parents == Range(At(d.child, n))
        Others(p) == SelectSeq(d.parent[p], LAMBDA c : c # n)
    IN  [map |-> [x \in DOMAIN d.map \ {n} |-> d.map[x]],
         child |-> [x \in DOMAIN d.child \ {n} |-> d.child[x]],
         parent |-> [p \in {q \in DOMAIN d.parent \ {n} : q \in parents => Others(q) # << >>} |->
                       IF p \in parents THEN Others(p) ELSE d.parent[p]]]

\* removeBattery: first the children, in the order of the list as it was, giving
\* up at the first that is not there any more.
RECURSIVE removeBattery(_, _)
removeBattery(d, n) ==
    LET Done(x) == [dir |-> x, ok |-> TRUE]
        below == FoldLeft(LAMBDA r, c : IF r.ok THEN removeBattery(r.dir, c) ELSE r,
                          Done(d), At(d.parent, n))
    IN  IF n \notin DOMAIN d.map THEN [dir |-> d, ok |-> FALSE]
        ELSE IF below.ok THEN Done(unlinkChild(below.dir, n)) ELSE below

-----------------------------------------------------------------------------
Object(type, id, parents, children) ==
    [type |-> type, id |-> id, parents |-> parents, children |-> children]

Become(d) ==
    /\ batteryMap' = d.map /\ childGraph' = d.child /\ parentGraph' = d.parent
    /\ running' = running \cap {n \in DOMAIN d.map : n \in DOMAIN batteryMap}

\* (destroyDirectory leaves the graphs behind, so what is called after it meets
\* lists of batteries that are gone.)
Open == ~exited /\ ("none after the end" \in Careful => ~destroyed)
Ready == Open /\ made < MaxMade

\* The assumptions about callers under which the directory is kept in order.
Sensible(new, parents) ==
    /\ "distinct parents" \in Careful => IsInjective(parents)
    /\ "new names" \in Careful => IsInjective(new) /\ Range(new) \cap DOMAIN batteryMap = {}
    /\ "no manager names" \in Careful => Range(new) \cap Range(ManagerNames) = {}

\* createPhysicalBattery, createDynamicBattery and createSecureBattery differ in
\* the object they make only.
createPhysicalBattery(name) ==
    /\ Ready /\ Sensible(<<name>>, << >>)
    /\ name \notin DOMAIN batteryMap
    /\ Become(addBattery(Here, name, Object("Physical", made + 1, << >>, << >>)))
    /\ made' = made + 1
    /\ UNCHANGED <<pManagerCounter, destroyed, exited>>

\* createAggregateBattery looks at every parent in turn: it must exist, carry no
\* current and have nothing built on it yet.  (A call that is refused, for this
\* or for the name, changes nothing.)
createAggregateBattery(name, parents) ==
    /\ Ready /\ Sensible(<<name>>, parents)
    /\ parents # << >>
    /\ \A i \in DOMAIN parents : parents[i] \notin running /\ canBeSource(parents[i])
    /\ name \notin DOMAIN batteryMap
    /\ LET objects == [i \in DOMAIN parents |-> batteryMap[parents[i]].id]
           added == addBattery(Here, name, Object("Aggregate", made + 1, objects, << >>))
       IN  Become(FoldLeft(LAMBDA d, p : addEdge(d, p, name), added, parents))
    /\ made' = made + 1
    /\ UNCHANGED <<pManagerCounter, destroyed, exited>>

\* Mutant: the counter is not moved on.
createPartitionManagerName_First(k) == ManagerNames[1]

createPartitionManagerName(k) == ManagerNames[k]

\* createPartitionBattery.  The proportions are assumed to sum to one and the
\* lists to be of one length; the partitions and the manager, ids made + 1 and
\* on, exist before the first of them is entered, and entering stops at the
\* first partition whose name is taken, leaving what was entered before.
createPartitionBattery(source, names) ==
    /\ Ready /\ Sensible(names, << >>)
    /\ made + Len(names) + 1 <= MaxMade /\ pManagerCounter <= Len(ManagerNames)
    /\ canBeSource(source) /\ source \notin running
    /\ LET pManager == createPartitionManagerName(pManagerCounter)
           id == made + Len(names) + 1
           parts == [i \in DOMAIN names |-> made + i]
           manager == Object("PartitionManager", id, <<batteryMap[source].id>>, parts)
           Enter(r, i) ==
               IF ~r.ok \/ names[i] \in DOMAIN r.dir.map THEN [r EXCEPT !.ok = FALSE]
               ELSE [r EXCEPT !.dir = addEdge(addBattery(@, names[i],
                                 Object("Partition", made + i, <<id>>, << >>)), pManager, names[i])]
           entered == addEdge(addBattery(Here, pManager, manager), source, pManager)
       IN  IF pManager \in DOMAIN batteryMap
           THEN exited' = TRUE /\ UNCHANGED <<dirVars, running>>
           ELSE /\ Become(FoldLeftDomain(Enter, [dir |-> entered, ok |-> TRUE], names).dir)
                /\ UNCHANGED exited
    /\ pManagerCounter' = pManagerCounter + 1
    /\ made' = made + Len(names) + 1
    /\ UNCHANGED destroyed

\* The name of the object a partition points to, its manager.
getSourceName(name) ==
    CHOOSE m \in DOMAIN batteryMap : batteryMap[m].id = Head(batteryMap[name].parents)

\* Mutant: a partition is removed by itself.
Removal_ItselfOnly(name) == name

\* BatteryDirectoryManager::removeBattery: a partition goes with its manager,
\* and so with all partitions of the same source.
Removal(name) ==
    IF batteryMap[name].type = "Partition" THEN getSourceName(name) ELSE name

remove(name) ==
    /\ Open /\ name \in DOMAIN batteryMap
    /\ Become(removeBattery(Here, Removal(name)).dir)
    /\ UNCHANGED <<pManagerCounter, destroyed, exited, made>>

\* destroyDirectory: every battery quits, the map is cleared, the graphs are not.
destroyDirectory ==
    /\ ~exited /\ ~destroyed
    /\ batteryMap' = Empty /\ running' = {}
    /\ destroyed' = TRUE
    /\ UNCHANGED <<childGraph, parentGraph, pManagerCounter, exited, made>>

\* A battery's schedule switches its current on and off.
Switch(name) ==
    /\ ~exited
    /\ running' = IF name \in running THEN running \ {name} ELSE running \cup {name}
    /\ UNCHANGED <<dirVars, pManagerCounter, destroyed, exited, made>>

Lists(S, n) == UNION {[1 .. k -> S] : k \in 1 .. n}

Next ==
    \/ \E n \in Names : createPhysicalBattery(n)
    \/ \E n \in Names, ps \in Lists(DOMAIN batteryMap, MaxParents) : createAggregateBattery(n, ps)
    \/ \E s \in DOMAIN batteryMap, ns \in Lists(Names, MaxParts) : createPartitionBattery(s, ns)
    \/ \E n \in DOMAIN batteryMap : remove(n)
    \/ \E n \in DOMAIN batteryMap : Switch(n)
    \/ destroyDirectory

Spec == Init /\ [][Next]_vars

-----------------------------------------------------------------------------
Objects == {batteryMap[n].id : n \in DOMAIN batteryMap}

TypeOK ==
    /\ DOMAIN batteryMap \subseteq AllNames
    /\ \A n \in DOMAIN batteryMap :
         /\ batteryMap[n].type \in {"Physical", "Aggregate", "PartitionManager", "Partition"}
         /\ batteryMap[n].id \in 1 .. made
    /\ running \subseteq DOMAIN batteryMap
    /\ destroyed \in BOOLEAN /\ exited \in BOOLEAN /\ made \in 0 .. MaxMade

Occurs(s, x) == Cardinality({i \in DOMAIN s : s[i] = x})

\* Through any sequence of creations, failed creations and removals the two
\* graphs of BatteryDirectory stay each other's mirror image, speak of batteries
\* that exist and have no empty list, on which canBeSource relies.
GraphsMirror ==
    destroyed \/
    /\ DOMAIN childGraph \cup DOMAIN parentGraph \subseteq DOMAIN batteryMap
    /\ \A p, c \in DOMAIN batteryMap : Occurs(At(childGraph, c), p) = Occurs(At(parentGraph, p), c)
    /\ \A p \in DOMAIN parentGraph : parentGraph[p] # << >>

\* The graphs say what the batteries' own pointers say: the batteries schedule_
\* set_current of a battery goes on to are, object by object, those removeBattery
\* takes it away with, and each is older, so that commands travel up and end.
PointersMatchGraph ==
    \A n \in DOMAIN batteryMap :
        LET b == batteryMap[n] IN
        destroyed \/
        /\ Len(b.parents) = Len(At(childGraph, n))
        /\ \A i \in DOMAIN b.parents :
             /\ batteryMap[childGraph[n][i]].id = b.parents[i]
             /\ b.type = "Partition" \/ b.parents[i] < b.id

\* No two virtual batteries share a battery: only a manager has more than one
\* child, so that nobody else schedules currents on a source one has been given.
ExclusiveSource ==
    \A n \in DOMAIN parentGraph : n \in DOMAIN batteryMap =>
        batteryMap[n].type = "PartitionManager" \/ Len(parentGraph[n]) = 1

\* Every partition a manager watches is alive: refreshProportional of the manager
\* uses the pointers without looking whether they have expired.
Owned == UNION {Range(batteryMap[n].parents) : n \in {m \in DOMAIN batteryMap :
                    batteryMap[m].type \in {"Aggregate", "PartitionManager"}}}
ChildrenAlive ==
    \A n \in DOMAIN batteryMap : Range(batteryMap[n].children) \subseteq Objects \cup Owned

\* What a removal should take with it: all that is built on the battery, directly
\* or not, which is the smallest set with the battery that is closed under children.
Below(name) ==
    LET Closed(S) == \A p \in S : Range(At(parentGraph, p)) \subseteq S
    IN  {n \in DOMAIN batteryMap :
           \A S \in SUBSET DOMAIN batteryMap : (name \in S /\ Closed(S)) => n \in S}

\* removeBattery takes away the battery (a partition: its manager) and exactly
\* what is built on it.
RemovesAllBelow ==
    [][\A n \in DOMAIN batteryMap :
          remove(n) => DOMAIN batteryMap' = DOMAIN batteryMap \ Below(Removal(n))]_vars

\* The partitions of a source come and go together: removing one of them never
\* leaves a sibling behind, with a share of a source that has lost its manager.
SiblingsTogether ==
    \A n \in DOMAIN batteryMap : batteryMap[n].type = "Partition" =>
        \E m \in DOMAIN batteryMap :
            /\ batteryMap[m].type = "PartitionManager"
            /\ batteryMap[m].id = Head(batteryMap[n].parents)
            /\ Range(batteryMap[m].children) \subseteq Objects

\* The error the code says it never hits is not hit.
NeverExits == ~exited

\* The two graphs and the batteries' own pointers are one topology, of batteries
\* that exist, through any sequence of creations, failed creations and removals;
\* and the process is not ended by a name that clashes.
TopologyAgrees == TypeOK /\ GraphsMirror /\ PointersMatchGraph /\ NeverExits

\* A source belongs to one battery or one manager, and the partitions of a manager
\* live and go together with it.
FamiliesWhole == ExclusiveSource /\ ChildrenAlive /\ SiblingsTogether
=============================================================================
