------------------------------ MODULE Registry ------------------------------
(***************************************************************************)
(* Version 2: the directory of batteries (BOSDirectory.hpp), the manager   *)
(* that fills it (BOS.cpp) and the messages of clients that use both       *)
(* (ProtobufMsg.cpp).  One thread handles one message after the other, so  *)
(* a step is a whole message.  What is hard is what a sequence of accepted *)
(* messages leaves behind: the manager checks little of what it is given.  *)
(*                                                                         *)
(* The server ends a message in one of four ways: it stays "up", it calls  *)
(* ERROR, which exits, it is "stuck" locking a mutex it holds, or its      *)
(* behaviour is "undefined" because it calls into an unloaded library or   *)
(* through a null pointer.                                                 *)
(***************************************************************************)
EXTENDS Naturals, Sequences, FiniteSets, SequencesExt

CONSTANTS Names, Libs,
          MaxSources,  \* most sources of an aggregator
          MaxMessages

ASSUME RegistryAssumption == IsFiniteSet(Names) /\ MaxSources \in Nat /\ MaxMessages \in Nat

VARIABLES
    kind,      \* name_storage_map: the batteries by name
    parents,   \* parent_map
    children,  \* children_map
    policy,    \* the splitter a splitted battery is attached to
    lib,       \* the library of a dynamic battery
    loaded,    \* loaded_dynamic_libs
    mapped,    \* the libraries dlopen has mapped
    fate,
    should_quit,
    messages,
    sins       \* history: what messages asked for that nothing checks

vars == <<kind, parents, children, policy, lib, loaded, mapped, fate, should_quit, messages, sins>>
edges == <<parents, children>>
libVars == <<lib, loaded, mapped>>

Kinds == {"leaf", "aggregator", "splitter", "splitted", "dynamic"}
Exists(n) == n \in DOMAIN kind
OfKind(k) == {n \in DOMAIN kind : kind[n] = k}
Sources == SeqOf(Names, MaxSources)

With(f, n, v) == [x \in DOMAIN f \cup {n} |-> IF x = n THEN v ELSE f[x]]

Init ==
    /\ kind = <<>> /\ parents = <<>> /\ children = <<>>
    /\ policy = <<>> /\ lib = <<>> /\ loaded = {} /\ mapped = {}
    /\ fate = "up" /\ should_quit = FALSE /\ messages = 0 /\ sins = {}

-----------------------------------------------------------------------------
(***************************************************************************)
(* Calls that go through the topology.                                     *)
(***************************************************************************)
\* get_status_of: an ACTIVE splitter has computed the status of its child, one that
\* is LAZY (start_background_refresh refuses periods under 100 ms) asks its source.
get_status_of(splitter) == Range(parents[splitter])

\* Mutant: a splitted battery asks for the status of its splitter.
Asks_Splitter(n) ==
    CASE kind[n] = "aggregator" -> Range(parents[n])
      [] kind[n] = "splitted" -> {policy[n]}
      [] OTHER -> {}

\* The batteries whose get_status a get_status of n may call: an aggregator asks
\* its parents when its status is stale, a splitted battery its splitter.
Asks(n) ==
    CASE kind[n] = "aggregator" -> Range(parents[n])
      [] kind[n] = "splitted" -> get_status_of(policy[n])
      [] OTHER -> {}

\* The batteries a schedule_set_current of n reaches: an aggregator forwards to
\* its parents, a splitted battery to the source of its splitter.
Forwards(n) ==
    CASE kind[n] = "aggregator" -> Range(parents[n])
      [] kind[n] = "splitted" -> Range(parents[policy[n]])
      [] OTHER -> {}

\* The batteries a chain of such calls from n may reach: the smallest set that has
\* n and, with a battery, those it goes on to.
Closure(n, Step(_)) ==
    {x \in DOMAIN kind : \A S \in SUBSET DOMAIN kind :
        n \in S /\ (\A y \in S : Step(y) \subseteq S) => x \in S}

\* get_status and schedule_set_current of a splitter itself are errors; those of
\* a dynamic battery call functions of its library.
Outcome(reached) ==
    IF \E x \in reached : kind[x] = "splitter" THEN "exited"
    ELSE IF \E x \in reached : kind[x] = "dynamic" /\ lib[x] \notin mapped THEN "undefined"
    ELSE "up"

StatusOutcome(n) == Outcome(Closure(n, Asks))
ScheduleOutcome(n) == Outcome(Closure(n, Forwards) \cup UNION {Closure(x, Asks) : x \in Closure(n, Forwards)})

-----------------------------------------------------------------------------
(***************************************************************************)
(* Admin messages.                                                         *)
(***************************************************************************)
Message ==
    /\ fate = "up" /\ ~should_quit
    /\ messages < MaxMessages /\ messages' = messages + 1

\* Mutant: no entry in children_map.
AddBattery_Childless(n, k) ==
    /\ kind' = With(kind, n, k)
    /\ parents' = With(parents, n, <<>>)
    /\ UNCHANGED children

\* BOSDirectory::add_battery, of a new name.
AddBattery(n, k) ==
    /\ kind' = With(kind, n, k)
    /\ parents' = With(parents, n, <<>>)
    /\ children' = With(children, n, <<>>)

\* A battery without sources; if the name is taken nothing happens.
MakeLeaf(n) ==
    /\ Message
    /\ ~Exists(n) /\ AddBattery(n, "leaf")
    /\ UNCHANGED <<policy, libVars, fate, should_quit, sins>>

make_null(n) == MakeLeaf(n)
make_pseudo(n) == MakeLeaf(n)
make_networked_battery(n) == MakeLeaf(n)

\* The constructor of JBDBMS writes to its parameter pconnection after it has moved
\* it into the member of the same name: a null pointer.  In a build without Python
\* the constructor of RD6006PowerSupply has called ERROR before.
JBDBMS == {"exited", "undefined"}

make_JBDBMS(n) ==
    /\ Message
    /\ ~Exists(n) /\ fate' \in JBDBMS
    /\ UNCHANGED <<kind, edges, policy, libVars, should_quit, sins>>

\* Mutant: only one side of an edge is entered.
add_edge_OneSided(from, to, maps) ==
    IF {from, to} \subseteq DOMAIN maps.parents
    THEN [parents |-> [maps.parents EXCEPT ![to] = Append(@, from)], children |-> maps.children]
    ELSE maps

\* An end that is not in the directory: nothing is entered.
add_edge(from, to, maps) ==
    IF {from, to} \subseteq DOMAIN maps.parents
    THEN [parents |-> [maps.parents EXCEPT ![to] = Append(@, from)],
          children |-> [maps.children EXCEPT ![from] = Append(@, to)]]
    ELSE maps

\* One add_edge after the other.
add_edges(links, maps) ==
    LET after[i \in 0 .. Len(links)] ==
          IF i = 0 THEN maps ELSE add_edge(links[i][1], links[i][2], after[i - 1])
    IN  after[Len(links)]

\* make_aggregator: the sources are not looked at before the aggregator is in
\* the directory.  add_edge locks the virtual batteries at both ends of an edge.
make_aggregator(n, sources) ==
    /\ Message /\ ~Exists(n)
    /\ LET maps == add_edges([i \in DOMAIN sources |-> <<sources[i], n>>],
                             [parents |-> With(parents, n, <<>>), children |-> With(children, n, <<>>)])
       IN  /\ kind' = With(kind, n, "aggregator")
           /\ parents' = maps.parents /\ children' = maps.children
    /\ fate' = IF n \in Range(sources) THEN "stuck" ELSE "up"
    /\ sins' = sins \cup {s \in {"unknown source", "splitter as source"} :
                            CASE s = "unknown source" -> ~(Range(sources) \subseteq DOMAIN kind)
                              [] OTHER -> Range(sources) \cap OfKind("splitter") # {}}
    /\ UNCHANGED <<policy, libVars, should_quit>>

\* Mutant: the names of the children are not checked.
SplitterChecked_AnyChildren(n, source, names) == ~Exists(n) /\ Exists(source)

\* What make_splitter checks; that the scales add up to 1 is left out.
SplitterChecked(n, source, names) ==
    /\ ~Exists(n) /\ Exists(source)
    /\ \A c \in Range(names) : ~Exists(c)

attach_to_policy(names, n) == [x \in DOMAIN policy \cup names |-> IF x \in names THEN n ELSE policy[x]]

\* make_splitter.  The children are entered first; the splitter's constructor asks
\* the source for its status; then the edges are entered and the children attached.
\* A child with the splitter's own name keeps the splitter out, and add_edge
\* locks it twice.
make_splitter(n, source, names) ==
    /\ Message
    /\ SplitterChecked(n, source, names)
    /\ LET new == Range(names) \cup {n}
           entered == [parents |-> [x \in DOMAIN parents \cup new |-> IF x \in new THEN <<>> ELSE parents[x]],
                       children |-> [x \in DOMAIN children \cup new |-> IF x \in new THEN <<>> ELSE children[x]]]
           maps == add_edges(<<<<source, n>>>> \o [i \in DOMAIN names |-> <<n, names[i]>>], entered)
       IN  /\ kind' = [x \in DOMAIN kind \cup new |->
                         IF x \in Range(names) THEN "splitted"
                         ELSE IF x = n THEN "splitter" ELSE kind[x]]
           /\ parents' = maps.parents /\ children' = maps.children
           /\ policy' = attach_to_policy(Range(names), n)
    /\ \E stale \in BOOLEAN :
          fate' = CASE kind[source] = "splitter" -> "exited"
                    [] stale /\ StatusOutcome(source) # "up" -> StatusOutcome(source)
                    [] n \in Range(names) -> "stuck"
                    [] OTHER -> "up"
    /\ sins' = sins \cup (IF Cardinality(Range(names)) < Len(names) THEN {"twin children"} ELSE {})
    /\ UNCHANGED <<libVars, should_quit>>

\* make_dynamic.  The library is opened if it is not in loaded_dynamic_libs;
\* `symbols' are found in it or not, the plug-in's init function succeeds or not,
\* and only then the name is checked, by add_battery.
LoadFails(l) == l \notin loaded /\ UNCHANGED <<loaded, mapped>>
SymbolsMissing(l) == mapped' = mapped \ {l} /\ UNCHANGED loaded
Loaded(l) == mapped' = mapped \cup ({l} \ loaded) /\ loaded' = loaded \cup {l}

\* Mutant: the handle is closed when init fails, too.
InitFails_Closes(l) == mapped' = mapped \ {l} /\ loaded' = loaded \cup {l}

\* The init function fails, or the name is taken: the library stays.
InitFails(l) == Loaded(l)

DynamicBattery(n, l) == AddBattery(n, "dynamic") /\ lib' = With(lib, n, l)

make_dynamic(n, l) ==
    /\ Message
    /\ IF l \in loaded \ mapped
       THEN fate' = "undefined" /\ UNCHANGED <<kind, edges, libVars, sins>>   \* dlsym of a closed handle
       ELSE /\ UNCHANGED fate
            /\ \/ LoadFails(l) /\ UNCHANGED <<kind, edges, lib, sins>>
               \/ /\ SymbolsMissing(l)
                  /\ sins' = IF l \in loaded THEN sins \cup {"symbols missing"} ELSE sins
                  /\ UNCHANGED <<kind, edges, lib>>
               \/ InitFails(l) /\ UNCHANGED <<kind, edges, lib, sins>>
               \/ /\ Loaded(l) /\ ~Exists(n)
                  /\ DynamicBattery(n, l)
                  /\ UNCHANGED sins
    /\ UNCHANGED <<policy, should_quit>>

\* remove_battery: of an unknown or a splitted battery nothing; it is not
\* implemented for any other, which is an error.
remove_battery(n) ==
    /\ Message
    /\ fate' = IF ~Exists(n) \/ kind[n] = "splitted" THEN "up" ELSE "exited"
    /\ UNCHANGED <<kind, edges, policy, libVars, should_quit, sins>>

\* Shutdown: notify_should_quit, then dir.quit() calls the cleanup functions of
\* dynamic batteries, and dlclose of every handle.
Shutdown ==
    /\ Message
    /\ should_quit' = TRUE
    /\ fate' = IF \E n \in OfKind("dynamic") : lib[n] \notin mapped THEN "undefined" ELSE "up"
    /\ mapped' = {}
    /\ UNCHANGED <<kind, edges, policy, lib, loaded, sins>>

-----------------------------------------------------------------------------
\* Battery messages.  A status that is not stale is answered from the cache, but
\* a splitter's get_status is an error in any case.
GetStatus(n) ==
    /\ Message /\ Exists(n)
    /\ \E stale \in BOOLEAN :
          fate' = IF stale \/ kind[n] = "splitter" THEN StatusOutcome(n) ELSE "up"
    /\ UNCHANGED <<kind, edges, policy, libVars, should_quit, sins>>

ScheduleSetCurrent(n) ==
    /\ Message /\ Exists(n)
    /\ fate' = ScheduleOutcome(n)
    /\ UNCHANGED <<kind, edges, policy, libVars, should_quit, sins>>

Done == fate # "up" \/ should_quit \/ messages = MaxMessages

Next ==
    \/ \E n \in Names :
          \/ make_null(n) \/ make_pseudo(n) \/ make_JBDBMS(n) \/ make_networked_battery(n)
          \/ \E s \in Sources : make_aggregator(n, s)
          \/ \E s \in Names, c, d \in Names : make_splitter(n, s, <<c, d>>)
          \/ \E l \in Libs : make_dynamic(n, l)
          \/ remove_battery(n) \/ GetStatus(n) \/ ScheduleSetCurrent(n)
    \/ Shutdown
    \/ Done /\ UNCHANGED vars

Spec == Init /\ [][Next]_vars

-----------------------------------------------------------------------------
\* The maps have the shape of the directory's members.
TypeOK ==
    /\ DOMAIN kind \subseteq Names /\ \A n \in DOMAIN kind : kind[n] \in Kinds
    /\ DOMAIN parents = DOMAIN kind /\ DOMAIN children = DOMAIN kind
    /\ \A n \in DOMAIN kind : parents[n] \in Seq(DOMAIN kind) /\ children[n] \in Seq(DOMAIN kind)
    /\ DOMAIN lib = OfKind("dynamic") /\ loaded \subseteq Libs /\ mapped \subseteq Libs
    /\ fate \in {"up", "exited", "stuck", "undefined"} /\ should_quit \in BOOLEAN

Times(s, x) == Cardinality({i \in DOMAIN s : s[i] = x})

\* parent_map and children_map say the same, whatever was created in whatever
\* order and however often a source was named (add_edge).
MapsMirror ==
    fate = "up" =>
        \A p, c \in DOMAIN kind : Times(parents[c], p) = Times(children[p], c)

\* Only what is computed on the fly has parents, and nothing is below itself, for any
\* batteries there are have one among them whose parents are not: a call that goes
\* through the topology comes to an end.
Acyclic ==
    fate = "up" =>
        /\ \A n \in DOMAIN kind : kind[n] \in {"leaf", "dynamic"} => parents[n] = <<>>
        /\ \A S \in SUBSET DOMAIN kind : S # {} => \E n \in S : Range(parents[n]) \cap S = {}

\* The children of a splitter are attached to it, it has one source, and no child
\* has two splitters, unless a message named one child twice.
SplittersWhole ==
    fate = "up" =>
        /\ \A s \in OfKind("splitter") : Len(parents[s]) = 1
        /\ \A s \in OfKind("splitter") : \A c \in Range(children[s]) :
              kind[c] = "splitted" => policy[c] = s
        /\ \A c \in OfKind("splitted") :
              kind[policy[c]] = "splitter"
              /\ (parents[c] = <<policy[c]>> \/ "twin children" \in sins)

\* The code of a dynamic battery stays mapped as long as the server runs, unless a
\* later creation from the same library missed a symbol: that one closes the handle.
LibraryKept ==
    fate = "up" /\ ~should_quit /\ "symbols missing" \notin sins =>
        /\ \A n \in OfKind("dynamic") : lib[n] \in mapped
        /\ loaded \subseteq mapped

\* The server survives every message about batteries unless one asks for a
\* splitter itself, or an aggregator is built on one, or a library has been closed
\* under its batteries (BALSplitter::get_status, DynamicBattery).
MessagesSurvived ==
    [][\A n \in DOMAIN kind :
         (GetStatus(n) \/ ScheduleSetCurrent(n)) /\ fate' # "up" =>
             \/ kind[n] = "splitter"
             \/ {"splitter as source", "symbols missing"} \cap sins # {}]_vars

\* The directory's three maps speak of the same batteries and the same edges.
MapsAgree == TypeOK /\ MapsMirror

\* Every call that goes through the topology ends, and finds each splitter between
\* its source and its children.
WellFounded == Acyclic /\ SplittersWhole

-----------------------------------------------------------------------------
(***************************************************************************)
(* MapsAgree and WellFounded as an inductive invariant.                    *)
(***************************************************************************)
Filed ==
    /\ TypeOK
    /\ parents \in [DOMAIN kind -> Seq(DOMAIN kind)] /\ children \in [DOMAIN kind -> Seq(DOMAIN kind)]
    /\ DOMAIN policy = OfKind("splitted") /\ \A c \in DOMAIN policy : policy[c] \in DOMAIN kind

\* Nothing is computed from a splitter itself, unless a message asked for that.
SourcesSound ==
    fate = "up" =>
        /\ \A s \in OfKind("splitter") : Range(parents[s]) \cap OfKind("splitter") = {}
        /\ "splitter as source" \notin sins =>
             \A a \in OfKind("aggregator") : Range(parents[a]) \cap OfKind("splitter") = {}

RegistryInv == Filed /\ MapsMirror /\ Acyclic /\ SplittersWhole /\ SourcesSound
=============================================================================
