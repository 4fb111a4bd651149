---------------------------- MODULE GraphColoring ----------------------------
(***************************************************************************)
(* The approximation of the graph coloring problem of dydisnix-graphcol    *)
(* (src/src/graphcol): services are nodes, dependencies are links, target  *)
(* machines are colors.  Following DSATUR, it colors the nodes one by one  *)
(* with the lowest color that no linked node has, so that all dependencies *)
(* become network links, and maps every service to the machine of its      *)
(* color.                                                                  *)
(*                                                                         *)
(* Data abstraction: dependsOn and connectsTo are one relation; all        *)
(* machines have a hostname, the property that the result refers to.       *)
(***************************************************************************)
EXTENDS Integers, Sequences, FiniteSets

CONSTANTS
    Services,  \* service names
    Hostnames, \* hostnames of machines
    Rank,      \* the order in which an ordered iteration visits services
    Inputs,    \* what the program may be given
    NoNode,    \* NULL in nodes_ordered_by_degree
    NoHost     \* no entry in the result table

(* The services of the services model, what they depend on, the hostnames   *)
(* of the target machines in the order of the names of the machines, and    *)
(* whether both models can be opened.                                       *)
InputType ==
    [ services  : SUBSET Services,
      deps      : [Services -> SUBSET Services],
      hostnames : Seq(Hostnames),
      readable  : BOOLEAN ]

ASSUME ValueAssumption ==
    /\ IsFiniteSet(Services)
    /\ NoNode \notin Services /\ NoHost \notin Hostnames

(* Names are ordered, and no service depends on itself. *)
ASSUME InputAssumption ==
    /\ Rank \in [Services -> Nat]
    /\ \A s, t \in Services : Rank[s] = Rank[t] => s = t
    /\ \A in \in Inputs :
        /\ in.services \in SUBSET Services
        /\ in.deps \in [Services -> SUBSET Services]
        /\ in.hostnames \in Seq(Hostnames)
        /\ in.readable \in BOOLEAN
        /\ \A s \in Services : s \notin in.deps[s]

VARIABLES
    input,   \* what the program was given
    pc,      \* where the process is
    colored, \* the keys of colored_nodes_table
    color,   \* the value of every node
    ordered, \* nodes_ordered_by_degree
    result,  \* result_table; NoHost for a service without an entry
    status   \* "running", "ok", "error", or "aborted" by a segmentation fault

vars == <<input, pc, colored, color, ordered, result, status>>

-----------------------------------------------------------------------------
(* The graph.  A link is bidirectional; when two services depend on each    *)
(* other they are linked twice, and both links count in a degree.           *)

Linked(s, t) == t \in input.deps[s] \/ s \in input.deps[t]

LinksTo(s, S) ==
    Cardinality(input.deps[s] \cap S) + Cardinality({t \in S : s \in input.deps[t]})

Degree(s)     == LinksTo(s, input.services)
Saturation(s) == LinksTo(s, colored)
Uncolored     == input.services \ colored

(* order_nodes_by_degree: by degree, and by name when degrees are equal.    *)
Before(s, t) ==
    \/ Degree(s) > Degree(t)
    \/ Degree(s) = Degree(t) /\ Rank[s] < Rank[t]
Position(s)  == Cardinality({t \in input.services : Before(t, s)}) + 1
OrderedNodes ==
    [i \in 1 .. Cardinality(input.services) |->
        CHOOSE s \in input.services : Position(s) = i]

(* find_node_with_highest_degree: the first entry that is not NULL. *)
HighestDegree(s) ==
    \E i \in DOMAIN ordered :
        ordered[i] = s /\ \A j \in 1 .. (i - 1) : ordered[j] = NoNode

(* find_node_with_unique_maximal_saturation_degree *)
MaximalSaturation == {s \in Uncolored : \A t \in Uncolored : Saturation(t) <= Saturation(s)}
HasUniqueMaximum  == Cardinality(MaximalSaturation) = 1

(* select_node_to_color *)
Selected(s) == IF HasUniqueMaximum THEN s \in MaximalSaturation ELSE HighestDegree(s)

(* Mutants of Taken: the color of a linked node is only looked at in one    *)
(* direction; the color of the node itself is taken.                        *)
TakenByDependency(s, c) == \E t \in colored \cap input.deps[s] : color[t] = c

TakenBySelf(s, c) == \E t \in colored : (Linked(s, t) \/ s = t) /\ color[t] = c

(* has_colored_adjacent_node *)
Taken(s, c) == \E t \in colored : Linked(s, t) /\ color[t] = c

Colors == 0 .. (Len(input.hostnames) - 1)

(* Mutants of Lowest: any color that is not taken; one color is spared. *)
AnyFree(s, c) == c \in Colors /\ ~Taken(s, c)
SparingLowest(s, c) ==
    /\ c \in Colors \ {0} /\ ~Taken(s, c)
    /\ \A d \in Colors \ {0} : d < c => Taken(s, d)

(* pick_lowest_possible_color *)
Lowest(s, c) == c \in Colors /\ ~Taken(s, c) /\ \A d \in Colors : d < c => Taken(s, d)

-----------------------------------------------------------------------------
(* The process *)

Init ==
    /\ input \in Inputs
    /\ pc = "open"
    /\ colored = {}
    /\ color = [s \in Services |-> 0]
    /\ ordered = <<>>
    /\ result = [s \in Services |-> NoHost]
    /\ status = "running"

Closed == \A s \in input.services : input.deps[s] \subseteq input.services

End(outcome) ==
    /\ status' = outcome
    /\ pc' = "done"
    /\ UNCHANGED <<input, colored, color, ordered, result>>

FailToOpenModels == pc = "open" /\ ~input.readable /\ End("error")

(* generate_uncolored_graph, and step 1. *)
GenerateGraph ==
    /\ pc = "open" /\ input.readable /\ Closed
    /\ pc' = "order"
    /\ ordered' = OrderedNodes
    /\ UNCHANGED <<input, colored, color, result, status>>

(* A dependency is not a service of the model: its node is a NULL pointer. *)
AbortOnDependency == pc = "open" /\ input.readable /\ ~Closed /\ End("aborted")

(* There is no node to begin with. *)
FailWithoutServices == pc = "order" /\ input.services = {} /\ End("error")

(* Mutant: the color is stored under the wrong index. *)
ColorTooHigh(s, c) ==
    /\ color' = [color EXCEPT ![s] = c + 1]
    /\ colored' = colored \cup {s}
    /\ ordered' = [ordered EXCEPT ![c + 1] = NoNode]

(* assign_color.  The entry that becomes NULL is the one at the index of    *)
(* the color, whichever node that is.                                       *)
AssignColor(s, c) ==
    /\ color' = [color EXCEPT ![s] = c]
    /\ colored' = colored \cup {s}
    /\ ordered' = [ordered EXCEPT ![c + 1] = NoNode]

(* Step 2 of approximate_graph_coloring_dsatur: the first color is given    *)
(* without a look at the number of colors.                                  *)
ColorFirst(s) ==
    /\ pc = "order" /\ HighestDegree(s)
    /\ AssignColor(s, 0)
    /\ pc' = "color"
    /\ UNCHANGED <<input, result, status>>

Coloring == pc = "color" /\ Uncolored # {}

(* Steps 3 and 4.  The selected node may be one that has a color already. *)
ColorNext(s, c) ==
    /\ Coloring /\ Selected(s) /\ Lowest(s, c)
    /\ AssignColor(s, c)
    /\ UNCHANGED <<input, pc, result, status>>

(* Not enough target machines are available. *)
GiveUp(s) ==
    /\ Coloring /\ Selected(s)
    /\ \A c \in Colors : Taken(s, c)
    /\ End("error")

(* Step 5 *)
FinishColoring ==
    /\ pc = "color" /\ Uncolored = {}
    /\ pc' = "convert"
    /\ UNCHANGED <<input, colored, color, ordered, result, status>>

(* The next node of convert_colored_graph_to_distribution_table. *)
Convert(s) ==
    /\ pc = "convert" /\ s \in colored /\ result[s] = NoHost
    /\ color[s] \in Colors
    /\ result' = [result EXCEPT ![s] = input.hostnames[color[s] + 1]]
    /\ UNCHANGED <<input, pc, colored, color, ordered, status>>

(* The color is beyond the end of the array of colors. *)
AbortOnColor(s) ==
    /\ pc = "convert" /\ s \in colored /\ result[s] = NoHost
    /\ color[s] \notin Colors
    /\ End("aborted")

(* Mutant: a part of the result is printed. *)
PrintPart == pc = "convert" /\ (\E s \in colored : result[s] # NoHost) /\ End("ok")

PrintDistribution ==
    pc = "convert" /\ (\A s \in colored : result[s] # NoHost) /\ End("ok")

Next ==
    \/ FailToOpenModels \/ GenerateGraph \/ AbortOnDependency
    \/ FailWithoutServices
    \/ \E s \in Services : ColorFirst(s) \/ GiveUp(s)
    \/ \E s \in Services, c \in Colors : ColorNext(s, c)
    \/ FinishColoring
    \/ \E s \in Services : Convert(s) \/ AbortOnColor(s)
    \/ PrintDistribution

Spec == Init /\ [][Next]_vars

(* The program is one sequential process. *)
FairSpec == Spec /\ WF_vars(Next)

-----------------------------------------------------------------------------
(* Properties *)

(* A color beyond the machines is only ever 0, of a model without machines. *)
TypeOK ==
    /\ pc \in {"open", "order", "color", "convert", "done"}
    /\ colored \in SUBSET input.services
    /\ color \in [Services -> Colors \cup {0}]
    /\ ordered \in Seq(input.services \cup {NoNode})
    /\ result \in [Services -> Hostnames \cup {NoHost}]
    /\ status \in {"running", "ok", "error", "aborted"}

(* All dependencies become network links: services that are linked are      *)
(* never mapped to the same machine (README, "try to manifest all           *)
(* dependencies as network links between machines").                        *)
DistinctHostnames ==
    \A c, d \in Colors : input.hostnames[c + 1] = input.hostnames[d + 1] => c = d

DependenciesAreLinks ==
    DistinctHostnames =>
        \A s, t \in Services :
            Linked(s, t) /\ result[s] # NoHost => result[s] # result[t]

(* A node keeps its color, although the loop selects nodes again that have  *)
(* one, and their linked nodes got colors in the meantime.                  *)
ColorsAreKept == [][\A s \in colored : s \in colored' /\ color'[s] = color[s]]_vars

(* The greedy bound: the program gives up only if a service is linked with  *)
(* at least as many services as there are machines, and a color is never    *)
(* higher than the number of services its node is linked with.              *)
Neighbors(s) == {t \in input.services : Linked(s, t)}

GreedyBound ==
    /\ \A s \in colored : color[s] <= Cardinality(Neighbors(s))
    /\ pc = "done" /\ status = "error" /\ colored # {} =>
           \E s \in input.services : Cardinality(Neighbors(s)) >= Len(input.hostnames)

(* Consistent models never lead to memory that is not there: neither beyond *)
(* the end of nodes_ordered_by_degree, nor of the colors, nor at NULL: the  *)
(* selection always finds a node.                                           *)
Consistent == input.readable /\ Closed /\ input.services # {} /\ input.hostnames # <<>>

StaysInMemory ==
    Consistent =>
        /\ \A s \in colored : color[s] + 1 \in DOMAIN ordered
        /\ Coloring => \E s \in Services : Selected(s)
        /\ status # "aborted"

(* The coloring maps services to machines as every division method does.    *)
Phase == INSTANCE DivisionPhase WITH
    Targets <- Hostnames,
    candidates <- [s \in Services |->
                      IF s \in input.services THEN {input.hostnames[c + 1] : c \in Colors} ELSE {}],
    chosen <- [s \in Services |-> IF result[s] = NoHost THEN {} ELSE {result[s]}],
    outcome <- IF status \in {"running", "ok"} THEN status ELSE "failed"

ColorsAsDivision == Phase!Spec

(* "If all the vertices are colored stop": the loop selects nodes that are  *)
(* not colored yet, and comes to an end.                                    *)
ColoringEnds == Consistent ~> pc = "done"
=============================================================================
