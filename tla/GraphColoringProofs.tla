------------------------- MODULE GraphColoringProofs -------------------------
(***************************************************************************)
(* Proofs about GraphColoring: whatever the dependencies and however often *)
(* nodes are selected again, linked services get different machines, nodes *)
(* keep their colors, the greedy bound holds, and the program implements   *)
(* DivisionPhase.                                                          *)
(***************************************************************************)
EXTENDS GraphColoring, FiniteSetTheorems, WellFoundedInduction, TLAPS

(* The input never changes, everything is well typed, and colors are only   *)
(* given after the graph has been generated, and to all nodes before the    *)
(* conversion.                                                              *)
TypeInv ==
    /\ input \in Inputs
    /\ TypeOK
    /\ pc \in {"open", "order"} => colored = {}
    /\ pc = "convert" => colored = input.services
    /\ pc = "done" <=> status # "running"

(* Linked nodes have different colors, and all lower colors are taken by    *)
(* linked nodes: the latter is why a node that is selected again gets the   *)
(* color that it already has.                                               *)
ColorInv ==
    /\ \A s, t \in colored : Linked(s, t) => color[s] # color[t]
    /\ \A s \in colored : \A d \in Nat : d < color[s] => Taken(s, d)

(* The entries of the result table are the machines of the colors. *)
ResultInv ==
    \A s \in Services : result[s] # NoHost =>
        /\ pc \in {"convert", "done"}
        /\ s \in colored /\ color[s] \in Colors
        /\ result[s] = input.hostnames[color[s] + 1]

Inv == TypeInv /\ ColorInv /\ ResultInv

-----------------------------------------------------------------------------
(* The parts of an input. *)
LEMMA InputTyped ==
    ASSUME NEW in \in Inputs
    PROVE  /\ in.services \in SUBSET Services /\ IsFiniteSet(in.services)
           /\ in.deps \in [Services -> SUBSET Services]
           /\ in.hostnames \in Seq(Hostnames)
           /\ \A s \in Services : s \notin in.deps[s]
    BY InputAssumption, ValueAssumption, FS_Subset

(* A degree is a number. *)
LEMMA DegreeTyped ==
    ASSUME input \in Inputs, NEW s \in Services
    PROVE  Degree(s) \in Nat
    <1>1. IsFiniteSet(input.services)
        BY InputTyped
    <1>2. /\ input.deps[s] \cap input.services \in SUBSET input.services
          /\ {t \in input.services : s \in input.deps[t]} \in SUBSET input.services
        OBVIOUS
    <1>3. /\ IsFiniteSet(input.deps[s] \cap input.services)
          /\ IsFiniteSet({t \in input.services : s \in input.deps[t]})
        BY <1>1, <1>2, FS_Subset
    <1> QED
        BY <1>3, FS_CardinalityType DEF Degree, LinksTo

(* The comparison of nodes is a strict total order. *)
LEMMA BeforeOrders ==
    ASSUME input \in Inputs
    PROVE  /\ \A s \in Services : ~Before(s, s)
           /\ \A s, t \in Services : s # t => Before(s, t) \/ Before(t, s)
           /\ \A s, t, u \in Services : Before(s, t) /\ Before(t, u) => Before(s, u)
    <1>1. \A s \in Services : Degree(s) \in Nat /\ Rank[s] \in Nat
        BY DegreeTyped, InputAssumption
    <1>2. \A s, t \in Services : Rank[s] = Rank[t] => s = t
        BY InputAssumption
    <1> QED
        BY <1>1, <1>2 DEF Before

(* Positions are numbered from one, in the order of the nodes. *)
LEMMA PositionIncreases ==
    ASSUME input \in Inputs
    PROVE  /\ \A s \in input.services : Position(s) \in 1 .. Cardinality(input.services)
           /\ \A s, t \in input.services : Before(s, t) => Position(s) < Position(t)
    <1> DEFINE S    == input.services
               P(s) == {t \in S : Before(t, s)}
    <1>1. S \in SUBSET Services /\ IsFiniteSet(S) /\ Cardinality(S) \in Nat
        BY InputTyped, FS_CardinalityType
    <1>2. \A s \in S : IsFiniteSet(P(s)) /\ Cardinality(P(s)) \in Nat
        BY <1>1, FS_Subset, FS_CardinalityType
    <1>p. \A s \in S : Position(s) = Cardinality(P(s)) + 1
        BY Zenon DEF Position
    <1> HIDE DEF P
    <1>3. ASSUME NEW s \in S PROVE Position(s) \in 1 .. Cardinality(S)
        <2>1. P(s) \in SUBSET S /\ s \notin P(s)
            BY <1>1, BeforeOrders DEF P
        <2>2. Cardinality(P(s)) <= Cardinality(S) /\ Cardinality(P(s)) # Cardinality(S)
            BY <1>1, <2>1, FS_Subset
        <2> QED
            BY <1>1, <1>2, <1>p, <2>2
    <1>4. ASSUME NEW s \in S, NEW t \in S, Before(s, t) PROVE Position(s) < Position(t)
        <2>1. P(s) \in SUBSET P(t) /\ s \in P(t) /\ s \notin P(s)
            BY <1>1, <1>4, BeforeOrders DEF P
        <2>2. Cardinality(P(s)) <= Cardinality(P(t)) /\ Cardinality(P(s)) # Cardinality(P(t))
            BY <1>2, <2>1, FS_Subset
        <2> QED
            BY <1>2, <1>p, <2>2
    <1> QED
        BY <1>3, <1>4

(* Sorting the nodes fills all entries of the array. *)
LEMMA OrderedNodesTyped ==
    ASSUME input \in Inputs
    PROVE  /\ OrderedNodes \in Seq(input.services)
           /\ OrderedNodes \in [1 .. Cardinality(input.services) -> input.services]
    <1> DEFINE S == input.services
               n == Cardinality(S)
               f == [s \in S |-> Position(s)]
    <1>1. S \in SUBSET Services /\ IsFiniteSet(S) /\ n \in Nat
        BY InputTyped, FS_CardinalityType
    <1>2. f \in [S -> 1 .. n]
        BY PositionIncreases
    <1>3. ASSUME NEW s \in S, NEW t \in S, s # t PROVE f[s] # f[t]
        <2>1. Before(s, t) \/ Before(t, s)
            BY <1>1, <1>3, BeforeOrders
        <2>2. f[s] \in Int /\ f[t] \in Int
            BY <1>2
        <2> QED
            BY <2>1, <2>2, PositionIncreases
    <1>4. f \in Injection(S, 1 .. n)
        BY <1>2, <1>3 DEF Injection, IsInjective
    <1>5. IsFiniteSet(1 .. n) /\ Cardinality(1 .. n) = n
        BY <1>1, FS_Interval
    <1>6. f \in Surjection(S, 1 .. n)
        BY <1>4, <1>5, FS_Injection
    <1>7. \A i \in 1 .. n : \E s \in S : Position(s) = i
        BY <1>6 DEF Surjection
    <1>8. OrderedNodes \in [1 .. n -> S]
        BY <1>7 DEF OrderedNodes
    <1> QED
        BY <1>1, <1>8

-----------------------------------------------------------------------------
(* A node gets the lowest color that no linked node has.  When it has a     *)
(* color already, the lower ones are still taken by linked nodes and its    *)
(* own still is not, so that it gets the same one.                          *)
LEMMA Assigned ==
    ASSUME Inv, NEW s \in input.services, NEW c \in Nat,
           ~Taken(s, c), \A d \in Nat : d < c => Taken(s, d),
           AssignColor(s, c), UNCHANGED input
    PROVE  /\ ColorInv'
           /\ \A t \in colored : t \in colored' /\ color'[t] = color[t]
    <1>1. /\ input.services \in SUBSET Services /\ colored \in SUBSET Services
          /\ color \in [Services -> Nat]
          /\ \A t \in Services : t \notin input.deps[t]
        BY InputTyped DEF Inv, TypeInv, TypeOK, Colors
    <1>2. /\ colored' = colored \cup {s} /\ color'[s] = c
          /\ \A t \in Services : t # s => color'[t] = color[t]
        BY <1>1 DEF AssignColor
    <1>3. s \in colored => color[s] = c
        <2> SUFFICES ASSUME s \in colored PROVE color[s] = c
            OBVIOUS
        <2>1. ~Taken(s, color[s])
            BY <1>1 DEF Inv, ColorInv, Taken
        <2>2. ~(color[s] < c)
            BY <1>1, <2>1
        <2>3. ~(c < color[s])
            BY DEF Inv, ColorInv
        <2> QED
            BY <1>1, <2>2, <2>3
    <1>4. \A t \in colored : t \in colored' /\ color'[t] = color[t]
        BY <1>1, <1>2, <1>3
    <1>5. \A x, y : (Linked(x, y)' <=> Linked(x, y)) /\ (Linked(x, y) <=> Linked(y, x))
        BY DEF Linked
    <1>6. \A x, d : Taken(x, d) => Taken(x, d)'
        BY <1>4, <1>5 DEF Taken
    <1>7. \A x, y \in colored' : Linked(x, y)' => color'[x] # color'[y]
        <2>1. \A y \in colored : Linked(s, y) => color[y] # c
            BY DEF Taken
        <2>2. ~Linked(s, s)
            BY <1>1 DEF Linked
        <2> QED
            BY <1>2, <1>4, <1>5, <2>1, <2>2 DEF Inv, ColorInv
    <1>8. \A x \in colored' : \A d \in Nat : d < color'[x] => Taken(x, d)'
        BY <1>2, <1>4, <1>6 DEF Inv, ColorInv
    <1> QED
        BY <1>4, <1>7, <1>8 DEF ColorInv

(* The nodes that the selection finds are nodes of the graph. *)
LEMMA SelectedListed ==
    ASSUME Inv, NEW s \in Services
    PROVE  (HighestDegree(s) => s \in input.services) /\ (Selected(s) => s \in input.services)
    <1>1. HighestDegree(s) => s \in input.services
        BY ValueAssumption DEF Inv, TypeInv, TypeOK, HighestDegree
    <1> QED
        BY <1>1 DEF Selected, MaximalSaturation, Uncolored

(* Both places that assign a color give a node of the graph the lowest one  *)
(* that is not taken.                                                       *)
LEMMA ColorsLowest ==
    ASSUME Inv, NEW s \in Services,
           ColorFirst(s) \/ \E c \in Colors : ColorNext(s, c)
    PROVE  \E c \in Colors \cup {0} :
               /\ s \in input.services /\ c \in Nat /\ ~Taken(s, c)
               /\ \A d \in Nat : d < c => Taken(s, d)
               /\ AssignColor(s, c) /\ UNCHANGED <<input, result, status>>
               /\ pc \in {"order", "color"} /\ pc' = "color"
    <1>1. CASE ColorFirst(s)
        <2>1. s \in input.services /\ ~Taken(s, 0)
            BY <1>1, SelectedListed DEF ColorFirst, Taken, Inv, TypeInv
        <2> QED
            BY <1>1, <2>1 DEF ColorFirst
    <1>2. ASSUME NEW c \in Colors, ColorNext(s, c)
          PROVE  /\ s \in input.services /\ c \in Nat /\ ~Taken(s, c)
                 /\ \A d \in Nat : d < c => Taken(s, d)
                 /\ AssignColor(s, c) /\ UNCHANGED <<input, result, status>>
                 /\ pc \in {"order", "color"} /\ pc' = "color"
        <2>1. Len(input.hostnames) \in Nat
            BY InputTyped DEF Inv, TypeInv
        <2>2. \A d \in Nat : d < c => d \in Colors
            BY <2>1 DEF Colors
        <2> QED
            BY <1>2, <2>1, <2>2, SelectedListed DEF ColorNext, Coloring, Lowest, Colors
    <1> QED
        BY <1>1, <1>2

-----------------------------------------------------------------------------
LEMMA InvInit == Init => Inv
    <1> SUFFICES ASSUME Init PROVE Inv
        OBVIOUS
    <1>1. TypeOK
        BY DEF Init, TypeOK
    <1> QED
        BY <1>1 DEF Init, Inv, TypeInv, ColorInv, ResultInv

(* The properties of the graph and its colors depend on these variables. *)
LEMMA ColorInvStays ==
    ColorInv /\ UNCHANGED <<input, colored, color>> => ColorInv'
    BY DEF ColorInv, Taken, Linked

LEMMA TypeInvStep == ASSUME Inv, [Next]_vars PROVE TypeInv'
    <1> USE DEF Inv, TypeInv, TypeOK
    <1>1. ASSUME UNCHANGED <<input, colored, color, ordered, result>>, pc # "done",
                 pc' = "done", status' \in {"ok", "error", "aborted"}
          PROVE  TypeInv'
        BY <1>1 DEF Colors
    <1>2. CASE FailToOpenModels \/ AbortOnDependency \/ FailWithoutServices \/ PrintDistribution
        BY <1>1, <1>2 DEF FailToOpenModels, AbortOnDependency, FailWithoutServices,
           PrintDistribution, End
    <1>3. ASSUME NEW s \in Services, GiveUp(s) \/ AbortOnColor(s) PROVE TypeInv'
        BY <1>1, <1>3 DEF GiveUp, AbortOnColor, Coloring, End
    <1>4. CASE GenerateGraph
        BY <1>4, OrderedNodesTyped DEF GenerateGraph, Colors
    <1>5. ASSUME NEW s \in Services, ColorFirst(s) \/ \E c \in Colors : ColorNext(s, c)
          PROVE  TypeInv'
        <2>1. PICK c \in Colors \cup {0} :
                  /\ s \in input.services /\ c \in Nat /\ AssignColor(s, c)
                  /\ UNCHANGED <<input, result, status>>
                  /\ pc \in {"order", "color"} /\ pc' = "color"
            BY <1>5, ColorsLowest
        <2>2. /\ color' \in [Services -> Colors \cup {0}]
              /\ colored' \in SUBSET input.services
            BY <2>1 DEF AssignColor
        <2>3. ordered' \in Seq(input.services \cup {NoNode})
            <3>1. PICK n \in Nat : ordered \in [1 .. n -> input.services \cup {NoNode}]
                OBVIOUS
            <3>2. ordered' \in [1 .. n -> input.services \cup {NoNode}]
                BY <2>1, <3>1 DEF AssignColor
            <3> QED
                BY <3>1, <3>2
        <2> QED
            BY <2>1, <2>2, <2>3 DEF Colors
    <1>6. CASE FinishColoring
        BY <1>6 DEF FinishColoring, Uncolored, Colors
    <1>7. ASSUME NEW s \in Services, Convert(s) PROVE TypeInv'
        <2>1. input.hostnames[color[s] + 1] \in Hostnames
            BY <1>7, InputTyped DEF Convert, Colors
        <2> QED
            BY <1>7, <2>1 DEF Convert, Colors
    <1>8. CASE UNCHANGED vars
        BY <1>8 DEF vars, Colors
    <1> QED
        BY <1>2, <1>3, <1>4, <1>5, <1>6, <1>7, <1>8 DEF Next

LEMMA ColorInvStep ==
    ASSUME Inv, [Next]_vars
    PROVE  ColorInv' /\ \A t \in colored : t \in colored' /\ color'[t] = color[t]
    <1>1. ASSUME NEW s \in Services, ColorFirst(s) \/ \E c \in Colors : ColorNext(s, c)
          PROVE  ColorInv' /\ \A t \in colored : t \in colored' /\ color'[t] = color[t]
        BY <1>1, ColorsLowest, Assigned
    <1>2. UNCHANGED <<input, colored, color>> =>
              ColorInv' /\ \A t \in colored : t \in colored' /\ color'[t] = color[t]
        BY ColorInvStays DEF Inv
    <1> QED
        BY <1>1, <1>2 DEF Next, vars, FailToOpenModels, GenerateGraph, AbortOnDependency,
           FailWithoutServices, GiveUp, FinishColoring, Convert, AbortOnColor,
           PrintDistribution, End

LEMMA ResultInvStep == ASSUME Inv, [Next]_vars PROVE ResultInv'
    <1> USE DEF Inv, ResultInv
    <1>1. ASSUME NEW s \in Services, ColorFirst(s) \/ \E c \in Colors : ColorNext(s, c)
          PROVE  ResultInv'
        <2>1. result' = result /\ pc \in {"order", "color"}
            BY <1>1, ColorsLowest
        <2> QED
            BY <2>1
    <1>2. ASSUME NEW s \in Services, Convert(s) PROVE ResultInv'
        <2>1. /\ \A t \in Services : result'[t] = (IF t = s THEN input.hostnames[color[s] + 1]
                                                 ELSE result[t])
              /\ UNCHANGED <<input, pc, colored, color>>
              /\ pc = "convert" /\ s \in colored /\ color[s] \in Colors
            BY <1>2 DEF Convert, TypeInv, TypeOK
        <2> QED
            BY <2>1 DEF Colors
    <1>3. ASSUME UNCHANGED <<input, colored, color, result>>,
                 pc' = pc \/ pc' \in {"convert", "done"} \/ pc = "open"
          PROVE  ResultInv'
        BY <1>3 DEF Colors
    <1> QED
        BY <1>1, <1>2, <1>3 DEF Next, vars, FailToOpenModels, GenerateGraph, AbortOnDependency,
           FailWithoutServices, GiveUp, FinishColoring, AbortOnColor, PrintDistribution, End

LEMMA InvStep == Inv /\ [Next]_vars => Inv'
    BY TypeInvStep, ColorInvStep, ResultInvStep DEF Inv

(* The colors, the array of nodes and the result table stay well typed: an  *)
(* entry of the array is a node of the graph or NULL.                       *)
THEOREM TypeCorrect == Spec => []TypeOK
    <1>1. Inv => TypeOK
        BY DEF Inv, TypeInv
    <1> QED
        BY <1>1, InvInit, InvStep, PTL DEF Spec

(* Services that depend on each other are never mapped to the same machine, *)
(* when machines have different hostnames.                                  *)
THEOREM DependenciesApart == Spec => []DependenciesAreLinks
    <1>1. Inv => DependenciesAreLinks
        <2> SUFFICES ASSUME Inv, DistinctHostnames, NEW s \in Services, NEW t \in Services,
                            Linked(s, t), result[s] # NoHost, result[t] = result[s]
                     PROVE  FALSE
            BY DEF DependenciesAreLinks
        <2>1. /\ s \in colored /\ color[s] \in Colors
              /\ t \in colored /\ color[t] \in Colors
              /\ input.hostnames[color[s] + 1] = input.hostnames[color[t] + 1]
            BY DEF Inv, ResultInv
        <2>2. color[s] = color[t]
            BY <2>1 DEF DistinctHostnames
        <2> QED
            BY <2>1, <2>2 DEF Inv, ColorInv
    <1> QED
        BY <1>1, InvInit, InvStep, PTL DEF Spec

(* A node that is selected again gets the color that it already has.        *)
THEOREM KeepsColors == Spec => ColorsAreKept
    <1>1. Inv /\ [Next]_vars => [\A s \in colored : s \in colored' /\ color'[s] = color[s]]_vars
        BY ColorInvStep
    <1> QED
        BY <1>1, InvInit, InvStep, PTL DEF Spec, ColorsAreKept

-----------------------------------------------------------------------------
(* Linked nodes of different colors are different, so that a node with n    *)
(* colors taken has n linked nodes.                                         *)
LEMMA TakenNeedsNeighbors ==
    ASSUME Inv, NEW s \in input.services, NEW n \in Nat,
           \A d \in 0 .. (n - 1) : Taken(s, d)
    PROVE  n <= Cardinality(Neighbors(s)) /\ Cardinality(Neighbors(s)) \in Nat
    <1> DEFINE N == Neighbors(s)
               D == 0 .. (n - 1)
               f == [d \in D |-> CHOOSE t \in N : color[t] = d]
    <1>1. N \in SUBSET input.services
        BY DEF Neighbors
    <1>2. IsFiniteSet(N)
        BY <1>1, InputTyped, FS_Subset DEF Inv, TypeInv
    <1>3. \A d \in D : \E t \in N : color[t] = d
        BY DEF Taken, Neighbors, Inv, TypeInv, TypeOK
    <1>4. f \in [D -> N] /\ \A d \in D : color[f[d]] = d
        BY <1>3
    <1>5. f \in Injection(D, N)
        BY <1>4 DEF Injection, IsInjective
    <1>6. IsFiniteSet(D) /\ Cardinality(D) = n
        BY FS_Interval
    <1> QED
        BY <1>2, <1>5, <1>6, FS_Injection, FS_CardinalityType

(* All colors below that of a node are taken by the nodes it is linked with. *)
LEMMA ColorBounded ==
    ASSUME Inv, NEW s \in colored
    PROVE  color[s] <= Cardinality(Neighbors(s))
    <1>1. s \in input.services /\ color[s] \in Nat
        BY InputTyped DEF Inv, TypeInv, TypeOK, Colors
    <1>2. \A d \in 0 .. (color[s] - 1) : Taken(s, d)
        BY <1>1 DEF Inv, ColorInv
    <1> QED
        BY <1>1, <1>2, TakenNeedsNeighbors

(* When the program has given up, all colors were taken around a node. *)
GaveUpInv ==
    status = "error" /\ colored # {} =>
        \E s \in input.services : Cardinality(Neighbors(s)) >= Len(input.hostnames)

LEMMA GaveUpStep == ASSUME Inv, GaveUpInv, [Next]_vars PROVE GaveUpInv'
    <1>1. ASSUME NEW s \in Services, GiveUp(s) PROVE GaveUpInv'
        <2>1. s \in input.services /\ UNCHANGED input
            BY <1>1, SelectedListed DEF GiveUp, End
        <2>2. Len(input.hostnames) \in Nat
            BY InputTyped DEF Inv, TypeInv
        <2>3. Len(input.hostnames) <= Cardinality(Neighbors(s)) /\ Cardinality(Neighbors(s)) \in Nat
            BY <1>1, <2>1, <2>2, TakenNeedsNeighbors DEF GiveUp, Colors
        <2>4. Neighbors(s)' = Neighbors(s)
            BY <2>1 DEF Neighbors, Linked
        <2> QED
            BY <2>1, <2>2, <2>3, <2>4 DEF GaveUpInv
    <1>2. CASE FailToOpenModels \/ FailWithoutServices
        BY <1>2 DEF FailToOpenModels, FailWithoutServices, End, GaveUpInv, Inv, TypeInv
    <1>3. CASE AbortOnDependency \/ PrintDistribution \/ \E s \in Services : AbortOnColor(s)
        BY <1>3 DEF AbortOnDependency, PrintDistribution, AbortOnColor, End, GaveUpInv
    <1>4. ASSUME status = "running", status' = status PROVE GaveUpInv'
        BY <1>4 DEF GaveUpInv
    <1>5. ASSUME NEW s \in Services, ColorFirst(s) \/ \E c \in Colors : ColorNext(s, c)
          PROVE  GaveUpInv'
        BY <1>4, <1>5, ColorsLowest DEF Inv, TypeInv
    <1>6. CASE GenerateGraph \/ FinishColoring \/ \E s \in Services : Convert(s)
        BY <1>4, <1>6 DEF GenerateGraph, FinishColoring, Convert, Inv, TypeInv
    <1>7. CASE UNCHANGED vars
        BY <1>7 DEF vars, GaveUpInv, Neighbors, Linked
    <1> QED
        BY <1>1, <1>2, <1>3, <1>5, <1>6, <1>7 DEF Next

(* The greedy bound: the number of services that a service is linked with   *)
(* bounds its color, and the program gives up only when it reaches the      *)
(* number of machines.                                                      *)
THEOREM Greedy == Spec => []GreedyBound
    <1>1. Init => GaveUpInv
        BY DEF Init, GaveUpInv
    <1>2. Inv /\ GaveUpInv => GreedyBound
        BY ColorBounded DEF GaveUpInv, GreedyBound
    <1>3. Inv /\ GaveUpInv /\ [Next]_vars => GaveUpInv'
        BY GaveUpStep
    <1> QED
        BY <1>1, <1>2, <1>3, InvInit, InvStep, PTL DEF Spec

-----------------------------------------------------------------------------
(* The array of nodes has an entry for every color that is ever given, and  *)
(* an entry is NULL only if its index is that of a color: as long as a node *)
(* has no color there are fewer colors in use than entries, so that the     *)
(* search for the first entry that is not NULL stays within the array.      *)
SlotsInv ==
    Consistent =>
        /\ status # "aborted"
        /\ pc # "open" =>
              /\ ordered \in [1 .. Cardinality(input.services) -> input.services \cup {NoNode}]
              /\ \A i \in 1 .. Cardinality(input.services) :
                    ordered[i] = NoNode => \E t \in colored : color[t] + 1 = i

(* A node is not linked with itself, hence linked with fewer than all. *)
LEMMA FewNeighbors ==
    ASSUME input \in Inputs, NEW s \in input.services
    PROVE  Cardinality(Neighbors(s)) < Cardinality(input.services)
    <1>1. /\ IsFiniteSet(input.services) /\ s \in Services
          /\ \A t \in Services : t \notin input.deps[t]
        BY InputTyped
    <1>2. Neighbors(s) \in SUBSET input.services /\ Neighbors(s) # input.services
        BY <1>1 DEF Neighbors, Linked
    <1>3. /\ Cardinality(Neighbors(s)) <= Cardinality(input.services)
          /\ Cardinality(Neighbors(s)) # Cardinality(input.services)
          /\ IsFiniteSet(Neighbors(s))
        BY <1>1, <1>2, FS_Subset
    <1> QED
        BY <1>1, <1>3, FS_CardinalityType

LEMMA ColorHasSlot ==
    ASSUME Inv, NEW s \in colored
    PROVE  color[s] + 1 \in 1 .. Cardinality(input.services)
    <1>1. s \in input.services /\ color[s] \in Nat /\ IsFiniteSet(input.services)
        BY InputTyped DEF Inv, TypeInv, TypeOK, Colors
    <1>2. /\ color[s] <= Cardinality(Neighbors(s))
          /\ Cardinality(Neighbors(s)) < Cardinality(input.services)
        <2>1. input \in Inputs
            BY DEF Inv, TypeInv
        <2> QED
            BY <1>1, <2>1, ColorBounded, FewNeighbors
    <1>3. Cardinality(input.services) \in Nat /\ Cardinality(Neighbors(s)) \in Nat
        <2>1. Neighbors(s) \in SUBSET input.services
            BY DEF Neighbors
        <2> QED
            BY <1>1, <2>1, FS_Subset, FS_CardinalityType
    <1> QED
        BY <1>1, <1>2, <1>3

(* The least element of a set of numbers. *)
LEMMA LeastExists ==
    ASSUME NEW D \in SUBSET Nat, D # {}
    PROVE  \E m \in D : \A n \in D : m <= n
    <1> DEFINE R == {ss \in Nat \X Nat : ss[1] < ss[2]}
    <1>1. IsWellFoundedOn(R, Nat)
        BY NatLessThanWellFounded, Zenon DEF OpToRel
    <1>2. PICK m \in D : \A n \in D : ~(<<n, m>> \in R)
        BY <1>1, WFMin
    <1>3. ASSUME NEW n \in D PROVE m <= n
        <2>1. m \in Nat /\ n \in Nat /\ ~(<<n, m>> \in R)
            BY <1>2
        <2>2. ~(n < m)
            BY <2>1
        <2> QED
            BY <2>1, <2>2
    <1> QED
        BY <1>3

(* There always is a node to select. *)
LEMMA SelectionFinds ==
    ASSUME Inv, SlotsInv, Consistent, Coloring
    PROVE  \E s \in Services : Selected(s)
    <1> DEFINE n == Cardinality(input.services)
               Used == {color[t] + 1 : t \in colored}
               Open == {i \in 1 .. n : ordered[i] # NoNode}
    <1>1. /\ IsFiniteSet(input.services) /\ input.services \in SUBSET Services /\ n \in Nat
        BY InputTyped, FS_CardinalityType DEF Inv, TypeInv
    <1>2. CASE HasUniqueMaximum
        <2>1. MaximalSaturation # {}
            BY <1>2, FS_EmptySet DEF HasUniqueMaximum
        <2> QED
            BY <1>1, <1>2, <2>1 DEF Selected, MaximalSaturation, Uncolored
    <1>3. CASE ~HasUniqueMaximum
        <2>1. IsFiniteSet(colored) /\ Cardinality(colored) < n /\ Cardinality(colored) \in Nat
            <3>1. colored \in SUBSET input.services /\ colored # input.services
                BY DEF Inv, TypeInv, TypeOK, Coloring, Uncolored
            <3>2. /\ IsFiniteSet(colored) /\ Cardinality(colored) <= n
                  /\ Cardinality(colored) # n
                BY <1>1, <3>1, FS_Subset
            <3> QED
                BY <1>1, <3>2, FS_CardinalityType
        <2>2. IsFiniteSet(Used) /\ Cardinality(Used) <= Cardinality(colored)
            <3> DEFINE g == [t \in colored |-> color[t] + 1]
            <3>1. g \in Surjection(colored, Used)
                BY DEF Surjection
            <3> QED
                BY <2>1, <3>1, FS_Surjection
        <2>3. Open # {}
            <3> SUFFICES ASSUME Open = {} PROVE FALSE
                OBVIOUS
            <3>1. 1 .. n \in SUBSET Used
                BY DEF SlotsInv, Coloring
            <3>2. Cardinality(1 .. n) = n
                BY <1>1, FS_Interval
            <3>3. Cardinality(1 .. n) <= Cardinality(Used)
                BY <2>2, <3>1, FS_Subset
            <3>4. Cardinality(Used) \in Nat
                BY <2>2, FS_CardinalityType
            <3> QED
                BY <1>1, <2>1, <2>2, <3>2, <3>3, <3>4
        <2>4. PICK i \in Open : \A j \in Open : i <= j
            <3>1. Open \in SUBSET Nat
                BY <1>1
            <3> HIDE DEF Open
            <3> QED
                BY <2>3, <3>1, LeastExists
        <2>5. /\ i \in 1 .. n /\ ordered[i] \in input.services
              /\ ordered \in [1 .. n -> input.services \cup {NoNode}]
            BY <2>4 DEF SlotsInv, Coloring
        <2>6. \A j \in 1 .. (i - 1) : ordered[j] = NoNode
            BY <1>1, <2>4
        <2>7. HighestDegree(ordered[i])
            BY <2>5, <2>6 DEF HighestDegree
        <2> QED
            BY <1>1, <1>3, <2>5, <2>7 DEF Selected
    <1> QED
        BY <1>2, <1>3

LEMMA SlotsStep == ASSUME Inv, SlotsInv, [Next]_vars PROVE SlotsInv'
    <1>1. Inv'
        BY InvStep
    <1>2. UNCHANGED input
        BY DEF Next, vars, FailToOpenModels, GenerateGraph, AbortOnDependency,
           FailWithoutServices, ColorFirst, GiveUp, ColorNext, FinishColoring, Convert,
           AbortOnColor, PrintDistribution, End
    <1> SUFFICES ASSUME Consistent
                 PROVE  /\ status' # "aborted"
                        /\ pc' # "open" =>
                              /\ ordered' \in [1 .. Cardinality(input.services)
                                                  -> input.services \cup {NoNode}]
                              /\ \A i \in 1 .. Cardinality(input.services) :
                                    ordered'[i] = NoNode => \E t \in colored' : color'[t] + 1 = i
        BY <1>2 DEF SlotsInv, Consistent, Closed
    <1> USE DEF SlotsInv
    <1>3. CASE GenerateGraph
        <2>1. ordered' \in Seq(input.services) /\ status' = "running"
            BY <1>3, OrderedNodesTyped DEF GenerateGraph, Inv, TypeInv
        <2>2. ordered' \in [1 .. Cardinality(input.services) -> input.services]
            BY <1>3, OrderedNodesTyped DEF GenerateGraph, Inv, TypeInv
        <2>3. \A i \in 1 .. Cardinality(input.services) : ordered'[i] # NoNode
            BY <2>2, InputTyped, ValueAssumption DEF Inv, TypeInv
        <2> QED
            BY <2>1, <2>2, <2>3
    <1>4. ASSUME NEW s \in Services, ColorFirst(s) \/ \E c \in Colors : ColorNext(s, c)
          PROVE  /\ status' # "aborted"
                 /\ ordered' \in [1 .. Cardinality(input.services)
                                     -> input.services \cup {NoNode}]
                 /\ \A i \in 1 .. Cardinality(input.services) :
                       ordered'[i] = NoNode => \E t \in colored' : color'[t] + 1 = i
        <2>1. PICK c \in Nat :
                  /\ s \in input.services /\ AssignColor(s, c)
                  /\ UNCHANGED status /\ pc \in {"order", "color"} /\ pc' = "color"
            BY <1>4, ColorsLowest
        <2>2. /\ ordered' = [ordered EXCEPT ![c + 1] = NoNode] /\ s \in colored'
              /\ color'[s] = c
              /\ \A t \in colored : t \in colored' /\ color'[t] = color[t]
            BY <1>4, <2>1, ColorInvStep DEF AssignColor, Inv, TypeInv, TypeOK
        <2>3. ordered' \in [1 .. Cardinality(input.services) -> input.services \cup {NoNode}]
            BY <2>1, <2>2
        <2>4. ASSUME NEW i \in 1 .. Cardinality(input.services), ordered'[i] = NoNode
              PROVE  \E t \in colored' : color'[t] + 1 = i
            BY <2>1, <2>2, <2>4
        <2> QED
            BY <2>1, <2>3, <2>4
    <1>5. ASSUME NEW s \in Services, AbortOnColor(s) PROVE FALSE
        BY <1>5, InputTyped
        DEF AbortOnColor, Consistent, Inv, TypeInv, TypeOK, Colors
    <1>6. CASE AbortOnDependency \/ FailToOpenModels
        BY <1>6 DEF AbortOnDependency, FailToOpenModels, Consistent
    <1>7. CASE UNCHANGED <<ordered, colored, color>> /\ pc # "open" /\ status' # "aborted"
        BY <1>7
    <1>8. CASE UNCHANGED vars
        BY <1>8 DEF vars
    <1> QED
        BY <1>3, <1>4, <1>5, <1>6, <1>7, <1>8
        DEF Next, FailWithoutServices, GiveUp, FinishColoring, Convert, PrintDistribution, End,
            Coloring

(* Consistent models never lead beyond the end of an array or to NULL,      *)
(* although the entry that becomes NULL is the one at the index of the      *)
(* color, whichever node that is: the error costs termination, not memory.  *)
THEOREM MemorySafe == Spec => []StaysInMemory
    <1>1. Init => SlotsInv
        BY DEF Init, SlotsInv
    <1>2. Inv /\ SlotsInv => StaysInMemory
        <2> SUFFICES ASSUME Inv, SlotsInv, Consistent
                     PROVE  /\ \A s \in colored : color[s] + 1 \in DOMAIN ordered
                            /\ Coloring => \E s \in Services : Selected(s)
                            /\ status # "aborted"
            BY DEF StaysInMemory
        <2>1. \A s \in colored : color[s] + 1 \in DOMAIN ordered
            BY ColorHasSlot DEF SlotsInv, Inv, TypeInv
        <2> QED
            BY <2>1, SelectionFinds DEF SlotsInv
    <1>3. Inv /\ SlotsInv /\ [Next]_vars => SlotsInv'
        BY SlotsStep
    <1> QED
        BY <1>1, <1>2, <1>3, InvInit, InvStep, PTL DEF Spec

-----------------------------------------------------------------------------
LEMMA PhaseInit == Init => Phase!Init
    <1> SUFFICES ASSUME Init PROVE Phase!Init
        OBVIOUS
    <1>1. \A c \in Colors : input.hostnames[c + 1] \in Hostnames
        BY InputTyped DEF Init, Colors
    <1> QED
        BY <1>1 DEF Init, Phase!Init

LEMMA PhaseStep == Inv /\ [Next]_vars => [Phase!Next]_Phase!vars
    <1> SUFFICES ASSUME Inv, [Next]_vars PROVE Phase!Next \/ UNCHANGED Phase!vars
        OBVIOUS
    <1>1. UNCHANGED <<input, result, status>> => UNCHANGED Phase!vars
        BY DEF Phase!vars, Colors
    <1>2. ASSUME NEW s \in Services, Convert(s) PROVE Phase!Next
        <2>1. /\ s \in colored /\ colored \subseteq input.services /\ color[s] \in Colors
              /\ status = "running" /\ UNCHANGED <<input, status>>
              /\ result[s] = NoHost
              /\ result' = [result EXCEPT ![s] = input.hostnames[color[s] + 1]]
              /\ result \in [Services -> Hostnames \cup {NoHost}]
            BY <1>2 DEF Convert, Inv, TypeInv, TypeOK
        <2>2. input.hostnames[color[s] + 1] \in Hostnames
            BY <2>1, InputTyped DEF Inv, TypeInv, Colors
        <2>3. ASSUME NEW h \in Hostnames, h = input.hostnames[color[s] + 1]
              PROVE  Phase!Map({s}, h)
            <3>1. s \in Services /\ s \in input.services /\ h # NoHost
                BY <2>1, <2>3, ValueAssumption
            <3>2. h \in {input.hostnames[c + 1] : c \in Colors}
                BY <2>1, <2>3
            <3>3. \A x \in Services : result'[x] = (IF x = s THEN h ELSE result[x])
                BY <2>1, <2>3
            <3>4. [x \in Services |-> IF result'[x] = NoHost THEN {} ELSE {result'[x]}]
                    = [x \in Services |->
                          IF x \in {s} THEN {h}
                          ELSE [y \in Services |-> IF result[y] = NoHost THEN {} ELSE {result[y]}][x]]
                BY <3>1, <3>3
            <3>5. Colors' = Colors
                BY <2>1 DEF Colors
            <3> QED
                BY <2>1, <3>1, <3>2, <3>4, <3>5 DEF Phase!Map
        <2>4. \E S \in SUBSET Services, h \in Hostnames : Phase!Map(S, h)
            BY <2>2, <2>3
        <2> QED
            BY <2>4 DEF Phase!Next
    <1>3. CASE PrintDistribution
        <2>1. /\ status = "running" /\ status' = "ok" /\ UNCHANGED <<input, result>>
              /\ \A s \in input.services : result[s] # NoHost
            BY <1>3 DEF PrintDistribution, End, Inv, TypeInv
        <2> QED
            BY <2>1 DEF Phase!Next, Phase!Succeed, Colors
    <1>4. ASSUME status' \in {"error", "aborted"}, pc # "done", UNCHANGED <<input, result>>
          PROVE  Phase!Next
        <2>1. status = "running"
            BY <1>4 DEF Inv, TypeInv
        <2> QED
            BY <1>4, <2>1 DEF Phase!Next, Phase!Fail, Colors
    <1>5. CASE FailToOpenModels \/ AbortOnDependency \/ FailWithoutServices
        BY <1>4, <1>5 DEF FailToOpenModels, AbortOnDependency, FailWithoutServices, End
    <1>6. ASSUME NEW s \in Services, GiveUp(s) \/ AbortOnColor(s) PROVE Phase!Next
        BY <1>4, <1>6 DEF GiveUp, AbortOnColor, Coloring, End
    <1>7. ASSUME NEW s \in Services, ColorFirst(s) \/ \E c \in Colors : ColorNext(s, c)
          PROVE  UNCHANGED Phase!vars
        BY <1>1, <1>7, ColorsLowest
    <1>8. CASE GenerateGraph \/ FinishColoring \/ UNCHANGED vars
        BY <1>1, <1>8 DEF GenerateGraph, FinishColoring, vars
    <1> QED
        BY <1>2, <1>3, <1>5, <1>6, <1>7, <1>8 DEF Next

(* The coloring is an implementation of the division phase: it maps every   *)
(* service once, to a machine of the infrastructure model, and prints a     *)
(* distribution only when all services have been mapped.                    *)
THEOREM ImplementsDivisionPhase == Spec => ColorsAsDivision
    BY InvInit, InvStep, PhaseInit, PhaseStep, PTL DEF Spec, ColorsAsDivision, Phase!Spec
=============================================================================
