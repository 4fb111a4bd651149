--------------------------- MODULE MCGraphColoring ---------------------------
(***************************************************************************)
(* Instances of GraphColoring for TLC.                                     *)
(***************************************************************************)
EXTENDS GraphColoring

CONSTANTS s1, s2, s3, s4, s5, h1, h2, h3, h4

MCRank == [s \in Services |->
    CASE s = s1 -> 1 [] s = s2 -> 2 [] s = s3 -> 3 [] s = s4 -> 4 [] OTHER -> 5]

Machines == <<h1, h2, h3, h4>>

ColoringInput(services, deps, hosts, readable) ==
    [services |-> services,
     deps |-> [s \in Services |-> IF s \in services THEN deps[s] ELSE {}],
     hostnames |-> hosts, readable |-> readable]

(* Every graph of up to five services whose names follow their              *)
(* dependencies, on one to four machines.                                   *)
Later(s, n) == {t \in Services : MCRank[s] < MCRank[t] /\ MCRank[t] <= n}
First(n)    == {s \in Services : MCRank[s] <= n}

RECURSIVE Graphs(_, _)
Graphs(S, n) ==
    IF S = {} THEN {[s \in Services |-> {}]}
    ELSE LET s == CHOOSE x \in S : TRUE
         IN  {[g EXCEPT ![s] = D] : g \in Graphs(S \ {s}, n), D \in SUBSET Later(s, n)}

Fewest(n) == IF n <= 3 THEN 1 ELSE n - 2

AcyclicInputs ==
    UNION {{ColoringInput(First(n), g, SubSeq(Machines, 1, m), TRUE) :
                g \in Graphs(First(n), n), m \in Fewest(n) .. 4} : n \in 1 .. 5}

(* Mutual dependencies, which count twice, between some of four services. *)
MutualInputs ==
    {ColoringInput(First(4), [g EXCEPT ![s2] = @ \cup {s1}, ![s4] = @ \cup {s3}], Machines, TRUE) :
        g \in Graphs(First(4), 4)}

(* No services, no machines, a dependency that is no service, machines that *)
(* share a hostname, and models that cannot be opened.                      *)
NoDependencies == [s \in Services |-> {}]
IrregularInputs ==
    {ColoringInput({}, NoDependencies, Machines, TRUE),
     ColoringInput({s1}, NoDependencies, <<>>, TRUE),
     ColoringInput({s1, s2}, NoDependencies, <<>>, TRUE),
     ColoringInput({s1}, [NoDependencies EXCEPT ![s1] = {s2}], Machines, TRUE),
     ColoringInput({s1, s2}, [NoDependencies EXCEPT ![s1] = {s2}], <<h1, h1>>, TRUE),
     ColoringInput({s1}, NoDependencies, Machines, FALSE)}

ColoringInputs == AcyclicInputs \cup MutualInputs \cup IrregularInputs

(* Services without dependencies. *)
IndependentInputs == {ColoringInput(First(n), NoDependencies, Machines, TRUE) : n \in 1 .. 5}
=============================================================================
