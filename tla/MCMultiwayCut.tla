---------------------------- MODULE MCMultiwayCut ----------------------------
(***************************************************************************)
(* Instances of MultiwayCut for TLC.                                       *)
(***************************************************************************)
EXTENDS MultiwayCut

CONSTANTS s1, s2, s3, t1, t2, t3

MCNameRank  == [t \in Targets |-> CASE t = t1 -> 1 [] t = t2 -> 2 [] OTHER -> 3]
MCTableRank == [t \in Targets |-> CASE t = t1 -> 2 [] t = t2 -> 3 [] OTHER -> 1]
MCLinkRank  == [s \in Services |-> CASE s = s1 -> 2 [] s = s2 -> 1 [] OTHER -> 3]

CutInput(services, deps, candidates, readable) ==
    [services |-> services, deps |-> deps, distributed |-> Services,
     candidates |-> candidates, readable |-> readable]

NoDependencies == [s \in Services |-> {}]
Everywhere     == [s \in Services |-> Targets]

(* The four undirected graphs of three services, whichever way they are     *)
(* named, with all ways to have candidates.                                 *)
DependencyGraphs ==
    {[NoDependencies EXCEPT ![s1] = pair[1], ![s2] = pair[2]] :
        pair \in {<<{}, {}>>, <<{s2}, {}>>, <<{s2, s3}, {}>>, <<{s2, s3}, {s3}>>}}

RegularInputs ==
    {CutInput(Services, deps, candidates, TRUE) :
        deps \in DependencyGraphs,
        candidates \in [Services -> SUBSET Targets \ {{}}]}

(* A service without candidates, one that is not in the services model, a   *)
(* dependency that is not mapped, and models that cannot be opened.         *)
IrregularInputs ==
    {CutInput(Services, NoDependencies, [Everywhere EXCEPT ![s2] = {}], TRUE),
     CutInput({s1, s2}, NoDependencies, Everywhere, TRUE),
     [CutInput(Services, [NoDependencies EXCEPT ![s1] = {s2}],
               [Everywhere EXCEPT ![s2] = {}], TRUE) EXCEPT !.distributed = {s1, s3}],
     CutInput(Services, NoDependencies, Everywhere, FALSE)}

CutInputs == RegularInputs \cup IrregularInputs
=============================================================================
