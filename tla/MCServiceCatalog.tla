-------------------------- MODULE MCServiceCatalog --------------------------
(***************************************************************************)
(* Instances of ServiceCatalog for TLC.                                     *)
(***************************************************************************)
EXTENDS ServiceCatalog, FiniteSets

(* A graph is a set of pairs of services; each kind has a graph of its own. *)
NeedsOf(graph) ==
    [s \in Services |-> [k \in Kinds |-> [n \in Names |->
        IF <<s, n>> \in graph[k] THEN 1 ELSE 0]]]

Model(S, grouping, graph, program, batch, v, merge) ==
    [services |-> S, group |-> grouping, needs |-> NeedsOf(graph),
     program |-> program, batch |-> batch, view |-> v, merge |-> merge]

Pairs == {p \in Services \X Services : p[1] # p[2]}

(* Groups two levels deep, with two sub groups of the same name. *)
Layers == {<<>>, <<"x">>, <<"x", "y">>, <<"y">>}

(* A ring, a tree and a model in which everything depends on everything.    *)
Ring == {<<"s1", "s2">>, <<"s2", "s3">>, <<"s3", "s1">>}
Tree == {<<"s1", "s2">>, <<"s1", "s3">>}
Graphs == {Ring, Tree, Pairs}

(* The two kinds of dependencies have different graphs. *)
Both(g, h) == [k \in Kinds |-> IF k = "dependsOn" THEN g ELSE h]

Grouping(g1, g2, g3) ==
    [s \in Services |-> CASE s = "s1" -> g1 [] s = "s2" -> g2 [] s = "s3" -> g3]

(* Every layer has a service; the middle one or the root has none; two      *)
(* services in one group.                                                   *)
Groupings ==
    {Grouping(<<>>, <<"x">>, <<"x", "y">>), Grouping(<<>>, <<"x", "y">>, <<"y">>),
     Grouping(<<"x">>, <<"y">>, <<"x", "y">>), Grouping(<<"x">>, <<"x">>, <<>>)}

Catalogs ==
    {Model(Services, grouping, Both(g, Tree), p, TRUE, <<>>, FALSE) :
        grouping \in Groupings, g \in Graphs, p \in {"document", "visualize"}}

(* A part of the model only: a dependency of s2 is missing. *)
Incomplete ==
    {Model({"s1", "s2"}, grouping, Both(Ring, {}), "visualize", TRUE, <<>>, FALSE) :
        grouping \in Groupings}

(* One group, with every grouping of the services; s3 depends on services   *)
(* of the group and on services that are not, which may do so as well.      *)
User == {<<"s3", "s1">>, <<"s3", "s2">>}
Users == User \cup {<<"s2", "s1">>}

Singles ==
    {Model(Services, grouping, Both(g, {}), "visualize", FALSE, v, merge) :
        grouping \in [Services -> Layers], g \in {Ring, User, Users}, v \in Layers,
        merge \in BOOLEAN}

AllModels == Catalogs \cup Incomplete \cup Singles
=============================================================================
