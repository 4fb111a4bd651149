------------------------------ MODULE MCDivide ------------------------------
(***************************************************************************)
(* Instances of Divide for TLC.                                            *)
(***************************************************************************)
EXTENDS Divide

MCRank == [s \in Services |-> CASE s = "s1" -> 1 [] s = "s2" -> 2 [] OTHER -> 3]

Ordered == <<"t1", "t2", "t3">>

DivideInput(strategy, distributed, candidates, demand, capacity, readable) ==
    [strategy |-> strategy, distributed |-> distributed, candidates |-> candidates,
     demand |-> demand, capacity |-> capacity, readable |-> readable]

(* All demands and capacities that make the strategies differ: services     *)
(* that need one or two units, targets that provide none to three, with the *)
(* third service confined to two targets in another order.                  *)
RegularInputs ==
    {DivideInput(strategy, Services,
                 [s \in Services |-> IF s = "s3" THEN <<"t3", "t2">> ELSE Ordered],
                 demand, capacity, TRUE) :
        strategy \in Strategies,
        demand \in [Services -> 1 .. 2],
        capacity \in [Targets -> 0 .. 3]}

(* Models with missing properties, unknown names, no candidates at all or a *)
(* target that is a candidate twice, and demands of nothing or less.        *)
IrregularInputs ==
    {DivideInput(strategy, distributed,
                 [s \in Services |-> CASE s = "s1" -> <<"t1", "t2", "t1">>
                                      [] s = "s2" -> <<"t2", "t3">> [] OTHER -> <<>>],
                 [s \in Services |-> CASE s = "s1" -> d1 [] s = "s2" -> d2 [] OTHER -> 1],
                 [t \in Targets |-> CASE t = "t1" -> 1 [] t = "t2" -> c2 [] OTHER -> 2],
                 TRUE) :
        strategy \in Strategies,
        distributed \in {{"s1", "s2"}, Services},
        d1 \in {-1, 0, 1, NoProperty, Unknown},
        d2 \in {1, 2, NoProperty, Unknown},
        c2 \in {-1, 2, NoProperty, Unknown}}

DivideInputs ==
    RegularInputs \cup IrregularInputs
    \cup {[in EXCEPT !.readable = FALSE] : in \in IrregularInputs}
=============================================================================
