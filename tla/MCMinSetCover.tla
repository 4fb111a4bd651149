--------------------------- MODULE MCMinSetCover ---------------------------
(***************************************************************************)
(* Instances of MinSetCover for TLC.                                       *)
(***************************************************************************)
EXTENDS MinSetCover

MCRank == [t \in Targets |-> CASE t = "t1" -> 1 [] t = "t2" -> 2 [] OTHER -> 3]

CoverInput(hosted, cost, readable) ==
    [services |-> Services,
     candidates |-> [s \in Services |-> {t \in Targets : s \in hosted[t]}],
     cost |-> cost, readable |-> readable]

(* Every way to host the services on the targets, at every price: services  *)
(* with several candidates, and targets whose services get covered by       *)
(* others, one by one.                                                      *)
PricedInputs ==
    {CoverInput(hosted, cost, TRUE) :
        hosted \in {h \in [Targets -> SUBSET Services] :
                        UNION {h[t] : t \in Targets} = Services},
        cost \in [Targets -> 1 .. 3]}

(* Targets that are not in the infrastructure model, no targets at all, and *)
(* models that cannot be opened.                                            *)
Everywhere == [t \in Targets |-> Services]
IrregularInputs ==
    {CoverInput(Everywhere, [t \in Targets |-> IF t = "t2" THEN Unknown ELSE 1], TRUE),
     CoverInput([t \in Targets |-> {}], [t \in Targets |-> 1], TRUE),
     CoverInput(Everywhere, [t \in Targets |-> 1], FALSE)}

(* Targets that do not have the property, and so cost nothing, the first    *)
(* one or others, and services without candidates.                          *)
FreeInputs ==
    {CoverInput(hosted, cost, TRUE) :
        hosted \in [Targets -> SUBSET Services], cost \in [Targets -> {NoProperty, 1}]}

CoverInputs == PricedInputs \cup IrregularInputs \cup FreeInputs

=============================================================================
