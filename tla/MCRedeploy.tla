----------------------------- MODULE MCRedeploy -----------------------------
(***************************************************************************)
(* Instances of Redeploy for TLC.                                          *)
(***************************************************************************)
EXTENDS Redeploy

(* s1 may be missing from the services model. *)
AllModels == {Services, {"s2", "s3"}}

(* Attribute names are sorted; m3 has the highest priority. *)
NameRank ==
    [n \in Machines \cup Services |->
        CASE n \in {"m1", "s1"} -> 1 [] n \in {"m2", "s2"} -> 2 [] n \in {"m3", "s3"} -> 3]

Priorities == [m \in Machines |-> IF m = "m3" THEN 0 ELSE 1]

(* s1 lacks a property of m3; s3 cannot be built on m1. *)
CapableOf   == [s \in Services |-> IF s = "s1" THEN Machines \ {"m3"} ELSE Machines]
BuildableOn == [s \in Services |-> IF s = "s3" THEN Machines \ {"m1"} ELSE Machines]

(* No command fails but by itself, or those for one machine do. *)
AllFailures == {{}, {"m2"}}

AllPlans ==
    {<<"order", "stateful", "roundrobin">>, <<"capable", "stateful", "divide">>,
     <<"bound", "order", "roundrobin">>}

BindingPlans == {<<"bound">>}
=============================================================================
