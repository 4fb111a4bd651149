----------------------------- MODULE MCIdAssign -----------------------------
(***************************************************************************)
(* Instances of IdAssign for TLC.  Each run of the project picks its        *)
(* Inputs, the models that successive runs of the program may be given.     *)
(***************************************************************************)
EXTENDS IdAssign

MCRank == [n \in Services \cup Targets |->
    CASE n \in {"s1", "t1"} -> 1 [] n \in {"s2", "t2"} -> 2 [] OTHER -> 3]

Global(min, max)  == [min |-> min, max |-> max, step |-> 1, scope |-> "global"]
Machine(min, max) == [min |-> min, max |-> max, step |-> 1, scope |-> "machine"]
Unknown           == [min |-> 1, max |-> 1, step |-> 1, scope |-> "other"]

(* An ID resources model that defines the resources in the domain of p. *)
Only(p) == [r \in Resources |-> IF r \in DOMAIN p THEN p[r] ELSE NoPool]

(* The services of S require ids of all resources. *)
Requiring(S) == [s \in Services |-> IF s \in S THEN Resources ELSE {}]

ServiceInput(S, pools, unreadable) ==
    [distributed |-> FALSE, xml |-> FALSE, requires |-> Requiring(S),
     mapping |-> [s \in Services |-> {}], pools |-> pools, unreadable |-> unreadable]

DistributionInput(S, mapping, pools, unreadable) ==
    [distributed |-> TRUE, xml |-> FALSE, requires |-> Requiring(S),
     mapping |-> mapping, pools |-> pools, unreadable |-> unreadable]

(* The services of S are deployed, each to the only target of home. *)
Deployed(S, home) == [s \in Services |-> IF s \in S THEN {home[s]} ELSE {}]
Home == [s \in Services |-> IF s = "s3" THEN "t2" ELSE "t1"]

-----------------------------------------------------------------------------
(* One global pool with an id for every service; a model that undefines it. *)
Ports == Only([ports |-> Global(1, 3)])
PortInputs ==
    {ServiceInput(S, Ports, {}) : S \in SUBSET Services}
    \cup {DistributionInput(Services, Deployed(S, Home), Ports, {}) : S \in SUBSET Services}
    \cup {ServiceInput(Services, Ports, {"services"}),
          DistributionInput(Services, Deployed(Services, Home), Ports, {"distribution"}),
          DistributionInput(Services, Deployed(Services, Home), Ports, {"services"})}

(* A second pool that is too small for all services, or of a scope that     *)
(* does not exist: a run may fail after it has given out ids of the first.  *)
TwoPools == Only([ports |-> Global(1, 3), gids |-> Global(1, 1)])
BadScope == Only([ports |-> Global(1, 3), gids |-> Unknown])
TwoPoolInputs ==
    {ServiceInput(S, TwoPools, {}) : S \in {{"s1"}, {"s2"}, {"s1", "s2"}}}
    \cup {DistributionInput(Services, Deployed(S, Home), TwoPools, {}) : S \in {{"s2"}, {"s3"}}}
    \cup {ServiceInput(Services, BadScope, {}), ServiceInput(Services, TwoPools, {"resources"})}

(* A pool per machine.  Services may come and go, but none ever moves; s3   *)
(* may be replicated.  A run without distribution does not know the scope.  *)
Uids == Only([uids |-> Machine(1, 2)])
Replicated == [s \in Services |-> IF s = "s3" THEN Targets ELSE {"t1"}]
MachineInputs ==
    {DistributionInput(Services, Deployed(S, Home), Uids, {}) : S \in SUBSET Services}
    \cup {DistributionInput({"s1", "s2"}, Deployed(Services, Home), Uids, {}),
          DistributionInput(Services, Replicated, Uids, {}),
          ServiceInput(Services, Uids, {})}

UpdateInputs == PortInputs \cup TwoPoolInputs \cup MachineInputs

(* Three services that share a pool of two ids: searches that wrap around   *)
(* and runs that find the pool depleted.                                    *)
Crowded == Only([ports |-> Global(1, 2)])
CrowdedInputs ==
    {ServiceInput(S, Crowded, {}) : S \in SUBSET Services}
    \cup {DistributionInput(Services, Deployed(S, Home), Crowded, {}) : S \in SUBSET Services}

-----------------------------------------------------------------------------
(* Inputs with which the program does not do what its documentation says.   *)

(* With a scope of machine, s1 moves to another machine. *)
MovingInputs ==
    {DistributionInput(Services, Deployed(Services, [Home EXCEPT !["s1"] = t]), Uids, {}) :
        t \in Targets}
=============================================================================
