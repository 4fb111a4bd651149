--------------------------- MODULE DivisionPhase ---------------------------
(***************************************************************************)
(* What every division method of a quality of service model promises       *)
(* (src/README.md, "the division phase divides the services over the       *)
(* candidates"; src/nix/extfilters.nix): given the candidate targets of    *)
(* each service it maps services to targets, never to one that is not a    *)
(* candidate and never twice, and it reports success only when every       *)
(* service that has candidates is mapped.  A mapping is never revised.     *)
(***************************************************************************)

CONSTANTS Services, Targets

VARIABLES
    candidates, \* the candidate targets of each service
    chosen,     \* the targets that each service has been mapped to
    outcome     \* "running", "ok" or "failed"

vars == <<candidates, chosen, outcome>>

Init ==
    /\ candidates \in [Services -> SUBSET Targets]
    /\ chosen = [s \in Services |-> {}]
    /\ outcome = "running"

(* A number of services is mapped to one of their common candidates. *)
Map(S, t) ==
    /\ outcome = "running"
    /\ \A s \in S : chosen[s] = {} /\ t \in candidates[s]
    /\ chosen' = [s \in Services |-> IF s \in S THEN {t} ELSE chosen[s]]
    /\ UNCHANGED <<candidates, outcome>>

Succeed ==
    /\ outcome = "running"
    /\ \A s \in Services : candidates[s] # {} => chosen[s] # {}
    /\ outcome' = "ok"
    /\ UNCHANGED <<candidates, chosen>>

Fail ==
    /\ outcome = "running"
    /\ outcome' = "failed"
    /\ UNCHANGED <<candidates, chosen>>

Next ==
    \/ \E S \in SUBSET Services, t \in Targets : Map(S, t)
    \/ Succeed
    \/ Fail

Spec == Init /\ [][Next]_vars
=============================================================================
