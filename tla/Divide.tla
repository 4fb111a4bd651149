------------------------------- MODULE Divide -------------------------------
(***************************************************************************)
(* The one dimensional division of dydisnix-divide (src/src/divide): for   *)
(* each service of the distribution model, in the order of their names,    *)
(* walk over its candidate targets, select one by the strategy, and        *)
(* subtract the demand of the service from what the target has left.       *)
(*                                                                         *)
(* Data abstraction: property values are the integers that atoi makes of   *)
(* them; a target that is not selected is left alone, so that a value      *)
(* never leaves the range of an int unless a model already does.           *)
(***************************************************************************)
EXTENDS Integers, Sequences, FiniteSetsExt

CONSTANTS
    Services,   \* service names
    Targets,    \* machine names
    Rank,       \* the order in which an ordered iteration visits services
    Inputs,     \* what the program may be given
    NoService,  \* no service
    NoTarget,   \* no candidate target
    NoProperty, \* the service or target has no such property
    Unknown     \* the model does not list the service or target at all

Strategies == {"greedy", "highest-bidder", "lowest-bidder"}
Values     == Int \cup {NoProperty, Unknown}

(* The strategy, the services that the distribution model maps, their       *)
(* candidates in order, the value of the service property and of the target *)
(* property, and whether all models can be opened.                          *)
InputType ==
    [ strategy    : Strategies,
      distributed : SUBSET Services,
      candidates  : [Services -> Seq(Targets)],
      demand      : [Services -> Values],
      capacity    : [Targets -> Values],
      readable    : BOOLEAN ]

ASSUME ValueAssumption ==
    /\ NoService \notin Services /\ NoTarget \notin Targets
    /\ NoProperty \notin Int /\ Unknown \notin Int /\ NoProperty # Unknown

ASSUME InputAssumption ==
    /\ Rank \in [Services -> Nat]
    /\ \A in \in Inputs :
        /\ in.strategy \in Strategies
        /\ in.distributed \in SUBSET Services
        /\ in.candidates \in [Services -> Seq(Targets)]
        /\ in.demand \in [Services -> Values]
        /\ in.capacity \in [Targets -> Values]
        /\ in.readable \in BOOLEAN

VARIABLES
    input,     \* what the program was given
    pc,        \* where the process is
    todo,      \* services that the ordered iteration has yet to visit
    service,   \* the service it is visiting
    i,         \* the index of the next mapping of select_mapping
    candidate, \* candidate_target
    remaining, \* the target property of every target, in targets_table
    result,    \* result_table; NoTarget for a service without an entry
    status     \* "running", "ok", "error", or "aborted" by a segmentation fault

loop == <<todo, service, i, candidate>>
vars == <<input, pc, loop, remaining, result, status>>

-----------------------------------------------------------------------------
(* Helpers *)

Mappings == input.candidates[service]
Demand   == input.demand[service]

IsFirst(s, S) == s \in S /\ \A o \in S : Rank[s] <= Rank[o]

(* target_has_sufficient_resources *)
Sufficient(t) == Demand <= remaining[t]

(* Mutant: the highest bidder does not look at the candidate it has.        *)
BidsLast(t) ==
    IF candidate = NoTarget THEN Sufficient(t)
    ELSE \/ input.strategy = "highest-bidder" /\ Sufficient(t)
         \/ input.strategy = "lowest-bidder" /\ Sufficient(t) /\ remaining[t] < remaining[candidate]

(* Whether select_target_with_sufficient_resources, select_higher_bidder or *)
(* select_lower_bidder makes t the candidate; only the first of them ends   *)
(* the walk with its first candidate.                                       *)
Bids(t) ==
    IF candidate = NoTarget THEN Sufficient(t)
    ELSE \/ /\ input.strategy = "highest-bidder"
            /\ remaining[t] > remaining[candidate]
         \/ /\ input.strategy = "lowest-bidder"
            /\ Sufficient(t) /\ remaining[t] < remaining[candidate]

-----------------------------------------------------------------------------
(* The process *)

Init ==
    /\ input \in Inputs
    /\ pc = "open"
    /\ todo = {}
    /\ service = NoService
    /\ i = 1
    /\ candidate = NoTarget
    /\ remaining = input.capacity
    /\ result = [s \in Services |-> NoTarget]
    /\ status = "running"

OpenModels ==
    /\ pc = "open" /\ input.readable
    /\ todo' = input.distributed
    /\ pc' = "service"
    /\ UNCHANGED <<input, service, i, candidate, remaining, result, status>>

FailToOpenModels ==
    /\ pc = "open" /\ ~input.readable
    /\ status' = "error"
    /\ pc' = "done"
    /\ UNCHANGED <<input, loop, remaining, result>>

(* The next service of select_target_for_each_mapping. *)
VisitService(s) ==
    /\ pc = "service" /\ IsFirst(s, todo)
    /\ input.demand[s] \in Int
    /\ todo' = todo \ {s}
    /\ service' = s
    /\ i' = 1
    /\ candidate' = NoTarget
    /\ pc' = "select"
    /\ UNCHANGED <<input, remaining, result, status>>

(* The service has no such property: what has been selected so far is       *)
(* printed, with an exit status that says so.                               *)
RejectService(s) ==
    /\ pc = "service" /\ IsFirst(s, todo)
    /\ input.demand[s] = NoProperty
    /\ status' = "error"
    /\ pc' = "done"
    /\ UNCHANGED <<input, loop, remaining, result>>

(* The services model does not list the service: its properties are taken   *)
(* from a NULL pointer.                                                     *)
AbortOnService(s) ==
    /\ pc = "service" /\ IsFirst(s, todo)
    /\ input.demand[s] = Unknown
    /\ status' = "aborted"
    /\ pc' = "done"
    /\ UNCHANGED <<input, loop, remaining, result>>

FinishServices ==
    /\ pc = "service" /\ todo = {}
    /\ status' = "ok"
    /\ pc' = "done"
    /\ UNCHANGED <<input, loop, remaining, result>>

Selecting == pc = "select" /\ i <= Len(Mappings)

(* select_mapping looks at a mapping; with the greedy strategy a candidate  *)
(* ends the walk.                                                           *)
Consider(t) ==
    /\ Selecting /\ t = Mappings[i]
    /\ remaining[t] \in Int
    /\ candidate' = IF Bids(t) THEN t ELSE candidate
    /\ i' = IF Bids(t) /\ input.strategy = "greedy" THEN Len(Mappings) + 1 ELSE i + 1
    /\ UNCHANGED <<input, pc, todo, service, remaining, result, status>>

(* Mutant: a target without the property is a candidate. *)
TakeTarget(t) ==
    /\ Selecting /\ t = Mappings[i]
    /\ remaining[t] = NoProperty
    /\ candidate' = t
    /\ i' = i + 1
    /\ UNCHANGED <<input, pc, todo, service, remaining, result, status>>

SkipTarget(t) ==
    /\ Selecting /\ t = Mappings[i]
    /\ remaining[t] = NoProperty
    /\ i' = i + 1
    /\ UNCHANGED <<input, pc, todo, service, candidate, remaining, result, status>>

(* The infrastructure model does not list the target: a NULL pointer. *)
AbortOnTarget(t) ==
    /\ Selecting /\ t = Mappings[i]
    /\ remaining[t] = Unknown
    /\ status' = "aborted"
    /\ pc' = "done"
    /\ UNCHANGED <<input, loop, remaining, result>>

Selected == pc = "select" /\ i > Len(Mappings) /\ candidate # NoTarget

(* Mutant: the demand is not subtracted. *)
AssignForFree ==
    /\ Selected
    /\ remaining' = remaining
    /\ result' = [result EXCEPT ![service] = candidate]
    /\ pc' = "service"
    /\ UNCHANGED <<input, loop, status>>

(* The end of select_mapping, and the entry in the result table. *)
Assign ==
    /\ Selected
    /\ remaining' = [remaining EXCEPT ![candidate] = @ - Demand]
    /\ result' = [result EXCEPT ![service] = candidate]
    /\ pc' = "service"
    /\ UNCHANGED <<input, loop, status>>

(* Mutant: the service is left out. *)
GoOn ==
    /\ pc = "select" /\ i > Len(Mappings) /\ candidate = NoTarget
    /\ pc' = "service"
    /\ UNCHANGED <<input, loop, remaining, result, status>>

(* No target has sufficient resources left. *)
GiveUp ==
    /\ pc = "select" /\ i > Len(Mappings) /\ candidate = NoTarget
    /\ status' = "error"
    /\ pc' = "done"
    /\ UNCHANGED <<input, loop, remaining, result>>

Next ==
    \/ OpenModels \/ FailToOpenModels
    \/ \E s \in Services : VisitService(s) \/ RejectService(s) \/ AbortOnService(s)
    \/ FinishServices
    \/ \E t \in Targets : Consider(t) \/ SkipTarget(t) \/ AbortOnTarget(t)
    \/ Assign \/ GiveUp

Spec == Init /\ [][Next]_vars

-----------------------------------------------------------------------------
(* Properties *)

CandidateTargets(s) == {input.candidates[s][k] : k \in 1 .. Len(input.candidates[s])}

TypeOK ==
    /\ pc \in {"open", "service", "select", "done"}
    /\ todo \in SUBSET input.distributed
    /\ service \in Services \cup {NoService}
    /\ pc = "select" => service \in input.distributed /\ Demand \in Int
    /\ i \in Nat \ {0}
    /\ candidate \in Targets \cup {NoTarget}
    /\ candidate # NoTarget => remaining[candidate] \in Int
    /\ remaining \in [Targets -> Values]
    /\ result \in [Services -> Targets \cup {NoTarget}]
    /\ status \in {"running", "ok", "error", "aborted"}

(* The services that a target has been given never demand more than the     *)
(* capacity it started with, whatever the strategy, the order of the        *)
(* services and the outcome (README, memory requirements of the division).  *)
NotOvercommitted ==
    \A t \in Targets : input.capacity[t] \in Nat =>
        LET given == {s \in Services : result[s] = t}
        IN  MapThenSumSet(LAMBDA s : input.demand[s], given) <= input.capacity[t]

(* The same fact in terms of what is left. *)
CapacityNeverNegative ==
    \A t \in Targets : input.capacity[t] \in Nat => remaining[t] \in Nat

Eligible(t) == remaining[t] \in Int /\ Demand <= remaining[t]

(* Once all candidates of a service have been looked at, the selection is   *)
(* the one that nix/extfilters.nix documents: the first machine in linear   *)
(* order, a machine with the most, or one with the least available capacity *)
(* that is capable of hosting the service; and none is selected only if     *)
(* none is capable.                                                         *)
StrategyFollowed ==
    pc = "select" /\ i > Len(Mappings) =>
        IF candidate = NoTarget
        THEN \A t \in CandidateTargets(service) : ~Eligible(t)
        ELSE /\ Eligible(candidate)
             /\ input.strategy = "greedy" =>
                    \E k \in 1 .. Len(Mappings) :
                        /\ Mappings[k] = candidate
                        /\ \A j \in 1 .. (k - 1) : ~Eligible(Mappings[j])
             /\ input.strategy = "highest-bidder" =>
                    \A t \in CandidateTargets(service) :
                        Eligible(t) => remaining[t] <= remaining[candidate]
             /\ input.strategy = "lowest-bidder" =>
                    \A t \in CandidateTargets(service) :
                        Eligible(t) => remaining[candidate] <= remaining[t]

(* The division divides the services over their candidates, and reports     *)
(* success only when it has found a target for all of them.                 *)
Phase == INSTANCE DivisionPhase WITH
    candidates <- [s \in Services |->
                      IF s \in input.distributed THEN CandidateTargets(s) ELSE {}],
    chosen <- [s \in Services |-> IF result[s] = NoTarget THEN {} ELSE {result[s]}],
    outcome <- IF status \in {"running", "ok"} THEN status ELSE "failed"

DividesOverCandidates == Phase!Spec
=============================================================================
