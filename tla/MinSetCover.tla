----------------------------- MODULE MinSetCover -----------------------------
(***************************************************************************)
(* The approximation of the minimum set cover problem of                   *)
(* dydisnix-minsetcover (src/src/minsetcover): machines have a fixed price *)
(* for any number of services, so keep picking the machine whose price per *)
(* service that is not covered yet is the smallest, and map these services *)
(* to it, until all services are covered.                                  *)
(*                                                                         *)
(* Data abstraction: a price per service is an exact fraction instead of a *)
(* double; a target is a candidate of a service at most once.              *)
(***************************************************************************)
EXTENDS Integers, FiniteSetsExt

CONSTANTS
    Services,   \* service names
    Targets,    \* machine names
    Rank,       \* the order in which an ordered iteration visits targets
    Inputs,     \* what the program may be given
    NoTarget,   \* min_cost_host_name is NULL, no entry in the result table
    NoProperty, \* the target has no such property
    Unknown,    \* the infrastructure model does not list the target
    Multiple    \* a common multiple of the sizes of sets of services

Costs == Int \cup {NoProperty, Unknown}

(* The services of the services model, the candidates of those that the     *)
(* distribution model maps, the value of the target property, and whether   *)
(* all models can be opened.                                                *)
InputType ==
    [ services   : SUBSET Services,
      candidates : [Services -> SUBSET Targets],
      cost       : [Targets -> Costs],
      readable   : BOOLEAN ]

ASSUME ValueAssumption ==
    /\ IsFiniteSet(Services) /\ IsFiniteSet(Targets)
    /\ NoTarget \notin Targets
    /\ NoProperty \notin Int /\ Unknown \notin Int /\ NoProperty # Unknown

ASSUME MultipleAssumption ==
    Multiple \in Nat \ {0} /\ \A k \in 1 .. Cardinality(Services) : Multiple % k = 0

(* A distribution model maps no services but those of the services model. *)
ASSUME InputAssumption ==
    /\ Rank \in [Targets -> Nat]
    /\ \A in \in Inputs :
        /\ in.services \in SUBSET Services
        /\ in.candidates \in [Services -> SUBSET Targets]
        /\ in.cost \in [Targets -> Costs]
        /\ in.readable \in BOOLEAN
        /\ \A s \in Services \ in.services : in.candidates[s] = {}

VARIABLES
    input,   \* what the program was given
    pc,      \* where the process is
    todo,    \* targets that the ordered iteration has yet to visit
    min,     \* min_cost_fraction
    host,    \* min_cost_host_name
    covered, \* the keys of covered_services_table
    result,  \* result_table; NoTarget for a service without targets
    status   \* "running", "ok", "error", or "aborted" by a segmentation fault

vars == <<input, pc, todo, min, host, covered, result, status>>

-----------------------------------------------------------------------------
(* Helpers *)

(* create_target_to_services_table *)
ServicesOf(t) == {s \in Services : t \in input.candidates[s]}
Hosts == UNION {input.candidates[s] : s \in Services}

IsFirst(t, S) == t \in S /\ \A o \in S : Rank[t] <= Rank[o]

Price(t) == IF input.cost[t] = NoProperty THEN 0 ELSE input.cost[t]

(* Mutant: only whether there are uncovered services counts, not how many.  *)
PriceOnly(t) ==
    [num |-> Price(t), den |-> IF ServicesOf(t) \subseteq covered THEN 0 ELSE 1]

(* compute_cost_fraction: a quotient of doubles, with a denominator that    *)
(* may be zero.                                                             *)
CostFraction(t) ==
    [num |-> Price(t), den |-> Cardinality(ServicesOf(t) \ covered)]

(* The comparison of doubles.  0/0 is not a number, and not less than, nor  *)
(* greater than anything; n/0 is an infinity.                               *)
Less(a, b) ==
    IF a.den = 0 /\ b.den = 0
    THEN a.num < 0 /\ b.num > 0
    ELSE a.num * b.den < b.num * a.den

(* The fraction -1 stands for no fraction yet. *)
NoFraction == [num |-> -1, den |-> 1]
IsNoFraction(f) == f.den > 0 /\ f.num = -f.den

IsSmaller(t) == IsNoFraction(min) \/ Less(CostFraction(t), min)

-----------------------------------------------------------------------------
(* The process *)

Init ==
    /\ input \in Inputs
    /\ pc = "open"
    /\ todo = {}
    /\ min = NoFraction
    /\ host = NoTarget
    /\ covered = {}
    /\ result = [s \in Services |-> NoTarget]
    /\ status = "running"

OpenModels ==
    /\ pc = "open" /\ input.readable
    /\ pc' = "cover"
    /\ UNCHANGED <<input, todo, min, host, covered, result, status>>

FailToOpenModels ==
    /\ pc = "open" /\ ~input.readable
    /\ status' = "error"
    /\ pc' = "done"
    /\ UNCHANGED <<input, todo, min, host, covered, result>>

AllCovered == Cardinality(covered) >= Cardinality(input.services)

(* Mutant: the minimum of the round before is not forgotten. *)
ContinueSearch ==
    /\ pc = "cover" /\ ~AllCovered
    /\ todo' = Hosts
    /\ pc' = "search"
    /\ UNCHANGED <<input, min, host, covered, result, status>>

(* Step 2 of approximate_minset_cover_greedy, and the start of              *)
(* find_target_with_smallest_cost_fraction.                                 *)
StartSearch ==
    /\ pc = "cover" /\ ~AllCovered
    /\ todo' = Hosts
    /\ min' = NoFraction
    /\ host' = NoTarget
    /\ pc' = "search"
    /\ UNCHANGED <<input, covered, result, status>>

Finish ==
    /\ pc = "cover" /\ AllCovered
    /\ status' = "ok"
    /\ pc' = "done"
    /\ UNCHANGED <<input, todo, min, host, covered, result>>

(* The next target of find_target_with_smallest_cost_fraction. *)
Consider(t) ==
    /\ pc = "search" /\ IsFirst(t, todo)
    /\ input.cost[t] # Unknown
    /\ todo' = todo \ {t}
    /\ min' = IF IsSmaller(t) THEN CostFraction(t) ELSE min
    /\ host' = IF IsSmaller(t) THEN t ELSE host
    /\ UNCHANGED <<input, pc, covered, result, status>>

(* The target is not in the targets table: its properties are looked up in  *)
(* a NULL pointer.                                                          *)
AbortOnTarget(t) ==
    /\ pc = "search" /\ IsFirst(t, todo)
    /\ input.cost[t] = Unknown
    /\ status' = "aborted"
    /\ pc' = "done"
    /\ UNCHANGED <<input, todo, min, host, covered, result>>

Found == pc = "search" /\ todo = {} /\ host # NoTarget

(* Mutant: services that are covered are mapped again. *)
CoverAgain ==
    /\ Found
    /\ covered' = covered \cup ServicesOf(host)
    /\ result' = [s \in Services |-> IF s \in ServicesOf(host) THEN host ELSE result[s]]
    /\ pc' = "cover"
    /\ UNCHANGED <<input, todo, min, host, status>>

(* Mutant: also those services are marked that the target cannot host. *)
CoverTooMany ==
    /\ Found
    /\ covered' = covered \cup ServicesOf(host)
    /\ result' = [s \in Services |-> IF s \notin covered THEN host ELSE result[s]]
    /\ pc' = "cover"
    /\ UNCHANGED <<input, todo, min, host, status>>

(* process_min_cost_target_mapping *)
Cover ==
    /\ Found
    /\ covered' = covered \cup ServicesOf(host)
    /\ result' = [s \in Services |->
                     IF s \in ServicesOf(host) \ covered THEN host ELSE result[s]]
    /\ pc' = "cover"
    /\ UNCHANGED <<input, todo, min, host, status>>

(* There are services, but no targets: NULL is looked up in a hash table. *)
AbortWithoutTargets ==
    /\ pc = "search" /\ todo = {} /\ host = NoTarget
    /\ status' = "aborted"
    /\ pc' = "done"
    /\ UNCHANGED <<input, todo, min, host, covered, result>>

Next ==
    \/ OpenModels \/ FailToOpenModels
    \/ StartSearch \/ Finish
    \/ \E t \in Targets : Consider(t) \/ AbortOnTarget(t)
    \/ Cover \/ AbortWithoutTargets

Spec == Init /\ [][Next]_vars

(* The program is one sequential process. *)
FairSpec == Spec /\ WF_vars(Next)

-----------------------------------------------------------------------------
(* Properties *)

TypeOK ==
    /\ pc \in {"open", "cover", "search", "done"}
    /\ todo \in SUBSET Targets
    /\ min.num \in Int /\ min.den \in Nat
    /\ host \in Targets \cup {NoTarget}
    /\ covered \in SUBSET Services
    /\ result \in [Services -> Targets \cup {NoTarget}]
    /\ covered = {s \in Services : result[s] # NoTarget}
    /\ status \in {"running", "ok", "error", "aborted"}

(* The cover maps services to their candidates, each to one target that it  *)
(* keeps, and the program succeeds only when all of them are mapped.        *)
Phase == INSTANCE DivisionPhase WITH
    candidates <- input.candidates,
    chosen <- [s \in Services |-> IF result[s] = NoTarget THEN {} ELSE {result[s]}],
    outcome <- IF status \in {"running", "ok"} THEN status ELSE "failed"

CoversByCandidates == Phase!Spec

(* The price of the targets of T. *)
TotalPrice(T) == MapThenSumSet(Price, T)

IsCover(T) == \A s \in input.services : input.candidates[s] \cap T # {}

(* Multiple times the harmonic number of n. *)
Part(k) == Multiple \div k
Harmonic(n) == MapThenSumSet(Part, 1 .. n)

Allowance(t) == Price(t) * Harmonic(Cardinality(ServicesOf(t)))

Affordable == \A t \in Hosts : input.cost[t] # Unknown /\ Price(t) >= 0

(* The guarantee of the greedy approximation: the targets that are used     *)
(* cost at most as much as those of any other cover, the optimum included,  *)
(* if the price of each of these is multiplied by the harmonic number of    *)
(* the services that it can host.                                           *)
WithinHarmonicBound ==
    status = "ok" /\ Affordable =>
        \A T \in SUBSET Hosts :
            IsCover(T) => Multiple * TotalPrice({result[s] : s \in input.services})
                            <= MapThenSumSet(Allowance, T)

(* Every service has a candidate, and the infrastructure knows them all. *)
Coverable ==
    /\ input.readable
    /\ \A s \in input.services : input.candidates[s] # {}
    /\ \A t \in Hosts : input.cost[t] # Unknown

(* The search starts with the first machine.  If that costs nothing and all *)
(* its services are covered, its fraction is 0/0, which nothing is smaller  *)
(* than.                                                                    *)
Productive ==
    /\ \A t \in Hosts : Price(t) >= 0
    /\ \A t \in Hosts : IsFirst(t, Hosts) =>
           Price(t) > 0 \/ input.services \subseteq ServicesOf(t)

(* No round of the loop is in vain: the machine it picks hosts a service    *)
(* that is not covered yet, if every service has a candidate, and the first *)
(* machine has a price or hosts all services.                               *)
EveryRoundCovers ==
    [][Coverable /\ Productive /\ pc = "search" /\ pc' = "cover" => covered' # covered]_vars

Ends == Coverable /\ Productive

(* "Keep repeating until all services have been covered": for which models  *)
(* with prices that are not negative the loop gets to an end, and for which *)
(* it does not: with success exactly if every service has a candidate, and  *)
(* the first machine has a price or hosts all services.                     *)
CoverTerminates ==
    /\ Affordable /\ Ends ~> (status = "ok")
    /\ Affordable /\ ~Ends => [](status # "ok")
=============================================================================
