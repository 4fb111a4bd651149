------------------------------ MODULE Redeploy ------------------------------
(***************************************************************************)
(* The generation of a distribution (src/scripts/dydisnix-gendist.in,      *)
(* src/nix) for one deployment after another: every service gets all       *)
(* machines as candidates, those on which it cannot be built are removed,  *)
(* the filters of a quality of service model are applied one by one, and   *)
(* the result is deployed.  Two filters look at the previous distribution, *)
(* which is made of the manifest of the last deployment.                   *)
(*                                                                         *)
(* Between deployments an administrator may map a service to a container   *)
(* by hand; machines come and go at any time.  disnix-env is external: it  *)
(* deploys the distribution and writes the manifest, or changes nothing.   *)
(*                                                                         *)
(* Data abstraction: a list of candidates is a set and one order for all   *)
(* lists, by name or by priority.  The three map filters that compare      *)
(* properties are one, with a set of machines that pass for each service.  *)
(* The divisions by the programs of the other modules are one, which picks *)
(* any candidate or fails (module DivisionPhase).                          *)
(***************************************************************************)
EXTENDS Integers, FiniteSets, Sequences

CONSTANTS
    Machines,       \* machine names
    Services,       \* service names
    ServiceModels,  \* the sets of services that a services model may have
    Plans,          \* the quality of service models: filters, in order
    Rank,           \* the position of a name among the attribute names
    Priority,       \* the property of a machine that order looks at
    Capable,        \* for each service, the machines whose properties match
    Buildable,      \* for each service, the machines it can be built on
    Stateful,       \* the services marked as stateful
    MaxAbsent,      \* bound: machines that are away at the same time
    Failures,       \* the sets of machines for which nix-instantiate may fail
    Nobody          \* no target (null)

Filters == {"capable", "stateful", "bound", "order", "roundrobin", "divide"}

(* A candidate is a string, which Disnix maps to the container of the type  *)
(* of the service, or an attribute set that names a container.              *)
Mapping == [target : Machines, container : {"type", "other"}]
Entry   == [target : Machines, container : {"auto", "type", "other"}]

AutoMapping(m) == [target |-> m, container |-> "auto"]

ASSUME ModelAssumption ==
    /\ ServiceModels \subseteq SUBSET Services
    /\ Plans \subseteq Seq(Filters)
    /\ Rank \in [Machines \cup Services -> Nat] /\ Priority \in [Machines -> Nat]
    /\ Capable \in [Services -> SUBSET Machines] /\ Buildable \in [Services -> SUBSET Machines]
    /\ Stateful \subseteq Services /\ Failures \subseteq SUBSET Machines
    /\ Nobody \notin Entry

(* The attribute names of a set differ. *)
ASSUME RankAssumption ==
    \A m, n \in Machines : Rank[m] = Rank[n] => m = n

(* A list of the previous distribution is not in the order of the others. *)
ASSUME OrderAssumption ==
    \A q \in Plans : \A i, j \in 1 .. Len(q) :
        q[i] = "order" /\ q[j] = "bound" => j < i

VARIABLES
    network,        \* the machines that can be reached
    captured,       \* infrastructureFile
    model,          \* the services of servicesFile
    plan,           \* the filters of qosFile
    manifest,       \* the mappings of the coordinator profile
    pc,             \* "idle", "filter" or "roundrobin"
    todo,           \* services that the current step still has to go through
    applied,        \* the number of filters that have been applied
    dist,           \* the candidates of each service
    sorted,         \* the lists are ordered by priority
    previousTarget, \* the argument of generateRoundRobinDistribution
    given,          \* history: the candidates before the round robin
    home            \* history: where the state of a service is

generation == <<todo, applied, dist, sorted, previousTarget, given>>
vars == <<network, captured, model, plan, manifest, home, pc, generation>>

-----------------------------------------------------------------------------
(* Lists of candidates *)

Before(e, f) ==
    IF sorted /\ Priority[e.target] # Priority[f.target]
    THEN Priority[e.target] < Priority[f.target]
    ELSE Rank[e.target] <= Rank[f.target]

First(E) == CHOOSE e \in E : \A f \in E : Before(e, f)

Later(E, e) == {f \in E : f # e /\ Before(e, f)}

(* Mutant: the last candidate is followed by itself. *)
NextUntilLast(E, p) ==
    IF p \notin E THEN First(E) ELSE IF Later(E, p) = {} THEN p ELSE First(Later(E, p))

(* findNextTarget, findSuccessor: the next one in circular order. *)
NextTarget(E, p) ==
    IF p \in E /\ Later(E, p) # {} THEN First(Later(E, p)) ELSE First(E)

Targets(E) == {e.target : e \in E}

-----------------------------------------------------------------------------
(* The previous distribution *)

(* convert_manifest_to_distribution_table: one container that is not the    *)
(* one of the type is enough to write all mappings with their containers.   *)
Automapped == \A s \in Services : \A e \in manifest[s] : e.container = "type"

Previous(s) == IF Automapped THEN {AutoMapping(m) : m \in Targets(manifest[s])} ELSE manifest[s]

-----------------------------------------------------------------------------
Init ==
    /\ network = Machines /\ captured = Machines
    /\ model \in ServiceModels /\ plan \in Plans
    /\ manifest = [s \in Services |-> {}] /\ home = [s \in Services |-> {}]
    /\ pc = "idle"
    /\ todo = {} /\ applied = 0
    /\ dist = [s \in Services |-> {}] /\ given = dist
    /\ sorted = FALSE /\ previousTarget = Nobody

Leave(m) ==
    /\ m \in network /\ Cardinality(Machines \ network) < MaxAbsent
    /\ network' = network \ {m}
    /\ UNCHANGED <<captured, model, plan, manifest, home, pc, generation>>

Join(m) ==
    /\ m \in Machines \ network
    /\ network' = network \cup {m}
    /\ UNCHANGED <<captured, model, plan, manifest, home, pc, generation>>

(* disnix-env with a distribution that maps s to a container of a machine. *)
DeployByHand(s, e) ==
    /\ pc = "idle" /\ s \in model /\ e.target \in network
    /\ manifest' = [manifest EXCEPT ![s] = {e}]
    /\ home' = [home EXCEPT ![s] = {e.target}]
    /\ UNCHANGED <<network, captured, model, plan, pc, generation>>

(* createCartesianProduct *)
CartesianProduct(S, infra) ==
    [s \in Services |-> IF s \in S THEN {AutoMapping(m) : m \in infra} ELSE {}]

(* The infrastructure is captured, or an infrastructure model is given that *)
(* was made earlier.  Without --filter-buildable no service is tried.       *)
Start(S, infra, tried) ==
    /\ pc = "idle"
    /\ model' = S /\ captured' = infra
    /\ dist' = CartesianProduct(S, infra)
    /\ todo' = tried
    /\ applied' = 0
    /\ pc' = "filter"
    /\ UNCHANGED <<network, plan, manifest, home, sorted, previousTarget, given>>

(* filter_unbuildable_derivations_from_distribution_table, one service: a   *)
(* target for which nix-instantiate fails is no candidate.                  *)
TryBuild(s, failing) ==
    /\ pc = "filter" /\ s \in todo
    /\ dist' = [dist EXCEPT ![s] = {e \in @ : e.target \in Buildable[s] \ failing}]
    /\ todo' = todo \ {s}
    /\ UNCHANGED <<network, captured, model, plan, manifest, home, pc, applied, sorted,
                   previousTarget, given>>

-----------------------------------------------------------------------------
(* The filters *)

Applies(f) == pc = "filter" /\ todo = {} /\ applied < Len(plan) /\ plan[applied + 1] = f

(* A filter that compares properties evaluates infrastructure.<target>. *)
Evaluates(e) == e.container = "auto" /\ e.target \in captured

(* The filter changes nothing but the candidates. *)
Filter(f) ==
    /\ Applies(f)
    /\ applied' = applied + 1
    /\ UNCHANGED <<network, captured, model, plan, manifest, home, pc, todo, sorted,
                   previousTarget, given>>

(* mapAttrOnList, mapListOnAttr, mapAttrOnAttr *)
MapProperties ==
    /\ Filter("capable")
    /\ \A s \in model : \A e \in dist[s] : Evaluates(e)
    /\ dist' = [s \in Services |-> {e \in dist[s] : e.target \in Capable[s]}]

(* Mutant: a service whose previous targets are no candidates may move. *)
MapStatefulIfPossible ==
    /\ Filter("stateful")
    /\ dist' = [s \in Services |->
                   IF s \in Stateful /\ dist[s] \cap Previous(s) # {} THEN dist[s] \cap Previous(s)
                   ELSE dist[s]]

MapStatefulToPrevious ==
    /\ Filter("stateful")
    /\ dist' = [s \in Services |->
                   IF s \in Stateful /\ Previous(s) # {} THEN dist[s] \cap Previous(s)
                   ELSE dist[s]]

MapBoundServicesToPrevious ==
    /\ Filter("bound")
    /\ dist' = [s \in Services |->
                   IF s \in model /\ Previous(s) # {} THEN Previous(s) ELSE dist[s]]

(* A list with one element is not compared with anything. *)
Order ==
    /\ Applies("order")
    /\ \A s \in model : Cardinality(dist[s]) > 1 => \A e \in dist[s] : Evaluates(e)
    /\ sorted' = TRUE /\ applied' = applied + 1
    /\ UNCHANGED <<network, captured, model, plan, manifest, home, pc, todo, dist,
                   previousTarget, given>>

(* divideRoundRobin *)
BeginRoundRobin ==
    /\ Applies("roundrobin")
    /\ pc' = "roundrobin" /\ todo' = model /\ previousTarget' = Nobody /\ given' = dist
    /\ UNCHANGED <<network, captured, model, plan, manifest, home, applied, dist, sorted>>

(* generateRoundRobinDistribution: the next service, in the order of names. *)
GoesNext(s) == s \in todo /\ \A t \in todo : Rank[s] <= Rank[t]

DivideRoundRobin(s) ==
    /\ pc = "roundrobin" /\ GoesNext(s) /\ dist[s] # {}
    /\ previousTarget' = NextTarget(dist[s], previousTarget)
    /\ dist' = [dist EXCEPT ![s] = {previousTarget'}]
    /\ todo' = todo \ {s}
    /\ UNCHANGED <<network, captured, model, plan, manifest, home, pc, applied, sorted, given>>

EndRoundRobin ==
    /\ pc = "roundrobin" /\ todo = {}
    /\ pc' = "filter" /\ applied' = applied + 1
    /\ UNCHANGED <<network, captured, model, plan, manifest, home, todo, dist, sorted,
                   previousTarget, given>>

(* divide, minsetcover, multiwaycut: the containers are lost, since the     *)
(* programs print the targets as strings.                                   *)
Divide(chosen) ==
    /\ Filter("divide")
    /\ \A s \in model : chosen[s] \in Targets(dist[s])
    /\ dist' = [s \in Services |-> IF s \in model THEN {AutoMapping(chosen[s])} ELSE {}]

-----------------------------------------------------------------------------
(* The end of a deployment; what the generation has computed is forgotten *)

Forget ==
    /\ pc' = "idle"
    /\ todo' = {} /\ applied' = 0
    /\ dist' = [s \in Services |-> {}] /\ given' = dist'
    /\ sorted' = FALSE /\ previousTarget' = Nobody
    /\ UNCHANGED <<network, captured, model, plan>>

(* distribution_expr.xsl writes nothing for an attribute set. *)
Written(s) == {e.target : e \in {f \in dist[s] : f.container = "auto"}}

Generated == pc = "filter" /\ todo = {} /\ applied = Len(plan)

(* Every target is in the infrastructure model and can be reached. *)
Deployable == \A s \in model : Written(s) \subseteq captured \cap network

(* Mutant: the mappings of the manifest do not say which container it was. *)
DeployAutomapped ==
    /\ Generated /\ Deployable
    /\ manifest' = [s \in Services |->
                       {[target |-> m, container |-> "auto"] : m \in Written(s)}]
    /\ home' = [s \in Services |->
                   IF s \in model /\ Written(s) = {} THEN home[s] ELSE Written(s)]
    /\ Forget

Deploy ==
    /\ Generated /\ Deployable
    /\ manifest' = [s \in Services |->
                       {[target |-> m, container |-> "type"] : m \in Written(s)}]
    /\ home' = [s \in Services |->
                   IF s \in model /\ Written(s) = {} THEN home[s] ELSE Written(s)]
    /\ Forget

(* A filter throws, a division program fails, or disnix-env fails. *)
Fail ==
    /\ \/ Applies("capable") /\ \E s \in model : \E e \in dist[s] : ~Evaluates(e)
       \/ /\ Applies("order")
          /\ \E s \in model : Cardinality(dist[s]) > 1 /\ \E e \in dist[s] : ~Evaluates(e)
       \/ pc = "roundrobin" /\ \E s \in todo : GoesNext(s) /\ dist[s] = {}
       \/ Applies("divide")
       \/ Generated /\ ~Deployable
    /\ Forget
    /\ UNCHANGED <<manifest, home>>

Next ==
    \/ \E m \in Machines : Leave(m) \/ Join(m)
    \/ \E s \in Services, e \in Mapping : DeployByHand(s, e)
    \/ \E S \in ServiceModels, infra \in {network, captured} :
          Start(S, infra, {}) \/ Start(S, infra, S)
    \/ \E s \in Services, failing \in Failures : TryBuild(s, failing)
    \/ MapProperties \/ MapStatefulToPrevious \/ MapBoundServicesToPrevious \/ Order
    \/ BeginRoundRobin \/ EndRoundRobin
    \/ \E s \in Services : DivideRoundRobin(s)
    \/ \E chosen \in [Services -> Machines] : Divide(chosen)
    \/ Deploy \/ Fail

Spec == Init /\ [][Next]_vars

-----------------------------------------------------------------------------
(* Properties *)

TypeOK ==
    /\ network \in SUBSET Machines /\ captured \in SUBSET Machines
    /\ model \in ServiceModels /\ plan \in Plans
    /\ manifest \in [Services -> SUBSET Mapping]
    /\ home \in [Services -> SUBSET Machines]
    /\ pc \in {"idle", "filter", "roundrobin"}
    /\ todo \in SUBSET model
    /\ applied \in 0 .. Len(plan)
    /\ dist \in [Services -> SUBSET Entry] /\ given \in [Services -> SUBSET Entry]
    /\ \A s \in Services \ model : dist[s] = {}
    /\ sorted \in BOOLEAN
    /\ previousTarget \in Entry \cup {Nobody}

(* Services marked as stateful are mapped "to its previous targets": if the *)
(* plan has this filter, not the one for bound services, and a division at  *)
(* its end, then no series of deployments, with machines that are away or   *)
(* not captured, builds that fail and containers that were set by hand,     *)
(* moves a stateful service away from its state, for as long as it is in    *)
(* the services model.                                                      *)
Protects ==
    /\ \A i \in 1 .. Len(plan) : plan[i] # "bound"
    /\ \E i \in 1 .. Len(plan) : plan[i] = "stateful"
    /\ plan # <<>> /\ plan[Len(plan)] \in {"roundrobin", "divide"}

StatefulStays ==
    [][Protects /\ pc # "idle" =>
         \A s \in Stateful : home[s] # {} /\ s \in model =>
             Targets(manifest'[s]) \subseteq home[s]]_vars

(* "Maps each service that have been distributed to target machines in a    *)
(* previous distributions to its original locations."                       *)
Bound == plan # <<>> /\ plan[Len(plan)] = "bound"

BoundServicesStay ==
    [][Bound /\ Generated /\ Deployable =>
         \A s \in model : manifest[s] # {} /\ pc' = "idle" =>
             Targets(manifest'[s]) = Targets(manifest[s])]_vars

(* "it distributes services in equal proportions to each candidate target   *)
(* in circular order": of services with the same candidates, after any      *)
(* number of them, every target has as many as the next one or one more.    *)
Load(e) == Cardinality({s \in model \ todo : dist[s] = {e}})

RoundRobinBalanced ==
    pc = "roundrobin" /\ (\A s, t \in model : given[s] = given[t]) =>
        \A s \in model : \A e, f \in given[s] :
            Before(e, f) => Load(e) - Load(f) \in {0, 1}
=============================================================================
