------------------------------ MODULE IdAssign ------------------------------
(***************************************************************************)
(* The ID assigner, dydisnix-id-assign (src/src/idassign), run over and    *)
(* over against the ID assignments file (ids.nix) that it reads at its     *)
(* start and rewrites at its end.                                          *)
(*                                                                         *)
(* One behaviour is a sequence of runs of the program.  A run loads its    *)
(* models, drops the assignments that are no longer valid, walks over the  *)
(* ID resources and gives every service that still needs an ID the next    *)
(* free one, and then truncates the file and writes it anew.  The process  *)
(* may be killed between any two steps.                                    *)
(*                                                                         *)
(* Data abstraction: names and models are values of small sets; a service  *)
(* that is not in the services model requires nothing, a service that is   *)
(* not in the distribution model has no targets, an ID table without       *)
(* entries and no table at all are the same thing (the code treats them    *)
(* alike everywhere, except for the tables per target).                    *)
(***************************************************************************)
EXTENDS Integers, FiniteSets

CONSTANTS
    Services,   \* service names
    Targets,    \* machine names
    Resources,  \* names of ID resources, such as "ports"
    Rank,       \* the order in which an ordered iteration visits names
    Inputs,     \* the inputs a run can be started with
    Faults,     \* what the environment may do: "kill", "open", "write"
    NoId,       \* a NULL id
    NoName,     \* no resource, target or service
    NoPool,     \* a resource that the ID resources model does not define
    NoTable,    \* no last assignments table for a target
    Absent,     \* the ids file does not exist
    Broken      \* the ids file exists, but holds no complete expression

Ids == Int \cup {NoId}

Scopes == {"global", "machine", "other"}

(* An entry of the ID resources model. *)
Pool == [min : Int, max : Int, step : Nat \ {0}, scope : Scopes]

(* What a run is given: --distribution and --xml or not, the property of each service *)
(* that names the resources it requires IDs for, the distribution, the ID   *)
(* resources, and the models that cannot be opened.                         *)
InputType ==
    [ distributed : BOOLEAN,
      xml         : BOOLEAN,
      requires    : [Services -> SUBSET Resources],
      mapping     : [Services -> SUBSET Targets],
      pools       : [Resources -> Pool \cup {NoPool}],
      unreadable  : SUBSET {"services", "distribution", "resources"} ]

IdTables   == [Resources -> [Services -> Ids]]
LastTable  == [Resources -> Ids]
LastTables == [Targets -> LastTable \cup {NoTable}]

(* The contents of the ids file: ids, lastAssignments and                   *)
(* lastAssignmentsPerTarget.                                                *)
Config == [ids : IdTables, last : LastTable, lastPT : LastTables]

ASSUME IdAssumption ==
    /\ NoId \notin Int
    /\ NoName \notin Resources \cup Targets \cup Services
    /\ NoPool \notin Pool /\ NoTable \notin LastTable
    /\ Absent \notin Config /\ Broken \notin Config /\ Absent # Broken

ASSUME InputAssumption ==
    /\ Inputs \subseteq InputType
    /\ Rank \in [Services \cup Targets -> Nat]
    /\ Faults \subseteq {"kill", "open", "write"}

VARIABLES
    file,       \* the ids file: Absent, Broken or a Config
    pc,         \* where the process is; "exited" between two runs
    exitStatus, \* exit_status of the current or last run: "ok", "error", "killed"
    input,      \* the input of the current or last run
    origin,     \* history: the ids file when the current or last run started
    ids,        \* id_assignments_per_resource_table
    last,       \* last_assignments_table
    lastPT,     \* last_assignments_per_target_table
    corrupt,    \* the heap holds a table that was freed twice
    resources,  \* resources that the outer iteration has yet to visit
    resource,   \* the resource it is visiting
    targets,    \* targets that the machine-level iteration has yet to visit
    target,     \* the target it is visiting, NoName on a global scope
    names,      \* service_names that the inner loop has yet to visit
    service,    \* the service an ID is being searched for
    used,       \* the keys of id_to_services_table
    lastId,     \* what last_id points to, NoId when it is NULL
    searchId    \* search_id

config   == <<ids, last, lastPT>>
position == <<resources, resource, targets, target, names, service>>
search   == <<used, lastId, searchId>>
vars     == <<file, pc, exitStatus, input, origin, config, corrupt, position, search>>

-----------------------------------------------------------------------------
(* Helpers *)

NoIds      == [r \in Resources |-> [s \in Services |-> NoId]]
EmptyTable == [r \in Resources |-> NoId]
NoTables   == [t \in Targets |-> NoTable]

Defined(in) == {r \in Resources : in.pools[r] # NoPool}

Pools == Defined(input)

(* The pool as parse_id_resource_type builds it.  The translation of a Nix  *)
(* expression to XML leaves out the step, which defaults to one.            *)
PoolOf(r) ==
    IF input.xml THEN input.pools[r] ELSE [input.pools[r] EXCEPT !.step = 1]

(* service_requires_unique_resource_id: a services model that could not be  *)
(* opened is a NULL table, in which no service is found.                    *)
Requires(s, r) == "services" \notin input.unreadable /\ r \in input.requires[s]

InRange(pool, id) == id >= pool.min /\ id <= pool.max

(* The names in target_to_services_table and the services of one target.    *)
UsedTargets == UNION {input.mapping[s] : s \in Services}
ServicesOn(t) == {s \in Services : t \in input.mapping[s]}

(* derive_service_names, derive_names_of_services_that_are_distributed      *)
GlobalNames ==
    IF input.distributed THEN {s \in Services : input.mapping[s] # {}} ELSE Services

SingleTarget(s) == \E t \in Targets : input.mapping[s] = {t}

(* Mutants of IsValid: the largest id is taken for one outside the pool;    *)
(* the distribution is not looked at.                                       *)
IsValidBelowMax(r, s, id) ==
    /\ id # NoId /\ r \in Pools /\ Requires(s, r)
    /\ InRange(PoolOf(r), id) /\ id # PoolOf(r).max
    /\ input.distributed => SingleTarget(s)

IsValidUndeployed(r, s, id) ==
    /\ id # NoId /\ r \in Pools /\ Requires(s, r) /\ InRange(PoolOf(r), id)

(* check_service_assignment_is_valid, check_distribution_assignment_is_valid *)
IsValid(r, s, id) ==
    /\ id # NoId
    /\ r \in Pools
    /\ Requires(s, r)
    /\ InRange(PoolOf(r), id)
    /\ input.distributed => SingleTarget(s)

(* Mutant: every last assignment is dropped. *)
KeepNone(table) == [r \in Resources |-> NoId]

(* remove_invalid_last_assignments *)
KeepDefined(table) == [r \in Resources |-> IF r \in Pools THEN table[r] ELSE NoId]

IncreaseSearchId(pool, id) ==
    IF id + pool.step > pool.max THEN pool.min ELSE id + pool.step

(* Mutants of Depleted: off by one in both directions. *)
DepletedTooSoon(pool) == Cardinality(used) >= pool.max - pool.min
DepletedTooLate(pool) == Cardinality(used) > pool.max - pool.min + 1

(* The comparison of derive_next_id is one of unsigned integers: a pool     *)
(* whose max is less than min - 1 is never depleted.                        *)
Depleted(pool) ==
    LET size == pool.max - pool.min + 1 IN size >= 0 /\ Cardinality(used) >= size

(* Mutants of UsedBy: services without an id are not left out; the ids that *)
(* are retained are forgotten.                                              *)
UsedByWithNull(r, S) == {ids[r][s] : s \in S}
UsedByNone(r, S) == {}

(* derive_id_to_service_table *)
UsedBy(r, S) == {ids[r][s] : s \in S} \ {NoId}

(* The next name of an ordered iteration over a hash table. *)
IsFirst(n, S) == n \in S /\ \A o \in S : Rank[n] <= Rank[o]

-----------------------------------------------------------------------------
(* The process *)

(* What the memory of the process holds before it runs and after it ends. *)
FreshMemory ==
    /\ ids = NoIds /\ last = EmptyTable /\ lastPT = NoTables
    /\ corrupt = FALSE
    /\ resources = {} /\ resource = NoName
    /\ targets = {} /\ target = NoName
    /\ names = {} /\ service = NoName
    /\ used = {} /\ lastId = NoId /\ searchId = NoId

ForgetMemory ==
    /\ ids' = NoIds /\ last' = EmptyTable /\ lastPT' = NoTables
    /\ corrupt' = FALSE
    /\ resources' = {} /\ resource' = NoName
    /\ targets' = {} /\ target' = NoName
    /\ names' = {} /\ service' = NoName
    /\ used' = {} /\ lastId' = NoId /\ searchId' = NoId

Init ==
    /\ file = Absent
    /\ pc = "exited"
    /\ exitStatus = "ok"
    /\ input \in Inputs
    /\ origin = file
    /\ FreshMemory

(* Mutant: the configuration is printed after all. *)
FailAndPrint ==
    /\ pc' = "print"
    /\ exitStatus' = "error"
    /\ UNCHANGED <<file, input, origin, config, corrupt, position, search>>

(* An error of the current step: the code reports it and goes to cleanup. *)
Fail ==
    /\ pc' = "cleanup"
    /\ exitStatus' = "error"
    /\ UNCHANGED <<file, input, origin, config, corrupt, position, search>>

(* The models whose failure to open ends the run.  With a distribution, the *)
(* test of the services model is not chained to the tests after it.         *)
Fatal(in) ==
    IF in.distributed THEN {"distribution", "resources"} ELSE {"services", "resources"}

CanLoad(in) == file # Broken /\ in.unreadable \cap Fatal(in) = {}

StatusAfterLoading(in) ==
    IF CanLoad(in) /\ "services" \notin in.unreadable THEN "ok" ELSE "error"

(* Start a run and open the models; the callers of the program pass --ids   *)
(* only when the file exists.                                               *)
Load(in) ==
    /\ pc = "exited"
    /\ input' = in
    /\ origin' = file
    /\ exitStatus' = StatusAfterLoading(in)
    /\ IF CanLoad(in)
       THEN /\ pc' = "clean"
            /\ resources' = Defined(in)
            /\ IF file = Absent
               THEN UNCHANGED config
               ELSE /\ ids' = file.ids
                    /\ last' = file.last
                    /\ lastPT' = file.lastPT
       ELSE pc' = "cleanup" /\ UNCHANGED <<config, resources>>
    /\ UNCHANGED <<file, corrupt, resource, targets, target, names, service, search>>

KeepValid(table) ==
    [r \in Resources |-> [s \in Services |->
        IF IsValid(r, s, table[r][s]) THEN table[r][s] ELSE NoId]]

(* remove_invalid_service_ids *)
RemoveInvalidServiceIds ==
    /\ pc = "clean" /\ ~input.distributed
    /\ ids' = KeepValid(ids)
    /\ last' = KeepDefined(last)
    /\ lastPT' = NoTables
    /\ pc' = "resource"
    /\ UNCHANGED <<file, exitStatus, input, origin, corrupt, position, search>>

(* remove_unneeded_last_assignments_tables frees these tables, but takes    *)
(* their entries out of the wrong table; the table of an unused target has  *)
(* even been freed before.                                                  *)
Unneeded(t) ==
    lastPT[t] # NoTable /\ (t \notin UsedTargets \/ KeepDefined(lastPT[t]) = EmptyTable)

(* remove_invalid_distribution_ids.  The entry of a freed table stays.  Its *)
(* use is undefined: either the table still reads as an empty one, or the   *)
(* process aborts, at this step or at a later one (Crash).                  *)
RemoveInvalidDistributionIds ==
    /\ pc = "clean" /\ input.distributed
    /\ ids' = KeepValid(ids)
    /\ last' = KeepDefined(last)
    /\ lastPT' = [t \in Targets |->
                    IF lastPT[t] = NoTable THEN NoTable
                    ELSE IF Unneeded(t) THEN EmptyTable ELSE KeepDefined(lastPT[t])]
    /\ corrupt' = \E t \in Targets : Unneeded(t)
    /\ pc' = "resource"
    /\ UNCHANGED <<file, exitStatus, input, origin, position, search>>

(* The next resource of assign_ids_to_services and                          *)
(* assign_ids_to_distributed_services, in no particular order.  A service   *)
(* list is set up with the derive_id_to_service_table and the last id that  *)
(* create_id_assignments_for_services starts from.                          *)
VisitGlobalResource(r) ==
    /\ pc = "resource" /\ r \in resources
    /\ PoolOf(r).scope = "global"
    /\ resources' = resources \ {r}
    /\ resource' = r
    /\ names' = GlobalNames
    /\ used' = UsedBy(r, GlobalNames)
    /\ lastId' = last[r]
    /\ pc' = "service"
    /\ UNCHANGED <<file, exitStatus, input, origin, config, corrupt,
                   targets, target, service, searchId>>

VisitMachineResource(r) ==
    /\ pc = "resource" /\ r \in resources
    /\ PoolOf(r).scope = "machine" /\ input.distributed
    /\ resources' = resources \ {r}
    /\ resource' = r
    /\ targets' = UsedTargets
    /\ pc' = "target"
    /\ UNCHANGED <<file, exitStatus, input, origin, config, corrupt,
                   target, names, service, search>>

(* "Unknown scope" *)
RejectScope(r) ==
    /\ pc = "resource" /\ r \in resources
    /\ \/ PoolOf(r).scope = "other"
       \/ PoolOf(r).scope = "machine" /\ ~input.distributed
    /\ Fail

FinishResources ==
    /\ pc = "resource" /\ resources = {}
    /\ pc' = "print"
    /\ UNCHANGED <<file, exitStatus, input, origin, config, corrupt, position, search>>

(* The next target of assign_machine_level_ids_to_distributed_services: a   *)
(* target without a table gets an empty one.                                *)
VisitTarget(t) ==
    /\ pc = "target" /\ IsFirst(t, targets)
    /\ targets' = targets \ {t}
    /\ target' = t
    /\ lastPT' = [lastPT EXCEPT ![t] = IF @ = NoTable THEN EmptyTable ELSE @]
    /\ names' = ServicesOn(t)
    /\ used' = UsedBy(resource, ServicesOn(t))
    /\ lastId' = lastPT'[t][resource]
    /\ pc' = "service"
    /\ UNCHANGED <<file, exitStatus, input, origin, ids, last, corrupt,
                   resources, resource, service, searchId>>

FinishTargets ==
    /\ pc = "target" /\ targets = {}
    /\ target' = NoName
    /\ pc' = "resource"
    /\ UNCHANGED <<file, exitStatus, input, origin, config, corrupt,
                   resources, resource, targets, names, service, search>>

(* The next service of create_id_assignments_for_services.  The names of a  *)
(* global list are ordered, those of one target come in no particular order. *)
IsNextName(s) == IF target = NoName THEN IsFirst(s, names) ELSE s \in names

(* Mutant: a service that holds an id is given another one. *)
NeedsIdAgain(s) == Requires(s, resource)

NeedsId(s) == Requires(s, resource) /\ ids[resource][s] = NoId

SkipService(s) ==
    /\ pc = "service" /\ IsNextName(s) /\ ~NeedsId(s)
    /\ names' = names \ {s}
    /\ UNCHANGED <<file, pc, exitStatus, input, origin, config, corrupt,
                   resources, resource, targets, target, service, search>>

(* "The amount of IDs is depleted!" *)
Deplete(s) ==
    /\ pc = "service" /\ IsNextName(s) /\ NeedsId(s)
    /\ Depleted(PoolOf(resource))
    /\ Fail

(* derive_next_id up to its loop *)
StartSearch(s) ==
    /\ pc = "service" /\ IsNextName(s) /\ NeedsId(s)
    /\ ~Depleted(PoolOf(resource))
    /\ names' = names \ {s}
    /\ service' = s
    /\ searchId' = IF lastId = NoId THEN PoolOf(resource).min
                   ELSE IncreaseSearchId(PoolOf(resource), lastId)
    /\ pc' = "search"
    /\ UNCHANGED <<file, exitStatus, input, origin, config, corrupt,
                   resources, resource, targets, target, used, lastId>>

FinishServices ==
    /\ pc = "service" /\ names = {}
    /\ pc' = IF target = NoName THEN "resource" ELSE "target"
    /\ UNCHANGED <<file, exitStatus, input, origin, config, corrupt, position, search>>

(* One iteration of the loop of derive_next_id *)
TryNextId ==
    /\ pc = "search" /\ searchId \in used
    /\ searchId' = IncreaseSearchId(PoolOf(resource), searchId)
    /\ UNCHANGED <<file, pc, exitStatus, input, origin, config, corrupt,
                   position, used, lastId>>

(* The loop ends, and assign_id records the id; last_id then points to a    *)
(* variable of the loop body, which keeps its value and its place until the *)
(* next iteration overwrites it.                                            *)
AssignId ==
    /\ pc = "search" /\ searchId \notin used
    /\ ids' = [ids EXCEPT ![resource][service] = searchId]
    /\ IF target = NoName
       THEN last' = [last EXCEPT ![resource] = searchId] /\ UNCHANGED lastPT
       ELSE lastPT' = [lastPT EXCEPT ![target][resource] = searchId] /\ UNCHANGED last
    /\ used' = used \cup {searchId}
    /\ lastId' = searchId
    /\ service' = NoName
    /\ searchId' = NoId
    /\ pc' = "service"
    /\ UNCHANGED <<file, exitStatus, input, origin, corrupt,
                   resources, resource, targets, target, names>>

(* print_ids_config: opening the file for writing truncates it.             *)
OpenOutput ==
    /\ pc = "print"
    /\ file' = Broken
    /\ pc' = "write"
    /\ UNCHANGED <<exitStatus, input, origin, config, corrupt, position, search>>

FailToOpenOutput == pc = "print" /\ "open" \in Faults /\ Fail

WriteOutput ==
    /\ pc = "write"
    /\ file' = [ids |-> ids, last |-> last, lastPT |-> lastPT]
    /\ pc' = "cleanup"
    /\ UNCHANGED <<exitStatus, input, origin, config, corrupt, position, search>>

(* Nobody looks at what fprintf and fclose return: on a full disk the run   *)
(* goes on as if it had written the file.                                   *)
FailToWriteOutput ==
    /\ pc = "write" /\ "write" \in Faults
    /\ pc' = "cleanup"
    /\ UNCHANGED <<file, exitStatus, input, origin, config, corrupt, position, search>>

Exit ==
    /\ pc = "cleanup"
    /\ pc' = "exited"
    /\ ForgetMemory
    /\ UNCHANGED <<file, exitStatus, input, origin>>

(* The process is killed, or aborts on its corrupted heap.                  *)
Crash ==
    /\ pc # "exited"
    /\ "kill" \in Faults \/ corrupt
    /\ pc' = "exited"
    /\ exitStatus' = "killed"
    /\ ForgetMemory
    /\ UNCHANGED <<file, input, origin>>

-----------------------------------------------------------------------------
(* The specification *)

(* What a running process does by itself. *)
Step ==
    \/ RemoveInvalidServiceIds
    \/ RemoveInvalidDistributionIds
    \/ \E r \in Resources :
          VisitGlobalResource(r) \/ VisitMachineResource(r) \/ RejectScope(r)
    \/ FinishResources
    \/ \E t \in Targets : VisitTarget(t)
    \/ FinishTargets
    \/ \E s \in Services : SkipService(s) \/ Deplete(s) \/ StartSearch(s)
    \/ FinishServices
    \/ TryNextId
    \/ AssignId
    \/ OpenOutput
    \/ WriteOutput
    \/ Exit

Next ==
    \/ \E in \in Inputs : Load(in)
    \/ Step
    \/ FailToOpenOutput
    \/ FailToWriteOutput
    \/ Crash

Spec == Init /\ [][Next]_vars

(* The process is sequential and nothing blocks it. *)
FairSpec == Spec /\ WF_vars(Step)

-----------------------------------------------------------------------------
(* Properties *)

Points == {"exited", "clean", "resource", "target", "service", "search",
           "print", "write", "cleanup"}

(* Every variable holds what the code can put in it; an id is being         *)
(* searched for exactly while the loop of derive_next_id runs, for a        *)
(* service, on behalf of a resource that the model defines.                 *)
TypeOK ==
    /\ file \in Config \cup {Absent, Broken}
    /\ origin \in Config \cup {Absent, Broken}
    /\ pc \in Points
    /\ exitStatus \in {"ok", "error", "killed"}
    /\ input \in Inputs
    /\ ids \in IdTables /\ last \in LastTable /\ lastPT \in LastTables
    /\ corrupt \in BOOLEAN
    /\ resources \subseteq Pools
    /\ resource \in Resources \cup {NoName}
    /\ targets \subseteq Targets /\ target \in Targets \cup {NoName}
    /\ names \subseteq Services /\ service \in Services \cup {NoName}
    /\ used \subseteq Int /\ lastId \in Ids /\ searchId \in Ids
    /\ pc \in {"target", "service", "search"} => resource \in Pools
    /\ pc = "search" <=> searchId # NoId
    /\ pc = "search" => service \in Services
    /\ target # NoName => lastPT[target] # NoTable

(* The resources that no model ever gives another scope than the global one. *)
GlobalOnly ==
    {r \in Resources : \A in \in Inputs : r \in Defined(in) => in.pools[r].scope # "machine"}

Injective(table) ==
    \A s1, s2 \in Services : s1 # s2 /\ table[s1] # NoId => table[s1] # table[s2]

(* No two services hold the same global id in the file, whatever models the *)
(* successive runs are given, with and without a distribution, and however  *)
(* they end: a retained id is never handed out to another service.          *)
GlobalIdsUnique ==
    file \in {Absent, Broken} \/ \A r \in GlobalOnly : Injective(file.ids[r])

(* "machine says that an ID should be unique to the machine where a service *)
(* is deployed to": services mapped to one target hold different ids.       *)
MachineIdsUnique ==
    pc = "cleanup" /\ exitStatus = "ok" =>
        \A r \in Pools, t \in Targets :
            \A s1, s2 \in ServicesOn(t) :
                s1 # s2 /\ ids[r][s1] # NoId => ids[r][s1] # ids[r][s2]

(* "min specifies the minimum allowed ID, max specifies the maximum allowed *)
(* ID": the ids of a run that ends well, the retained and the new ones, lie *)
(* in the pools that it was given.                                          *)
IdsInRange ==
    pc = "cleanup" /\ exitStatus = "ok" =>
        \A r \in Pools, s \in Services :
            ids[r][s] # NoId => InRange(PoolOf(r), ids[r][s])

(* A run that ends well leaves a file (if the disk could hold it) in which   *)
(* exactly the services that take part and require an id hold one, and      *)
(* nobody else does: nothing is skipped by the nested iterations and        *)
(* nothing stale stays behind.                                              *)
IdsComplete ==
    pc = "cleanup" /\ exitStatus = "ok" /\ file # Broken =>
        /\ file # Absent
        /\ \A r \in Resources, s \in Services :
              file.ids[r][s] # NoId <=> r \in Pools /\ s \in GlobalNames /\ Requires(s, r)

(* The three together: what a run that ends well leaves behind is a         *)
(* complete assignment, unique where it has to be and within the bounds.    *)
IdsCorrect == MachineIdsUnique /\ IdsInRange /\ IdsComplete

(* An assignment that the doc calls still valid: the service requires the   *)
(* resource, is deployed, and its id is within the bounds.  The code asks   *)
(* for one thing more, that it is deployed to a single machine.             *)
StillValid(r, s, id) ==
    /\ id # NoId /\ r \in Pools /\ r \in input.requires[s]
    /\ s \in GlobalNames /\ InRange(PoolOf(r), id)

(* "retains all previous ID assignments that are still valid, and will only *)
(* assign IDs to services that have none assigned yet", so that a service   *)
(* is not redeployed needlessly: what a run writes agrees with what it read, *)
(* unless it goes on with a distribution, but without the services model.   *)
LacksServices == input.distributed /\ "services" \in input.unreadable

ValidIdsRetained ==
    [][file' # file /\ file' # Broken /\ origin # Absent /\ ~LacksServices =>
        \A r \in Resources, s \in Services :
            StillValid(r, s, origin.ids[r][s]) => file'.ids[r][s] = origin.ids[r][s]]_vars

(* All or nothing: a run that reports an error leaves the file as it was,   *)
(* also when it fails at a later resource than the one it gave ids for.     *)
(* The run that goes on without the services model is the exception.        *)
FailedRunKeepsFile ==
    pc = "cleanup" /\ exitStatus = "error" /\ ~LacksServices => file = origin

(* "we have depleted our resource pool": a run gives up for want of ids     *)
(* only when more services need one than the pool has ids; ids that were    *)
(* handed out before and are no longer in use are found again.              *)
DepletedOnlyWhenFull ==
    [][\A s \in Services : Deplete(s) =>
        LET pool == PoolOf(resource)
            sharers == IF target = NoName THEN GlobalNames ELSE ServicesOn(target)
        IN Cardinality({o \in sharers : Requires(o, resource)}) > pool.max - pool.min + 1]_vars

(* What the theorems ask of the models that successive runs are given: that *)
(* the bounds of a pool stay what they are; that the same pools are         *)
(* defined; that no service is deployed redundantly (it would lose its id   *)
(* in every run with a distribution, and get the next one); that no service *)
(* ever moves.                                                              *)
SteadyPools ==
    \A in1, in2 \in Inputs : \A r \in Defined(in1) \cap Defined(in2) :
        /\ in1.pools[r].min = in2.pools[r].min
        /\ in1.pools[r].max = in2.pools[r].max
        /\ in1.pools[r].min <= in1.pools[r].max

SamePools == \A in1, in2 \in Inputs : Defined(in1) = Defined(in2)

NotReplicated ==
    \A in \in Inputs, s \in Services : \A t, u \in in.mapping[s] : t = u

SteadyMachines ==
    \A in1, in2 \in Inputs, s \in Services :
        \A t \in in1.mapping[s], u \in in2.mapping[s] : t = u

(* Every run comes to its end. *)
RunsTerminate == pc # "exited" ~> pc = "exited"
=============================================================================
