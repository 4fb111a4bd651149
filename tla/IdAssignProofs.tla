--------------------------- MODULE IdAssignProofs ---------------------------
(***************************************************************************)
(* Theorems about IdAssign for all services, targets, resources and inputs. *)
(***************************************************************************)
EXTENDS IdAssignHistory, FiniteSetTheorems, TLAPS

(* TypeOK is not inductive by itself: between two runs the memory is blank, *)
(* and no target is being visited outside the machine-level iteration.      *)
Quiet ==
    /\ pc = "exited" => FreshMemory
    /\ pc \in {"clean", "resource", "print", "write"} => target = NoName

TypeInv == TypeOK /\ Quiet

USE DEF Ids

(* Increasing a search id yields an integer again. *)
LEMMA IncreaseType ==
    ASSUME NEW pool \in Pool, NEW id \in Int
    PROVE  IncreaseSearchId(pool, id) \in Int
BY DEF Pool, IncreaseSearchId

(* The blank memory has the right type. *)
LEMMA FreshTypes ==
    /\ NoIds \in IdTables
    /\ EmptyTable \in LastTable
    /\ NoTables \in LastTables
BY DEF NoIds, EmptyTable, NoTables, IdTables, LastTable, LastTables

(* An input maps the resources that it defines to pools. *)
LEMMA InputPools ==
    ASSUME NEW in \in Inputs
    PROVE  /\ Defined(in) \subseteq Resources
           /\ \A r \in Defined(in) : in.pools[r] \in Pool
           /\ in.requires \in [Services -> SUBSET Resources]
           /\ in.mapping \in [Services -> SUBSET Targets]
BY InputAssumption DEF InputType, Defined

(* A defined pool keeps its type when it loses its step. *)
LEMMA PoolType ==
    ASSUME input \in Inputs, NEW r \in Pools
    PROVE  PoolOf(r) \in Pool
BY InputPools DEF Pools, PoolOf, Pool

(* Dropping assignments keeps the tables well typed. *)
LEMMA KeepTypes ==
    /\ \A table \in IdTables : KeepValid(table) \in IdTables
    /\ \A table \in LastTable : KeepDefined(table) \in LastTable
BY DEF KeepValid, KeepDefined, IdTables, LastTable

(* The ids of services in a table are integers. *)
LEMMA UsedType ==
    ASSUME TypeOK, NEW r \in Resources, NEW S \in SUBSET Services
    PROVE  UsedBy(r, S) \subseteq Int
BY DEF TypeOK, UsedBy, IdTables

LEMMA TypeInit == Init => TypeInv
BY FreshTypes, IdAssumption DEF Init, TypeInv, TypeOK, Quiet, FreshMemory, Points

LEMMA TypeLoad == ASSUME TypeInv, NEW in \in Inputs, Load(in) PROVE TypeInv'
<1>1. ids' \in IdTables /\ last' \in LastTable /\ lastPT' \in LastTables
  <2>1. CASE CanLoad(in) /\ file # Absent
    <3>1. file \in Config BY <2>1 DEF CanLoad, TypeInv, TypeOK
    <3> QED BY <2>1, <3>1 DEF Load, Config
  <2>2. CASE ~(CanLoad(in) /\ file # Absent)
    BY <2>2 DEF Load, config, TypeInv, TypeOK
  <2> QED BY <2>1, <2>2
<1>2. exitStatus' \in {"ok", "error", "killed"} BY DEF Load, StatusAfterLoading
<1>3. resources' \subseteq Pools'
  BY DEF Load, Pools, TypeInv, TypeOK, Quiet, FreshMemory
<1>4. target' = NoName /\ searchId' = NoId
  BY DEF Load, TypeInv, TypeOK, Quiet, FreshMemory, search
<1> QED
  BY <1>1, <1>2, <1>3, <1>4 DEF Load, TypeInv, TypeOK, Quiet, Points, search

LEMMA TypeNext == TypeInv /\ [Next]_vars => TypeInv'
<1> SUFFICES ASSUME TypeInv, [Next]_vars PROVE TypeInv' OBVIOUS
<1> USE DEF TypeInv, TypeOK, Quiet, Points
<1>1. CASE UNCHANGED vars
  BY <1>1 DEF vars, config, position, search, FreshMemory, Pools
<1>2. ASSUME NEW in \in Inputs, Load(in) PROVE TypeInv'
  BY <1>2, TypeLoad
<1>3. CASE RemoveInvalidServiceIds
  <2>1. lastPT' \in LastTables BY <1>3, FreshTypes DEF RemoveInvalidServiceIds
  <2> QED BY <1>3, <2>1, KeepTypes
    DEF RemoveInvalidServiceIds, position, search, Pools
<1>4. CASE RemoveInvalidDistributionIds
  <2>1. lastPT' \in LastTables
    BY <1>4, KeepTypes, FreshTypes DEF RemoveInvalidDistributionIds, LastTables
  <2>2. corrupt' \in BOOLEAN BY <1>4 DEF RemoveInvalidDistributionIds
  <2> QED BY <1>4, <2>1, <2>2, KeepTypes
    DEF RemoveInvalidDistributionIds, position, search, Pools
<1>5. ASSUME NEW r \in Resources, VisitGlobalResource(r) PROVE TypeInv'
  <2>1. used' \subseteq Int BY <1>5, UsedType DEF VisitGlobalResource, GlobalNames
  <2>2. lastId' \in Ids BY <1>5 DEF VisitGlobalResource, LastTable
  <2> QED BY <1>5, <2>1, <2>2
    DEF VisitGlobalResource, config, Pools, GlobalNames
<1>6. ASSUME NEW r \in Resources, VisitMachineResource(r) PROVE TypeInv'
  <2>1. targets' \subseteq Targets
    BY <1>6, InputPools DEF VisitMachineResource, UsedTargets
  <2> QED BY <1>6, <2>1
    DEF VisitMachineResource, config, search, Pools
<1>7. ASSUME NEW r \in Resources, RejectScope(r) PROVE TypeInv'
  BY <1>7 DEF RejectScope, Fail, config, position, search, Pools
<1>8. CASE FinishResources
  BY <1>8 DEF FinishResources, config, position, search, Pools
<1>9. ASSUME NEW t \in Targets, VisitTarget(t) PROVE TypeInv'
  <2>1. lastPT' \in LastTables /\ lastPT'[t] # NoTable /\ lastPT'[t] \in LastTable
    BY <1>9, FreshTypes, IdAssumption DEF VisitTarget, LastTables
  <2>2. used' \subseteq Int
    BY <1>9, UsedType, InputPools DEF VisitTarget, ServicesOn, Pools
  <2>3. lastId' \in Ids BY <1>9, <2>1, InputPools DEF VisitTarget, LastTable, Pools
  <2> QED BY <1>9, <2>1, <2>2, <2>3 DEF VisitTarget, Pools, ServicesOn
<1>10. CASE FinishTargets
  BY <1>10 DEF FinishTargets, config, search, Pools
<1>11. ASSUME NEW s \in Services, SkipService(s) PROVE TypeInv'
  BY <1>11 DEF SkipService, config, search, Pools
<1>12. ASSUME NEW s \in Services, Deplete(s) PROVE TypeInv'
  BY <1>12 DEF Deplete, Fail, config, position, search, Pools
<1>13. ASSUME NEW s \in Services, StartSearch(s) PROVE TypeInv'
  <2>1. PoolOf(resource) \in Pool BY <1>13, PoolType DEF StartSearch
  <2>2. searchId' \in Int BY <1>13, <2>1, IncreaseType DEF StartSearch, Pool
  <2> QED BY <1>13, <2>2, IdAssumption DEF StartSearch, config, Pools
<1>14. CASE FinishServices
  BY <1>14 DEF FinishServices, config, position, search, Pools
<1>15. CASE TryNextId
  <2>1. PoolOf(resource) \in Pool BY <1>15, PoolType DEF TryNextId
  <2>2. searchId' \in Int BY <1>15, <2>1, IncreaseType DEF TryNextId, Pool
  <2> QED BY <1>15, <2>2, IdAssumption DEF TryNextId, config, position, Pools
<1>16. CASE AssignId
  <2>1. resource \in Resources /\ service \in Services /\ searchId \in Int
    BY <1>16, InputPools DEF AssignId, Pools
  <2>2. ids' \in IdTables BY <1>16, <2>1 DEF AssignId, IdTables
  <2>3. last' \in LastTable BY <1>16, <2>1 DEF AssignId, LastTable
  <2>4. lastPT' \in LastTables /\ (target # NoName => lastPT'[target] # NoTable)
    <3>1. CASE target = NoName BY <1>16, <3>1 DEF AssignId
    <3>2. CASE target # NoName
      <4>1. target \in Targets /\ lastPT[target] \in LastTable
        BY <3>2 DEF LastTables
      <4>2. [lastPT[target] EXCEPT ![resource] = searchId] \in LastTable
        BY <4>1, <2>1 DEF LastTable
      <4> QED BY <1>16, <3>2, <4>1, <4>2, IdAssumption DEF AssignId, LastTables
    <3> QED BY <3>1, <3>2
  <2> QED BY <1>16, <2>1, <2>2, <2>3, <2>4, IdAssumption DEF AssignId, Pools
<1>17. CASE OpenOutput
  BY <1>17 DEF OpenOutput, config, position, search, Pools
<1>18. CASE WriteOutput
  BY <1>18 DEF WriteOutput, Config, config, position, search, Pools
<1>19. CASE Exit
  BY <1>19, FreshTypes, IdAssumption DEF Exit, ForgetMemory, FreshMemory, Pools
<1>20. CASE FailToOpenOutput
  BY <1>20 DEF FailToOpenOutput, Fail, config, position, search, Pools
<1>21. CASE FailToWriteOutput
  BY <1>21 DEF FailToWriteOutput, config, position, search, Pools
<1>22. CASE Crash
  BY <1>22, FreshTypes, IdAssumption DEF Crash, ForgetMemory, FreshMemory, Pools
<1> QED
  BY <1>1, <1>2, <1>3, <1>4, <1>5, <1>6, <1>7, <1>8, <1>9, <1>10, <1>11, <1>12, <1>13,
     <1>14, <1>15, <1>16, <1>17, <1>18, <1>19, <1>20, <1>21, <1>22 DEF Next, Step

(* Every reachable state is well typed. *)
THEOREM TypeCorrect == Spec => []TypeOK
<1>1. TypeInv => TypeOK BY DEF TypeInv
<1> QED BY <1>1, TypeInit, TypeNext, PTL DEF Spec

-----------------------------------------------------------------------------
(* Uniqueness of global ids.  The ids in memory are unique because the      *)
(* search avoids the ids in "used", and "used" misses none: every id that   *)
(* survived the removal of the invalid ones belongs to a service of the     *)
(* list that is being walked over.                                          *)
Running == pc \in {"resource", "target", "service", "search", "print", "write"}
Walking == pc \in {"service", "search"}

(* Files hold every global id once. *)
UniqueIn(f) == f \in {Absent, Broken} \/ \A r \in GlobalOnly : Injective(f.ids[r])

(* Ids in memory are unique, and held by services of the list only. *)
UniqueInMemory ==
    \A r \in GlobalOnly :
        /\ Injective(ids[r])
        /\ Running => \A s \in Services : ids[r][s] # NoId => s \in GlobalNames

(* A target is being visited on behalf of a machine-level resource only. *)
TargetOfMachine ==
    /\ pc = "target" => resource \notin GlobalOnly
    /\ Walking /\ target # NoName => resource \notin GlobalOnly

(* While a global list is walked over, the ids in use are all known.        *)
UsedIsComplete ==
    Walking /\ target = NoName =>
        /\ used = UsedBy(resource, GlobalNames)
        /\ names \subseteq GlobalNames
        /\ pc = "search" => service \in GlobalNames

SearchIsNeeded == pc = "search" => ids[resource][service] = NoId

UniqueInv ==
    UniqueIn(file) /\ UniqueInMemory /\ TargetOfMachine /\ UsedIsComplete /\ SearchIsNeeded

(* A table without ids is injective, and so is a part of an injective one. *)
LEMMA NoIdsInjective == ASSUME NEW r \in Resources PROVE Injective(NoIds[r])
BY DEF Injective, NoIds

LEMMA KeepInjective ==
    ASSUME NEW table \in IdTables, NEW r \in Resources, Injective(table[r])
    PROVE  Injective(KeepValid(table)[r])
BY DEF Injective, KeepValid, IdTables

(* Giving a service an id that nobody holds keeps a table injective. *)
LEMMA AssignInjective ==
    ASSUME NEW f \in [Services -> Ids], NEW s \in Services, NEW id \in Int,
           Injective(f), \A o \in Services : f[o] # id
    PROVE  Injective([f EXCEPT ![s] = id])
BY DEF Injective

(* A valid assignment is one of a service that takes part in the run. *)
LEMMA ValidTakesPart ==
    ASSUME NEW r, NEW s \in Services, NEW id, IsValid(r, s, id), input \in Inputs
    PROVE  s \in GlobalNames
<1>1. input.distributed => input.mapping[s] # {}
  BY DEF IsValid, SingleTarget
<1> QED BY <1>1 DEF GlobalNames

LEMMA UniqueInit == Init => UniqueInv
BY NoIdsInjective DEF Init, FreshMemory, UniqueInv, UniqueIn, UniqueInMemory,
   TargetOfMachine, UsedIsComplete, SearchIsNeeded, Running, Walking, GlobalOnly

LEMMA PoolScope ==
    ASSUME input \in Inputs, NEW r \in Pools
    PROVE  PoolOf(r).scope = input.pools[r].scope
BY InputPools DEF Pools, PoolOf, Pool

LEMMA GlobalOnlyType == GlobalOnly \subseteq Resources
BY DEF GlobalOnly

(* Removing the invalid assignments leaves unique ids of services that take *)
(* part in the run.                                                         *)
LEMMA UniqueClean ==
    ASSUME TypeInv, UniqueInv, ids' = KeepValid(ids), pc = "clean", pc' = "resource",
           UNCHANGED <<file, input>>
    PROVE  UniqueInv'
<1>1. UniqueInMemory'
  <2> SUFFICES ASSUME NEW r \in GlobalOnly
               PROVE  /\ Injective(ids'[r])
                      /\ \A s \in Services : ids'[r][s] # NoId => s \in GlobalNames'
    BY DEF UniqueInMemory
  <2>1. Injective(ids'[r])
    BY KeepInjective, GlobalOnlyType DEF UniqueInv, UniqueInMemory, TypeInv, TypeOK
  <2>2. ASSUME NEW s \in Services, ids'[r][s] # NoId PROVE s \in GlobalNames'
    <3>1. IsValid(r, s, ids[r][s]) BY <2>2, GlobalOnlyType DEF KeepValid
    <3>2. s \in GlobalNames BY <3>1, ValidTakesPart DEF TypeInv, TypeOK
    <3> QED BY <3>2 DEF GlobalNames
  <2> QED BY <2>1, <2>2
<1> QED
  BY <1>1 DEF UniqueInv, UniqueIn, TargetOfMachine, UsedIsComplete, SearchIsNeeded, Walking

LEMMA UniqueNext == TypeInv /\ UniqueInv /\ [Next]_vars => UniqueInv'
<1> SUFFICES ASSUME TypeInv, UniqueInv, [Next]_vars PROVE UniqueInv' OBVIOUS
<1> USE GlobalOnlyType
        DEF UniqueInv, UniqueIn, UniqueInMemory, TargetOfMachine, UsedIsComplete,
            SearchIsNeeded, Running, Walking
<1>1. CASE UNCHANGED vars
  BY <1>1 DEF vars, config, position, search, UsedBy, GlobalNames
<1>2. ASSUME NEW in \in Inputs, Load(in) PROVE UniqueInv'
  <2>1. ids = NoIds BY <1>2 DEF Load, TypeInv, Quiet, FreshMemory
  <2>2. ids' = NoIds \/ (file \notin {Absent, Broken} /\ ids' = file.ids)
    BY <1>2, <2>1 DEF Load, CanLoad, config
  <2>3. \A r \in GlobalOnly : Injective(ids'[r]) BY <2>2, NoIdsInjective
  <2> QED BY <1>2, <2>3 DEF Load
<1>3. CASE RemoveInvalidServiceIds
  BY <1>3, UniqueClean DEF RemoveInvalidServiceIds
<1>4. CASE RemoveInvalidDistributionIds
  BY <1>4, UniqueClean DEF RemoveInvalidDistributionIds
<1>5. ASSUME NEW r \in Resources, VisitGlobalResource(r) PROVE UniqueInv'
  <2>1. target' = NoName BY <1>5 DEF VisitGlobalResource, TypeInv, Quiet
  <2>2. UsedIsComplete'
    BY <1>5 DEF VisitGlobalResource, UsedBy, GlobalNames, config
  <2>3. UniqueInMemory' BY <1>5 DEF VisitGlobalResource, GlobalNames, config
  <2> QED BY <1>5, <2>1, <2>2, <2>3 DEF VisitGlobalResource
<1>6. ASSUME NEW r \in Resources, VisitMachineResource(r) PROVE UniqueInv'
  <2>1. r \notin GlobalOnly
    BY <1>6, PoolScope DEF VisitMachineResource, GlobalOnly, TypeInv, TypeOK, Pools
  <2> QED BY <1>6, <2>1 DEF VisitMachineResource, GlobalNames, config
<1>7. ASSUME NEW r \in Resources, RejectScope(r) PROVE UniqueInv'
  BY <1>7 DEF RejectScope, Fail, config
<1>8. CASE FinishResources
  BY <1>8 DEF FinishResources, config, GlobalNames
<1>9. ASSUME NEW t \in Targets, VisitTarget(t) PROVE UniqueInv'
  <2>1. target' # NoName BY <1>9, IdAssumption DEF VisitTarget
  <2> QED BY <1>9, <2>1 DEF VisitTarget, GlobalNames
<1>10. CASE FinishTargets
  BY <1>10 DEF FinishTargets, config, GlobalNames
<1>11. ASSUME NEW s \in Services, SkipService(s) PROVE UniqueInv'
  BY <1>11 DEF SkipService, config, search, UsedBy, GlobalNames
<1>12. ASSUME NEW s \in Services, Deplete(s) PROVE UniqueInv'
  BY <1>12 DEF Deplete, Fail, config
<1>13. ASSUME NEW s \in Services, StartSearch(s) PROVE UniqueInv'
  BY <1>13 DEF StartSearch, config, UsedBy, GlobalNames, NeedsId, IsNextName, IsFirst
<1>14. CASE FinishServices
  BY <1>14 DEF FinishServices, config, position, search, GlobalNames
<1>15. CASE TryNextId
  BY <1>15 DEF TryNextId, config, position, UsedBy, GlobalNames
<1>16. CASE AssignId
  <2>1. /\ resource \in Resources /\ service \in Services /\ searchId \in Int
        /\ ids[resource] \in [Services -> Ids]
    BY <1>16, InputPools DEF AssignId, TypeInv, TypeOK, Pools, IdTables
  <2>2. ids' = [ids EXCEPT ![resource] = [ids[resource] EXCEPT ![service] = searchId]]
    BY <1>16 DEF AssignId
  <2>3. ASSUME NEW r \in GlobalOnly
        PROVE  /\ Injective(ids'[r])
               /\ \A s \in Services : ids'[r][s] # NoId => s \in GlobalNames
    <3>1. CASE r # resource
      BY <1>16, <2>1, <2>2, <3>1 DEF AssignId, TypeInv, TypeOK, IdTables
    <3>2. CASE r = resource
      <4>1. target = NoName BY <1>16, <3>2 DEF AssignId
      <4>2. \A o \in Services : ids[resource][o] # searchId
        BY <1>16, <2>1, <3>2, <4>1, IdAssumption DEF AssignId, UsedBy
      <4>3. Injective([ids[resource] EXCEPT ![service] = searchId])
        BY <2>1, <3>2, <4>2, AssignInjective
      <4>4. ids'[r] = [ids[resource] EXCEPT ![service] = searchId]
        BY <2>1, <2>2, <3>2 DEF TypeInv, TypeOK, IdTables
      <4>5. service \in GlobalNames BY <1>16, <4>1 DEF AssignId
      <4> QED BY <1>16, <2>1, <3>2, <4>3, <4>4, <4>5 DEF AssignId
    <3> QED BY <3>1, <3>2
  <2>4. GlobalNames' = GlobalNames BY <1>16 DEF AssignId, GlobalNames
  <2>5. ASSUME target = NoName PROVE used' = UsedBy(resource, GlobalNames)'
    <3>1. used = UsedBy(resource, GlobalNames) /\ service \in GlobalNames
      BY <1>16, <2>5 DEF AssignId
    <3>2. \A s \in Services : ids'[resource][s] =
                                IF s = service THEN searchId ELSE ids[resource][s]
      BY <2>1, <2>2 DEF TypeInv, TypeOK, IdTables
    <3>3. ids[resource][service] = NoId BY <1>16 DEF AssignId
    <3>4. resource' = resource /\ used' = used \cup {searchId} BY <1>16 DEF AssignId
    <3>5. GlobalNames \subseteq Services BY DEF GlobalNames
    <3> QED BY <2>1, <2>4, <3>1, <3>2, <3>3, <3>4, <3>5, IdAssumption DEF UsedBy
  <2> QED BY <1>16, <2>3, <2>4, <2>5 DEF AssignId
<1>17. CASE OpenOutput
  BY <1>17 DEF OpenOutput, config, GlobalNames
<1>18. CASE WriteOutput
  BY <1>18 DEF WriteOutput, config
<1>19. CASE Exit
  BY <1>19, NoIdsInjective DEF Exit, ForgetMemory
<1>20. CASE FailToOpenOutput
  BY <1>20 DEF FailToOpenOutput, Fail, config
<1>21. CASE FailToWriteOutput
  BY <1>21 DEF FailToWriteOutput, config
<1>22. CASE Crash
  BY <1>22, NoIdsInjective DEF Crash, ForgetMemory
<1> QED
  BY <1>1, <1>2, <1>3, <1>4, <1>5, <1>6, <1>7, <1>8, <1>9, <1>10, <1>11, <1>12, <1>13,
     <1>14, <1>15, <1>16, <1>17, <1>18, <1>19, <1>20, <1>21, <1>22 DEF Next, Step

(* No two services ever hold the same global id in the ids file. *)
THEOREM UniqueGlobally == Spec => []GlobalIdsUnique
<1>1. UniqueInv => GlobalIdsUnique BY DEF UniqueInv, UniqueIn, GlobalIdsUnique
<1> QED BY <1>1, TypeInit, TypeNext, UniqueInit, UniqueNext, PTL DEF Spec

-----------------------------------------------------------------------------
(* All or nothing, and what is retained.  Until the file is opened for      *)
(* writing it is the one that the run has read, and a run that gets to its  *)
(* end has failed only if it lacks the services model.                      *)
Loaded == pc \in {"clean", "resource", "target", "service", "search", "print"}

RunInv ==
    /\ Loaded => file = origin
    /\ Loaded \/ pc = "write" =>
          /\ origin # Broken
          /\ "services" \in input.unreadable => input.distributed
          /\ ~LacksServices => exitStatus = "ok"
    /\ pc = "write" => file = Broken
    /\ file = Broken => pc \in {"write", "cleanup", "exited"}
    /\ FailedRunKeepsFile

(* The steps of a run keep its input and the file that it has read. *)
LEMMA InputKept ==
    ASSUME [Next]_vars, \A in \in Inputs : ~Load(in)
    PROVE  UNCHANGED <<input, origin>>
BY DEF Next, Step, vars, config, position, search, RemoveInvalidServiceIds,
   RemoveInvalidDistributionIds, VisitGlobalResource, VisitMachineResource, RejectScope, Fail,
   FinishResources, VisitTarget, FinishTargets, SkipService, Deplete, StartSearch,
   FinishServices, TryNextId, AssignId, OpenOutput, FailToOpenOutput, WriteOutput,
   FailToWriteOutput, Exit, Crash

LEMMA RunInit == Init => RunInv
BY IdAssumption DEF Init, RunInv, Loaded, FailedRunKeepsFile

LEMMA RunNext == RunInv /\ [Next]_vars => RunInv'
<1> SUFFICES ASSUME RunInv, [Next]_vars PROVE RunInv' OBVIOUS
<1> USE DEF RunInv, Loaded, FailedRunKeepsFile, LacksServices
<1>1. ASSUME NEW in \in Inputs, Load(in) PROVE RunInv'
  <2>1. CASE CanLoad(in)
    BY <1>1, <2>1 DEF Load, CanLoad, Fatal, StatusAfterLoading
  <2>2. CASE ~CanLoad(in)
    BY <1>1, <2>2 DEF Load
  <2> QED BY <2>1, <2>2
<1>2. CASE UNCHANGED vars
  BY <1>2 DEF vars
<1>3. CASE Step
  BY <1>3, IdAssumption DEF Step, RemoveInvalidServiceIds,
     RemoveInvalidDistributionIds, VisitGlobalResource, VisitMachineResource, RejectScope, Fail,
     FinishResources, VisitTarget, FinishTargets, SkipService, Deplete, StartSearch,
     FinishServices, TryNextId, AssignId, OpenOutput, WriteOutput, Exit
<1>4. CASE FailToOpenOutput \/ FailToWriteOutput \/ Crash
  BY <1>4 DEF FailToOpenOutput, Fail, FailToWriteOutput, Crash
<1> QED BY <1>1, <1>2, <1>3, <1>4 DEF Next

(* A run that reports an error leaves the file as it was, unless it went on *)
(* without the services model.                                              *)
THEOREM AllOrNothing == Spec => []FailedRunKeepsFile
<1>1. RunInv => FailedRunKeepsFile BY DEF RunInv
<1> QED BY <1>1, RunInit, RunNext, PTL DEF Spec

(* The run starts from what it has read, and an assignment that is valid    *)
(* for its input survives: it is not removed, and who holds an id is not    *)
(* given another one.                                                       *)
RetainInv ==
    origin # Absent =>
        /\ pc = "clean" => ids = origin.ids
        /\ Running => \A r \in Resources, s \in Services :
              IsValid(r, s, origin.ids[r][s]) => ids[r][s] = origin.ids[r][s]

LEMMA RetainNext ==
    TypeInv /\ UniqueInv /\ RunInv /\ RetainInv /\ [Next]_vars => RetainInv'
<1> SUFFICES ASSUME TypeInv, UniqueInv, RunInv, RetainInv, [Next]_vars, origin' # Absent
             PROVE  RetainInv'
  BY DEF RetainInv
<1>1. ASSUME NEW in \in Inputs, Load(in) PROVE RetainInv'
  BY <1>1 DEF Load, RetainInv, Running
<1>2. CASE \A in \in Inputs : ~Load(in)
  <2>1. UNCHANGED <<input, origin>> BY <1>2, InputKept
  <2>2. \A r, s, id : IsValid(r, s, id)' <=> IsValid(r, s, id)
    BY <2>1 DEF IsValid, Pools, Requires, PoolOf, SingleTarget
  <2>3. CASE Running /\ Running' /\ ids' = ids
    BY <2>1, <2>2, <2>3 DEF RetainInv, Running
  <2>4. CASE pc' \notin {"clean", "resource", "target", "service", "search", "print", "write"}
    BY <2>4 DEF RetainInv, Running
  <2>5. CASE pc = "clean" /\ pc' = "clean" /\ ids' = ids
    BY <2>1, <2>5 DEF RetainInv, Running
  <2>6. CASE RemoveInvalidServiceIds \/ RemoveInvalidDistributionIds
    <3>1. pc = "clean" /\ pc' = "resource" /\ ids = origin.ids /\ ids' = KeepValid(ids)
      BY <2>1, <2>6 DEF RemoveInvalidServiceIds, RemoveInvalidDistributionIds, RetainInv
    <3>2. \A r \in Resources, s \in Services : ids'[r][s] =
              IF IsValid(r, s, origin.ids[r][s]) THEN origin.ids[r][s] ELSE NoId
      BY <3>1 DEF KeepValid
    <3> QED BY <2>1, <2>2, <3>1, <3>2 DEF RetainInv
  <2>7. CASE AssignId
    <3>1. /\ pc = "search" /\ pc' = "service" /\ ids[resource][service] = NoId
          /\ ids' = [ids EXCEPT ![resource][service] = searchId] /\ ids \in IdTables
      BY <2>7 DEF AssignId, UniqueInv, SearchIsNeeded, TypeInv, TypeOK
    <3>2. ASSUME NEW r \in Resources, NEW s \in Services, IsValid(r, s, origin.ids[r][s])
          PROVE  ids'[r][s] = origin.ids[r][s]
      <4>1. ids[r][s] = origin.ids[r][s] /\ ids[r][s] # NoId
        BY <2>1, <3>1, <3>2 DEF RetainInv, Running, IsValid
      <4>2. ids'[r][s] = ids[r][s]
        BY <3>1, <4>1 DEF IdTables
      <4> QED BY <4>1, <4>2
    <3> QED BY <2>1, <2>2, <3>1, <3>2 DEF RetainInv
  <2> QED
    BY <1>2, <2>3, <2>4, <2>5, <2>6, <2>7
    DEF Next, Step, Running, vars, config, position, search, VisitGlobalResource,
        VisitMachineResource, RejectScope, Fail, FinishResources, VisitTarget, FinishTargets,
        SkipService, Deplete, StartSearch, FinishServices, TryNextId, OpenOutput,
        FailToOpenOutput, WriteOutput, FailToWriteOutput, Exit, Crash
<1> QED BY <1>1, <1>2

(* An assignment that the documentation calls valid is one for the code. *)
LEMMA StillValidIsValid ==
    ASSUME ~LacksServices, "services" \in input.unreadable => input.distributed,
           NEW r, NEW s \in Services, NEW id, StillValid(r, s, id),
           input.distributed => SingleTarget(s)
    PROVE  IsValid(r, s, id)
<1>1. Requires(s, r) BY DEF StillValid, Requires, LacksServices
<1> QED BY <1>1 DEF StillValid, IsValid

LEMMA NotReplicatedIsSingle ==
    ASSUME NotReplicated, input \in Inputs, input.distributed, NEW s \in GlobalNames
    PROVE  SingleTarget(s)
<1>1. s \in Services /\ input.mapping[s] \in SUBSET Targets /\ input.mapping[s] # {}
  BY InputPools DEF GlobalNames
<1>2. PICK t \in Targets : t \in input.mapping[s] BY <1>1
<1>3. input.mapping[s] = {t} BY <1>1, <1>2 DEF NotReplicated
<1> QED BY <1>3 DEF SingleTarget

LEMMA RetainInit == Init => RetainInv
BY DEF Init, RetainInv, Running

(* The retention of valid ids, for the services that are deployed to one    *)
(* machine; others may be deployed redundantly.                             *)
SingleIdsRetained ==
    [][file' # file /\ file' # Broken /\ origin # Absent /\ ~LacksServices =>
        \A r \in Resources, s \in Services :
            StillValid(r, s, origin.ids[r][s]) /\ (input.distributed => SingleTarget(s)) =>
                file'.ids[r][s] = origin.ids[r][s]]_vars

(* A run writes the id that it has read for every service that still needs  *)
(* one, so that an update does not touch what it does not have to.          *)
THEOREM SingleIdsStay == Spec => SingleIdsRetained
<1>1. ASSUME TypeInv, RunInv, RetainInv, Next, file' # file, file' # Broken, origin # Absent,
             ~LacksServices, NEW r \in Resources, NEW s \in Services,
             StillValid(r, s, origin.ids[r][s]), input.distributed => SingleTarget(s)
      PROVE  file'.ids[r][s] = origin.ids[r][s]
  <2>1. WriteOutput
    BY <1>1 DEF Next, Step, Load, config, position, search, RemoveInvalidServiceIds,
       RemoveInvalidDistributionIds, VisitGlobalResource, VisitMachineResource, RejectScope,
       Fail, FinishResources, VisitTarget, FinishTargets, SkipService, Deplete, StartSearch,
       FinishServices, TryNextId, AssignId, OpenOutput, FailToOpenOutput, FailToWriteOutput,
       Exit, Crash
  <2>2. pc = "write" /\ file'.ids = ids BY <2>1 DEF WriteOutput
  <2>3. IsValid(r, s, origin.ids[r][s])
    BY <1>1, <2>2, StillValidIsValid DEF RunInv, TypeInv, TypeOK
  <2> QED BY <1>1, <2>2, <2>3 DEF RetainInv, Running
<1>2. TypeInv /\ RunInv /\ RetainInv /\ [Next]_vars =>
        [file' # file /\ file' # Broken /\ origin # Absent /\ ~LacksServices =>
          \A r \in Resources, s \in Services :
            StillValid(r, s, origin.ids[r][s]) /\ (input.distributed => SingleTarget(s)) =>
                file'.ids[r][s] = origin.ids[r][s]]_vars
  BY <1>1
<1> QED
  BY <1>2, TypeInit, TypeNext, UniqueInit, UniqueNext, RunInit, RunNext, RetainInit, RetainNext,
     PTL DEF Spec, SingleIdsRetained

(* Without redundant deployments, all valid ids are retained. *)
THEOREM ValidIdsStay == ASSUME NotReplicated PROVE Spec => ValidIdsRetained
<1>1. TypeInv =>
        \A r \in Resources, s \in Services :
            StillValid(r, s, origin.ids[r][s]) => (input.distributed => SingleTarget(s))
  BY NotReplicatedIsSingle DEF TypeInv, TypeOK, StillValid
<1>2. TypeInv /\ [file' # file /\ file' # Broken /\ origin # Absent /\ ~LacksServices =>
                    \A r \in Resources, s \in Services :
                      StillValid(r, s, origin.ids[r][s]) /\ (input.distributed => SingleTarget(s))
                        => file'.ids[r][s] = origin.ids[r][s]]_vars =>
        [file' # file /\ file' # Broken /\ origin # Absent /\ ~LacksServices =>
          \A r \in Resources, s \in Services :
            StillValid(r, s, origin.ids[r][s]) => file'.ids[r][s] = origin.ids[r][s]]_vars
  BY <1>1
<1> QED
  BY <1>2, SingleIdsStay, TypeInit, TypeNext, PTL DEF Spec, SingleIdsRetained, ValidIdsRetained

-----------------------------------------------------------------------------
(* Depletion.  Whoever holds an id requires it, and the ids in use are      *)
(* those of the services that share the pool, of the resource as a whole or *)
(* of the machine that is being visited.                                    *)
Sharers == IF target = NoName THEN GlobalNames ELSE ServicesOn(target)

SharersInv ==
    /\ Running => \A r \in Resources, s \in Services : ids[r][s] # NoId => Requires(s, r)
    /\ Walking => used = UsedBy(resource, Sharers) /\ names \subseteq Sharers
    /\ pc = "search" => service \in Sharers /\ Requires(service, resource)

LEMMA SharersNext == TypeInv /\ UniqueInv /\ SharersInv /\ [Next]_vars => SharersInv'
<1> SUFFICES ASSUME TypeInv, UniqueInv, SharersInv, [Next]_vars PROVE SharersInv' OBVIOUS
<1>1. ASSUME NEW in \in Inputs, Load(in) PROVE SharersInv'
  BY <1>1 DEF Load, SharersInv, Running, Walking
<1>2. CASE \A in \in Inputs : ~Load(in)
  <2>1. UNCHANGED input BY <1>2, InputKept
  <2>2. \A r, s : Requires(s, r)' <=> Requires(s, r)
    BY <2>1 DEF Requires
  <2>3. GlobalNames' = GlobalNames /\ \A t : ServicesOn(t)' = ServicesOn(t)
    BY <2>1 DEF GlobalNames, ServicesOn
  <2>4. CASE pc' \notin {"resource", "target", "service", "search", "print", "write"}
    BY <2>4 DEF SharersInv, Running, Walking
  <2>5. CASE Running /\ ids' = ids /\ pc' \in {"resource", "target", "print", "write"}
    BY <2>2, <2>5 DEF SharersInv, Running, Walking
  <2>6. CASE /\ Walking /\ Walking' /\ names' \subseteq names /\ ids' = ids
             /\ UNCHANGED <<resource, target, used>>
             /\ pc' = "search" =>
                    (service' \in names \/ (service' = service /\ pc = "search"))
                    /\ Requires(service', resource)
    <3>1. Sharers' = Sharers BY <2>3, <2>6 DEF Sharers
    <3>2. UsedBy(resource, Sharers)' = UsedBy(resource, Sharers)
      BY <2>6, <3>1 DEF UsedBy
    <3> QED BY <2>2, <2>6, <3>1, <3>2 DEF SharersInv, Running, Walking
  <2>7. CASE RemoveInvalidServiceIds \/ RemoveInvalidDistributionIds
    <3>1. pc' = "resource" /\ ids' = KeepValid(ids)
      BY <2>7 DEF RemoveInvalidServiceIds, RemoveInvalidDistributionIds
    <3>2. ASSUME NEW r \in Resources, NEW s \in Services, ids'[r][s] # NoId PROVE Requires(s, r)
      BY <3>1, <3>2 DEF KeepValid, IsValid
    <3> QED BY <2>2, <3>1, <3>2 DEF SharersInv, Running, Walking
  <2>8. CASE \E r \in Resources : VisitGlobalResource(r)
    <3>1. /\ pc = "resource" /\ pc' = "service" /\ ids' = ids
          /\ names' = GlobalNames /\ used' = UsedBy(resource', GlobalNames)
      BY <2>8 DEF VisitGlobalResource, config
    <3>2. Sharers' = GlobalNames
      BY <2>3, <2>8 DEF VisitGlobalResource, Sharers, TypeInv, Quiet
    <3>3. UsedBy(resource, Sharers)' = UsedBy(resource', GlobalNames)
      BY <3>1, <3>2 DEF UsedBy
    <3> QED BY <2>2, <3>1, <3>2, <3>3 DEF SharersInv, Running, Walking
  <2>9. CASE \E t \in Targets : VisitTarget(t)
    <3>1. /\ pc = "target" /\ pc' = "service" /\ ids' = ids /\ resource' = resource
          /\ target' \in Targets
          /\ names' = ServicesOn(target') /\ used' = UsedBy(resource, ServicesOn(target'))
      BY <2>9 DEF VisitTarget
    <3>2. Sharers' = ServicesOn(target')
      BY <2>1, <3>1, IdAssumption DEF Sharers, ServicesOn
    <3>3. UsedBy(resource, Sharers)' = UsedBy(resource, ServicesOn(target'))
      BY <3>1, <3>2 DEF UsedBy
    <3> QED BY <2>2, <3>1, <3>2, <3>3 DEF SharersInv, Running, Walking
  <2>10. CASE AssignId
    <3>1. /\ pc = "search" /\ pc' = "service" /\ ids[resource][service] = NoId
          /\ ids' = [ids EXCEPT ![resource][service] = searchId] /\ ids \in IdTables
          /\ used' = used \cup {searchId} /\ UNCHANGED <<resource, target, names>>
          /\ resource \in Resources /\ service \in Services /\ searchId \in Int
      BY <2>10, InputPools
      DEF AssignId, UniqueInv, SearchIsNeeded, TypeInv, TypeOK, Pools
    <3>2. Sharers' = Sharers /\ Sharers \subseteq Services
      BY <2>3, <3>1 DEF Sharers, GlobalNames, ServicesOn
    <3>3. \A r \in Resources, s \in Services : ids'[r][s] =
              IF r = resource /\ s = service THEN searchId ELSE ids[r][s]
      BY <3>1 DEF IdTables
    <3>4. UsedBy(resource, Sharers)' = UsedBy(resource, Sharers) \cup {searchId}
      <4>1. service \in Sharers BY <3>1 DEF SharersInv
      <4>2. \A s \in Sharers : ids'[resource][s] =
                IF s = service THEN searchId ELSE ids[resource][s]
        BY <3>1, <3>2, <3>3
      <4> QED BY <3>1, <3>2, <4>1, <4>2, IdAssumption DEF UsedBy
    <3> QED BY <2>2, <3>1, <3>2, <3>3, <3>4 DEF SharersInv, Running, Walking
  <2>11. ASSUME NEW s \in Services, StartSearch(s) PROVE SharersInv'
    <3>1. /\ pc = "service" /\ pc' = "search" /\ ids' = ids /\ names' \subseteq names
          /\ UNCHANGED <<resource, target, used>>
          /\ service' = s /\ s \in names /\ Requires(s, resource)
      BY <2>11 DEF StartSearch, IsNextName, IsFirst, NeedsId, config
    <3>2. Sharers' = Sharers BY <2>3, <3>1 DEF Sharers
    <3>3. UsedBy(resource, Sharers)' = UsedBy(resource, Sharers)
      BY <3>1, <3>2 DEF UsedBy
    <3> QED BY <2>2, <3>1, <3>2, <3>3 DEF SharersInv, Running, Walking
  <2>12. CASE \/ UNCHANGED vars /\ Walking
              \/ TryNextId \/ \E s \in Services : SkipService(s)
    BY <2>6, <2>12
    DEF vars, TryNextId, SkipService, Walking, config, position, search, SharersInv
  <2> QED
    BY <1>2, <2>4, <2>5, <2>7, <2>8, <2>9, <2>10, <2>11, <2>12
    DEF Next, Step, Running, Walking, vars, config, position, search,
        VisitMachineResource, RejectScope, Fail, FinishResources, FinishTargets, Deplete,
        FinishServices, OpenOutput, FailToOpenOutput, WriteOutput, FailToWriteOutput, Exit, Crash
<1> QED BY <1>1, <1>2

LEMMA SharersInit == Init => SharersInv
BY DEF Init, SharersInv, Running, Walking

(* There are at most as many ids in use as services that hold one. *)
LEMMA FewerIdsThanHolders ==
    ASSUME NEW H, IsFiniteSet(H), NEW f
    PROVE  /\ IsFiniteSet({f[s] : s \in H})
           /\ Cardinality({f[s] : s \in H}) <= Cardinality(H)
<1> DEFINE T == {f[s] : s \in H}
           g == [s \in H |-> f[s]]
<1>1. g \in Surjection(H, T) BY DEF Surjection
<1> HIDE DEF T, g
<1>2. IsFiniteSet(T) /\ Cardinality(T) <= Cardinality(H) BY <1>1, FS_Surjection
<1> QED BY <1>2 DEF T

(* The pool is smaller than what it is asked for when a service that needs  *)
(* an id finds as many ids in use as the pool has.                          *)
LEMMA DepletedIsFull ==
    ASSUME IsFiniteSet(Services), TypeInv, SharersInv, NEW s \in Services, Deplete(s)
    PROVE  Cardinality({o \in Sharers : Requires(o, resource)})
               > PoolOf(resource).max - PoolOf(resource).min + 1
<1> DEFINE R == {o \in Sharers : Requires(o, resource)}
           H == {o \in Sharers : ids[resource][o] # NoId}
           size == PoolOf(resource).max - PoolOf(resource).min + 1
<1>1. /\ s \in Sharers /\ Requires(s, resource) /\ ids[resource][s] = NoId
      /\ used = UsedBy(resource, Sharers) /\ Depleted(PoolOf(resource))
      /\ resource \in Resources /\ resource \in Pools
  BY InputPools
  DEF Deplete, SharersInv, Walking, NeedsId, IsNextName, IsFirst, TypeInv, TypeOK, Pools
<1>2. size \in Int
  <2>1. PoolOf(resource) \in Pool BY <1>1, PoolType DEF TypeInv, TypeOK
  <2> QED BY <2>1 DEF Pool
<1>3. Cardinality(used) >= size BY <1>1 DEF Depleted
<1>4. Sharers \in SUBSET Services BY DEF Sharers, GlobalNames, ServicesOn
<1>5. IsFiniteSet(R) /\ IsFiniteSet(H) /\ Cardinality(R) \in Nat /\ Cardinality(H) \in Nat
  <2>1. R \in SUBSET Services /\ H \in SUBSET Services BY <1>4
  <2> QED BY <2>1, FS_Subset, FS_CardinalityType
<1>6. Cardinality(used) <= Cardinality(H)
  <2>1. used = {ids[resource][o] : o \in H} BY <1>1 DEF UsedBy
  <2> QED BY <1>5, <2>1, FewerIdsThanHolders
<1>7. Cardinality(used) \in Int
  <2>1. used = {ids[resource][o] : o \in H} BY <1>1 DEF UsedBy
  <2>2. IsFiniteSet(used) BY <1>5, <2>1, FewerIdsThanHolders
  <2> QED BY <2>2, FS_CardinalityType
<1>8. Cardinality(H) < Cardinality(R)
  <2>1. H \in SUBSET R BY <1>1, <1>4 DEF SharersInv, Running, Deplete
  <2>2. H # R BY <1>1
  <2>3. Cardinality(H) <= Cardinality(R) /\ (Cardinality(R) = Cardinality(H) => R = H)
    BY <1>5, <2>1, FS_Subset
  <2> QED BY <1>5, <2>2, <2>3
<1> HIDE DEF R, H, size
<1>9. Cardinality(R) > size BY <1>2, <1>3, <1>5, <1>6, <1>7, <1>8
<1> QED BY <1>9 DEF R, size

(* A run gives up for want of ids only if more services need one than the   *)
(* pool has ids: no id that is not in use is ever lost, whatever the step   *)
(* of the pool and the last id that the search starts from.                 *)
THEOREM DepletedPoolsAreFull ==
    ASSUME IsFiniteSet(Services) PROVE Spec => DepletedOnlyWhenFull
<1>1. ASSUME TypeInv, SharersInv, NEW s \in Services, Deplete(s)
      PROVE  LET pool == PoolOf(resource)
                 sharers == IF target = NoName THEN GlobalNames ELSE ServicesOn(target)
             IN Cardinality({o \in sharers : Requires(o, resource)}) > pool.max - pool.min + 1
  BY <1>1, DepletedIsFull DEF Sharers
<1>2. TypeInv /\ SharersInv /\ [Next]_vars =>
        [\A s \in Services : Deplete(s) =>
            LET pool == PoolOf(resource)
                sharers == IF target = NoName THEN GlobalNames ELSE ServicesOn(target)
            IN Cardinality({o \in sharers : Requires(o, resource)})
                   > pool.max - pool.min + 1]_vars
  BY <1>1
<1> QED
  BY <1>2, TypeInit, TypeNext, UniqueInit, UniqueNext, SharersInit, SharersNext, PTL
  DEF Spec, DepletedOnlyWhenFull

-----------------------------------------------------------------------------
(* Who holds an id.  The ids that survive are those of services that take   *)
(* part, of a resource that is defined, and so are those that are given.    *)
OnMachine == pc = "target" \/ (Walking /\ target # NoName)

HoldersInv ==
    /\ Running => \A r \in Resources, s \in Services :
          ids[r][s] # NoId => r \in Pools /\ s \in GlobalNames
    /\ OnMachine => input.distributed

LEMMA SharersTakePart == Sharers \subseteq GlobalNames
BY DEF Sharers, GlobalNames, ServicesOn

LEMMA HoldersInit == Init => HoldersInv
BY DEF Init, HoldersInv, Running, OnMachine, Walking

LEMMA HoldersNext ==
    TypeInv /\ SharersInv /\ HoldersInv /\ [Next]_vars => HoldersInv'
<1> SUFFICES ASSUME TypeInv, SharersInv, HoldersInv, [Next]_vars PROVE HoldersInv' OBVIOUS
<1> USE DEF HoldersInv, Running, OnMachine, Walking
<1>1. ASSUME NEW in \in Inputs, Load(in) PROVE HoldersInv'
  BY <1>1 DEF Load
<1>2. CASE \A in \in Inputs : ~Load(in)
  <2>1. UNCHANGED input BY <1>2, InputKept
  <2>2. Pools' = Pools /\ GlobalNames' = GlobalNames
    BY <2>1 DEF Pools, GlobalNames
  <2>3. CASE ~Running'
    BY <2>3
  <2>4. CASE Running /\ ids' = ids /\ (OnMachine' => OnMachine)
    BY <2>1, <2>2, <2>4
  <2>5. CASE RemoveInvalidServiceIds \/ RemoveInvalidDistributionIds
    <3>1. ids' = KeepValid(ids) /\ pc' = "resource"
      BY <2>5 DEF RemoveInvalidServiceIds, RemoveInvalidDistributionIds
    <3>2. ASSUME NEW r \in Resources, NEW s \in Services, ids'[r][s] # NoId
          PROVE  r \in Pools /\ s \in GlobalNames
      <4>1. IsValid(r, s, ids[r][s]) BY <3>1, <3>2 DEF KeepValid
      <4> QED BY <4>1, ValidTakesPart DEF IsValid, TypeInv, TypeOK
    <3> QED BY <2>2, <3>1, <3>2
  <2>6. ASSUME NEW r \in Resources, VisitGlobalResource(r) PROVE HoldersInv'
    BY <2>2, <2>6 DEF VisitGlobalResource, config, TypeInv, Quiet
  <2>7. ASSUME NEW r \in Resources, VisitMachineResource(r) PROVE HoldersInv'
    BY <2>1, <2>2, <2>7 DEF VisitMachineResource, config
  <2>8. ASSUME NEW t \in Targets, VisitTarget(t) PROVE HoldersInv'
    BY <2>1, <2>2, <2>8 DEF VisitTarget
  <2>9. CASE AssignId
    <3>1. /\ pc = "search" /\ ids \in IdTables /\ resource \in Pools /\ service \in GlobalNames
          /\ ids' = [ids EXCEPT ![resource][service] = searchId]
          /\ pc' = "service" /\ target' = target
      BY <2>9, SharersTakePart DEF AssignId, SharersInv, TypeInv, TypeOK
    <3> QED BY <2>1, <2>2, <3>1 DEF IdTables
  <2> QED
    BY <1>2, <2>3, <2>4, <2>5, <2>6, <2>7, <2>8, <2>9
    DEF Next, Step, vars, config, position, search, RejectScope, Fail, FinishResources,
        FinishTargets, SkipService, Deplete, StartSearch, FinishServices, TryNextId,
        OpenOutput, FailToOpenOutput, WriteOutput, FailToWriteOutput, Exit, Crash
<1> QED BY <1>1, <1>2

-----------------------------------------------------------------------------
(* The bounds.  A search that starts from an id within the bounds of the    *)
(* pool stays within them, and the file hands the last ids on to the next   *)
(* run: an id that was memorized for lower bounds would lead below them.    *)
InBounds(r, id) == \A in \in Inputs : r \in Defined(in) => InRange(in.pools[r], id)

RowInBounds(row) == \A r \in Resources : row[r] # NoId => InBounds(r, row[r])

IdsInBounds(table) ==
    \A r \in Resources, s \in Services : table[r][s] # NoId => InBounds(r, table[r][s])

TablesInBounds(tables) == \A t \in Targets : tables[t] # NoTable => RowInBounds(tables[t])

MemoryInBounds == IdsInBounds(ids) /\ RowInBounds(last) /\ TablesInBounds(lastPT)

FileInBounds ==
    file \notin {Absent, Broken} =>
        IdsInBounds(file.ids) /\ RowInBounds(file.last) /\ TablesInBounds(file.lastPT)

SearchInBounds ==
    /\ Walking /\ lastId # NoId => InBounds(resource, lastId)
    /\ pc = "search" => InBounds(resource, searchId)

BoundsInv == FileInBounds /\ MemoryInBounds /\ SearchInBounds

LEMMA PoolBounds ==
    ASSUME SteadyPools, input \in Inputs, NEW r \in Pools
    PROVE  /\ PoolOf(r) \in Pool /\ PoolOf(r).min <= PoolOf(r).max
           /\ \A id \in Int : InBounds(r, id) <=> InRange(PoolOf(r), id)
<1>1. PoolOf(r) \in Pool BY PoolType
<1>2. PoolOf(r).min = input.pools[r].min /\ PoolOf(r).max = input.pools[r].max
  BY InputPools DEF PoolOf, Pools, Pool
<1>3. PoolOf(r).min <= PoolOf(r).max BY <1>2 DEF SteadyPools, Pools
<1>4. ASSUME NEW in \in Inputs, r \in Defined(in)
      PROVE  in.pools[r].min = PoolOf(r).min /\ in.pools[r].max = PoolOf(r).max
  BY <1>2, <1>4 DEF SteadyPools, Pools
<1> QED BY <1>1, <1>3, <1>2, <1>4 DEF InBounds, InRange, Pools

LEMMA SearchStaysInBounds ==
    ASSUME SteadyPools, input \in Inputs, NEW r \in Pools
    PROVE  /\ InBounds(r, PoolOf(r).min)
           /\ \A id \in Int : InBounds(r, id) => InBounds(r, IncreaseSearchId(PoolOf(r), id))
<1>1. PoolOf(r).min \in Int BY PoolBounds DEF Pool
<1>2. InBounds(r, PoolOf(r).min) BY <1>1, PoolBounds DEF InRange, Pool
<1>3. ASSUME NEW id \in Int, InBounds(r, id)
      PROVE  InBounds(r, IncreaseSearchId(PoolOf(r), id))
  <2>1. PoolOf(r) \in Pool /\ InRange(PoolOf(r), id) BY <1>3, PoolBounds
  <2>2. CASE id + PoolOf(r).step > PoolOf(r).max
    BY <1>2, <2>2 DEF IncreaseSearchId
  <2>3. CASE ~(id + PoolOf(r).step > PoolOf(r).max)
    <3>1. id + PoolOf(r).step \in Int BY <2>1 DEF Pool
    <3>2. InRange(PoolOf(r), id + PoolOf(r).step) BY <2>1, <2>3 DEF InRange, Pool
    <3> QED BY <2>3, <3>1, <3>2, PoolBounds DEF IncreaseSearchId
  <2> QED BY <2>2, <2>3
<1> QED BY <1>2, <1>3

LEMMA FreshInBounds ==
    IdsInBounds(NoIds) /\ RowInBounds(EmptyTable) /\ TablesInBounds(NoTables)
BY DEF IdsInBounds, RowInBounds, TablesInBounds, NoIds, EmptyTable, NoTables

(* What is dropped from a table is not put back elsewhere. *)
LEMMA KeepInBounds ==
    /\ \A table : IdsInBounds(table) => IdsInBounds(KeepValid(table))
    /\ \A row : RowInBounds(row) => RowInBounds(KeepDefined(row))
BY DEF IdsInBounds, RowInBounds, KeepValid, KeepDefined

LEMMA BoundsInit == Init => BoundsInv
BY FreshInBounds, IdAssumption
DEF Init, FreshMemory, BoundsInv, FileInBounds, MemoryInBounds, SearchInBounds, Walking

(* One pass of the tables through a run. *)
LEMMA BoundsNext ==
    ASSUME SteadyPools PROVE TypeInv /\ BoundsInv /\ [Next]_vars => BoundsInv'
<1> SUFFICES ASSUME TypeInv, BoundsInv, [Next]_vars PROVE BoundsInv' OBVIOUS
<1> USE DEF BoundsInv, FileInBounds, MemoryInBounds, SearchInBounds, Walking
<1>1. ASSUME NEW in \in Inputs, Load(in) PROVE BoundsInv'
  <2>1. MemoryInBounds'
    BY <1>1 DEF Load, CanLoad, config
  <2> QED BY <1>1, <2>1 DEF Load
<1>2. CASE RemoveInvalidServiceIds
  BY <1>2, KeepInBounds, FreshInBounds DEF RemoveInvalidServiceIds
<1>3. CASE RemoveInvalidDistributionIds
  <2>1. TablesInBounds(lastPT')
    <3>1. ASSUME NEW t \in Targets, lastPT'[t] # NoTable PROVE RowInBounds(lastPT'[t])
      BY <1>3, <3>1, KeepInBounds, FreshInBounds
      DEF RemoveInvalidDistributionIds, TablesInBounds
    <3> QED BY <3>1 DEF TablesInBounds
  <2> QED BY <1>3, <2>1, KeepInBounds DEF RemoveInvalidDistributionIds
<1>4. ASSUME NEW r \in Resources, VisitGlobalResource(r) PROVE BoundsInv'
  <2>1. lastId' # NoId => InBounds(r, lastId')
    BY <1>4 DEF VisitGlobalResource, RowInBounds
  <2> QED BY <1>4, <2>1 DEF VisitGlobalResource, config
<1>5. ASSUME NEW t \in Targets, VisitTarget(t) PROVE BoundsInv'
  <2>1. lastPT' = [lastPT EXCEPT ![t] = IF @ = NoTable THEN EmptyTable ELSE @]
        /\ lastPT \in LastTables /\ resource \in Resources
    BY <1>5, InputPools DEF VisitTarget, TypeInv, TypeOK, Pools
  <2>2. lastPT'[t] = IF lastPT[t] = NoTable THEN EmptyTable ELSE lastPT[t]
    BY <2>1 DEF LastTables
  <2>3. RowInBounds(lastPT'[t])
    BY <2>2, FreshInBounds DEF TablesInBounds
  <2>4. TablesInBounds(lastPT')
    BY <2>1, <2>3 DEF TablesInBounds, LastTables
  <2>5. lastId' # NoId => InBounds(resource, lastId')
    BY <1>5, <2>1, <2>3 DEF VisitTarget, RowInBounds
  <2> QED BY <1>5, <2>4, <2>5 DEF VisitTarget
<1>6. ASSUME NEW s \in Services, StartSearch(s) PROVE BoundsInv'
  <2>1. resource \in Pools /\ input \in Inputs /\ (lastId # NoId => lastId \in Int)
    BY <1>6 DEF StartSearch, TypeInv, TypeOK
  <2>2. InBounds(resource, searchId')
    BY <1>6, <2>1, SearchStaysInBounds DEF StartSearch
  <2> QED BY <1>6, <2>2 DEF StartSearch, config
<1>7. CASE TryNextId
  <2>1. resource \in Pools /\ input \in Inputs /\ searchId \in Int
    BY <1>7 DEF TryNextId, TypeInv, TypeOK
  <2>2. InBounds(resource, searchId')
    BY <1>7, <2>1, SearchStaysInBounds DEF TryNextId
  <2> QED BY <1>7, <2>2 DEF TryNextId, config, position
<1>8. CASE AssignId
  <2>1. /\ InBounds(resource, searchId) /\ resource \in Resources
        /\ ids \in IdTables /\ last \in LastTable /\ lastPT \in LastTables
        /\ target \in Targets \/ target = NoName
        /\ target # NoName => lastPT[target] # NoTable
    BY <1>8, InputPools DEF AssignId, TypeInv, TypeOK, Pools
  <2>2. IdsInBounds(ids')
    BY <1>8, <2>1 DEF AssignId, IdsInBounds, IdTables
  <2>3. RowInBounds(last')
    BY <1>8, <2>1 DEF AssignId, RowInBounds, LastTable
  <2>4. TablesInBounds(lastPT')
    <3>1. CASE target = NoName BY <1>8, <3>1 DEF AssignId
    <3>2. CASE target # NoName
      <4>1. lastPT[target] \in LastTable /\ RowInBounds(lastPT[target])
        BY <2>1, <3>2 DEF LastTables, TablesInBounds
      <4>2. RowInBounds([lastPT[target] EXCEPT ![resource] = searchId])
        BY <2>1, <4>1 DEF RowInBounds, LastTable
      <4>3. lastPT' = [lastPT EXCEPT ![target] = [lastPT[target] EXCEPT ![resource] = searchId]]
        BY <1>8, <3>2 DEF AssignId
      <4> QED BY <2>1, <3>2, <4>2, <4>3 DEF TablesInBounds, LastTables
    <3> QED BY <3>1, <3>2
  <2> QED BY <1>8, <2>1, <2>2, <2>3, <2>4 DEF AssignId
<1>9. CASE OpenOutput
  BY <1>9 DEF OpenOutput, config
<1>10. CASE WriteOutput
  BY <1>10 DEF WriteOutput, config
<1>11. CASE Exit \/ Crash
  BY <1>11, FreshInBounds DEF Exit, Crash, ForgetMemory
<1>12. CASE UNCHANGED <<file, config>> /\ ~Walking'
  BY <1>12 DEF config
<1>13. CASE UNCHANGED vars \/ \E s \in Services : SkipService(s)
  BY <1>13 DEF vars, config, position, search, SkipService
<1> QED
  BY <1>1, <1>2, <1>3, <1>4, <1>5, <1>6, <1>7, <1>8, <1>9, <1>10, <1>11, <1>12, <1>13
  DEF Next, Step, VisitMachineResource, RejectScope, Fail, FinishResources, FinishTargets,
      Deplete, FinishServices, FailToOpenOutput, FailToWriteOutput

-----------------------------------------------------------------------------
(* Neighbours.  Services that may meet on a machine hold different ids of   *)
(* every resource, as long as no service ever moves: then whoever shares a  *)
(* machine with a service and holds an id is known when its machine is      *)
(* visited, even if it was not deployed by the run that gave it the id.     *)
Neighbours(s1, s2) == \E in1, in2 \in Inputs : in1.mapping[s1] \cap in2.mapping[s2] # {}

Apart(table) ==
    \A s1, s2 \in Services :
        s1 # s2 /\ Neighbours(s1, s2) /\ table[s1] # NoId => table[s1] # table[s2]

ApartInv ==
    /\ file \notin {Absent, Broken} => \A r \in Resources : Apart(file.ids[r])
    /\ \A r \in Resources : Apart(ids[r])

LEMMA NeighboursSymmetric ==
    \A s1, s2 : Neighbours(s1, s2) <=> Neighbours(s2, s1)
BY DEF Neighbours

(* A neighbour that takes part shares the list of the service that is given *)
(* an id.                                                                   *)
LEMMA NeighboursShareList ==
    ASSUME SteadyMachines, input \in Inputs, NEW s \in Services, NEW o \in Services,
           Neighbours(s, o), s \in Sharers, o \in GlobalNames,
           target # NoName => input.distributed
    PROVE  o \in Sharers
<1>1. CASE target = NoName BY <1>1 DEF Sharers
<1>2. CASE target # NoName
  <2>1. target \in input.mapping[s] /\ input.mapping[o] # {}
    BY <1>2 DEF Sharers, ServicesOn, GlobalNames
  <2>2. PICK in1 \in Inputs, in2 \in Inputs : in1.mapping[s] \cap in2.mapping[o] # {}
    BY DEF Neighbours
  <2>3. PICK t : t \in in1.mapping[s] /\ t \in in2.mapping[o] BY <2>2
  <2>4. t = target BY <2>1, <2>3 DEF SteadyMachines
  <2>5. PICK u : u \in input.mapping[o] BY <2>1
  <2>6. u = t BY <2>3, <2>5 DEF SteadyMachines
  <2> QED BY <1>2, <2>4, <2>5, <2>6 DEF Sharers, ServicesOn
<1> QED BY <1>1, <1>2

LEMMA NoIdsApart == \A r \in Resources : Apart(NoIds[r])
BY DEF Apart, NoIds

LEMMA ApartInit == Init => ApartInv
BY NoIdsApart DEF Init, FreshMemory, ApartInv

LEMMA ApartNext ==
    ASSUME SteadyMachines
    PROVE  TypeInv /\ UniqueInv /\ SharersInv /\ HoldersInv /\ ApartInv /\ [Next]_vars => ApartInv'
<1> SUFFICES ASSUME TypeInv, UniqueInv, SharersInv, HoldersInv, ApartInv, [Next]_vars
             PROVE  ApartInv'
  OBVIOUS
<1> USE DEF ApartInv
<1>1. ASSUME NEW in \in Inputs, Load(in) PROVE ApartInv'
  <2>1. \A r \in Resources : Apart(ids'[r]) BY <1>1 DEF Load, CanLoad, config
  <2> QED BY <1>1, <2>1 DEF Load
<1>2. CASE RemoveInvalidServiceIds \/ RemoveInvalidDistributionIds
  <2>1. ids' = KeepValid(ids) /\ UNCHANGED file /\ pc' = "resource"
    BY <1>2 DEF RemoveInvalidServiceIds, RemoveInvalidDistributionIds
  <2>2. ASSUME NEW r \in Resources PROVE Apart(ids'[r])
    BY <2>1 DEF Apart, KeepValid
  <2> QED BY <2>1, <2>2
<1>3. CASE AssignId
  <2>1. /\ pc = "search" /\ ids \in IdTables /\ resource \in Resources /\ service \in Services
        /\ service \in Sharers /\ used = UsedBy(resource, Sharers) /\ searchId \notin used
        /\ searchId # NoId /\ input \in Inputs
        /\ ids' = [ids EXCEPT ![resource][service] = searchId]
        /\ target # NoName => input.distributed
    BY <1>3, InputPools DEF AssignId, SharersInv, HoldersInv, OnMachine, Walking, TypeInv, TypeOK, Pools
  <2>2. ASSUME NEW o \in Services, o # service, Neighbours(service, o)
        PROVE  ids[resource][o] # searchId
    <3>1. CASE ids[resource][o] = NoId BY <2>1, <3>1
    <3>2. CASE ids[resource][o] # NoId
      <4>1. o \in GlobalNames BY <2>1, <3>2 DEF HoldersInv, Running
      <4>2. o \in Sharers BY <2>1, <2>2, <4>1, NeighboursShareList
      <4> QED BY <2>1, <3>2, <4>2 DEF UsedBy
    <3> QED BY <3>1, <3>2
  <2>3. \A r \in Resources, s \in Services : ids'[r][s] =
            IF r = resource /\ s = service THEN searchId ELSE ids[r][s]
    BY <2>1 DEF IdTables
  <2>4. ASSUME NEW r \in Resources, NEW s1 \in Services, NEW s2 \in Services,
               s1 # s2, Neighbours(s1, s2), ids'[r][s1] # NoId
        PROVE  ids'[r][s1] # ids'[r][s2]
    <3>1. CASE r # resource \/ (s1 # service /\ s2 # service)
      BY <2>3, <2>4, <3>1 DEF Apart
    <3>2. CASE r = resource /\ s1 = service
      BY <2>2, <2>3, <2>4, <3>2
    <3>3. CASE r = resource /\ s2 = service
      <4>1. Neighbours(service, s1) BY <2>4, <3>3, NeighboursSymmetric
      <4> QED BY <2>2, <2>3, <2>4, <3>3, <4>1
    <3> QED BY <3>1, <3>2, <3>3
  <2>5. \A r \in Resources : Apart(ids'[r]) BY <2>4 DEF Apart
  <2> QED BY <1>3, <2>5 DEF AssignId
<1>4. CASE WriteOutput
  BY <1>4 DEF WriteOutput, config
<1>5. CASE Exit \/ Crash
  BY <1>5, NoIdsApart DEF Exit, Crash, ForgetMemory
<1>6. CASE UNCHANGED ids /\ (file' = file \/ file' = Broken)
  BY <1>6
<1> QED
  BY <1>1, <1>2, <1>3, <1>4, <1>5, <1>6
  DEF Next, Step, vars, config, position, search, VisitGlobalResource, VisitMachineResource,
      RejectScope, Fail, FinishResources, VisitTarget, FinishTargets, SkipService, Deplete,
      StartSearch, FinishServices, TryNextId, OpenOutput, FailToOpenOutput, FailToWriteOutput

-----------------------------------------------------------------------------
(* Completeness.  Nothing is skipped by the nested iterations: what they    *)
(* have been through has been given the ids that it requires.               *)
Served(r, S) == \A s \in S : Requires(s, r) => ids[r][s] # NoId

Visiting == pc \in {"target", "service", "search"}

ResourcesServed ==
    Running => \A r \in Pools \ resources :
        r # resource \/ ~Visiting => Served(r, GlobalNames)

TargetsServed ==
    OnMachine => \A t \in UsedTargets \ targets :
        t # target \/ pc = "target" => Served(resource, ServicesOn(t))

NamesServed ==
    Walking => Served(resource, {s \in Sharers \ names : pc = "service" \/ s # service})

ProgressInv ==
    /\ pc = "clean" => Pools \subseteq resources
    /\ pc \in {"print", "write"} => resources = {}
    /\ ResourcesServed /\ TargetsServed /\ NamesServed

LEMMA ProgressInit == Init => ProgressInv
BY DEF Init, ProgressInv, ResourcesServed, TargetsServed, NamesServed, Running, Walking,
   OnMachine

(* Ids are only added once the invalid ones have been removed. *)
LEMMA ServedStays ==
    ASSUME TypeInv, SearchIsNeeded, Running, [Next]_vars, Running'
    PROVE  /\ \A r \in Resources : \A S \in SUBSET Services :
                  Served(r, S) => Served(r, S)'
           /\ GlobalNames' = GlobalNames /\ UsedTargets' = UsedTargets /\ Pools' = Pools
           /\ \A t : ServicesOn(t)' = ServicesOn(t)
           /\ \A s, r : Requires(s, r)' <=> Requires(s, r)
<1>1. \A in \in Inputs : ~Load(in) BY DEF Load, Running
<1>2. UNCHANGED input BY <1>1, InputKept
<1>3. ids' = ids \/ (AssignId /\ pc = "search")
  BY <1>1
  DEF Next, Step, Running, vars, config, position, search, RemoveInvalidServiceIds,
      RemoveInvalidDistributionIds, VisitGlobalResource, VisitMachineResource, RejectScope,
      Fail, FinishResources, VisitTarget, FinishTargets, SkipService, Deplete, StartSearch,
      FinishServices, TryNextId, OpenOutput, FailToOpenOutput, WriteOutput,
      FailToWriteOutput, Exit, Crash, AssignId
<1>4. \A r \in Resources, s \in Services : ids[r][s] # NoId => ids'[r][s] # NoId
  <2>1. CASE ids' = ids BY <2>1
  <2>2. CASE AssignId /\ pc = "search"
    BY <2>2, IdAssumption DEF AssignId, TypeInv, TypeOK, IdTables
  <2> QED BY <1>3, <2>1, <2>2
<1>5. \A s, r : Requires(s, r)' <=> Requires(s, r) BY <1>2 DEF Requires
<1>6. GlobalNames' = GlobalNames /\ UsedTargets' = UsedTargets /\ Pools' = Pools
      /\ \A t : ServicesOn(t)' = ServicesOn(t)
  BY <1>2 DEF GlobalNames, UsedTargets, Pools, ServicesOn
<1> QED BY <1>4, <1>5, <1>6 DEF Served

LEMMA ProgressNext ==
    TypeInv /\ UniqueInv /\ SharersInv /\ HoldersInv /\ ProgressInv /\ [Next]_vars => ProgressInv'
<1> SUFFICES ASSUME TypeInv, UniqueInv, SharersInv, HoldersInv, ProgressInv, [Next]_vars
             PROVE  ProgressInv'
  OBVIOUS
<1> USE DEF ProgressInv, ResourcesServed, TargetsServed, NamesServed, Running, Visiting,
            Walking, OnMachine
<1>1. ASSUME NEW in \in Inputs, Load(in) PROVE ProgressInv'
  BY <1>1 DEF Load, Pools
<1>2. CASE RemoveInvalidServiceIds \/ RemoveInvalidDistributionIds
  BY <1>2
  DEF RemoveInvalidServiceIds, RemoveInvalidDistributionIds, position, TypeInv, Quiet, Pools
<1>3. CASE ~Running' /\ pc' # "clean"
  BY <1>3
<1>4. CASE UNCHANGED vars
  BY <1>4 DEF vars, config, position, search, Pools, Served, Requires, GlobalNames,
     UsedTargets, ServicesOn, Sharers
<1>5. CASE Running /\ Running'
  <2>1. /\ \A r \in Resources : \A S \in SUBSET Services : Served(r, S) => Served(r, S)'
        /\ GlobalNames' = GlobalNames /\ UsedTargets' = UsedTargets /\ Pools' = Pools
        /\ \A t : ServicesOn(t)' = ServicesOn(t)
        /\ \A s, r : Requires(s, r)' <=> Requires(s, r)
    BY <1>5, ServedStays DEF UniqueInv
  <2>2. GlobalNames \in SUBSET Services /\ Pools \subseteq Resources
        /\ \A t : ServicesOn(t) \in SUBSET Services
    BY InputPools DEF GlobalNames, Pools, ServicesOn, TypeInv, TypeOK
  <2>3. \A r \in Resources :
            /\ Served(r, GlobalNames) => Served(r, GlobalNames)'
            /\ \A t : Served(r, ServicesOn(t)) => Served(r, ServicesOn(t))'
    BY <2>1, <2>2
  <2>4. ASSUME NEW r \in Resources, VisitGlobalResource(r) PROVE ProgressInv'
    <3>1. /\ pc = "resource" /\ pc' = "service" /\ resources' = resources \ {r}
          /\ resource' = r /\ names' = GlobalNames /\ target' = NoName
      BY <2>4 DEF VisitGlobalResource, TypeInv, Quiet
    <3>2. ResourcesServed' BY <2>1, <2>2, <2>3, <3>1
    <3>3. NamesServed' BY <2>1, <3>1 DEF Sharers, Served
    <3> QED BY <3>1, <3>2, <3>3
  <2>5. ASSUME NEW r \in Resources, VisitMachineResource(r) PROVE ProgressInv'
    <3>1. /\ pc = "resource" /\ pc' = "target" /\ resources' = resources \ {r}
          /\ resource' = r /\ targets' = UsedTargets
      BY <2>5 DEF VisitMachineResource
    <3> QED BY <2>1, <2>2, <2>3, <3>1
  <2>6. CASE FinishResources
    BY <2>1, <2>2, <2>3, <2>6 DEF FinishResources, position
  <2>7. ASSUME NEW t \in Targets, VisitTarget(t) PROVE ProgressInv'
    <3>1. /\ pc = "target" /\ pc' = "service" /\ targets' = targets \ {t}
          /\ target' = t /\ names' = ServicesOn(t) /\ UNCHANGED <<resources, resource>>
          /\ t # NoName /\ resource \in Resources
      BY <2>2, <2>7, IdAssumption DEF VisitTarget, TypeInv, TypeOK
    <3>2. ResourcesServed' BY <2>1, <2>2, <2>3, <3>1
    <3>3. TargetsServed' BY <2>1, <2>3, <3>1
    <3>4. NamesServed' BY <2>1, <3>1 DEF Sharers, Served
    <3> QED BY <3>1, <3>2, <3>3, <3>4
  <2>8. CASE FinishTargets
    <3>1. /\ pc = "target" /\ pc' = "resource" /\ targets = {}
          /\ UNCHANGED <<resources, resource>> /\ input.distributed /\ resource \in Resources
      BY <2>2, <2>8 DEF FinishTargets, HoldersInv, TypeInv, TypeOK
    <3>2. Served(resource, GlobalNames)
      <4> SUFFICES ASSUME NEW s \in GlobalNames, Requires(s, resource)
                   PROVE  ids[resource][s] # NoId
        BY DEF Served
      <4>1. s \in Services /\ input.mapping[s] # {} BY <3>1 DEF GlobalNames
      <4>2. PICK t : t \in input.mapping[s] BY <4>1
      <4>3. t \in UsedTargets /\ s \in ServicesOn(t)
        BY <4>1, <4>2 DEF UsedTargets, ServicesOn
      <4>4. Served(resource, ServicesOn(t)) BY <3>1, <4>3
      <4> QED BY <4>3, <4>4 DEF Served
    <3>3. ResourcesServed' BY <2>1, <2>2, <2>3, <3>1, <3>2
    <3> QED BY <3>1, <3>3
  <2>9. CASE Walking /\ Walking' /\ UNCHANGED <<resources, resource, targets, target>>
    <3>1. resource \in Resources BY <2>2, <2>9 DEF TypeInv, TypeOK
    <3>2. ResourcesServed' BY <2>1, <2>2, <2>3, <2>9
    <3>3. TargetsServed' BY <2>1, <2>3, <2>9, <3>1
    <3>4. Sharers' = Sharers /\ Sharers \subseteq Services
      BY <2>1, <2>2, <2>9 DEF Sharers
    <3>5. ASSUME NEW s \in Services, SkipService(s) PROVE NamesServed'
      <4>1. /\ pc = "service" /\ pc' = "service" /\ names' = names \ {s} /\ ids' = ids
            /\ Requires(s, resource) => ids[resource][s] # NoId
        BY <3>5 DEF SkipService, NeedsId, config
      <4> QED BY <2>1, <2>9, <3>4, <4>1 DEF Served
    <3>6. ASSUME NEW s \in Services, StartSearch(s) PROVE NamesServed'
      <4>1. /\ pc = "service" /\ pc' = "search" /\ names' = names \ {s} /\ service' = s
            /\ ids' = ids
        BY <3>6 DEF StartSearch, config
      <4> QED BY <2>1, <2>9, <3>4, <4>1 DEF Served
    <3>7. ASSUME TryNextId PROVE NamesServed'
      <4>1. UNCHANGED <<pc, names, service, ids>>
        BY <3>7 DEF TryNextId, position, config
      <4> QED BY <2>1, <2>9, <3>4, <4>1 DEF Served
    <3>8. ASSUME AssignId PROVE NamesServed'
      <4>1. /\ pc = "search" /\ pc' = "service" /\ names' = names /\ service \in Services
            /\ ids' = [ids EXCEPT ![resource][service] = searchId] /\ searchId # NoId
            /\ ids \in IdTables
        BY <3>8 DEF AssignId, TypeInv, TypeOK
      <4>2. \A s \in Services : ids'[resource][s] =
                IF s = service THEN searchId ELSE ids[resource][s]
        BY <3>1, <4>1 DEF IdTables
      <4>3. \A s \in Sharers \ names : Requires(s, resource) => ids'[resource][s] # NoId
        BY <3>4, <4>1, <4>2 DEF Served
      <4>4. UNCHANGED <<input, resource, names>> BY <2>9, <3>8, <4>1 DEF AssignId
      <4>5. \A s \in (Sharers \ names)' : Requires(s, resource)' => ids'[resource'][s] # NoId
        BY <3>4, <4>3, <4>4 DEF Requires
      <4> QED BY <4>5 DEF Served
    <3>9. NamesServed'
      BY <1>4, <1>5, <2>9, <3>5, <3>6, <3>7, <3>8
      DEF Next, Step, Load, RemoveInvalidServiceIds, RemoveInvalidDistributionIds,
          VisitGlobalResource, VisitMachineResource, RejectScope, Fail, FinishResources,
          VisitTarget, FinishTargets, Deplete, FinishServices, OpenOutput, FailToOpenOutput,
          WriteOutput, FailToWriteOutput, Exit, Crash
    <3> QED BY <2>9, <3>2, <3>3, <3>9
  <2>10. CASE FinishServices
    <3>1. /\ pc = "service" /\ names = {} /\ resource \in Resources
          /\ UNCHANGED <<resources, resource, targets, target>>
          /\ pc' = IF target = NoName THEN "resource" ELSE "target"
      BY <2>2, <2>10 DEF FinishServices, position, TypeInv, TypeOK
    <3>2. Served(resource, Sharers)
      BY <3>1 DEF Served
    <3>3. CASE target = NoName
      <4>1. Served(resource, GlobalNames) BY <3>2, <3>3 DEF Sharers
      <4>2. ResourcesServed' BY <2>1, <2>2, <2>3, <3>1, <3>3, <4>1
      <4> QED BY <3>1, <3>3, <4>2
    <3>4. CASE target # NoName
      <4>1. Served(resource, ServicesOn(target)) BY <3>2, <3>4 DEF Sharers
      <4>2. ResourcesServed' BY <2>1, <2>2, <2>3, <3>1, <3>4
      <4>3. TargetsServed' BY <2>1, <2>3, <3>1, <3>4, <4>1
      <4> QED BY <3>1, <3>4, <4>2, <4>3
    <3> QED BY <3>3, <3>4
  <2>11. CASE OpenOutput
    BY <2>1, <2>2, <2>3, <2>11 DEF OpenOutput, position
  <2> QED
    BY <1>4, <1>5, <2>4, <2>5, <2>6, <2>7, <2>8, <2>9, <2>10, <2>11
    DEF Next, Step, Load, RemoveInvalidServiceIds, RemoveInvalidDistributionIds, RejectScope,
        Fail, SkipService, Deplete, StartSearch, TryNextId, AssignId, FailToOpenOutput,
        WriteOutput, FailToWriteOutput, Exit, Crash, position
<1> QED
  BY <1>1, <1>2, <1>3, <1>4, <1>5
  DEF Next, Step, VisitGlobalResource, VisitMachineResource, RejectScope, Fail,
      FinishResources, VisitTarget, FinishTargets, SkipService, Deplete, StartSearch,
      FinishServices, TryNextId, AssignId, OpenOutput, FailToOpenOutput, WriteOutput,
      FailToWriteOutput, Exit, Crash

(* What the tables hold when the run opens its output and writes it. *)
LEMMA ReadyToWrite ==
    ASSUME SteadyPools, TypeInv, SharersInv, HoldersInv, BoundsInv, ApartInv, ProgressInv,
           pc = "write", NEW r \in Resources, NEW s \in Services
    PROVE  /\ ids[r][s] # NoId <=> r \in Pools /\ s \in GlobalNames /\ Requires(s, r)
           /\ ids[r][s] # NoId => InRange(PoolOf(r), ids[r][s])
           /\ \A t \in Targets : \A o \in ServicesOn(t) :
                  s \in ServicesOn(t) /\ o # s /\ ids[r][s] # NoId => ids[r][s] # ids[r][o]
<1>1. ids[r][s] # NoId => r \in Pools /\ s \in GlobalNames /\ Requires(s, r)
  BY DEF HoldersInv, SharersInv, Running
<1>2. r \in Pools /\ s \in GlobalNames /\ Requires(s, r) => ids[r][s] # NoId
  BY DEF ProgressInv, ResourcesServed, Running, Visiting, Served
<1>3. ids[r][s] # NoId => InRange(PoolOf(r), ids[r][s])
  <2>1. ids[r][s] \in Int \cup {NoId} /\ input \in Inputs
    BY DEF TypeInv, TypeOK, IdTables
  <2>2. ids[r][s] # NoId => InBounds(r, ids[r][s])
    BY DEF BoundsInv, MemoryInBounds, IdsInBounds
  <2> QED BY <1>1, <2>1, <2>2, PoolBounds
<1>4. ASSUME NEW t \in Targets, NEW o \in ServicesOn(t), s \in ServicesOn(t), o # s,
             ids[r][s] # NoId
      PROVE  ids[r][s] # ids[r][o]
  <2>1. o \in Services /\ input \in Inputs /\ t \in input.mapping[s] \cap input.mapping[o]
    BY <1>4 DEF ServicesOn, TypeInv, TypeOK
  <2>2. Neighbours(s, o) BY <2>1 DEF Neighbours
  <2> QED BY <1>4, <2>1, <2>2 DEF ApartInv, Apart
<1> QED BY <1>1, <1>2, <1>3, <1>4

LEMMA CorrectInit == Init => IdsCorrect
BY DEF Init, IdsCorrect, MachineIdsUnique, IdsInRange, IdsComplete

LEMMA CorrectNext ==
    ASSUME SteadyPools
    PROVE  TypeInv /\ RunInv /\ SharersInv /\ HoldersInv /\ BoundsInv /\ ApartInv /\ ProgressInv
               /\ IdsCorrect /\ [Next]_vars => IdsCorrect'
<1> SUFFICES ASSUME TypeInv, RunInv, SharersInv, HoldersInv, BoundsInv, ApartInv, ProgressInv,
                    IdsCorrect, [Next]_vars
             PROVE  IdsCorrect'
  OBVIOUS
<1>1. CASE UNCHANGED vars
  BY <1>1
  DEF vars, config, IdsCorrect, MachineIdsUnique, IdsInRange, IdsComplete, Pools, ServicesOn,
      PoolOf, GlobalNames, Requires
<1>2. CASE ~(pc' = "cleanup" /\ exitStatus' = "ok")
  BY <1>2 DEF IdsCorrect, MachineIdsUnique, IdsInRange, IdsComplete
<1>3. CASE WriteOutput \/ FailToWriteOutput
  <2>1. /\ pc = "write" /\ UNCHANGED <<input, ids>>
        /\ file' = Broken \/ (file' \notin {Absent, Broken} /\ file'.ids = ids)
    <3>1. CASE WriteOutput
      <4>1. file' = [ids |-> ids, last |-> last, lastPT |-> lastPT] /\ file' \in Config
        BY <3>1 DEF WriteOutput, Config, TypeInv, TypeOK
      <4> QED BY <3>1, <4>1, IdAssumption DEF WriteOutput, config
    <3>2. CASE FailToWriteOutput
      BY <3>2 DEF FailToWriteOutput, RunInv, config
    <3> QED BY <1>3, <3>1, <3>2
  <2>2. /\ Pools' = Pools /\ GlobalNames' = GlobalNames
        /\ \A t : ServicesOn(t)' = ServicesOn(t)
        /\ \A r : PoolOf(r)' = PoolOf(r)
        /\ \A s, r : Requires(s, r)' <=> Requires(s, r)
    BY <2>1 DEF Pools, GlobalNames, ServicesOn, PoolOf, Requires
  <2>3. /\ Pools \subseteq Resources
        /\ \A t : ServicesOn(t) \subseteq Services
    BY InputPools DEF Pools, ServicesOn, TypeInv, TypeOK
  <2>4. MachineIdsUnique'
    BY <2>1, <2>2, <2>3, ReadyToWrite DEF MachineIdsUnique
  <2>5. IdsInRange'
    BY <2>1, <2>2, <2>3, ReadyToWrite DEF IdsInRange
  <2>6. IdsComplete'
    BY <2>1, <2>2, ReadyToWrite DEF IdsComplete
  <2> QED BY <2>4, <2>5, <2>6 DEF IdsCorrect
<1> QED
  BY <1>1, <1>2, <1>3
  DEF Next, Step, Load, StatusAfterLoading, RemoveInvalidServiceIds,
      RemoveInvalidDistributionIds, VisitGlobalResource, VisitMachineResource, RejectScope,
      Fail, FinishResources, VisitTarget, FinishTargets, SkipService, Deplete, StartSearch,
      FinishServices, TryNextId, AssignId, OpenOutput, FailToOpenOutput, Exit, Crash

(* A run that ends well leaves a complete assignment behind, within the     *)
(* bounds and with different ids for the services of a machine, provided    *)
(* that the bounds of a pool do not change from one run to the next and     *)
(* that every service keeps to its machine.                                 *)
THEOREM CorrectAssignments ==
    ASSUME SteadyPools, SteadyMachines PROVE Spec => []IdsCorrect
<1> QED
  BY TypeInit, TypeNext, UniqueInit, UniqueNext, RunInit, RunNext, SharersInit, SharersNext,
     HoldersInit, HoldersNext, BoundsInit, BoundsNext, ApartInit, ApartNext, ProgressInit,
     ProgressNext, CorrectInit, CorrectNext, PTL
  DEF Spec

-----------------------------------------------------------------------------
(* The registry.  Only the writing of the file changes what is published,   *)
(* and then who held an id and still holds one holds the same: the id that  *)
(* the run has read was within the bounds, hence valid, hence retained.     *)
OriginInBounds == pc = "write" /\ origin # Absent => IdsInBounds(origin.ids)

LEMMA OriginInit == Init => OriginInBounds
BY DEF Init, OriginInBounds

LEMMA OriginNext == RunInv /\ BoundsInv /\ OriginInBounds /\ [Next]_vars => OriginInBounds'
<1> SUFFICES ASSUME RunInv, BoundsInv, OriginInBounds, [Next]_vars, pc' = "write",
                    origin' # Absent
             PROVE  IdsInBounds(origin'.ids)
  BY DEF OriginInBounds
<1>1. CASE OpenOutput
  BY <1>1 DEF OpenOutput, RunInv, Loaded, BoundsInv, FileInBounds
<1>2. CASE UNCHANGED vars
  BY <1>2 DEF vars, OriginInBounds
<1> QED
  BY <1>1, <1>2
  DEF Next, Step, Load, RemoveInvalidServiceIds, RemoveInvalidDistributionIds,
      VisitGlobalResource, VisitMachineResource, RejectScope, Fail, FinishResources,
      VisitTarget, FinishTargets, SkipService, Deplete, StartSearch, FinishServices, TryNextId,
      AssignId, FailToOpenOutput, WriteOutput, FailToWriteOutput, Exit, Crash, position

LEMMA HeldIdsStay ==
    ASSUME SteadyPools, NotReplicated, TypeInv, RunInv, RetainInv, SharersInv, HoldersInv,
           OriginInBounds, pc = "write", origin # Absent,
           NEW r \in Resources, NEW s \in Services, origin.ids[r][s] # NoId, ids[r][s] # NoId
    PROVE  ids[r][s] = origin.ids[r][s]
<1>1. r \in Pools /\ s \in GlobalNames /\ Requires(s, r)
  BY DEF HoldersInv, SharersInv, Running
<1>2. origin \in Config /\ input \in Inputs BY DEF RunInv, TypeInv, TypeOK
<1>3. InRange(PoolOf(r), origin.ids[r][s])
  <2>1. origin.ids[r][s] \in Int BY <1>2 DEF Config, IdTables
  <2>2. InBounds(r, origin.ids[r][s]) BY DEF OriginInBounds, IdsInBounds
  <2> QED BY <1>1, <1>2, <2>1, <2>2, PoolBounds
<1>4. ~LacksServices /\ ("services" \in input.unreadable => input.distributed)
  BY <1>1 DEF Requires, LacksServices, RunInv
<1>5. StillValid(r, s, origin.ids[r][s])
  BY <1>1, <1>3 DEF StillValid, Requires
<1>6. input.distributed => SingleTarget(s) BY <1>1, <1>2, NotReplicatedIsSingle
<1> QED BY <1>4, <1>5, <1>6, StillValidIsValid DEF RetainInv, Running

(* The lookups of the readers. *)
LEMMA RegistryInit == HistoryInit => Registry!Init
BY IdAssumption
DEF HistoryInit, Init, Registry!Init, PublishedIds, RegistryLost, NoIds, Registry!NoneAssigned

LEMMA RegistryStep ==
    ASSUME SteadyPools, NotReplicated, GlobalOnly = Resources, TypeInv, UniqueInv, RunInv,
           RetainInv, SharersInv, HoldersInv, OriginInBounds, [Next]_vars
    PROVE  [Registry!Next]_(Registry!vars)
<1>1. CASE WriteOutput
  <2>1. /\ pc = "write" /\ pc' = "cleanup" /\ file = Broken /\ origin # Broken
        /\ file'.ids = ids /\ file' \notin {Absent, Broken}
    <3>1. file' = [ids |-> ids, last |-> last, lastPT |-> lastPT] /\ file' \in Config
      BY <1>1 DEF WriteOutput, Config, TypeInv, TypeOK
    <3> QED BY <1>1, <3>1, IdAssumption DEF WriteOutput, RunInv
  <2>2. /\ PublishedIds = IF origin # Absent THEN origin.ids ELSE NoIds
        /\ PublishedIds' = ids /\ RegistryLost = FALSE /\ RegistryLost' = FALSE
    BY <2>1 DEF PublishedIds, RegistryLost
  <2>3. ASSUME NEW r \in Resources PROVE Registry!Unique(ids[r])
    BY DEF UniqueInv, UniqueInMemory, Injective, Registry!Unique
  <2>4. ASSUME NEW r \in Resources, NEW s \in Services,
               PublishedIds[r][s] # NoId, ids[r][s] # NoId
        PROVE  ids[r][s] = PublishedIds[r][s]
    BY <2>1, <2>2, <2>4, HeldIdsStay DEF NoIds
  <2>5. Registry!Update
    BY <2>2, <2>3, <2>4 DEF Registry!Update, Registry!Held
  <2> QED BY <2>5 DEF Registry!Next
<1>2. CASE OpenOutput
  BY <1>2, IdAssumption
  DEF OpenOutput, PublishedIds, RegistryLost, RunInv, Loaded, Registry!vars
<1>3. CASE pc = "write" /\ (FailToWriteOutput \/ Crash)
  <2>1. file' = Broken /\ pc' # "write" BY <1>3 DEF RunInv, FailToWriteOutput, Crash
  <2>2. PublishedIds' = NoIds /\ RegistryLost' BY <2>1 DEF PublishedIds, RegistryLost
  <2>3. RegistryLost' = TRUE BY <2>2 DEF RegistryLost
  <2> QED BY <2>2, <2>3 DEF Registry!Next, Registry!Lose, NoIds, Registry!NoneAssigned
<1>4. CASE UNCHANGED file /\ pc # "write" /\ pc' # "write"
  BY <1>4 DEF PublishedIds, RegistryLost, Registry!vars
<1>5. CASE UNCHANGED vars
  BY <1>5 DEF vars, PublishedIds, RegistryLost, Registry!vars
<1> QED
  BY <1>1, <1>2, <1>3, <1>4, <1>5
  DEF Next, Step, Load, RemoveInvalidServiceIds, RemoveInvalidDistributionIds,
      VisitGlobalResource, VisitMachineResource, RejectScope, Fail, FinishResources,
      VisitTarget, FinishTargets, SkipService, Deplete, StartSearch, FinishServices, TryNextId,
      AssignId, FailToOpenOutput, FailToWriteOutput, Exit, Crash, position

(* Runs on pools with steady bounds, all of a global scope, with every      *)
(* service on one machine at most, implement the registry: an update of the *)
(* ids is atomic for its readers, keeps them unique, and never turns an id  *)
(* that a service holds into another one.                                   *)
THEOREM RegistryImplemented ==
    ASSUME SteadyPools, NotReplicated, GlobalOnly = Resources
    PROVE  HistorySpec => ImplementsRegistry
<1>1. HistoryInit => Init BY DEF HistoryInit
<1>2. [HistoryNext]_<<vars, historyVars>> => [Next]_vars BY DEF HistoryNext
<1>3. TypeInv /\ UniqueInv /\ RunInv /\ RetainInv /\ SharersInv /\ HoldersInv
        /\ OriginInBounds /\ [Next]_vars => [Registry!Next]_(Registry!vars)
  BY RegistryStep
<1> QED
  BY <1>1, <1>2, <1>3, RegistryInit, TypeInit, TypeNext, UniqueInit, UniqueNext, RunInit,
     RunNext, RetainInit, RetainNext, SharersInit, SharersNext, HoldersInit, HoldersNext,
     BoundsInit, BoundsNext, OriginInit, OriginNext, PTL
  DEF HistorySpec, ImplementsRegistry, Registry!Spec

-----------------------------------------------------------------------------
(* No reuse.  Until the search passes the maximum of a pool its last id is  *)
(* the highest that was ever given, in this run or in a published file, and *)
(* every search goes up from there.  Nothing is asked of the bounds, but a  *)
(* pool has to stay defined: its last id is dropped otherwise.              *)
Fresh(r) == r \notin wrapping \cup wrapped

Ceiling(top, S) == \A i \in S : top # NoId /\ i <= top

HeldIn(table, r) == {table[r][s] : s \in Services} \ {NoId}

FileCeiling ==
    /\ file = Absent => \A r \in Resources : issued[r] = {}
    /\ file \notin {Absent, Broken} => \A r \in Pools \ wrapped :
          Ceiling(file.last[r], issued[r] \cup HeldIn(file.ids, r))

MemoryCeiling ==
    Loaded \/ pc = "write" => \A r \in Pools : Fresh(r) =>
        Ceiling(last[r], issued[r] \cup HeldIn(ids, r))

SearchGoesUp ==
    /\ Walking => target = NoName /\ lastId = last[resource]
    /\ pc = "search" /\ Fresh(resource) => lastId = NoId \/ lastId < searchId

IssuedInv ==
    /\ issued \in [Resources -> SUBSET Int]
    /\ FileCeiling /\ MemoryCeiling /\ SearchGoesUp

LEMMA IssuedInit == HistoryInit => IssuedInv
BY IdAssumption
DEF HistoryInit, Init, IssuedInv, FileCeiling, MemoryCeiling, SearchGoesUp, Loaded, Walking

(* An increased search id is higher, or else the search passes the maximum. *)
LEMMA IncreaseGoesUp ==
    ASSUME input \in Inputs, NEW r \in Pools, NEW id \in Int,
           ~(id + PoolOf(r).step > PoolOf(r).max)
    PROVE  id < IncreaseSearchId(PoolOf(r), id)
BY PoolType DEF IncreaseSearchId, Pool

LEMMA CeilingShrinks ==
    ASSUME NEW top, NEW S, NEW T, T \subseteq S, Ceiling(top, S)
    PROVE  Ceiling(top, T)
BY DEF Ceiling

LEMMA IssuedNext ==
    ASSUME SamePools, GlobalOnly = Resources
    PROVE  TypeInv /\ UniqueInv /\ RunInv /\ IssuedInv /\ [HistoryNext]_<<vars, historyVars>>
               => IssuedInv'
<1> SUFFICES ASSUME TypeInv, UniqueInv, RunInv, IssuedInv, [HistoryNext]_<<vars, historyVars>>
             PROVE  IssuedInv'
  OBVIOUS
<1>1. CASE UNCHANGED <<vars, historyVars>>
  BY <1>1
  DEF vars, historyVars, config, position, search, IssuedInv, FileCeiling, MemoryCeiling,
      SearchGoesUp, Fresh, Loaded, Walking, Pools
<1>2. CASE HistoryNext
  <2>1. Pools' = Pools /\ Pools \subseteq Resources /\ input \in Inputs /\ input' \in Inputs
    <3>1. input \in Inputs /\ input' \in Inputs
      BY <1>2, TypeNext DEF HistoryNext, TypeInv, TypeOK
    <3> QED BY <3>1, InputPools DEF SamePools, Pools
  <2>2. /\ Next
        /\ wrapping' = IF pc' = "exited" THEN {}
                       ELSE IF PassesMax THEN wrapping \cup {resource} ELSE wrapping
    BY <1>2 DEF HistoryNext
  <2>3. CASE WriteOutput
    <3>1. /\ pc = "write" /\ pc' = "cleanup" /\ file = Broken /\ ids \in IdTables
          /\ file'.ids = ids /\ file'.last = last /\ file' \notin {Absent, Broken}
      <4>1. file' = [ids |-> ids, last |-> last, lastPT |-> lastPT] /\ file' \in Config
        BY <2>3 DEF WriteOutput, Config, TypeInv, TypeOK
      <4> QED BY <2>3, <4>1, IdAssumption DEF WriteOutput, RunInv, TypeInv, TypeOK
    <3>2. /\ issued' = [r \in Resources |-> issued[r] \cup UsedBy(r, Services)]
          /\ wrapped' = wrapped \cup wrapping
      BY <1>2, <3>1 DEF HistoryNext, Publishes
    <3>3. \A r \in Resources : UsedBy(r, Services) = HeldIn(ids, r) /\ HeldIn(ids, r) \subseteq Int
      BY <3>1 DEF UsedBy, HeldIn, IdTables
    <3>4. issued' \in [Resources -> SUBSET Int] BY <3>2, <3>3 DEF IssuedInv
    <3>5. FileCeiling'
      <4>1. ASSUME NEW r \in Pools \ wrapped'
            PROVE  Ceiling(file'.last[r], issued'[r] \cup HeldIn(file'.ids, r))
        <5>1. Ceiling(last[r], issued[r] \cup HeldIn(ids, r))
          BY <3>1, <3>2, <4>1 DEF IssuedInv, MemoryCeiling, Fresh
        <5>2. issued'[r] \cup HeldIn(ids, r) = issued[r] \cup HeldIn(ids, r)
          BY <2>1, <3>2, <3>3
        <5> QED BY <3>1, <5>1, <5>2
      <4> QED BY <2>1, <3>1, <4>1 DEF FileCeiling
    <3> QED BY <3>1, <3>4, <3>5 DEF IssuedInv, MemoryCeiling, SearchGoesUp, Loaded, Walking
  <2>4. CASE ~WriteOutput
    <3>1. /\ ~Publishes
          /\ file' = file \/ (file' = Broken /\ OpenOutput)
      BY <2>2, <2>4
      DEF Publishes, Next, Step, Load, RemoveInvalidServiceIds, RemoveInvalidDistributionIds,
          VisitGlobalResource, VisitMachineResource, RejectScope, Fail, FinishResources,
          VisitTarget, FinishTargets, SkipService, Deplete, StartSearch, FinishServices,
          TryNextId, AssignId, OpenOutput, FailToOpenOutput, FailToWriteOutput, Exit, Crash
    <3>2. issued' = issued /\ wrapped' = wrapped
      BY <1>2, <3>1 DEF HistoryNext
    <3>3. FileCeiling'
      BY <2>1, <3>1, <3>2, IdAssumption DEF FileCeiling, IssuedInv
    <3>4. pc' # "exited" => \A r : Fresh(r)' => Fresh(r)
      BY <2>2, <3>2 DEF Fresh
    <3>5. SUFFICES MemoryCeiling' /\ SearchGoesUp'
      BY <3>2, <3>3 DEF IssuedInv
    <3>6. CASE ~Loaded' /\ pc' # "write"
      BY <3>6 DEF MemoryCeiling, SearchGoesUp, Loaded, Walking
    <3>7. ASSUME NEW in \in Inputs, Load(in), Loaded' PROVE MemoryCeiling' /\ SearchGoesUp'
      <4>1. pc' = "clean" /\ CanLoad(in) BY <3>7 DEF Load, Loaded
      <4>2. ASSUME NEW r \in Pools, Fresh(r)'
            PROVE  Ceiling(last'[r], issued'[r] \cup HeldIn(ids', r))
        <5>1. CASE file = Absent
          <6>1. ids' = NoIds
            BY <3>7, <4>1, <5>1 DEF Load, config, TypeInv, Quiet, FreshMemory
          <6>2. HeldIn(ids', r) = {} BY <2>1, <6>1 DEF HeldIn, NoIds
          <6>3. issued'[r] = {} BY <2>1, <3>2, <5>1 DEF IssuedInv, FileCeiling
          <6> QED BY <6>2, <6>3 DEF Ceiling
        <5>2. CASE file # Absent
          <6>1. ids' = file.ids /\ last' = file.last /\ file # Broken
            BY <3>7, <4>1, <5>2 DEF Load, CanLoad
          <6>2. r \in Pools \ wrapped BY <3>2, <4>2 DEF Fresh
          <6> QED BY <3>2, <5>2, <6>1, <6>2 DEF IssuedInv, FileCeiling
        <5> QED BY <5>1, <5>2
      <4> QED BY <2>1, <4>1, <4>2 DEF MemoryCeiling, SearchGoesUp, Walking
    <3>8. CASE RemoveInvalidServiceIds \/ RemoveInvalidDistributionIds
      <4>1. pc = "clean" /\ pc' = "resource" /\ ids' = KeepValid(ids) /\ last' = KeepDefined(last)
        BY <3>8 DEF RemoveInvalidServiceIds, RemoveInvalidDistributionIds
      <4>2. ASSUME NEW r \in Pools, Fresh(r)'
            PROVE  Ceiling(last'[r], issued'[r] \cup HeldIn(ids', r))
        <5>1. Ceiling(last[r], issued[r] \cup HeldIn(ids, r))
          BY <3>4, <4>1, <4>2 DEF IssuedInv, MemoryCeiling, Loaded
        <5>2. HeldIn(ids', r) \subseteq HeldIn(ids, r)
          BY <2>1, <4>1 DEF HeldIn, KeepValid
        <5>3. last'[r] = last[r] BY <2>1, <4>1 DEF KeepDefined
        <5> QED BY <3>2, <5>1, <5>2, <5>3, CeilingShrinks
      <4> QED BY <2>1, <4>1, <4>2 DEF MemoryCeiling, SearchGoesUp, Walking
    <3>9. CASE (Loaded \/ pc = "write") /\ UNCHANGED <<ids, last>> /\ pc' # "exited" /\ ~AssignId
      <4>1. MemoryCeiling'
        BY <2>1, <3>2, <3>4, <3>9 DEF IssuedInv, MemoryCeiling
      <4>2. CASE ~Walking'
        BY <4>1, <4>2 DEF SearchGoesUp, Walking
      <4>3. ASSUME NEW r \in Resources, VisitGlobalResource(r) PROVE SearchGoesUp'
        BY <4>3 DEF VisitGlobalResource, SearchGoesUp, config, TypeInv, Quiet
      <4>4. ASSUME NEW t \in Targets, VisitTarget(t) PROVE SearchGoesUp'
        BY <2>1, <4>4 DEF VisitTarget, UniqueInv, TargetOfMachine, TypeInv, TypeOK
      <4>5. ASSUME NEW s \in Services, SkipService(s) PROVE SearchGoesUp'
        BY <3>9, <4>5 DEF SkipService, search, IssuedInv, SearchGoesUp, Walking
      <4>6. ASSUME NEW s \in Services, StartSearch(s) PROVE SearchGoesUp'
        <5>1. /\ pc = "service" /\ pc' = "search" /\ resource \in Pools
              /\ UNCHANGED <<resource, target, lastId>> /\ lastId \in Ids
              /\ lastId # NoId => searchId' = IncreaseSearchId(PoolOf(resource), lastId)
          BY <4>6 DEF StartSearch, TypeInv, TypeOK
        <5>2. lastId # NoId /\ Fresh(resource)'
                => ~(lastId + PoolOf(resource).step > PoolOf(resource).max)
          BY <2>2, <5>1 DEF Fresh, PassesMax
        <5>3. lastId # NoId /\ Fresh(resource)' => lastId < searchId'
          BY <2>1, <5>1, <5>2, IncreaseGoesUp
        <5> QED BY <3>9, <5>1, <5>3 DEF IssuedInv, SearchGoesUp, Walking
      <4>7. CASE TryNextId
        <5>1. /\ pc = "search" /\ pc' = "search" /\ resource \in Pools /\ searchId \in used
              /\ UNCHANGED <<resource, target, lastId>> /\ lastId \in Ids /\ searchId \in Int
              /\ searchId' = IncreaseSearchId(PoolOf(resource), searchId)
          BY <4>7 DEF TryNextId, position, TypeInv, TypeOK
        <5>2. Fresh(resource)' => ~(searchId + PoolOf(resource).step > PoolOf(resource).max)
          BY <2>2, <5>1 DEF Fresh, PassesMax
        <5>3. Fresh(resource)' => searchId < searchId'
          BY <2>1, <5>1, <5>2, IncreaseGoesUp
        <5>4. Fresh(resource)' => Fresh(resource) BY <3>4, <5>1
        <5>5. searchId' \in Int
          BY <2>1, <5>1, PoolType, IncreaseType
        <5>6. Fresh(resource)' => lastId = NoId \/ lastId < searchId'
          BY <5>1, <5>3, <5>4, <5>5 DEF IssuedInv, SearchGoesUp
        <5> QED BY <3>9, <4>1, <5>1, <5>6 DEF IssuedInv, SearchGoesUp, Walking
      <4> QED
        BY <2>2, <3>9, <4>1, <4>2, <4>3, <4>4, <4>5, <4>6, <4>7
        DEF Next, Step, Load, RemoveInvalidServiceIds, RemoveInvalidDistributionIds,
            VisitMachineResource, RejectScope, Fail, FinishResources, FinishTargets, Deplete,
            FinishServices, OpenOutput, FailToOpenOutput, WriteOutput, FailToWriteOutput, Exit,
            Crash, Walking
    <3>10. CASE AssignId
      <4>1. /\ pc = "search" /\ pc' = "service" /\ target = NoName /\ lastId = last[resource]
            /\ UNCHANGED <<resource, target>> /\ lastId' = searchId
            /\ ids' = [ids EXCEPT ![resource][service] = searchId] /\ ids \in IdTables
            /\ last' = [last EXCEPT ![resource] = searchId] /\ last \in LastTable
            /\ resource \in Resources /\ resource \in Pools /\ service \in Services
            /\ searchId \in Int
        BY <2>1, <3>10 DEF AssignId, IssuedInv, SearchGoesUp, Walking, TypeInv, TypeOK
      <4>2. ASSUME NEW r \in Pools, Fresh(r)'
            PROVE  Ceiling(last'[r], issued'[r] \cup HeldIn(ids', r))
        <5>1. Fresh(r) /\ r \in Resources BY <2>1, <3>4, <4>1, <4>2
        <5>2. Ceiling(last[r], issued[r] \cup HeldIn(ids, r))
          BY <4>1, <5>1 DEF IssuedInv, MemoryCeiling, Loaded
        <5>3. CASE r # resource
          <6>1. last'[r] = last[r] /\ ids'[r] = ids[r]
            BY <4>1, <5>1, <5>3 DEF LastTable, IdTables
          <6> QED BY <3>2, <5>2, <6>1 DEF HeldIn
        <5>4. CASE r = resource
          <6>1. last'[r] = searchId BY <4>1, <5>4 DEF LastTable
          <6>2. \A s \in Services : ids'[r][s] = IF s = service THEN searchId ELSE ids[r][s]
            BY <4>1, <5>4 DEF IdTables
          <6>3. HeldIn(ids', r) \subseteq HeldIn(ids, r) \cup {searchId}
            BY <6>2 DEF HeldIn
          <6>4. HeldIn(ids, r) \subseteq Int /\ issued[r] \subseteq Int
            BY <4>1, <5>1 DEF HeldIn, IdTables, IssuedInv
          <6>5. last[r] = NoId \/ (last[r] \in Int /\ last[r] < searchId)
            BY <4>1, <5>1, <5>4 DEF IssuedInv, SearchGoesUp, LastTable
          <6>6. \A i \in issued[r] \cup HeldIn(ids, r) : i <= searchId
            BY <4>1, <5>2, <6>4, <6>5 DEF Ceiling
          <6> QED BY <3>2, <4>1, <6>1, <6>3, <6>6, IdAssumption DEF Ceiling
        <5> QED BY <5>3, <5>4
      <4>3. last'[resource] = searchId BY <4>1 DEF LastTable
      <4> QED BY <2>1, <4>1, <4>2, <4>3 DEF MemoryCeiling, SearchGoesUp, Walking
    <3> QED
      BY <2>2, <2>4, <3>6, <3>7, <3>8, <3>9, <3>10
      DEF Next, Step, Load, RemoveInvalidServiceIds, RemoveInvalidDistributionIds,
          VisitGlobalResource, VisitMachineResource, RejectScope, Fail, FinishResources,
          VisitTarget, FinishTargets, SkipService, Deplete, StartSearch, FinishServices,
          TryNextId, AssignId, OpenOutput, FailToOpenOutput, FailToWriteOutput, Exit,
          Crash, config, Loaded
  <2> QED BY <2>3, <2>4
<1> QED BY <1>1, <1>2

(* As long as the same pools are defined, all of a global scope, an id that *)
(* any earlier file has published is given again only after the search has  *)
(* passed the maximum of its pool, whatever the bounds, the step, the       *)
(* inputs, and the runs that fail or are killed in between.                 *)
THEOREM NoEarlyReuse ==
    ASSUME SamePools, GlobalOnly = Resources PROVE HistorySpec => NoReuseBeforeLimit
<1>1. HistoryInit => Init BY DEF HistoryInit
<1>2. [HistoryNext]_<<vars, historyVars>> => [Next]_vars BY DEF HistoryNext
<1>3. TypeInv /\ IssuedInv => (AssignId => searchId \notin issued[resource]
                                           \/ resource \in wrapping \cup wrapped)
  <2> SUFFICES ASSUME TypeInv, IssuedInv, AssignId, Fresh(resource),
                      searchId \in issued[resource]
               PROVE  FALSE
    BY DEF Fresh
  <2>1. /\ pc = "search" /\ resource \in Pools /\ searchId \in Int
        /\ lastId = last[resource] /\ lastId \in Ids
        /\ lastId = NoId \/ lastId < searchId
    BY DEF AssignId, IssuedInv, SearchGoesUp, Walking, TypeInv, TypeOK
  <2>2. Ceiling(last[resource], issued[resource] \cup HeldIn(ids, resource))
    BY <2>1 DEF IssuedInv, MemoryCeiling, Loaded
  <2> QED BY <2>1, <2>2, IdAssumption DEF Ceiling
<1>4. TypeInv /\ IssuedInv /\ [HistoryNext]_<<vars, historyVars>> =>
        [AssignId => searchId \notin issued[resource]
                     \/ resource \in wrapping \cup wrapped]_<<vars, historyVars>>
  BY <1>3
<1> QED
  BY <1>1, <1>2, <1>4, TypeInit, TypeNext, UniqueInit, UniqueNext, RunInit, RunNext,
     IssuedInit, IssuedNext, PTL
  DEF HistorySpec, NoReuseBeforeLimit

=============================================================================
