--------------------------- MODULE RedeployProofs ---------------------------
(***************************************************************************)
(* Proofs about Redeploy, for any machines, services, services models and  *)
(* quality of service models: stateful services stay where their state is, *)
(* and the round robin is even.                                            *)
(***************************************************************************)
EXTENDS Redeploy, FiniteSetTheorems, WellFoundedInduction, TLAPS

(* The filter for stateful services has been applied. *)
Filtered == \E i \in 1 .. applied : plan[i] = "stateful"

(* Where the generation is, and what its lists are like for a service that  *)
(* has gone through a division.                                             *)
PlaceInv ==
    /\ pc = "idle" => applied = 0
    /\ todo # {} /\ pc # "roundrobin" => applied = 0
    /\ pc = "roundrobin" =>
          /\ applied < Len(plan) /\ plan[applied + 1] = "roundrobin"
          /\ \A s \in model \ todo : dist[s] # {}
    /\ Protects /\ pc = "filter" /\ applied = Len(plan) => \A s \in model : dist[s] # {}

(* Without the filter for bound services, candidates are plain names.       *)
NamesInv == Protects => \A s \in Services : \A e \in dist[s] : e.container = "auto"

(* Once it has been applied, the candidates of a stateful service are among *)
(* those of the previous distribution.                                      *)
PreviousInv ==
    Protects /\ Filtered =>
        \A s \in Stateful : Previous(s) # {} => dist[s] \subseteq Previous(s)

(* The manifest says where the state is. *)
HomeInv == Protects => \A s \in Services : home[s] = Targets(manifest[s])

Inv == TypeOK /\ PlaceInv /\ NamesInv /\ PreviousInv /\ HomeInv

-----------------------------------------------------------------------------
(* Lists of candidates *)

(* A set of naturals that is not empty has a smallest element.              *)
LEMMA Smallest ==
    ASSUME NEW S \in SUBSET Nat, S # {}
    PROVE  \E m \in S : \A n \in S : m <= n
    <1> DEFINE R == {p \in Nat \X Nat : p[1] < p[2]}
    <1>1. IsWellFoundedOn(R, Nat)
        BY NatLessThanWellFounded, Zenon DEF OpToRel
    <1>2. \A n, m \in Nat : n < m => <<n, m>> \in R
        OBVIOUS
    <1> HIDE DEF R
    <1>3. PICK m \in S : \A n \in S : ~ (<<n, m>> \in R)
        BY <1>1, WFMin
    <1>4. \A n \in S : ~ (n < m)
        BY <1>2, <1>3
    <1> QED
        BY <1>4

LEMMA SmallestBy ==
    ASSUME NEW E, E # {}, NEW f \in [E -> Nat]
    PROVE  \E e \in E : \A d \in E : f[e] <= f[d]
    <1> DEFINE S == {f[e] : e \in E}
    <1>1. S \in SUBSET Nat /\ S # {}
        OBVIOUS
    <1> HIDE DEF S
    <1>2. PICK m \in S : \A n \in S : m <= n
        BY <1>1, Smallest
    <1> QED
        BY <1>2 DEF S

(* Every list that is not empty has a head, however it is ordered.          *)
LEMMA FirstIsHead ==
    ASSUME NEW E \in SUBSET Entry, E # {}
    PROVE  First(E) \in E /\ \A f \in E : Before(First(E), f)
    <1>1. \A e \in E : Rank[e.target] \in Nat /\ Priority[e.target] \in Nat
        BY ModelAssumption DEF Entry
    <1>2. \A F \in SUBSET E : F # {} =>
             \E e \in F : \A f \in F : Rank[e.target] <= Rank[f.target]
        <2> TAKE F \in SUBSET E
        <2> HAVE F # {}
        <2> DEFINE rank == [e \in F |-> Rank[e.target]]
        <2>1. rank \in [F -> Nat]
            BY <1>1
        <2> HIDE DEF rank
        <2>2. PICK e \in F : \A f \in F : rank[e] <= rank[f]
            BY <2>1, SmallestBy
        <2> QED
            BY <2>2 DEF rank
    <1>3. PICK p \in E : \A f \in E : Priority[p.target] <= Priority[f.target]
        <2> DEFINE priority == [e \in E |-> Priority[e.target]]
        <2>1. priority \in [E -> Nat]
            BY <1>1
        <2> HIDE DEF priority
        <2>2. PICK e \in E : \A f \in E : priority[e] <= priority[f]
            BY <2>1, SmallestBy
        <2> QED
            BY <2>2 DEF priority
    <1> DEFINE F == {e \in E : Priority[e.target] = Priority[p.target]}
    <1>4. F \in SUBSET E /\ F # {}
        OBVIOUS
    <1>5. PICK e \in F : \A f \in F : Rank[e.target] <= Rank[f.target]
        BY <1>2, <1>4
    <1>6. \E d \in E : \A f \in E : Before(d, f)
        <2>1. CASE sorted
            <3>1. ASSUME NEW f \in E, Priority[e.target] = Priority[f.target]
                  PROVE  Before(e, f)
                BY <1>5, <3>1 DEF Before
            <3>2. ASSUME NEW f \in E, Priority[e.target] # Priority[f.target]
                  PROVE  Before(e, f)
                BY <1>1, <1>3, <1>5, <2>1, <3>2 DEF Before
            <3> QED
                BY <3>1, <3>2
        <2>2. CASE ~sorted
            BY <1>2, <2>2 DEF Before
        <2> QED
            BY <2>1, <2>2
    <1> QED
        BY <1>6 DEF First

LEMMA FirstIsCandidate ==
    ASSUME NEW E \in SUBSET Entry, E # {}
    PROVE  First(E) \in E
    BY FirstIsHead

(* The round robin stays among the candidates. *)
LEMMA NextTargetIsCandidate ==
    ASSUME NEW E \in SUBSET Entry, E # {}, NEW p
    PROVE  NextTarget(E, p) \in E
    <1>1. Later(E, p) \subseteq E
        BY DEF Later
    <1> QED
        BY <1>1, FirstIsCandidate DEF NextTarget

-----------------------------------------------------------------------------
(* Types *)

LEMMA PlanTyped == ASSUME NEW q \in Plans PROVE q \in Seq(Filters) /\ Len(q) \in Nat
    BY ModelAssumption

LEMMA AutoTyped == \A m \in Machines : AutoMapping(m) \in Entry
    BY DEF AutoMapping, Entry

LEMMA WrittenTyped ==
    ASSUME TypeOK, NEW s \in Services
    PROVE  Written(s) \in SUBSET Machines
    BY DEF TypeOK, Written, Entry

LEMMA PreviousTyped ==
    ASSUME TypeOK, NEW s \in Services
    PROVE  Previous(s) \in SUBSET Entry
    <1>1. manifest[s] \in SUBSET Mapping
        BY DEF TypeOK
    <1>2. CASE Automapped
        BY <1>1, <1>2, AutoTyped DEF Previous, Targets, Mapping
    <1>3. CASE ~Automapped
        BY <1>1, <1>3 DEF Previous, Mapping, Entry
    <1> QED
        BY <1>2, <1>3

LEMMA TypeInit == Init => TypeOK
    <1> SUFFICES ASSUME Init PROVE TypeOK
        OBVIOUS
    <1>1. model \in ServiceModels /\ plan \in Plans /\ applied \in 0 .. Len(plan)
        BY PlanTyped DEF Init
    <1>2. /\ manifest \in [Services -> SUBSET Mapping]
          /\ home \in [Services -> SUBSET Machines]
          /\ dist \in [Services -> SUBSET Entry] /\ given \in [Services -> SUBSET Entry]
          /\ \A s \in Services \ model : dist[s] = {}
        BY DEF Init
    <1> QED
        BY <1>1, <1>2 DEF Init, TypeOK

(* The end of a deployment. *)
LEMMA ForgetTyped ==
    ASSUME TypeOK, Forget,
           manifest' \in [Services -> SUBSET Mapping], home' \in [Services -> SUBSET Machines]
    PROVE  TypeOK'
    <1>1. /\ dist' \in [Services -> SUBSET Entry] /\ given' \in [Services -> SUBSET Entry]
          /\ \A s \in Services \ model' : dist'[s] = {}
        BY DEF Forget
    <1>2. applied' \in 0 .. Len(plan)
        BY PlanTyped DEF TypeOK, Forget
    <1> QED
        BY <1>1, <1>2 DEF TypeOK, Forget

LEMMA TypeStep == TypeOK /\ PlaceInv /\ [Next]_vars => TypeOK'
    <1> SUFFICES ASSUME TypeOK, PlaceInv, [Next]_vars PROVE TypeOK'
        OBVIOUS
    <1>1. ASSUME NEW m \in Machines, Leave(m) \/ Join(m) PROVE TypeOK'
        BY <1>1 DEF TypeOK, Leave, Join, generation
    <1>2. ASSUME NEW s \in Services, NEW e \in Mapping, DeployByHand(s, e) PROVE TypeOK'
        BY <1>2 DEF TypeOK, DeployByHand, generation, Mapping
    <1>3. ASSUME NEW S \in ServiceModels, NEW infra \in {network, captured}, NEW tried \in {{}, S},
                 Start(S, infra, tried)
          PROVE  TypeOK'
        <2>1. CartesianProduct(S, infra) \in [Services -> SUBSET Entry]
            <3>1. infra \in SUBSET Machines
                BY DEF TypeOK
            <3>2. {AutoMapping(m) : m \in infra} \in SUBSET Entry
                BY <3>1, AutoTyped
            <3> QED
                BY <3>2 DEF CartesianProduct
        <2>2. \A s \in Services \ S : CartesianProduct(S, infra)[s] = {}
            BY DEF CartesianProduct
        <2> QED
            BY <1>3, <2>1, <2>2, PlanTyped DEF TypeOK, Start
    <1>4. ASSUME NEW s \in Services, NEW failing \in Failures, TryBuild(s, failing)
          PROVE  TypeOK'
        BY <1>4, PlanTyped DEF TypeOK, TryBuild
    <1>5. CASE MapProperties
        BY <1>5, PlanTyped DEF TypeOK, MapProperties, Filter, Applies
    <1>6. CASE MapStatefulToPrevious
        BY <1>6, PlanTyped DEF TypeOK, MapStatefulToPrevious, Filter, Applies
    <1>7. CASE MapBoundServicesToPrevious
        BY <1>7, PlanTyped, PreviousTyped DEF TypeOK, MapBoundServicesToPrevious, Filter, Applies
    <1>8. CASE Order
        BY <1>8, PlanTyped DEF TypeOK, Order, Applies
    <1>9. CASE BeginRoundRobin
        BY <1>9, PlanTyped DEF TypeOK, BeginRoundRobin
    <1>10. CASE EndRoundRobin
        BY <1>10, PlanTyped DEF TypeOK, PlaceInv, EndRoundRobin
    <1>11. ASSUME NEW s \in Services, DivideRoundRobin(s) PROVE TypeOK'
        BY <1>11, NextTargetIsCandidate, PlanTyped DEF TypeOK, DivideRoundRobin, GoesNext
    <1>12. ASSUME NEW chosen \in [Services -> Machines], Divide(chosen) PROVE TypeOK'
        <2>1. \A s \in Services : {AutoMapping(chosen[s])} \in SUBSET Entry
            BY AutoTyped
        <2>2. /\ dist' \in [Services -> SUBSET Entry]
              /\ \A s \in Services \ model' : dist'[s] = {}
            BY <1>12, <2>1 DEF Divide, Filter
        <2> QED
            BY <1>12, <2>2, PlanTyped DEF TypeOK, Divide, Filter, Applies
    <1>13. CASE Deploy
        <2>1. manifest' \in [Services -> SUBSET Mapping]
            BY <1>13, WrittenTyped DEF Deploy, Mapping
        <2>2. home' \in [Services -> SUBSET Machines]
            BY <1>13, WrittenTyped DEF Deploy, TypeOK
        <2> QED
            BY <1>13, <2>1, <2>2, ForgetTyped DEF Deploy
    <1>14. CASE Fail
        BY <1>14, ForgetTyped DEF Fail, TypeOK
    <1>15. CASE UNCHANGED vars
        BY <1>15 DEF TypeOK, vars, generation
    <1> QED
        BY <1>1, <1>2, <1>3, <1>4, <1>5, <1>6, <1>7, <1>8, <1>9, <1>10, <1>11, <1>12, <1>13,
           <1>14, <1>15 DEF Next

-----------------------------------------------------------------------------
(* Where the generation is *)

LEMMA InvInit == Init => Inv
    <1> SUFFICES ASSUME Init PROVE Inv
        OBVIOUS
    <1>1. PlaceInv
        <2>1. Protects => Len(plan) # 0
            BY PlanTyped DEF Init, Protects
        <2> QED
            BY <2>1 DEF Init, PlaceInv
    <1>2. NamesInv /\ PreviousInv /\ HomeInv
        BY ModelAssumption DEF Init, NamesInv, PreviousInv, HomeInv, Targets
    <1> QED
        BY <1>1, <1>2, TypeInit DEF Inv

(* A plan that protects services ends with a division. *)
LEMMA LastIsDivision ==
    ASSUME TypeOK, Protects, NEW f, f \notin {"roundrobin", "divide"}, Applies(f)
    PROVE  applied + 1 # Len(plan)
    BY PlanTyped DEF TypeOK, Protects, Applies

LEMMA PlanNotEmpty == ASSUME TypeOK, Protects PROVE Len(plan) # 0
    BY PlanTyped DEF TypeOK, Protects

LEMMA PlanIsKept == [Next]_vars => plan' = plan /\ Protects' = Protects
    <1> SUFFICES ASSUME [Next]_vars PROVE plan' = plan
        BY DEF Protects
    <1> QED
        BY DEF Next, vars, generation, Leave, Join, DeployByHand, Start, TryBuild, Filter,
           MapProperties, MapStatefulToPrevious, MapBoundServicesToPrevious, Order,
           BeginRoundRobin, EndRoundRobin, DivideRoundRobin, Divide, Deploy, Fail, Forget

(* A filter that is not the last one, since it is not a division. *)
LEMMA FilterPlaced ==
    ASSUME TypeOK, PlaceInv, NEW f, f \notin {"roundrobin", "divide"}, Applies(f),
           Protects' = Protects, plan' = plan, applied' = applied + 1, pc' = pc, todo' = todo
    PROVE  PlaceInv'
    BY LastIsDivision DEF TypeOK, PlaceInv, Applies

LEMMA PlaceStep == TypeOK /\ PlaceInv /\ [Next]_vars => PlaceInv'
    <1> SUFFICES ASSUME TypeOK, PlaceInv, [Next]_vars PROVE PlaceInv'
        OBVIOUS
    <1>0. plan' = plan /\ Protects' = Protects
        BY PlanIsKept
    <1>1. ASSUME NEW m \in Machines, Leave(m) \/ Join(m) PROVE PlaceInv'
        BY <1>0, <1>1 DEF PlaceInv, Leave, Join, generation
    <1>2. ASSUME NEW s \in Services, NEW e \in Mapping, DeployByHand(s, e) PROVE PlaceInv'
        BY <1>0, <1>2 DEF PlaceInv, DeployByHand, generation
    <1>3. ASSUME NEW S \in ServiceModels, NEW infra, NEW tried, Start(S, infra, tried)
          PROVE  PlaceInv'
        BY <1>0, <1>3, PlanNotEmpty DEF PlaceInv, Start
    <1>4. ASSUME NEW s \in Services, NEW failing \in Failures, TryBuild(s, failing)
          PROVE  PlaceInv'
        BY <1>0, <1>4, PlanNotEmpty DEF PlaceInv, TryBuild
    <1>5. CASE MapProperties
        BY <1>0, <1>5, FilterPlaced DEF MapProperties, Filter
    <1>6. CASE MapStatefulToPrevious
        BY <1>0, <1>6, FilterPlaced DEF MapStatefulToPrevious, Filter
    <1>7. CASE MapBoundServicesToPrevious
        BY <1>0, <1>7, FilterPlaced DEF MapBoundServicesToPrevious, Filter
    <1>8. CASE Order
        BY <1>0, <1>8, FilterPlaced DEF Order
    <1>9. CASE BeginRoundRobin
        BY <1>0, <1>9 DEF PlaceInv, BeginRoundRobin, Applies
    <1>10. CASE EndRoundRobin
        BY <1>0, <1>10 DEF PlaceInv, EndRoundRobin
    <1>11. ASSUME NEW s \in Services, DivideRoundRobin(s) PROVE PlaceInv'
        <2>1. dist'[s] # {} /\ \A t \in Services \ {s} : dist'[t] = dist[t]
            BY <1>11 DEF TypeOK, DivideRoundRobin
        <2>2. model \in SUBSET Services
            BY ModelAssumption DEF TypeOK
        <2> QED
            BY <1>0, <1>11, <2>1, <2>2 DEF PlaceInv, DivideRoundRobin
    <1>12. ASSUME NEW chosen \in [Services -> Machines], Divide(chosen) PROVE PlaceInv'
        <2>1. \A s \in model : dist'[s] # {}
            BY <1>12, ModelAssumption DEF TypeOK, Divide
        <2> QED
            BY <1>0, <1>12, <2>1 DEF PlaceInv, Divide, Filter, Applies
    <1>13. CASE Deploy
        BY <1>0, <1>13 DEF PlaceInv, Deploy, Forget
    <1>14. CASE Fail
        BY <1>0, <1>14 DEF PlaceInv, Fail, Forget
    <1>15. CASE UNCHANGED vars
        BY <1>0, <1>15 DEF PlaceInv, vars, generation
    <1> QED
        BY <1>1, <1>2, <1>3, <1>4, <1>5, <1>6, <1>7, <1>8, <1>9, <1>10, <1>11, <1>12, <1>13,
           <1>14, <1>15 DEF Next

-----------------------------------------------------------------------------
(* What the candidates are *)

LEMMA NamesStep == TypeOK /\ NamesInv /\ [Next]_vars => NamesInv'
    <1> SUFFICES ASSUME TypeOK, NamesInv, [Next]_vars PROVE NamesInv'
        OBVIOUS
    <1>0. Protects' = Protects
        BY PlanIsKept
    <1> DEFINE Narrower == \A s \in Services : dist'[s] \subseteq dist[s]
    <1>1. ASSUME Narrower PROVE NamesInv'
        BY <1>0, <1>1 DEF NamesInv
    <1>2. ASSUME dist' = dist PROVE NamesInv'
        BY <1>1, <1>2
    <1>3. ASSUME NEW S \in ServiceModels, NEW infra, NEW tried, Start(S, infra, tried)
          PROVE  NamesInv'
        BY <1>0, <1>3 DEF NamesInv, Start, CartesianProduct, AutoMapping
    <1>4. ASSUME NEW s \in Services, NEW failing \in Failures, TryBuild(s, failing)
          PROVE  NamesInv'
        <2>1. Narrower
            BY <1>4 DEF TypeOK, TryBuild
        <2> QED
            BY <1>1, <2>1
    <1>5. CASE MapProperties
        <2>1. Narrower
            BY <1>5 DEF MapProperties
        <2> QED
            BY <1>1, <2>1
    <1>6. CASE MapStatefulToPrevious
        <2>1. Narrower
            BY <1>6 DEF MapStatefulToPrevious
        <2> QED
            BY <1>1, <2>1
    <1>7. CASE MapBoundServicesToPrevious
        <2>1. applied + 1 \in 1 .. Len(plan) /\ plan[applied + 1] = "bound"
            BY <1>7, PlanTyped DEF TypeOK, MapBoundServicesToPrevious, Filter, Applies
        <2>2. ~Protects
            BY <2>1 DEF Protects
        <2> QED
            BY <1>0, <2>2 DEF NamesInv
    <1>8. ASSUME NEW s \in Services, DivideRoundRobin(s) PROVE NamesInv'
        <2>1. dist'[s] = {NextTarget(dist[s], previousTarget)}
            BY <1>8 DEF TypeOK, DivideRoundRobin
        <2>2. dist[s] \in SUBSET Entry /\ dist[s] # {}
            BY <1>8 DEF TypeOK, DivideRoundRobin
        <2>3. dist'[s] \subseteq dist[s]
            BY <2>1, <2>2, NextTargetIsCandidate
        <2>4. Narrower
            BY <1>8, <2>3 DEF TypeOK, DivideRoundRobin
        <2> QED
            BY <1>1, <2>4
    <1>9. ASSUME NEW chosen \in [Services -> Machines], Divide(chosen) PROVE NamesInv'
        BY <1>0, <1>9 DEF NamesInv, Divide, AutoMapping
    <1>10. ASSUME Forget PROVE NamesInv'
        BY <1>10 DEF NamesInv, Forget
    <1>11. CASE Deploy \/ Fail
        BY <1>10, <1>11 DEF Deploy, Fail
    <1>12. ASSUME NEW m \in Machines, Leave(m) \/ Join(m) PROVE NamesInv'
        BY <1>2, <1>12 DEF Leave, Join, generation
    <1>13. ASSUME NEW s \in Services, NEW e \in Mapping, DeployByHand(s, e) PROVE NamesInv'
        BY <1>2, <1>13 DEF DeployByHand, generation
    <1>14. CASE Order \/ BeginRoundRobin \/ EndRoundRobin \/ UNCHANGED vars
        BY <1>2, <1>14 DEF Order, BeginRoundRobin, EndRoundRobin, vars, generation
    <1> QED
        BY <1>3, <1>4, <1>5, <1>6, <1>7, <1>8, <1>9, <1>11, <1>12, <1>13, <1>14 DEF Next

(* Previous targets are the same for as long as the manifest is the same. *)
LEMMA PreviousIsKept ==
    ASSUME manifest' = manifest, NEW s \in Services
    PROVE  Previous(s)' = Previous(s)
    BY DEF Previous, Automapped, AutoMapping, Targets

(* A step that takes candidates away, and is not the filter for stateful    *)
(* services.                                                                *)
LEMMA PreviousNarrowed ==
    ASSUME TypeOK, PreviousInv, manifest' = manifest, plan' = plan, Protects' = Protects,
           applied' \in {applied, applied + 1},
           applied' = applied + 1 => plan[applied + 1] # "stateful",
           Protects => \A s \in Services : dist'[s] \subseteq dist[s]
    PROVE  PreviousInv'
    <1>1. Filtered' => Filtered
        BY PlanTyped DEF TypeOK, Filtered
    <1>2. \A s \in Services : Previous(s)' = Previous(s)
        BY PreviousIsKept
    <1> QED
        BY <1>1, <1>2, ModelAssumption DEF PreviousInv

(* Before the first filter there is nothing to keep. *)
LEMMA NothingFiltered == ASSUME applied' = 0 PROVE PreviousInv'
    BY DEF PreviousInv, Filtered

LEMMA PreviousStep ==
    TypeOK /\ PlaceInv /\ NamesInv /\ PreviousInv /\ [Next]_vars => PreviousInv'
    <1> SUFFICES ASSUME TypeOK, PlaceInv, NamesInv, PreviousInv, [Next]_vars
                 PROVE  PreviousInv'
        OBVIOUS
    <1>0. plan' = plan /\ Protects' = Protects
        BY PlanIsKept
    <1>1. ASSUME NEW m \in Machines, Leave(m) \/ Join(m) PROVE PreviousInv'
        BY <1>0, <1>1, PreviousNarrowed DEF TypeOK, Leave, Join, generation
    <1>2. ASSUME NEW s \in Services, NEW e \in Mapping, DeployByHand(s, e) PROVE PreviousInv'
        BY <1>2, NothingFiltered DEF PlaceInv, DeployByHand, generation
    <1>3. ASSUME NEW S \in ServiceModels, NEW infra, NEW tried, Start(S, infra, tried)
          PROVE  PreviousInv'
        BY <1>3, NothingFiltered DEF Start
    <1>4. ASSUME NEW s \in Services, NEW failing \in Failures, TryBuild(s, failing)
          PROVE  PreviousInv'
        BY <1>4, NothingFiltered DEF PlaceInv, TryBuild
    <1>5. CASE MapProperties
        BY <1>0, <1>5, PreviousNarrowed DEF MapProperties, Filter, Applies
    <1>6. CASE MapStatefulToPrevious
        <2>1. \A s \in Stateful : Previous(s) # {} => dist'[s] \subseteq Previous(s)
            BY <1>6, ModelAssumption DEF MapStatefulToPrevious
        <2>2. \A s \in Stateful : Previous(s)' = Previous(s)
            BY <1>6, PreviousIsKept, ModelAssumption DEF MapStatefulToPrevious, Filter
        <2> QED
            BY <2>1, <2>2 DEF PreviousInv
    <1>7. CASE MapBoundServicesToPrevious
        <2>1. applied + 1 \in 1 .. Len(plan) /\ plan[applied + 1] = "bound"
            BY <1>7, PlanTyped DEF TypeOK, MapBoundServicesToPrevious, Filter, Applies
        <2>2. ~Protects
            BY <2>1 DEF Protects
        <2> QED
            BY <1>0, <2>2 DEF PreviousInv
    <1>8. CASE Order
        BY <1>0, <1>8, PreviousNarrowed DEF Order, Applies
    <1>9. CASE BeginRoundRobin
        BY <1>0, <1>9, PreviousNarrowed DEF TypeOK, BeginRoundRobin
    <1>10. CASE EndRoundRobin
        BY <1>0, <1>10, PreviousNarrowed DEF PlaceInv, EndRoundRobin
    <1>11. ASSUME NEW s \in Services, DivideRoundRobin(s) PROVE PreviousInv'
        <2>1. dist'[s] = {NextTarget(dist[s], previousTarget)}
            BY <1>11 DEF TypeOK, DivideRoundRobin
        <2>2. dist[s] \in SUBSET Entry /\ dist[s] # {}
            BY <1>11 DEF TypeOK, DivideRoundRobin
        <2>3. dist'[s] \subseteq dist[s]
            BY <2>1, <2>2, NextTargetIsCandidate
        <2>4. \A t \in Services : dist'[t] \subseteq dist[t]
            BY <1>11, <2>3 DEF TypeOK, DivideRoundRobin
        <2> QED
            BY <1>0, <1>11, <2>4, PreviousNarrowed DEF TypeOK, DivideRoundRobin
    <1>12. ASSUME NEW chosen \in [Services -> Machines], Divide(chosen) PROVE PreviousInv'
        <2>1. ASSUME Protects, NEW s \in Services PROVE dist'[s] \subseteq dist[s]
            <3>1. CASE s \in model
                <4>1. PICK e \in dist[s] : e.target = chosen[s]
                    BY <1>12, <3>1 DEF Divide, Targets
                <4>2. e \in Entry /\ e.container = "auto"
                    BY <2>1, <4>1 DEF TypeOK, NamesInv
                <4>3. e = AutoMapping(chosen[s])
                    BY <4>1, <4>2 DEF Entry, AutoMapping
                <4> QED
                    BY <1>12, <3>1, <4>1, <4>3 DEF Divide
            <3>2. CASE s \notin model
                BY <1>12, <3>2 DEF Divide
            <3> QED
                BY <3>1, <3>2
        <2> QED
            BY <1>0, <1>12, <2>1, PreviousNarrowed DEF Divide, Filter, Applies
    <1>13. CASE Deploy \/ Fail
        BY <1>13, NothingFiltered DEF Deploy, Fail, Forget
    <1>14. CASE UNCHANGED vars
        BY <1>0, <1>14, PreviousNarrowed DEF TypeOK, vars, generation
    <1> QED
        BY <1>1, <1>2, <1>3, <1>4, <1>5, <1>6, <1>7, <1>8, <1>9, <1>10, <1>11, <1>12, <1>13,
           <1>14 DEF Next

-----------------------------------------------------------------------------
(* Where the state is *)

(* A service that has gone through a division has a mapping. *)
LEMMA WrittenSomewhere ==
    ASSUME PlaceInv, NamesInv, Protects, Generated, model \subseteq Services
    PROVE  \A s \in model : Written(s) # {}
    <1> SUFFICES ASSUME NEW s \in model PROVE Written(s) # {}
        OBVIOUS
    <1>1. PICK e \in dist[s] : e.container = "auto"
        BY DEF PlaceInv, NamesInv, Generated
    <1> QED
        BY <1>1 DEF Written

(* The targets of mappings that all have the same container. *)
LEMMA TargetsOfMappings ==
    ASSUME NEW W, NEW c
    PROVE  Targets({[target |-> m, container |-> c] : m \in W}) = W
    <1> DEFINE E == {[target |-> m, container |-> c] : m \in W}
    <1>1. ASSUME NEW m \in W PROVE m \in Targets(E)
        <2>1. [target |-> m, container |-> c] \in E
            OBVIOUS
        <2>2. [target |-> m, container |-> c].target = m
            OBVIOUS
        <2> QED
            BY <2>1, <2>2 DEF Targets
    <1>2. ASSUME NEW m \in Targets(E) PROVE m \in W
        BY <1>2 DEF Targets
    <1> QED
        BY <1>1, <1>2

LEMMA HomeStep ==
    TypeOK /\ PlaceInv /\ NamesInv /\ HomeInv /\ [Next]_vars => HomeInv'
    <1> SUFFICES ASSUME TypeOK, PlaceInv, NamesInv, HomeInv, [Next]_vars, Protects
                 PROVE  \A s \in Services : home'[s] = Targets(manifest'[s])
        BY PlanIsKept DEF HomeInv, Targets
    <1>0. \A s \in Services : home[s] = Targets(manifest[s])
        BY DEF HomeInv
    <1>1. ASSUME NEW s \in Services, NEW e \in Mapping, DeployByHand(s, e)
          PROVE  \A t \in Services : home'[t] = Targets(manifest'[t])
        BY <1>0, <1>1 DEF TypeOK, DeployByHand, Targets
    <1>2. CASE Deploy
        <2> SUFFICES ASSUME NEW s \in Services PROVE home'[s] = Targets(manifest'[s])
            OBVIOUS
        <2>1. model \subseteq Services
            BY ModelAssumption DEF TypeOK
        <2>2. ~(s \in model /\ Written(s) = {})
            BY <1>2, <2>1, WrittenSomewhere DEF Deploy
        <2>3. home'[s] = Written(s)
            BY <1>2, <2>2 DEF Deploy
        <2>4. manifest'[s] = {[target |-> m, container |-> "type"] : m \in Written(s)}
            BY <1>2 DEF Deploy
        <2> QED
            BY <2>3, <2>4, TargetsOfMappings, Zenon
    <1>3. ASSUME manifest' = manifest, home' = home
          PROVE  \A s \in Services : home'[s] = Targets(manifest'[s])
        BY <1>0, <1>3
    <1> QED
        BY <1>1, <1>2, <1>3 DEF Next, vars, generation, Leave, Join, Start, TryBuild, Filter,
           MapProperties, MapStatefulToPrevious, MapBoundServicesToPrevious, Order,
           BeginRoundRobin, EndRoundRobin, DivideRoundRobin, Divide, Fail

LEMMA InvStep == Inv /\ [Next]_vars => Inv'
    BY TypeStep, PlaceStep, NamesStep, PreviousStep, HomeStep DEF Inv

LEMMA Invariance == Spec => []Inv
    BY InvInit, InvStep, PTL DEF Spec

(* Every variable has its type, whatever series of deployments there is. *)
THEOREM TypeCorrect == Spec => []TypeOK
    <1>1. Inv => TypeOK
        BY DEF Inv
    <1> QED
        BY <1>1, Invariance, PTL

(* A previous target is one of the manifest, with or without its container. *)
LEMMA PreviousTargets ==
    ASSUME NEW s \in Services
    PROVE  Targets(Previous(s)) = Targets(manifest[s])
    <1>1. CASE Automapped
        <2>1. Previous(s) = {[target |-> m, container |-> "auto"] : m \in Targets(manifest[s])}
            BY <1>1 DEF Previous, AutoMapping
        <2> QED
            BY <2>1, TargetsOfMappings, Zenon
    <1>2. CASE ~Automapped
        BY <1>2 DEF Previous
    <1> QED
        BY <1>1, <1>2

LEMMA StayStep ==
    ASSUME Inv, [Next]_vars, Protects, pc # "idle", NEW s \in Stateful, home[s] # {}, s \in model
    PROVE  Targets(manifest'[s]) \subseteq home[s]
    <1>0. s \in Services /\ home[s] = Targets(manifest[s])
        BY ModelAssumption DEF Inv, HomeInv
    <1>1. CASE Deploy
        <2>1. Filtered
            BY <1>1 DEF Deploy, Generated, Protects, Filtered
        <2>2. Previous(s) # {}
            BY <1>0, PreviousTargets DEF Targets
        <2>3. dist[s] \subseteq Previous(s)
            BY <2>1, <2>2 DEF Inv, PreviousInv
        <2>4. Written(s) \subseteq home[s]
            BY <1>0, <2>3, PreviousTargets DEF Written, Targets
        <2>5. Targets(manifest'[s]) = Written(s)
            <3>1. manifest'[s] = {[target |-> m, container |-> "type"] : m \in Written(s)}
                BY <1>0, <1>1 DEF Deploy
            <3> QED
                BY <3>1, TargetsOfMappings, Zenon
        <2> QED
            BY <2>4, <2>5
    <1>2. CASE manifest' = manifest
        BY <1>0, <1>2
    <1>3. ASSUME NEW t \in Services, NEW e \in Mapping, DeployByHand(t, e) PROVE FALSE
        BY <1>3 DEF DeployByHand
    <1> QED
        BY <1>1, <1>2, <1>3 DEF Next, vars, generation, Leave, Join, Start, TryBuild, Filter,
           MapProperties, MapStatefulToPrevious, MapBoundServicesToPrevious, Order,
           BeginRoundRobin, EndRoundRobin, DivideRoundRobin, Divide, Fail

(* A plan that has the filter for stateful services, not the one for bound  *)
(* services, and a division at its end never deploys a stateful service     *)
(* away from its state, for any machines, services and other filters.       *)
THEOREM StatefulServicesStay == Spec => StatefulStays
    <1>1. Inv /\ [Next]_vars =>
             [Protects /\ pc # "idle" =>
                \A s \in Stateful : home[s] # {} /\ s \in model =>
                    Targets(manifest'[s]) \subseteq home[s]]_vars
        BY StayStep
    <1> QED
        BY <1>1, Invariance, PTL DEF Spec, StatefulStays

-----------------------------------------------------------------------------
(* The round robin *)

(* No list has a target twice. *)
Single(E) == \A e, f \in E : e.target = f.target => e = f

SingleInv ==
    \A s \in Services : Single(manifest[s]) /\ Single(dist[s]) /\ Single(given[s])

(* Where the round robin is: the candidates up to the previous target have  *)
(* one service more than those behind it.                                   *)
Ahead(e, f) ==
    previousTarget # Nobody /\ Before(e, previousTarget) /\ ~Before(f, previousTarget)

Even(E) ==
    /\ previousTarget \in E \cup {Nobody}
    /\ \A e, f \in E : Before(e, f) => Load(e) - Load(f) = IF Ahead(e, f) THEN 1 ELSE 0

RoundInv ==
    pc = "roundrobin" =>
        /\ IsFiniteSet(model \ todo)
        /\ \A s \in todo : dist[s] = given[s]
        /\ (\A s, t \in model : given[s] = given[t]) => \A s \in model : Even(given[s])

(* Lists are totally ordered. *)
LEMMA BeforeIsOrder ==
    ASSUME NEW E \in SUBSET Entry, Single(E)
    PROVE  /\ \A e, f \in E : Before(e, f) \/ Before(f, e)
           /\ \A e, f \in E : Before(e, f) /\ Before(f, e) => e = f
           /\ \A e, f, g \in E : Before(e, f) /\ Before(f, g) => Before(e, g)
    <1>1. \A e \in E : e.target \in Machines
        BY DEF Entry
    <1>2. \A m \in Machines : Rank[m] \in Nat /\ Priority[m] \in Nat
        BY ModelAssumption
    <1>3. ASSUME NEW e \in E, NEW f \in E PROVE Before(e, f) \/ Before(f, e)
        BY <1>1, <1>2 DEF Before
    <1>4. ASSUME NEW e \in E, NEW f \in E, Before(e, f), Before(f, e) PROVE e = f
        <2>1. Rank[e.target] = Rank[f.target]
            BY <1>1, <1>2, <1>4 DEF Before
        <2> QED
            BY <1>1, <2>1, RankAssumption DEF Single
    <1>5. ASSUME NEW e \in E, NEW f \in E, NEW g \in E, Before(e, f), Before(f, g)
          PROVE  Before(e, g)
        BY <1>1, <1>2, <1>5 DEF Before
    <1> QED
        BY <1>3, <1>4, <1>5

(* What the next target has before it: nothing, when the round starts       *)
(* again, and the previous target and what is before that otherwise.        *)
LEMMA NextIsSuccessor ==
    ASSUME NEW E \in SUBSET Entry, Single(E), E # {}, NEW p
    PROVE  /\ NextTarget(E, p) \in E
           /\ p \in E /\ Later(E, p) # {} =>
                 /\ ~Before(NextTarget(E, p), p)
                 /\ \A e \in E : Before(e, NextTarget(E, p)) <=> Before(e, p) \/ e = NextTarget(E, p)
           /\ ~(p \in E /\ Later(E, p) # {}) =>
                 \A e \in E : Before(e, NextTarget(E, p)) <=> e = NextTarget(E, p)
    <1> DEFINE n == NextTarget(E, p)
    <1>1. /\ \A e, f \in E : Before(e, f) \/ Before(f, e)
          /\ \A e, f \in E : Before(e, f) /\ Before(f, e) => e = f
          /\ \A e, f, g \in E : Before(e, f) /\ Before(f, g) => Before(e, g)
        BY BeforeIsOrder
    <1>2. n \in E
        BY NextTargetIsCandidate
    <1>3. CASE p \in E /\ Later(E, p) # {}
        <2>1. Later(E, p) \in SUBSET Entry
            BY DEF Later
        <2>2. n \in Later(E, p) /\ \A f \in Later(E, p) : Before(n, f)
            BY <1>3, <2>1, FirstIsHead DEF NextTarget
        <2>3. n # p /\ Before(p, n)
            BY <2>2 DEF Later
        <2>4. ~Before(n, p)
            BY <1>1, <1>2, <1>3, <2>3
        <2>5. ASSUME NEW e \in E PROVE Before(e, n) <=> Before(e, p) \/ e = n
            <3>1. CASE Before(e, p)
                BY <1>1, <1>2, <1>3, <2>3, <3>1
            <3>2. CASE ~Before(e, p)
                <4>1. e \in Later(E, p)
                    BY <1>1, <1>3, <3>2 DEF Later
                <4> QED
                    BY <1>1, <1>2, <2>2, <3>2, <4>1
            <3> QED
                BY <3>1, <3>2
        <2> QED
            BY <1>2, <1>3, <2>4, <2>5
    <1>4. CASE ~(p \in E /\ Later(E, p) # {})
        <2>1. n = First(E)
            BY <1>4 DEF NextTarget
        <2>2. \A f \in E : Before(n, f)
            BY <2>1, FirstIsHead
        <2> QED
            BY <1>1, <1>2, <1>4, <2>2
    <1> QED
        BY <1>3, <1>4

LEMMA SingleInit == Init => SingleInv
    BY DEF Init, SingleInv, Single

LEMMA SingleOfMappings ==
    ASSUME NEW W, NEW c PROVE Single({[target |-> m, container |-> c] : m \in W})
    BY DEF Single

LEMMA PreviousIsSingle ==
    ASSUME SingleInv, NEW s \in Services PROVE Single(Previous(s))
    BY SingleOfMappings DEF SingleInv, Previous, AutoMapping

LEMMA SingleStep == TypeOK /\ SingleInv /\ [Next]_vars => SingleInv'
    <1> SUFFICES ASSUME TypeOK, SingleInv, [Next]_vars,  NEW s \in Services
                 PROVE  Single(manifest'[s]) /\ Single(dist'[s]) /\ Single(given'[s])
        BY DEF SingleInv, Single
    <1>0. Single(manifest[s]) /\ Single(dist[s]) /\ Single(given[s])
        BY DEF SingleInv
    <1>1. ASSUME NEW t \in Services, NEW e \in Mapping, DeployByHand(t, e)
          PROVE  Single(manifest'[s]) /\ dist' = dist /\ given' = given
        BY <1>0, <1>1 DEF TypeOK, DeployByHand, Single, generation
    <1>2. ASSUME NEW S \in ServiceModels, NEW infra, NEW tried, Start(S, infra, tried)
          PROVE  Single(dist'[s]) /\ manifest' = manifest /\ given' = given
        <2>1. dist'[s] = {} \/ dist'[s] = {[target |-> m, container |-> "auto"] : m \in infra}
            BY <1>2 DEF Start, CartesianProduct, AutoMapping
        <2>2. Single(dist'[s])
            BY <2>1, SingleOfMappings DEF Single
        <2> QED
            BY <1>2, <2>2 DEF Start
    <1>3. ASSUME dist'[s] \subseteq dist[s] PROVE Single(dist'[s])
        BY <1>0, <1>3 DEF Single
    <1>4. ASSUME NEW t \in Services, NEW failing \in Failures, TryBuild(t, failing)
          PROVE  Single(dist'[s]) /\ manifest' = manifest /\ given' = given
        <2>1. dist'[s] \subseteq dist[s]
            BY <1>4 DEF TypeOK, TryBuild
        <2> QED
            BY <1>3, <1>4, <2>1 DEF TryBuild
    <1>5. CASE MapProperties \/ MapStatefulToPrevious
        <2>1. dist'[s] \subseteq dist[s]
            BY <1>5 DEF MapProperties, MapStatefulToPrevious
        <2> QED
            BY <1>0, <1>3, <1>5, <2>1 DEF MapProperties, MapStatefulToPrevious, Filter
    <1>6. CASE MapBoundServicesToPrevious
        <2>1. dist'[s] = dist[s] \/ dist'[s] = Previous(s)
            BY <1>6 DEF MapBoundServicesToPrevious
        <2>2. Single(dist'[s])
            BY <1>0, <2>1, PreviousIsSingle
        <2> QED
            BY <1>0, <1>6, <2>2 DEF MapBoundServicesToPrevious, Filter
    <1>7. CASE BeginRoundRobin
        BY <1>0, <1>7 DEF BeginRoundRobin
    <1>8. ASSUME NEW t \in Services, DivideRoundRobin(t)
          PROVE  Single(dist'[s]) /\ manifest' = manifest /\ given' = given
        <2>1. dist'[s] = dist[s] \/ \E e : dist'[s] = {e}
            BY <1>8 DEF TypeOK, DivideRoundRobin
        <2>2. Single(dist'[s])
            BY <1>0, <2>1 DEF Single
        <2> QED
            BY <1>8, <2>2 DEF DivideRoundRobin
    <1>9. ASSUME NEW chosen \in [Services -> Machines], Divide(chosen)
          PROVE  Single(dist'[s]) /\ manifest' = manifest /\ given' = given
        <2>1. dist'[s] = {} \/ \E e : dist'[s] = {e}
            BY <1>9 DEF Divide
        <2>2. Single(dist'[s])
            BY <2>1 DEF Single
        <2> QED
            BY <1>9, <2>2 DEF Divide, Filter
    <1>10. ASSUME Forget PROVE Single(dist'[s]) /\ Single(given'[s])
        BY <1>10 DEF Forget, Single
    <1>11. CASE Deploy
        <2>1. manifest'[s] = {[target |-> m, container |-> "type"] : m \in Written(s)}
            BY <1>11 DEF Deploy
        <2>2. Single({[target |-> m, container |-> "type"] : m \in Written(s)})
            BY SingleOfMappings
        <2>3. Single(manifest'[s])
            BY <2>1, <2>2, Zenon
        <2> QED
            BY <1>10, <1>11, <2>3 DEF Deploy
    <1>12. CASE Fail
        BY <1>0, <1>10, <1>12 DEF Fail
    <1>13. ASSUME manifest' = manifest, dist' = dist, given' = given
           PROVE  Single(manifest'[s]) /\ Single(dist'[s]) /\ Single(given'[s])
        BY <1>0, <1>13
    <1>14. ASSUME NEW m \in Machines, Leave(m) \/ Join(m)
           PROVE  manifest' = manifest /\ dist' = dist /\ given' = given
        BY <1>14 DEF Leave, Join, generation
    <1>15. CASE Order \/ EndRoundRobin \/ UNCHANGED vars
        BY <1>13, <1>15 DEF Order, EndRoundRobin, vars, generation
    <1> QED
        BY <1>0, <1>1, <1>2, <1>4, <1>5, <1>6, <1>7, <1>8, <1>9, <1>11, <1>12, <1>14, <1>15
        DEF Next

LEMMA RoundInit == Init => RoundInv
    BY DEF Init, RoundInv

(* Nothing has been divided when the round robin starts. *)
LEMMA RoundBegins ==
    ASSUME TypeOK, BeginRoundRobin PROVE RoundInv'
    <1>1. model' \ todo' = {} /\ previousTarget' = Nobody /\ given' = dist'
        BY DEF BeginRoundRobin
    <1>2. \A e : Load(e)' = 0
        BY <1>1, FS_EmptySet DEF Load
    <1>3. \A E : Even(E)'
        BY <1>1, <1>2 DEF Even, Ahead
    <1>4. IsFiniteSet(model' \ todo')
        BY <1>1, FS_EmptySet
    <1> QED
        BY <1>1, <1>3, <1>4 DEF RoundInv

(* The next service gets the next target. *)
LEMMA LoadStep ==
    ASSUME TypeOK, RoundInv, NEW s \in Services, DivideRoundRobin(s), NEW e
    PROVE  /\ Load(e) \in Nat
           /\ Load(e)' = IF e = previousTarget' THEN Load(e) + 1 ELSE Load(e)
    <1> DEFINE Has    == {t \in model \ todo : dist[t] = {e}}
               HasNow == {t \in model' \ todo' : dist'[t] = {e}}
    <1>1. Has \in SUBSET (model \ todo) /\ IsFiniteSet(model \ todo)
        BY DEF RoundInv, DivideRoundRobin
    <1>2. IsFiniteSet(Has)
        BY <1>1, FS_Subset
    <1>3. Load(e) = Cardinality(Has) /\ Load(e)' = Cardinality(HasNow)
        BY DEF Load
    <1>4. s \in todo /\ s \in model /\ model \in SUBSET Services
        BY ModelAssumption DEF TypeOK, DivideRoundRobin, GoesNext
    <1>5. model' \ todo' = (model \ todo) \cup {s}
        BY <1>4 DEF DivideRoundRobin
    <1>6. dist'[s] = {previousTarget'} /\ \A t \in model \ todo : dist'[t] = dist[t]
        BY <1>4 DEF TypeOK, DivideRoundRobin
    <1>7. HasNow = IF e = previousTarget' THEN Has \cup {s} ELSE Has
        BY <1>5, <1>6
    <1>8. s \notin Has
        BY <1>4
    <1> HIDE DEF Has, HasNow
    <1> QED
        BY <1>2, <1>3, <1>7, <1>8, FS_AddElement, FS_CardinalityType

LEMMA EvenStep ==
    ASSUME TypeOK, SingleInv, RoundInv, NEW s \in Services, DivideRoundRobin(s),
           Even(given[s])
    PROVE  Even(given[s])'
    <1> DEFINE E == given[s]
               p == previousTarget
               n == previousTarget'
    <1>1. E \in SUBSET Entry /\ Single(E) /\ E = dist[s] /\ E # {} /\ given' = given
        BY DEF TypeOK, SingleInv, RoundInv, DivideRoundRobin, GoesNext
    <1>2. n = NextTarget(E, p)
        BY <1>1 DEF DivideRoundRobin
    <1>3. /\ n \in E
          /\ p \in E /\ Later(E, p) # {} =>
                 /\ ~Before(n, p)
                 /\ \A e \in E : Before(e, n) <=> Before(e, p) \/ e = n
          /\ ~(p \in E /\ Later(E, p) # {}) => \A e \in E : Before(e, n) <=> e = n
        BY <1>1, <1>2, NextIsSuccessor
    <1>4. /\ \A e, f \in E : Before(e, f) \/ Before(f, e)
          /\ \A e, f \in E : Before(e, f) /\ Before(f, e) => e = f
          /\ \A e, f, g \in E : Before(e, f) /\ Before(f, g) => Before(e, g)
        BY <1>1, BeforeIsOrder
    <1>5. p \in E \cup {Nobody} /\ n # Nobody /\ Nobody \notin E
        BY <1>1, <1>3, ModelAssumption DEF Even
    <1>6. \A e, f : Before(e, f)' = Before(e, f)
        BY DEF Before, DivideRoundRobin
    <1>7. \A e, f \in E : Ahead(e, f)' <=> Before(e, n) /\ ~Before(f, n)
        BY <1>5, <1>6 DEF Ahead
    <1>8. ASSUME NEW e \in E, NEW f \in E, Before(e, f)
          PROVE  Load(e)' - Load(f)' = IF Before(e, n) /\ ~Before(f, n) THEN 1 ELSE 0
        <2>1. Load(e) - Load(f) = IF Ahead(e, f) THEN 1 ELSE 0
            BY <1>8 DEF Even
        <2>2. /\ Load(e) \in Nat /\ Load(f) \in Nat
              /\ Load(e)' = IF e = n THEN Load(e) + 1 ELSE Load(e)
              /\ Load(f)' = IF f = n THEN Load(f) + 1 ELSE Load(f)
            BY LoadStep
        <2>3. CASE p \in E /\ Later(E, p) # {}
            <3>1. Ahead(e, f) <=> Before(e, p) /\ ~Before(f, p)
                BY <1>5, <2>3 DEF Ahead
            <3>2. f = n => Before(e, p) \/ e = n
                BY <1>3, <1>8, <2>3
            <3>3. e = n => ~Before(f, p)
                BY <1>3, <1>4, <1>8, <2>3
            <3> QED
                BY <1>3, <2>1, <2>2, <2>3, <3>1, <3>2, <3>3
        <2>4. CASE ~(p \in E /\ Later(E, p) # {})
            <3>1. ~Ahead(e, f)
                <4>1. CASE p = Nobody
                    BY <4>1 DEF Ahead
                <4>2. CASE p \in E /\ Later(E, p) = {}
                    BY <1>4, <4>2 DEF Ahead, Later
                <4> QED
                    BY <1>5, <2>4, <4>1, <4>2
            <3>2. f = n => e = n
                BY <1>3, <1>8, <2>4
            <3>3. (Before(e, n) <=> e = n) /\ (Before(f, n) <=> f = n)
                BY <1>3, <2>4
            <3> QED
                BY <2>1, <2>2, <3>1, <3>2, <3>3
        <2> QED
            BY <2>3, <2>4
    <1> QED
        BY <1>1, <1>3, <1>6, <1>7, <1>8 DEF Even

LEMMA RoundStep == TypeOK /\ SingleInv /\ RoundInv /\ [Next]_vars => RoundInv'
    <1> SUFFICES ASSUME TypeOK, SingleInv, RoundInv, [Next]_vars PROVE RoundInv'
        OBVIOUS
    <1>1. CASE BeginRoundRobin
        BY <1>1, RoundBegins
    <1>2. ASSUME NEW s \in Services, DivideRoundRobin(s) PROVE RoundInv'
        <2>1. s \in todo /\ todo \in SUBSET model /\ model \in SUBSET Services /\ pc = "roundrobin"
            BY <1>2, ModelAssumption DEF TypeOK, DivideRoundRobin, GoesNext
        <2>2. IsFiniteSet(model' \ todo')
            <3>1. model' \ todo' = (model \ todo) \cup {s}
                BY <1>2, <2>1 DEF DivideRoundRobin
            <3>2. IsFiniteSet(model \ todo)
                BY <2>1 DEF RoundInv
            <3> QED
                BY <3>1, <3>2, FS_AddElement
        <2>3. \A t \in todo' : dist'[t] = given'[t]
            BY <1>2, <2>1 DEF TypeOK, RoundInv, DivideRoundRobin
        <2>4. ASSUME \A t, u \in model' : given'[t] = given'[u], NEW t \in model'
              PROVE  Even(given[t])'
            <3>1. model' = model /\ given' = given
                BY <1>2 DEF DivideRoundRobin
            <3>2. Even(given[s])
                BY <2>1, <2>4, <3>1 DEF RoundInv
            <3>3. Even(given[s])'
                BY <1>2, <3>2, EvenStep
            <3>4. given'[t] = given'[s]
                BY <2>1, <2>4, <3>1
            <3> QED
                BY <3>3, <3>4 DEF Even
        <2> QED
            BY <2>2, <2>3, <2>4 DEF RoundInv
    <1>3. CASE UNCHANGED <<model, pc, todo, dist, sorted, previousTarget, given>>
        <2>1. \A e : Load(e)' = Load(e)
            BY <1>3 DEF Load
        <2>2. \A e, f : Before(e, f)' = Before(e, f) /\ Ahead(e, f)' = Ahead(e, f)
            BY <1>3 DEF Before, Ahead
        <2>3. \A E : Even(E)' = Even(E)
            BY <1>3, <2>1, <2>2 DEF Even
        <2> QED
            BY <1>3, <2>3 DEF RoundInv
    <1>4. CASE pc' # "roundrobin"
        BY <1>4 DEF RoundInv
    <1>5. ASSUME NEW m \in Machines, Leave(m) \/ Join(m) PROVE RoundInv'
        BY <1>3, <1>5 DEF Leave, Join, generation
    <1>6. CASE UNCHANGED vars
        BY <1>3, <1>6 DEF vars, generation
    <1>7. CASE \/ MapProperties \/ MapStatefulToPrevious \/ MapBoundServicesToPrevious \/ Order
               \/ EndRoundRobin \/ Deploy \/ Fail
        BY <1>4, <1>7 DEF MapProperties, MapStatefulToPrevious, MapBoundServicesToPrevious,
           Filter, Order, Applies, EndRoundRobin, Deploy, Fail, Forget
    <1>8. ASSUME NEW s \in Services, NEW e \in Mapping, DeployByHand(s, e) PROVE RoundInv'
        BY <1>4, <1>8 DEF DeployByHand
    <1>9. ASSUME NEW S, NEW infra, NEW tried, Start(S, infra, tried) PROVE RoundInv'
        BY <1>4, <1>9 DEF Start
    <1>10. ASSUME NEW s \in Services, NEW failing \in Failures, TryBuild(s, failing)
           PROVE  RoundInv'
        BY <1>4, <1>10 DEF TryBuild
    <1>11. ASSUME NEW chosen \in [Services -> Machines], Divide(chosen) PROVE RoundInv'
        BY <1>4, <1>11 DEF Divide, Filter, Applies
    <1> QED
        BY <1>1, <1>2, <1>5, <1>6, <1>7, <1>8, <1>9, <1>10, <1>11 DEF Next

(* While the round robin goes through services that had the same            *)
(* candidates, every candidate has as many services as those behind it or   *)
(* one more, for any number of services, machines and either order.         *)
THEOREM RoundRobinIsEven == Spec => []RoundRobinBalanced
    <1>1. Init => TypeOK /\ SingleInv /\ RoundInv
        BY TypeInit, SingleInit, RoundInit
    <1>2. Inv /\ SingleInv /\ RoundInv /\ [Next]_vars => SingleInv' /\ RoundInv'
        BY SingleStep, RoundStep DEF Inv
    <1>3. RoundInv => RoundRobinBalanced
        BY DEF RoundInv, RoundRobinBalanced, Even
    <1> QED
        BY <1>1, <1>2, <1>3, Invariance, PTL DEF Spec
=============================================================================
