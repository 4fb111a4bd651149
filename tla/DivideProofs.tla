---------------------------- MODULE DivideProofs ----------------------------
(***************************************************************************)
(* Proofs about Divide: the division never gives a target more than it     *)
(* has, follows its strategy, and implements DivisionPhase, for all models *)
(* and all numbers of services and targets.                                *)
(***************************************************************************)
EXTENDS Divide, FiniteSetTheorems, WellFoundedInduction, TLAPS

(* The input never changes, and everything is well typed. *)
TypeInv == input \in Inputs /\ TypeOK

(* What is known of the candidate of the walk over the mappings. *)
CandidateInv ==
    pc = "select" /\ candidate # NoTarget =>
        /\ Eligible(candidate)
        /\ candidate \in CandidateTargets(service)

-----------------------------------------------------------------------------
(* The parts of an input. *)
LEMMA InputTyped ==
    ASSUME NEW in \in Inputs
    PROVE  /\ in.strategy \in Strategies
           /\ in.distributed \in SUBSET Services
           /\ in.candidates \in [Services -> Seq(Targets)]
           /\ in.demand \in [Services -> Values]
           /\ in.capacity \in [Targets -> Values]
           /\ in.readable \in BOOLEAN
    BY InputAssumption

(* The mappings that select_mapping walks over. *)
LEMMA MappingsTyped ==
    ASSUME TypeInv, pc = "select"
    PROVE  /\ service \in Services
           /\ Mappings \in Seq(Targets)
           /\ Len(Mappings) \in Nat
           /\ \A k \in 1 .. Len(Mappings) : Mappings[k] \in Targets
    <1>1. service \in Services
        BY InputTyped DEF TypeInv, TypeOK
    <1>2. Mappings \in Seq(Targets)
        BY <1>1, InputTyped DEF TypeInv, Mappings
    <1> QED
        BY <1>1, <1>2

LEMMA TypeInvInit == Init => TypeInv
    <1> SUFFICES ASSUME Init PROVE TypeInv
        OBVIOUS
    <1>1. input.capacity \in [Targets -> Values] /\ input.distributed \in SUBSET Services
        BY InputTyped DEF Init
    <1> QED
        BY <1>1, ValueAssumption DEF Init, TypeInv, TypeOK

LEMMA TypeInvStep == TypeInv /\ [Next]_vars => TypeInv'
    <1> SUFFICES ASSUME TypeInv, [Next]_vars PROVE TypeInv'
        OBVIOUS
    <1> USE ValueAssumption DEF TypeInv, TypeOK, loop
    <1>0. input.distributed \in SUBSET Services
        BY InputTyped
    <1>1. CASE OpenModels
        BY <1>1 DEF OpenModels, Demand
    <1>2. CASE FailToOpenModels
        BY <1>2 DEF FailToOpenModels
    <1>3. ASSUME NEW s \in Services, VisitService(s) PROVE TypeInv'
        BY <1>0, <1>3 DEF VisitService, IsFirst, Demand
    <1>4. ASSUME NEW s \in Services, RejectService(s) \/ AbortOnService(s) PROVE TypeInv'
        BY <1>4 DEF RejectService, AbortOnService
    <1>5. CASE FinishServices
        BY <1>5 DEF FinishServices
    <1>6. ASSUME NEW t \in Targets, Consider(t) PROVE TypeInv'
        <2>1. Len(Mappings) \in Nat
            BY <1>6, MappingsTyped DEF Consider, Selecting
        <2>2. i' \in Nat \ {0}
            BY <1>6, <2>1 DEF Consider
        <2> QED
            BY <1>6, <2>2 DEF Consider, Demand
    <1>7. ASSUME NEW t \in Targets, SkipTarget(t) PROVE TypeInv'
        BY <1>7 DEF SkipTarget, Demand
    <1>8. ASSUME NEW t \in Targets, AbortOnTarget(t) PROVE TypeInv'
        BY <1>8 DEF AbortOnTarget
    <1>9. CASE Assign
        <2>1. /\ candidate \in Targets /\ remaining[candidate] \in Int
              /\ Demand \in Int /\ service \in Services
            BY <1>0, <1>9 DEF Assign, Selected
        <2>2. remaining' \in [Targets -> Values] /\ remaining'[candidate] \in Int
            BY <1>9, <2>1 DEF Assign, Values
        <2>3. result' \in [Services -> Targets \cup {NoTarget}]
            BY <1>9, <2>1 DEF Assign
        <2> QED
            BY <1>9, <2>2, <2>3 DEF Assign
    <1>10. CASE GiveUp
        BY <1>10 DEF GiveUp
    <1>11. CASE UNCHANGED vars
        BY <1>11 DEF vars, Demand
    <1> QED
        BY <1>1, <1>2, <1>3, <1>4, <1>5, <1>6, <1>7, <1>8, <1>9, <1>10, <1>11 DEF Next

(* The variables of the division stay well typed, whatever the models hold. *)
THEOREM TypeCorrect == Spec => []TypeOK
    <1>1. Init => TypeInv
        BY TypeInvInit
    <1>2. TypeInv /\ [Next]_vars => TypeInv'
        BY TypeInvStep
    <1>3. TypeInv => TypeOK
        BY DEF TypeInv
    <1> QED
        BY <1>1, <1>2, <1>3, PTL DEF Spec

-----------------------------------------------------------------------------
(* The candidate of the walk is capable of hosting the service: the first   *)
(* one is sufficient, and one that replaces it is sufficient itself or has  *)
(* even more left.                                                          *)
LEMMA CandidateInvStep == TypeInv /\ CandidateInv /\ [Next]_vars => CandidateInv'
    <1> SUFFICES ASSUME TypeInv, CandidateInv, [Next]_vars,
                        pc' = "select", candidate' # NoTarget
                 PROVE  (Eligible(candidate) /\ candidate \in CandidateTargets(service))'
        BY DEF CandidateInv
    <1> USE DEF loop
    <1>1. ASSUME NEW t \in Targets, Consider(t)
          PROVE  (Eligible(candidate) /\ candidate \in CandidateTargets(service))'
        <2>1. /\ pc = "select" /\ t = Mappings[i] /\ i <= Len(Mappings)
              /\ remaining[t] \in Int
            BY <1>1 DEF Consider, Selecting
        <2>2. Demand \in Int /\ i \in 1 .. Len(Mappings)
            BY <2>1, MappingsTyped DEF TypeInv, TypeOK
        <2>3. t \in CandidateTargets(service)
            BY <2>1, <2>2 DEF CandidateTargets, Mappings
        <2>4. UNCHANGED <<input, service, remaining>>
            BY <1>1 DEF Consider
        <2>5. CASE Bids(t)
            <3>1. candidate' = t
                BY <1>1, <2>5 DEF Consider
            <3>2. Eligible(t)
                <4>1. CASE candidate = NoTarget
                    BY <2>1, <2>5, <4>1 DEF Bids, Sufficient, Eligible
                <4>2. CASE candidate # NoTarget
                    <5>1. Eligible(candidate)
                        BY <2>1, <4>2 DEF CandidateInv
                    <5>2. Sufficient(t) \/ remaining[t] > remaining[candidate]
                        BY <2>5, <4>2 DEF Bids
                    <5> QED
                        BY <2>1, <2>2, <5>1, <5>2 DEF Sufficient, Eligible
                <4> QED
                    BY <4>1, <4>2
            <3> QED
                BY <2>3, <2>4, <3>1, <3>2 DEF Eligible, Demand, CandidateTargets
        <2>6. CASE ~Bids(t)
            BY <1>1, <2>1, <2>4, <2>6
               DEF Consider, CandidateInv, Eligible, Demand, CandidateTargets
        <2> QED
            BY <2>5, <2>6
    <1>2. ASSUME NEW t \in Targets, SkipTarget(t)
          PROVE  (Eligible(candidate) /\ candidate \in CandidateTargets(service))'
        BY <1>2 DEF SkipTarget, Selecting, CandidateInv, Eligible, Demand, CandidateTargets
    <1>3. CASE UNCHANGED vars
        BY <1>3 DEF vars, CandidateInv, Eligible, Demand, CandidateTargets
    <1> QED
        BY <1>1, <1>2, <1>3 DEF Next, OpenModels, FailToOpenModels, VisitService, RejectService,
           AbortOnService, FinishServices, AbortOnTarget, Assign, GiveUp

LEMMA CapacityStep ==
    TypeInv /\ CandidateInv /\ CapacityNeverNegative /\ [Next]_vars => CapacityNeverNegative'
    <1> SUFFICES ASSUME TypeInv, CandidateInv, CapacityNeverNegative, [Next]_vars,
                        NEW t \in Targets, input'.capacity[t] \in Nat
                 PROVE  remaining'[t] \in Nat
        BY DEF CapacityNeverNegative
    <1> USE DEF loop
    <1>1. CASE Assign
        <2>1. pc = "select" /\ candidate # NoTarget /\ input' = input
            BY <1>1 DEF Assign, Selected
        <2>2. Eligible(candidate) /\ Demand \in Int
            BY <2>1 DEF CandidateInv, TypeInv, TypeOK
        <2>3. remaining \in [Targets -> Values] /\ remaining[t] \in Nat
            BY <2>1 DEF CapacityNeverNegative, TypeInv, TypeOK
        <2>4. remaining' = [remaining EXCEPT ![candidate] = @ - Demand]
            BY <1>1 DEF Assign
        <2>5. CASE t = candidate
            BY <2>2, <2>3, <2>4, <2>5 DEF Eligible
        <2>6. CASE t # candidate
            BY <2>3, <2>4, <2>6
        <2> QED
            BY <2>5, <2>6
    <1>2. CASE UNCHANGED <<input, remaining>>
        BY <1>2 DEF CapacityNeverNegative
    <1> QED
        BY <1>1, <1>2 DEF Next, vars, OpenModels, FailToOpenModels, VisitService, RejectService,
           AbortOnService, FinishServices, Consider, SkipTarget, AbortOnTarget, GiveUp

(* No target that has a capacity is ever left with less than nothing.       *)
THEOREM NeverOvercommitted == Spec => []CapacityNeverNegative
    <1> DEFINE Inv == TypeInv /\ CandidateInv /\ CapacityNeverNegative
    <1>1. Init => Inv
        <2>1. Init => CandidateInv /\ CapacityNeverNegative
            BY DEF Init, CandidateInv, CapacityNeverNegative
        <2> QED
            BY <2>1, TypeInvInit
    <1>2. Inv /\ [Next]_vars => Inv'
        BY TypeInvStep, CandidateInvStep, CapacityStep
    <1>3. Inv => CapacityNeverNegative
        OBVIOUS
    <1> QED
        BY <1>1, <1>2, <1>3, PTL DEF Spec

-----------------------------------------------------------------------------
(* What the walk has established about the mappings it has already seen.    *)
NoneSeen == \A j \in 1 .. Len(Mappings) : j < i => ~Eligible(Mappings[j])

FirstFit ==
    /\ i > Len(Mappings)
    /\ \E k \in 1 .. Len(Mappings) :
        /\ Mappings[k] = candidate
        /\ \A j \in 1 .. (k - 1) : ~Eligible(Mappings[j])

HighestSeen ==
    \A j \in 1 .. Len(Mappings) :
        j < i /\ Eligible(Mappings[j]) => remaining[Mappings[j]] <= remaining[candidate]

LowestSeen ==
    \A j \in 1 .. Len(Mappings) :
        j < i /\ Eligible(Mappings[j]) => remaining[candidate] <= remaining[Mappings[j]]

SeenInv ==
    pc = "select" =>
        IF candidate = NoTarget THEN NoneSeen
        ELSE /\ input.strategy = "greedy" => FirstFit
             /\ input.strategy = "highest-bidder" => HighestSeen
             /\ input.strategy = "lowest-bidder" => LowestSeen

LEMMA SeenInvConsider ==
    ASSUME TypeInv, CandidateInv, SeenInv, NEW t \in Targets, Consider(t)
    PROVE  SeenInv'
    <1>1. /\ pc = "select" /\ t = Mappings[i] /\ i <= Len(Mappings)
          /\ remaining[t] \in Int
          /\ UNCHANGED <<input, pc, service, remaining>>
        BY DEF Consider, Selecting
    <1>2. /\ Demand \in Int /\ i \in 1 .. Len(Mappings) /\ Len(Mappings) \in Nat
          /\ input.strategy \in Strategies
        BY <1>1, MappingsTyped, InputTyped DEF TypeInv, TypeOK
    <1>3. t # NoTarget
        BY ValueAssumption
    <1>4. Mappings' = Mappings /\ \A u : Eligible(u)' <=> Eligible(u)
        BY <1>1 DEF Mappings, Eligible, Demand
    <1>5. candidate # NoTarget => Eligible(candidate) /\ input.strategy # "greedy"
        BY <1>1, <1>2 DEF CandidateInv, SeenInv, FirstFit
    <1>6. CASE ~Bids(t)
        <2>1. candidate' = candidate /\ i' = i + 1
            BY <1>6 DEF Consider
        <2>2. CASE candidate = NoTarget
            <3>1. ~Eligible(Mappings[i])
                BY <1>1, <1>6, <2>2 DEF Bids, Sufficient, Eligible
            <3>2. NoneSeen'
                BY <1>1, <1>2, <1>4, <2>1, <2>2, <3>1 DEF SeenInv, NoneSeen
            <3> QED
                BY <2>1, <2>2, <3>2 DEF SeenInv
        <2>3. CASE candidate # NoTarget
            <3>1. Eligible(candidate)
                BY <1>5, <2>3
            <3>2. input.strategy = "highest-bidder" => HighestSeen'
                <4> SUFFICES ASSUME input.strategy = "highest-bidder" PROVE HighestSeen'
                    OBVIOUS
                <4>1. ~(remaining[t] > remaining[candidate])
                    BY <1>6, <2>3 DEF Bids
                <4>2. HighestSeen
                    BY <1>1, <2>3 DEF SeenInv
                <4> QED
                    BY <1>1, <1>2, <1>4, <2>1, <3>1, <4>1, <4>2 DEF HighestSeen, Eligible
            <3>3. input.strategy = "lowest-bidder" => LowestSeen'
                <4> SUFFICES ASSUME input.strategy = "lowest-bidder" PROVE LowestSeen'
                    OBVIOUS
                <4>1. Eligible(t) => ~(remaining[t] < remaining[candidate])
                    BY <1>6, <2>3 DEF Bids, Sufficient, Eligible
                <4>2. LowestSeen
                    BY <1>1, <2>3 DEF SeenInv
                <4> QED
                    BY <1>1, <1>2, <1>4, <2>1, <3>1, <4>1, <4>2 DEF LowestSeen, Eligible
            <3> QED
                BY <1>1, <1>5, <2>1, <2>3, <3>2, <3>3 DEF SeenInv
        <2> QED
            BY <2>2, <2>3
    <1>7. CASE Bids(t)
        <2>1. candidate' = t
            BY <1>7 DEF Consider
        <2>2. CASE candidate = NoTarget
            <3>1. NoneSeen
                BY <1>1, <2>2 DEF SeenInv
            <3>2. input.strategy = "greedy" => FirstFit'
                BY <1>1, <1>2, <1>4, <1>7, <2>1, <3>1 DEF Consider, NoneSeen, FirstFit
            <3>3. input.strategy # "greedy" => i' = i + 1
                BY DEF Consider
            <3>4. \A j \in 1 .. Len(Mappings) : j < i + 1 /\ Eligible(Mappings[j]) => j = i
                BY <1>2, <3>1 DEF NoneSeen
            <3>5. input.strategy = "highest-bidder" => HighestSeen'
                BY <1>1, <1>2, <1>4, <2>1, <3>3, <3>4 DEF HighestSeen
            <3>6. input.strategy = "lowest-bidder" => LowestSeen'
                BY <1>1, <1>2, <1>4, <2>1, <3>3, <3>4 DEF LowestSeen
            <3> QED
                BY <1>1, <1>3, <2>1, <3>2, <3>5, <3>6 DEF SeenInv
        <2>3. CASE candidate # NoTarget
            <3>1. Eligible(candidate) /\ input.strategy # "greedy" /\ i' = i + 1
                BY <1>5, <2>3 DEF Consider
            <3>2. input.strategy = "highest-bidder" => HighestSeen'
                <4> SUFFICES ASSUME input.strategy = "highest-bidder" PROVE HighestSeen'
                    OBVIOUS
                <4>1. remaining[t] > remaining[candidate]
                    BY <1>7, <2>3 DEF Bids
                <4>2. HighestSeen
                    BY <1>1, <2>3 DEF SeenInv
                <4> QED
                    BY <1>1, <1>2, <1>4, <2>1, <3>1, <4>1, <4>2 DEF HighestSeen, Eligible
            <3>3. input.strategy = "lowest-bidder" => LowestSeen'
                <4> SUFFICES ASSUME input.strategy = "lowest-bidder" PROVE LowestSeen'
                    OBVIOUS
                <4>1. remaining[t] < remaining[candidate]
                    BY <1>7, <2>3 DEF Bids
                <4>2. LowestSeen
                    BY <1>1, <2>3 DEF SeenInv
                <4> QED
                    BY <1>1, <1>2, <1>4, <2>1, <3>1, <4>1, <4>2 DEF LowestSeen, Eligible
            <3> QED
                BY <1>1, <1>3, <2>1, <3>1, <3>2, <3>3 DEF SeenInv
        <2> QED
            BY <2>2, <2>3
    <1> QED
        BY <1>6, <1>7

LEMMA SeenInvSkip ==
    ASSUME TypeInv, CandidateInv, SeenInv, NEW t \in Targets, SkipTarget(t)
    PROVE  SeenInv'
    <1>1. /\ pc = "select" /\ t = Mappings[i] /\ i <= Len(Mappings)
          /\ remaining[t] \notin Int /\ i' = i + 1
          /\ UNCHANGED <<input, pc, service, candidate, remaining>>
        BY ValueAssumption DEF SkipTarget, Selecting
    <1>2. i \in 1 .. Len(Mappings) /\ Len(Mappings) \in Nat
        BY <1>1, MappingsTyped DEF TypeInv, TypeOK
    <1>3. Mappings' = Mappings /\ \A u : Eligible(u)' <=> Eligible(u)
        BY <1>1 DEF Mappings, Eligible, Demand
    <1>4. ~Eligible(Mappings[i])
        BY <1>1 DEF Eligible
    <1>5. NoneSeen => NoneSeen'
        BY <1>1, <1>2, <1>3, <1>4 DEF NoneSeen
    <1>6. FirstFit => FirstFit'
        BY <1>1, <1>2 DEF FirstFit
    <1>7. HighestSeen => HighestSeen'
        BY <1>1, <1>2, <1>3, <1>4 DEF HighestSeen
    <1>8. LowestSeen => LowestSeen'
        BY <1>1, <1>2, <1>3, <1>4 DEF LowestSeen
    <1> QED
        BY <1>1, <1>5, <1>6, <1>7, <1>8 DEF SeenInv

LEMMA SeenInvStep == TypeInv /\ CandidateInv /\ SeenInv /\ [Next]_vars => SeenInv'
    <1> SUFFICES ASSUME TypeInv, CandidateInv, SeenInv, [Next]_vars PROVE SeenInv'
        OBVIOUS
    <1> USE DEF loop
    <1>1. ASSUME NEW s \in Services, VisitService(s) PROVE SeenInv'
        <2>1. i' = 1 /\ candidate' = NoTarget
            BY <1>1 DEF VisitService
        <2>2. NoneSeen'
            BY <2>1 DEF NoneSeen
        <2> QED
            BY <2>1, <2>2 DEF SeenInv
    <1>2. ASSUME NEW t \in Targets, Consider(t) \/ SkipTarget(t) PROVE SeenInv'
        BY <1>2, SeenInvConsider, SeenInvSkip
    <1>3. CASE UNCHANGED vars
        BY <1>3 DEF vars, SeenInv, NoneSeen, FirstFit, HighestSeen, LowestSeen, Mappings,
                    Eligible, Demand
    <1>4. CASE pc' # "select"
        BY <1>4 DEF SeenInv
    <1> QED
        BY <1>1, <1>2, <1>3, <1>4 DEF Next, OpenModels, FailToOpenModels, RejectService,
           AbortOnService, FinishServices, AbortOnTarget, Assign, GiveUp

LEMMA SeenAll ==
    ASSUME TypeInv, CandidateInv, SeenInv, pc = "select", i > Len(Mappings)
    PROVE  StrategyFollowed
    <1>1. Len(Mappings) \in Nat /\ i \in Nat
        BY MappingsTyped DEF TypeInv, TypeOK
    <1>2. \A t \in CandidateTargets(service) :
            \E j \in 1 .. Len(Mappings) : j < i /\ Mappings[j] = t
        BY <1>1 DEF CandidateTargets, Mappings
    <1>3. CASE candidate = NoTarget
        BY <1>2, <1>3 DEF SeenInv, NoneSeen, StrategyFollowed
    <1>4. CASE candidate # NoTarget
        <2>1. Eligible(candidate)
            BY <1>4 DEF CandidateInv
        <2>2. input.strategy = "greedy" =>
                \E k \in 1 .. Len(Mappings) :
                    /\ Mappings[k] = candidate
                    /\ \A j \in 1 .. (k - 1) : ~Eligible(Mappings[j])
            BY <1>4 DEF SeenInv, FirstFit
        <2>3. input.strategy = "highest-bidder" =>
                \A t \in CandidateTargets(service) :
                    Eligible(t) => remaining[t] <= remaining[candidate]
            BY <1>2, <1>4 DEF SeenInv, HighestSeen
        <2>4. input.strategy = "lowest-bidder" =>
                \A t \in CandidateTargets(service) :
                    Eligible(t) => remaining[candidate] <= remaining[t]
            BY <1>2, <1>4 DEF SeenInv, LowestSeen
        <2> QED
            BY <1>4, <2>1, <2>2, <2>3, <2>4 DEF StrategyFollowed
    <1> QED
        BY <1>3, <1>4

(* Every selection is the one of the documented strategy, and the program   *)
(* gives up on a service only if no candidate is capable of hosting it.     *)
THEOREM SelectsByStrategy == Spec => []StrategyFollowed
    <1> DEFINE Inv == TypeInv /\ CandidateInv /\ SeenInv
    <1>1. Init => Inv
        <2>1. Init => CandidateInv /\ SeenInv
            BY DEF Init, CandidateInv, SeenInv
        <2> QED
            BY <2>1, TypeInvInit
    <1>2. Inv /\ [Next]_vars => Inv'
        BY TypeInvStep, CandidateInvStep, SeenInvStep
    <1>3. Inv => StrategyFollowed
        BY SeenAll DEF StrategyFollowed
    <1> QED
        BY <1>1, <1>2, <1>3, PTL DEF Spec

-----------------------------------------------------------------------------
(* The services that have been dealt with have a target, one of their       *)
(* candidates, and the others have none yet.                                *)
Pending ==
    CASE pc = "open" -> Services
      [] pc = "service" -> todo
      [] pc = "select" -> todo \cup {service}
      [] pc = "done" -> IF status = "ok" THEN {} ELSE Services

ResultInv ==
    /\ pc = "done" <=> status # "running"
    /\ \A s \in Services : result[s] # NoTarget =>
            s \in input.distributed /\ result[s] \in CandidateTargets(s)
    /\ pc = "open" => \A s \in Services : result[s] = NoTarget
    /\ pc \in {"service", "select"} => \A s \in todo : result[s] = NoTarget
    /\ pc = "select" => service \notin todo /\ result[service] = NoTarget
    /\ \A s \in input.distributed \ Pending : result[s] # NoTarget

LEMMA ResultInvInit == Init => ResultInv
    <1> SUFFICES ASSUME Init PROVE ResultInv
        OBVIOUS
    <1>1. input.distributed \in SUBSET Services
        BY InputTyped DEF Init
    <1>2. pc = "open" /\ status = "running" /\ \A s \in Services : result[s] = NoTarget
        BY DEF Init
    <1> QED
        BY <1>1, <1>2 DEF ResultInv, Pending

LEMMA ResultInvStep == TypeInv /\ CandidateInv /\ ResultInv /\ [Next]_vars => ResultInv'
    <1> SUFFICES ASSUME TypeInv, CandidateInv, ResultInv, [Next]_vars PROVE ResultInv'
        OBVIOUS
    <1> USE DEF loop
    <1>0. /\ input.distributed \in SUBSET Services
          /\ result \in [Services -> Targets \cup {NoTarget}]
        BY InputTyped DEF TypeInv, TypeOK
    <1>1. CASE OpenModels
        BY <1>0, <1>1 DEF OpenModels, ResultInv, Pending, CandidateTargets
    <1>2. CASE FailToOpenModels
        BY <1>0, <1>2 DEF FailToOpenModels, ResultInv, Pending, CandidateTargets
    <1>3. ASSUME NEW s \in Services, VisitService(s) PROVE ResultInv'
        BY <1>0, <1>3 DEF VisitService, IsFirst, ResultInv, Pending, CandidateTargets
    <1>4. ASSUME NEW s \in Services, RejectService(s) \/ AbortOnService(s) PROVE ResultInv'
        BY <1>0, <1>4 DEF RejectService, AbortOnService, ResultInv, Pending, CandidateTargets
    <1>5. CASE FinishServices
        BY <1>0, <1>5 DEF FinishServices, ResultInv, Pending, CandidateTargets
    <1>6. ASSUME NEW t \in Targets, Consider(t) \/ SkipTarget(t) PROVE ResultInv'
        BY <1>0, <1>6 DEF Consider, SkipTarget, Selecting, ResultInv, Pending, CandidateTargets
    <1>7. ASSUME NEW t \in Targets, AbortOnTarget(t) PROVE ResultInv'
        BY <1>0, <1>7 DEF AbortOnTarget, ResultInv, Pending, CandidateTargets
    <1>8. CASE Assign
        <2>1. /\ pc = "select" /\ candidate # NoTarget /\ pc' = "service"
              /\ result' = [result EXCEPT ![service] = candidate]
              /\ UNCHANGED <<input, todo, service, status>>
            BY <1>8 DEF Assign, Selected
        <2>2. service \in input.distributed /\ candidate \in CandidateTargets(service)
            BY <2>1 DEF TypeInv, TypeOK, CandidateInv
        <2> QED
            BY <1>0, <2>1, <2>2 DEF ResultInv, Pending, CandidateTargets
    <1>9. CASE GiveUp
        BY <1>0, <1>9 DEF GiveUp, ResultInv, Pending, CandidateTargets
    <1>10. CASE UNCHANGED vars
        BY <1>10 DEF vars, ResultInv, Pending, CandidateTargets
    <1> QED
        BY <1>1, <1>2, <1>3, <1>4, <1>5, <1>6, <1>7, <1>8, <1>9, <1>10 DEF Next

(* The candidates of the abstract specification. *)
LEMMA CandidatesTyped ==
    ASSUME input \in Inputs, NEW s \in Services
    PROVE  CandidateTargets(s) \in SUBSET Targets
    BY InputTyped DEF CandidateTargets

LEMMA PhaseInit == Init => Phase!Init
    <1> SUFFICES ASSUME Init PROVE Phase!Init
        OBVIOUS
    <1>1. input \in Inputs /\ status = "running" /\ result = [s \in Services |-> NoTarget]
        BY DEF Init
    <1> QED
        BY <1>1, CandidatesTyped DEF Phase!Init

LEMMA PhaseStep == TypeInv /\ CandidateInv /\ ResultInv /\ [Next]_vars => [Phase!Next]_Phase!vars
    <1> SUFFICES ASSUME TypeInv, CandidateInv, ResultInv, [Next]_vars
                 PROVE  Phase!Next \/ UNCHANGED Phase!vars
        OBVIOUS
    <1> USE DEF loop
    <1>0. /\ input.distributed \in SUBSET Services
          /\ result \in [Services -> Targets \cup {NoTarget}]
          /\ NoTarget \notin Targets
        BY InputTyped, ValueAssumption DEF TypeInv, TypeOK
    <1>1. UNCHANGED <<input, result, status>> => UNCHANGED Phase!vars
        BY DEF Phase!vars, CandidateTargets
    <1>2. CASE Assign
        <2>1. /\ pc = "select" /\ candidate # NoTarget
              /\ result' = [result EXCEPT ![service] = candidate]
              /\ UNCHANGED <<input, status>>
            BY <1>2 DEF Assign, Selected
        <2>2. /\ service \in input.distributed /\ candidate \in CandidateTargets(service)
              /\ candidate \in Targets
              /\ result[service] = NoTarget /\ status = "running"
            BY <2>1 DEF TypeInv, TypeOK, CandidateInv, ResultInv
        <2>3. ASSUME NEW S \in SUBSET Services, S = {service},
                     NEW t \in Targets, t = candidate
              PROVE  Phase!Map(S, t)
            BY <1>0, <2>1, <2>2, <2>3 DEF Phase!Map, CandidateTargets
        <2>4. {service} \in SUBSET Services /\ candidate \in Targets
            BY <1>0, <2>2
        <2>5. \E S \in SUBSET Services, t \in Targets : Phase!Map(S, t)
            BY <2>3, <2>4
        <2> QED
            BY <2>5 DEF Phase!Next
    <1>3. CASE FinishServices
        <2>1. /\ pc = "service" /\ todo = {} /\ status' = "ok"
              /\ UNCHANGED <<input, result>>
            BY <1>3 DEF FinishServices
        <2>2. \A s \in input.distributed : result[s] # NoTarget
            BY <2>1 DEF ResultInv, Pending
        <2>3. status = "running"
            BY <2>1 DEF ResultInv, TypeInv, TypeOK
        <2>4. Phase!Succeed
            BY <1>0, <2>1, <2>2, <2>3 DEF Phase!Succeed, CandidateTargets
        <2> QED
            BY <2>4 DEF Phase!Next
    <1>4. ASSUME status' \in {"error", "aborted"}, pc # "done", UNCHANGED <<input, result>>
          PROVE  Phase!Next
        <2>1. status = "running"
            BY <1>4 DEF ResultInv, TypeInv, TypeOK
        <2> QED
            BY <1>4, <2>1 DEF Phase!Next, Phase!Fail, CandidateTargets
    <1>5. CASE FailToOpenModels \/ GiveUp
        BY <1>4, <1>5 DEF FailToOpenModels, GiveUp
    <1>6. ASSUME NEW s \in Services, RejectService(s) \/ AbortOnService(s) PROVE Phase!Next
        BY <1>4, <1>6 DEF RejectService, AbortOnService
    <1>7. ASSUME NEW t \in Targets, AbortOnTarget(t) PROVE Phase!Next
        BY <1>4, <1>7 DEF AbortOnTarget, Selecting
    <1>8. ASSUME NEW s \in Services, VisitService(s) PROVE UNCHANGED Phase!vars
        <2>1. UNCHANGED <<input, result, status>>
            BY <1>8 DEF VisitService
        <2> QED
            BY <1>1, <2>1
    <1>9. ASSUME NEW t \in Targets, Consider(t) \/ SkipTarget(t) PROVE UNCHANGED Phase!vars
        <2>1. UNCHANGED <<input, result, status>>
            BY <1>9 DEF Consider, SkipTarget
        <2> QED
            BY <1>1, <2>1
    <1>10. CASE OpenModels \/ UNCHANGED vars
        <2>1. UNCHANGED <<input, result, status>>
            BY <1>10 DEF OpenModels, vars
        <2> QED
            BY <1>1, <2>1
    <1> QED
        BY <1>2, <1>3, <1>5, <1>6, <1>7, <1>8, <1>9, <1>10 DEF Next

(* The division is an implementation of the division phase. *)
THEOREM ImplementsDivisionPhase == Spec => DividesOverCandidates
    <1> DEFINE Inv == TypeInv /\ CandidateInv /\ ResultInv
    <1>1. Init => Inv
        <2>1. Init => CandidateInv
            BY DEF Init, CandidateInv
        <2> QED
            BY <2>1, TypeInvInit, ResultInvInit
    <1>2. Inv /\ [Next]_vars => Inv'
        BY TypeInvStep, CandidateInvStep, ResultInvStep
    <1>3. Init => Phase!Init
        BY PhaseInit
    <1>4. Inv /\ [Next]_vars => [Phase!Next]_Phase!vars
        BY PhaseStep
    <1> QED
        BY <1>1, <1>2, <1>3, <1>4, PTL DEF Spec, DividesOverCandidates, Phase!Spec
-----------------------------------------------------------------------------
(* The sum of w over a set, as MapThenSumSet computes it: a function on the *)
(* subsets takes one element after another out.                             *)
SumStep(T, w, h) ==
    IF T = {} THEN 0
    ELSE w[CHOOSE x \in T : TRUE] + h[T \ {CHOOSE x \in T : TRUE}]

IsSum(D, w, h) == h = [T \in D |-> SumStep(T, w, h)]

Sum(S, w) == (CHOOSE h : IsSum(SUBSET S, w, h))[S]

Level(S, n) == {T \in SUBSET S : Cardinality(T) <= n}

(* The fold that the property sums up with is this sum. *)
LEMMA SumIsFold ==
    ASSUME NEW S, NEW w
    PROVE  MapThenSumSet(LAMBDA s : w[s], S) = Sum(S, w)
    BY SMT DEF MapThenSumSet, MapThenFoldSet, Sum, IsSum, SumStep

(* The least element of a set of numbers. *)
LEMMA LeastExists ==
    ASSUME NEW D \in SUBSET Nat, D # {}
    PROVE  \E m \in D : \A n \in D : m <= n
    <1> DEFINE R == {ss \in Nat \X Nat : ss[1] < ss[2]}
    <1>1. IsWellFoundedOn(R, Nat)
        BY NatLessThanWellFounded, Zenon DEF OpToRel
    <1>2. PICK m \in D : \A n \in D : ~(<<n, m>> \in R)
        BY <1>1, WFMin
    <1>3. ASSUME NEW n \in D PROVE m <= n
        <2>1. m \in Nat /\ n \in Nat /\ ~(<<n, m>> \in R)
            BY <1>2
        <2>2. ~(n < m)
            BY <2>1
        <2> QED
            BY <2>1, <2>2
    <1> QED
        BY <1>3

(* Induction over the size of the subsets of a finite set. *)
LEMMA BySize ==
    ASSUME NEW S, IsFiniteSet(S), NEW Good \in SUBSET SUBSET S,
           \A T \in SUBSET S :
               (\A U \in SUBSET S : Cardinality(U) < Cardinality(T) => U \in Good) => T \in Good
    PROVE  \A T \in SUBSET S : T \in Good
    <1> DEFINE Bad == (SUBSET S) \ Good
               Sizes == {Cardinality(T) : T \in Bad}
    <1>1. \A T \in SUBSET S : Cardinality(T) \in Nat
        BY FS_Subset, FS_CardinalityType
    <1>2. SUFFICES ASSUME Bad # {} PROVE FALSE
        OBVIOUS
    <1>3. Sizes \in SUBSET Nat /\ Sizes # {}
        BY <1>1, <1>2
    <1>4. PICK m \in Sizes : \A n \in Sizes : m <= n
        BY <1>3, LeastExists
    <1>5. PICK T \in Bad : m = Cardinality(T)
        BY <1>4
    <1>6. ASSUME NEW U \in SUBSET S, Cardinality(U) < Cardinality(T) PROVE U \in Good
        <2>1. T \in SUBSET S /\ U \in SUBSET S
            OBVIOUS
        <2>2. Cardinality(T) \in Nat /\ Cardinality(U) \in Nat
            BY <1>1, <2>1, Zenon
        <2>3. ~(m <= Cardinality(U))
            BY <1>5, <1>6, <2>2
        <2>4. Cardinality(U) \notin Sizes
            BY <1>4, <2>3, Zenon
        <2> QED
            BY <2>1, <2>4, Zenon
    <1> QED
        BY <1>5, <1>6

(* Taking the chosen element out of a set that is not empty. *)
LEMMA Smaller ==
    ASSUME NEW S, IsFiniteSet(S), NEW T \in SUBSET S, NEW x \in T
    PROVE  /\ T \ {x} \in SUBSET S
           /\ Cardinality(T \ {x}) = Cardinality(T) - 1
           /\ Cardinality(T) \in Nat /\ Cardinality(T \ {x}) \in Nat
           /\ Cardinality(T \ {x}) < Cardinality(T)
    <1>1. IsFiniteSet(T) /\ IsFiniteSet(T \ {x})
        BY FS_Subset, FS_RemoveElement
    <1>2. Cardinality(T) \in Nat /\ Cardinality(T \ {x}) \in Nat
        BY <1>1, FS_CardinalityType
    <1>3. Cardinality(T \ {x}) = Cardinality(T) - 1
        BY <1>1, FS_RemoveElement
    <1> QED
        BY <1>2, <1>3

(* The recursion has a solution, level by level. *)
LEMMA PartialSums ==
    ASSUME NEW S, IsFiniteSet(S), NEW w
    PROVE  \A n \in Nat : \E h : IsSum(Level(S, n), w, h)
    <1> DEFINE Bad == {n \in Nat : ~\E h : IsSum(Level(S, n), w, h)}
    <1>1. SUFFICES ASSUME Bad # {} PROVE FALSE
        OBVIOUS
    <1>2. PICK m \in Bad : \A n \in Bad : m <= n
        BY <1>1, LeastExists
    <1>3. ASSUME NEW g, \A T \in Level(S, m) : T # {} => 
                            LET U == T \ {CHOOSE x \in T : TRUE}
                            IN  SumStep(U, w, g) = g[U] /\ U \in Level(S, m)
          PROVE  FALSE
        <2> DEFINE h == [T \in Level(S, m) |-> SumStep(T, w, g)]
        <2>1. ASSUME NEW T \in Level(S, m) PROVE SumStep(T, w, h) = SumStep(T, w, g)
            <3>1. CASE T = {}
                BY <3>1 DEF SumStep
            <3>2. CASE T # {}
                <4> DEFINE U == T \ {CHOOSE x \in T : TRUE}
                <4>1. SumStep(U, w, g) = g[U] /\ U \in Level(S, m)
                    BY <1>3, <3>2
                <4>2. h[U] = g[U]
                    BY <4>1
                <4> QED
                    BY <3>2, <4>2 DEF SumStep
            <3> QED
                BY <3>1, <3>2
        <2>2. h = [T \in Level(S, m) |-> SumStep(T, w, h)]
            BY <2>1
        <2>3. IsSum(Level(S, m), w, h)
            BY <2>2 DEF IsSum
        <2> HIDE DEF h
        <2> QED
            BY <1>2, <2>3
    <1>4. CASE m = 0
        <2>1. ASSUME NEW T \in Level(S, m) PROVE T = {}
            <3>1. T \in SUBSET S /\ Cardinality(T) <= 0
                BY <1>4 DEF Level
            <3>2. IsFiniteSet(T) /\ Cardinality(T) \in Nat
                BY <3>1, FS_Subset, FS_CardinalityType
            <3> QED
                BY <3>1, <3>2, FS_EmptySet
        <2> QED
            BY <1>3, <2>1
    <1>5. CASE m # 0
        <2>1. m - 1 \in Nat /\ m \in Nat
            BY <1>5
        <2>2. ~(m - 1 \in Bad)
            BY <1>2, <2>1
        <2>3. PICK g : IsSum(Level(S, m - 1), w, g)
            BY <2>1, <2>2
        <2>4. ASSUME NEW T \in Level(S, m), T # {}
              PROVE  LET U == T \ {CHOOSE x \in T : TRUE}
                     IN  SumStep(U, w, g) = g[U] /\ U \in Level(S, m)
            <3> DEFINE c == CHOOSE x \in T : TRUE
                       U == T \ {c}
            <3>1. c \in T /\ T \in SUBSET S /\ Cardinality(T) <= m
                BY <2>4 DEF Level
            <3> HIDE DEF c
            <3>2. /\ U \in SUBSET S /\ Cardinality(U) = Cardinality(T) - 1
                  /\ Cardinality(T) \in Nat /\ Cardinality(U) \in Nat
                BY <3>1, Smaller
            <3>3. U \in Level(S, m - 1) /\ U \in Level(S, m)
                BY <2>1, <3>1, <3>2 DEF Level
            <3>4. g[U] = SumStep(U, w, g)
                BY <2>3, <3>3, Zenon DEF IsSum
            <3> QED
                BY <3>3, <3>4 DEF c
        <2> QED
            BY <1>3, <2>4
    <1> QED
        BY <1>4, <1>5

(* So does the whole recursion, and a sum is a value of a solution. *)
LEMMA SumEquation ==
    ASSUME NEW S, IsFiniteSet(S), NEW w
    PROVE  \E h : IsSum(SUBSET S, w, h) /\ Sum(S, w) = h[S]
    <1>1. Cardinality(S) \in Nat
        BY FS_CardinalityType
    <1>2. Level(S, Cardinality(S)) = SUBSET S
        BY FS_Subset DEF Level
    <1>3. \E h : IsSum(SUBSET S, w, h)
        <2>1. \E h : IsSum(Level(S, Cardinality(S)), w, h)
            BY <1>1, PartialSums, Zenon
        <2> QED
            BY <1>2, <2>1, Zenon
    <1>4. IsSum(SUBSET S, w, CHOOSE h : IsSum(SUBSET S, w, h))
        BY <1>3
    <1> QED
        BY <1>4 DEF Sum

(* One step of the recursion. *)
LEMMA Recursion ==
    ASSUME NEW D, NEW w, NEW h, IsSum(D, w, h), NEW T \in D, T # {}
    PROVE  \E c \in T : c = (CHOOSE x \in T : TRUE) /\ h[T] = w[c] + h[T \ {c}]
    <1>1. h[T] = SumStep(T, w, h)
        BY Zenon DEF IsSum
    <1>2. (CHOOSE x \in T : TRUE) \in T
        OBVIOUS
    <1> QED
        BY <1>1, <1>2 DEF SumStep

LEMMA SumOfNothing ==
    ASSUME NEW D, NEW w, NEW h, IsSum(D, w, h), {} \in D
    PROVE  h[{}] = 0
    <1>1. h[{}] = SumStep({}, w, h)
        BY Zenon DEF IsSum
    <1> QED
        BY <1>1 DEF SumStep

(* Sums of integers are integers. *)
LEMMA SumIsInt ==
    ASSUME NEW S, IsFiniteSet(S), NEW w, \A x \in S : w[x] \in Int,
           NEW h, IsSum(SUBSET S, w, h)
    PROVE  \A T \in SUBSET S : h[T] \in Int
    <1> DEFINE Good == {T \in SUBSET S : h[T] \in Int}
    <1>1. ASSUME NEW T \in SUBSET S,
                 \A U \in SUBSET S : Cardinality(U) < Cardinality(T) => U \in Good
          PROVE  T \in Good
        <2>1. CASE T = {}
            BY <2>1, SumOfNothing
        <2>2. CASE T # {}
            <3>1. PICK c \in T : h[T] = w[c] + h[T \ {c}]
                BY <2>2, Recursion
            <3>2. T \ {c} \in Good
                BY <1>1, Smaller
            <3> QED
                BY <3>1, <3>2
        <2> QED
            BY <2>1, <2>2
    <1> HIDE DEF Good
    <1>2. Good \in SUBSET SUBSET S
        BY DEF Good
    <1>3. \A T \in SUBSET S : T \in Good
        BY <1>1, <1>2, BySize
    <1> QED
        BY <1>3 DEF Good

(* The sum does not depend on the set whose subsets the recursion is over.  *)
LEMMA SumsAgree ==
    ASSUME NEW R, NEW S \in SUBSET R, IsFiniteSet(S), NEW w,
           NEW g, IsSum(SUBSET S, w, g), NEW h, IsSum(SUBSET R, w, h)
    PROVE  g[S] = h[S]
    <1> DEFINE Good == {T \in SUBSET S : g[T] = h[T]}
    <1>1. ASSUME NEW T \in SUBSET S,
                 \A U \in SUBSET S : Cardinality(U) < Cardinality(T) => U \in Good
          PROVE  T \in Good
        <2>1. CASE T = {}
            BY <2>1, SumOfNothing
        <2>2. CASE T # {}
            <3>1. PICK c \in T : c = (CHOOSE x \in T : TRUE) /\ g[T] = w[c] + g[T \ {c}]
                BY <2>2, Recursion
            <3>2. T \in SUBSET R
                OBVIOUS
            <3>3. h[T] = w[c] + h[T \ {c}]
                <4>1. h[T] = SumStep(T, w, h)
                    BY <3>2, Zenon DEF IsSum
                <4> QED
                    BY <2>2, <3>1, <4>1 DEF SumStep
            <3>4. T \ {c} \in Good
                BY <1>1, Smaller
            <3> QED
                BY <3>1, <3>3, <3>4
        <2> QED
            BY <2>1, <2>2
    <1> HIDE DEF Good
    <1>2. Good \in SUBSET SUBSET S
        BY DEF Good
    <1>3. \A T \in SUBSET S : T \in Good
        BY <1>1, <1>2, BySize
    <1> QED
        BY <1>3 DEF Good

(* One more element adds its weight, whichever the recursion takes out.     *)
LEMMA SumAdds ==
    ASSUME NEW S, IsFiniteSet(S), NEW w, \A x \in S : w[x] \in Int,
           NEW h, IsSum(SUBSET S, w, h)
    PROVE  \A T \in SUBSET S : \A x \in T : h[T] = h[T \ {x}] + w[x]
    <1> DEFINE Good == {T \in SUBSET S : \A x \in T : h[T] = h[T \ {x}] + w[x]}
    <1>0. \A T \in SUBSET S : h[T] \in Int
        BY SumIsInt
    <1>1. ASSUME NEW T \in SUBSET S,
                 \A U \in SUBSET S : Cardinality(U) < Cardinality(T) => U \in Good
          PROVE  T \in Good
        <2> SUFFICES ASSUME NEW x \in T PROVE h[T] = h[T \ {x}] + w[x]
            OBVIOUS
        <2>1. PICK c \in T : c = (CHOOSE y \in T : TRUE) /\ h[T] = w[c] + h[T \ {c}]
            BY Recursion
        <2>2. w[c] \in Int /\ w[x] \in Int /\ h[T \ {c}] \in Int /\ h[T \ {x}] \in Int
            BY <1>0
        <2>3. CASE x = c
            BY <2>1, <2>2, <2>3
        <2>4. CASE x # c
            <3> DEFINE U == T \ {c, x}
            <3>1. (T \ {c}) \ {x} = U /\ (T \ {x}) \ {c} = U
                OBVIOUS
            <3>2. T \ {c} \in Good /\ T \ {x} \in Good
                BY <1>1, Smaller
            <3>3. x \in T \ {c} /\ c \in T \ {x}
                BY <2>4
            <3>4. h[T \ {c}] = h[U] + w[x] /\ h[T \ {x}] = h[U] + w[c]
                BY <3>1, <3>2, <3>3
            <3>5. h[U] \in Int
                BY <1>0
            <3> HIDE DEF U
            <3> QED
                BY <2>1, <2>2, <3>4, <3>5
        <2> QED
            BY <2>3, <2>4
    <1> HIDE DEF Good
    <1>2. Good \in SUBSET SUBSET S
        BY DEF Good
    <1>3. \A T \in SUBSET S : T \in Good
        BY <1>1, <1>2, BySize
    <1> QED
        BY <1>3 DEF Good

(* What is used of all this. *)
LEMMA SumEmpty == ASSUME NEW w PROVE Sum({}, w) = 0
    <1>1. PICK h : IsSum(SUBSET {}, w, h) /\ Sum({}, w) = h[{}]
        BY SumEquation, FS_EmptySet
    <1> QED
        BY <1>1, SumOfNothing

LEMMA SumTyped ==
    ASSUME NEW S, IsFiniteSet(S), NEW w, \A x \in S : w[x] \in Int
    PROVE  Sum(S, w) \in Int
    <1>1. PICK h : IsSum(SUBSET S, w, h) /\ Sum(S, w) = h[S]
        BY SumEquation
    <1> QED
        BY <1>1, SumIsInt

LEMMA SumAddsOne ==
    ASSUME NEW S, IsFiniteSet(S), NEW x, x \notin S, NEW w,
           \A y \in S \cup {x} : w[y] \in Int
    PROVE  Sum(S \cup {x}, w) = Sum(S, w) + w[x] /\ Sum(S, w) \in Int
    <1> DEFINE R == S \cup {x}
    <1>1. IsFiniteSet(R)
        BY FS_AddElement
    <1>2. R \ {x} = S /\ S \in SUBSET R /\ x \in R
        OBVIOUS
    <1> HIDE DEF R
    <1>3. PICK h : IsSum(SUBSET R, w, h) /\ Sum(R, w) = h[R]
        BY <1>1, SumEquation
    <1>4. PICK g : IsSum(SUBSET S, w, g) /\ Sum(S, w) = g[S]
        BY SumEquation
    <1>5. g[S] = h[S]
        BY <1>2, <1>3, <1>4, SumsAgree
    <1>6. \A y \in R : w[y] \in Int
        BY DEF R
    <1>7. h[R] = h[S] + w[x] /\ h[S] \in Int
        BY <1>1, <1>2, <1>3, <1>6, SumAdds, SumIsInt
    <1> QED
        BY <1>3, <1>4, <1>5, <1>7 DEF R

-----------------------------------------------------------------------------
(* What a target has left is its capacity minus the demands of the services *)
(* that it has been given, each of which is counted once.                   *)
Given(t) == {s \in Services : result[s] = t}

SumInv ==
    \A t \in Targets : input.capacity[t] \in Nat =>
        /\ IsFiniteSet(Given(t))
        /\ \A s \in Given(t) : input.demand[s] \in Int
        /\ remaining[t] = input.capacity[t] - Sum(Given(t), input.demand)

LEMMA SumInvInit == Init => SumInv
    <1> SUFFICES ASSUME Init, NEW t \in Targets, input.capacity[t] \in Nat
                 PROVE  /\ IsFiniteSet(Given(t))
                        /\ \A s \in Given(t) : input.demand[s] \in Int
                        /\ remaining[t] = input.capacity[t] - Sum(Given(t), input.demand)
        BY DEF SumInv
    <1>1. Given(t) = {} /\ remaining[t] = input.capacity[t]
        BY ValueAssumption DEF Init, Given
    <1>2. Sum({}, input.demand) = 0
        BY SumEmpty
    <1> QED
        BY <1>1, <1>2, FS_EmptySet

LEMMA SumInvStep ==
    TypeInv /\ CandidateInv /\ ResultInv /\ SumInv /\ [Next]_vars => SumInv'
    <1> SUFFICES ASSUME TypeInv, CandidateInv, ResultInv, SumInv, [Next]_vars PROVE SumInv'
        OBVIOUS
    <1> USE DEF loop
    <1>1. CASE Assign
        <2>1. /\ pc = "select" /\ candidate # NoTarget /\ UNCHANGED input
              /\ remaining' = [remaining EXCEPT ![candidate] = @ - Demand]
              /\ result' = [result EXCEPT ![service] = candidate]
            BY <1>1 DEF Assign, Selected
        <2>2. /\ service \in Services /\ candidate \in Targets /\ input.demand[service] \in Int
              /\ Demand = input.demand[service] /\ result[service] = NoTarget
            BY <2>1, InputTyped DEF TypeInv, TypeOK, ResultInv, Demand
        <2>3. /\ remaining \in [Targets -> Values]
              /\ result \in [Services -> Targets \cup {NoTarget}]
            BY DEF TypeInv, TypeOK
        <2> SUFFICES ASSUME NEW t \in Targets, input.capacity[t] \in Nat
                     PROVE  /\ IsFiniteSet(Given(t)')
                            /\ \A s \in Given(t)' : input.demand[s] \in Int
                            /\ remaining'[t] = input.capacity[t] - Sum(Given(t)', input.demand)
            BY <2>1 DEF SumInv
        <2>4. /\ IsFiniteSet(Given(t))
              /\ \A s \in Given(t) : input.demand[s] \in Int
              /\ remaining[t] = input.capacity[t] - Sum(Given(t), input.demand)
            BY DEF SumInv
        <2>5. CASE t = candidate
            <3>1. Given(t)' = Given(t) \cup {service} /\ service \notin Given(t)
                BY <2>1, <2>2, <2>3, <2>5, ValueAssumption DEF Given
            <3>2. IsFiniteSet(Given(t)') /\ \A s \in Given(t)' : input.demand[s] \in Int
                BY <2>2, <2>4, <3>1, FS_AddElement
            <3>3. /\ Sum(Given(t)', input.demand) = Sum(Given(t), input.demand) + input.demand[service]
                  /\ Sum(Given(t), input.demand) \in Int
                BY <2>4, <3>1, <3>2, SumAddsOne
            <3>4. remaining'[t] = remaining[t] - input.demand[service]
                BY <2>1, <2>2, <2>3, <2>5
            <3> QED
                BY <2>2, <2>4, <3>2, <3>3, <3>4
        <2>6. CASE t # candidate
            <3>1. Given(t)' = Given(t)
                BY <2>1, <2>2, <2>3, <2>6, ValueAssumption DEF Given
            <3>2. remaining'[t] = remaining[t]
                BY <2>1, <2>3, <2>6
            <3> QED
                BY <2>4, <3>1, <3>2
        <2> QED
            BY <2>5, <2>6
    <1>2. CASE UNCHANGED <<input, remaining, result>>
        <2>1. ASSUME NEW t \in Targets PROVE Given(t)' = Given(t)
            BY <1>2 DEF Given
        <2> QED
            BY <1>2, <2>1 DEF SumInv
    <1> QED
        BY <1>1, <1>2 DEF Next, vars, OpenModels, FailToOpenModels, VisitService, RejectService,
           AbortOnService, FinishServices, Consider, SkipTarget, AbortOnTarget, GiveUp

(* What is left is not negative, hence the demands are within the capacity. *)
LEMMA DemandsWithinCapacity == CapacityNeverNegative /\ SumInv => NotOvercommitted
    <1> SUFFICES ASSUME CapacityNeverNegative, SumInv,
                        NEW t \in Targets, input.capacity[t] \in Nat
                 PROVE  MapThenSumSet(LAMBDA s : input.demand[s], {s \in Services : result[s] = t})
                            <= input.capacity[t]
        BY DEF NotOvercommitted
    <1>1. /\ remaining[t] \in Nat /\ IsFiniteSet(Given(t))
          /\ \A s \in Given(t) : input.demand[s] \in Int
          /\ remaining[t] = input.capacity[t] - Sum(Given(t), input.demand)
        BY DEF CapacityNeverNegative, SumInv
    <1>2. Sum(Given(t), input.demand) \in Int
        BY <1>1, SumTyped
    <1>3. Sum(Given(t), input.demand) <= input.capacity[t]
        BY <1>1, <1>2
    <1>4. MapThenSumSet(LAMBDA s : input.demand[s], Given(t)) = Sum(Given(t), input.demand)
        BY SumIsFold
    <1> QED
        BY <1>3, <1>4 DEF Given

(* The demands of the services that a target has been given never sum up to *)
(* more than its capacity, for every strategy, order and outcome.           *)
THEOREM DemandsFit == Spec => []NotOvercommitted
    <1> DEFINE Inv == TypeInv /\ CandidateInv /\ CapacityNeverNegative /\ ResultInv /\ SumInv
    <1>1. Init => Inv
        <2>1. Init => CandidateInv /\ CapacityNeverNegative
            BY DEF Init, CandidateInv, CapacityNeverNegative
        <2> QED
            BY <2>1, TypeInvInit, ResultInvInit, SumInvInit
    <1>2. Inv /\ [Next]_vars => Inv'
        BY TypeInvStep, CandidateInvStep, CapacityStep, ResultInvStep, SumInvStep
    <1>3. Inv => NotOvercommitted
        BY DemandsWithinCapacity
    <1> QED
        BY <1>1, <1>2, <1>3, PTL DEF Spec
=============================================================================
