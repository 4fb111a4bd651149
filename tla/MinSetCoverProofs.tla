-------------------------- MODULE MinSetCoverProofs --------------------------
(***************************************************************************)
(* Proofs about MinSetCover, for all models and all numbers of services    *)
(* and targets: the cover implements DivisionPhase, every round of the     *)
(* loop covers a service when the first machine has a price or hosts all   *)
(* services, and the targets that it uses cost no more than the greedy     *)
(* approximation promises.                                                 *)
(***************************************************************************)
EXTENDS MinSetCover, FiniteSetTheorems, WellFoundedInduction, TLAPS

(* Only services that have candidates get covered; status and pc agree.     *)
Inv ==
    /\ input \in Inputs
    /\ TypeOK
    /\ \A s \in Services : result[s] # NoTarget => result[s] \in input.candidates[s]
    /\ pc = "done" <=> status # "running"
    /\ pc = "search" => todo \in SUBSET Hosts /\ ~AllCovered

-----------------------------------------------------------------------------
(* The parts of an input. *)
LEMMA InputTyped ==
    ASSUME NEW in \in Inputs
    PROVE  /\ in.services \in SUBSET Services
           /\ in.candidates \in [Services -> SUBSET Targets]
           /\ in.cost \in [Targets -> Costs]
           /\ \A s \in Services \ in.services : in.candidates[s] = {}
    BY InputAssumption

(* A set of services has a size. *)
LEMMA SizeTyped == ASSUME NEW S \in SUBSET Services PROVE Cardinality(S) \in Nat
    BY ValueAssumption, FS_Subset, FS_CardinalityType

(* The cost fraction of a target that the infrastructure model lists. *)
LEMMA FractionTyped ==
    ASSUME input \in Inputs, NEW t \in Targets, input.cost[t] # Unknown
    PROVE  /\ Price(t) \in Int
           /\ CostFraction(t).num = Price(t)
           /\ CostFraction(t).den = Cardinality(ServicesOf(t) \ covered)
           /\ CostFraction(t).den \in Nat
    <1>1. Price(t) \in Int
        BY InputTyped DEF Price, Costs
    <1>2. Cardinality(ServicesOf(t) \ covered) \in Nat
        BY SizeTyped DEF ServicesOf
    <1> QED
        BY <1>1, <1>2 DEF CostFraction

LEMMA HostsTyped == ASSUME input \in Inputs PROVE Hosts \in SUBSET Targets
    BY InputTyped DEF Hosts

LEMMA InvInit == Init => Inv
    BY DEF Init, Inv, TypeOK, NoFraction

LEMMA InvStep == Inv /\ [Next]_vars => Inv'
    <1> SUFFICES ASSUME Inv, [Next]_vars PROVE Inv'
        OBVIOUS
    <1> USE ValueAssumption DEF Inv, TypeOK
    <1>1. CASE OpenModels
        BY <1>1 DEF OpenModels
    <1>2. CASE FailToOpenModels
        BY <1>2 DEF FailToOpenModels
    <1>3. CASE StartSearch
        BY <1>3, HostsTyped DEF StartSearch, NoFraction, Hosts, AllCovered
    <1>4. CASE Finish
        BY <1>4 DEF Finish
    <1>5. ASSUME NEW t \in Targets, Consider(t) PROVE Inv'
        <2>1. min'.num \in Int /\ min'.den \in Nat
            BY <1>5, FractionTyped DEF Consider
        <2> QED
            BY <1>5, <2>1 DEF Consider, Hosts, AllCovered
    <1>6. ASSUME NEW t \in Targets, AbortOnTarget(t) PROVE Inv'
        BY <1>6 DEF AbortOnTarget
    <1>7. CASE Cover
        <2>1. host \in Targets
            BY <1>7 DEF Cover, Found
        <2>2. result' \in [Services -> Targets \cup {NoTarget}]
            BY <1>7, <2>1 DEF Cover
        <2>3. covered' = {s \in Services : result'[s] # NoTarget}
            BY <1>7, <2>1 DEF Cover, ServicesOf
        <2>4. \A s \in Services : result'[s] # NoTarget => result'[s] \in input'.candidates[s]
            BY <1>7, <2>1 DEF Cover, ServicesOf
        <2> QED
            BY <1>7, <2>2, <2>3, <2>4 DEF Cover, Found
    <1>8. CASE AbortWithoutTargets
        BY <1>8 DEF AbortWithoutTargets
    <1>9. CASE UNCHANGED vars
        BY <1>9 DEF vars, Hosts, AllCovered
    <1> QED
        BY <1>1, <1>2, <1>3, <1>4, <1>5, <1>6, <1>7, <1>8, <1>9 DEF Next

(* The variables of the cover stay well typed, and a service is marked as   *)
(* covered exactly when it has been mapped.                                 *)
THEOREM TypeCorrect == Spec => []TypeOK
    <1>1. Inv => TypeOK
        BY DEF Inv
    <1> QED
        BY <1>1, InvInit, InvStep, PTL DEF Spec

-----------------------------------------------------------------------------
(* The loop counts: when it has covered as many services as there are, it   *)
(* has covered all of them.                                                 *)
LEMMA CoveredListed == ASSUME Inv PROVE covered \subseteq input.services
    BY InputTyped DEF Inv, TypeOK

LEMMA CountIsComplete ==
    ASSUME Inv
    PROVE  AllCovered <=> covered = input.services
    <1>1. covered \subseteq input.services /\ IsFiniteSet(input.services)
        BY CoveredListed, ValueAssumption, FS_Subset, InputTyped DEF Inv
    <1>2. Cardinality(covered) <= Cardinality(input.services)
        BY <1>1, FS_Subset
    <1>3. Cardinality(covered) = Cardinality(input.services) => covered = input.services
        BY <1>1, FS_Subset
    <1>4. Cardinality(covered) \in Nat /\ Cardinality(input.services) \in Nat
        BY SizeTyped, InputTyped DEF Inv, TypeOK
    <1> QED
        BY <1>2, <1>3, <1>4 DEF AllCovered

LEMMA PhaseInit == Init => Phase!Init
    BY InputTyped DEF Init, Phase!Init

LEMMA PhaseStep == Inv /\ [Next]_vars => [Phase!Next]_Phase!vars
    <1> SUFFICES ASSUME Inv, [Next]_vars PROVE Phase!Next \/ UNCHANGED Phase!vars
        OBVIOUS
    <1>1. UNCHANGED <<input, result, status>> => UNCHANGED Phase!vars
        BY DEF Phase!vars
    <1>2. CASE Cover
        <2>1. /\ pc = "search" /\ host \in Targets /\ UNCHANGED <<input, status>>
              /\ result' = [s \in Services |->
                               IF s \in ServicesOf(host) \ covered THEN host ELSE result[s]]
            BY <1>2 DEF Cover, Found, Inv, TypeOK
        <2>2. /\ status = "running" /\ NoTarget \notin Targets
              /\ covered = {s \in Services : result[s] # NoTarget}
            BY <2>1, ValueAssumption DEF Inv, TypeOK
        <2>3. ASSUME NEW S \in SUBSET Services, S = ServicesOf(host) \ covered,
                     NEW t \in Targets, t = host
              PROVE  Phase!Map(S, t)
            BY <2>1, <2>2, <2>3 DEF Phase!Map, ServicesOf
        <2>4. ServicesOf(host) \ covered \in SUBSET Services
            BY DEF ServicesOf
        <2>5. \E S \in SUBSET Services, t \in Targets : Phase!Map(S, t)
            BY <2>1, <2>3, <2>4
        <2> QED
            BY <2>5 DEF Phase!Next
    <1>3. CASE Finish
        <2>1. /\ pc = "cover" /\ covered = input.services /\ status' = "ok"
              /\ UNCHANGED <<input, result>>
            BY <1>3, CountIsComplete DEF Finish
        <2>2. status = "running"
            BY <2>1 DEF Inv
        <2>3. \A s \in Services : input.candidates[s] # {} => result[s] # NoTarget
            BY <2>1, InputTyped DEF Inv, TypeOK
        <2> QED
            BY <2>1, <2>2, <2>3 DEF Phase!Next, Phase!Succeed
    <1>4. ASSUME status' \in {"error", "aborted"}, pc # "done", UNCHANGED <<input, result>>
          PROVE  Phase!Next
        <2>1. status = "running"
            BY <1>4 DEF Inv
        <2> QED
            BY <1>4, <2>1 DEF Phase!Next, Phase!Fail
    <1>5. CASE FailToOpenModels \/ AbortWithoutTargets
        BY <1>4, <1>5 DEF FailToOpenModels, AbortWithoutTargets
    <1>6. ASSUME NEW t \in Targets, AbortOnTarget(t) PROVE Phase!Next
        BY <1>4, <1>6 DEF AbortOnTarget
    <1>7. ASSUME NEW t \in Targets, Consider(t) PROVE UNCHANGED Phase!vars
        BY <1>1, <1>7 DEF Consider
    <1>8. CASE OpenModels \/ StartSearch \/ UNCHANGED vars
        BY <1>1, <1>8 DEF OpenModels, StartSearch, vars
    <1> QED
        BY <1>2, <1>3, <1>5, <1>6, <1>7, <1>8 DEF Next

(* The cover is an implementation of the division phase: it maps services   *)
(* only to their candidates, never revises a mapping, and the number of     *)
(* covered services that ends its loop means that all of them are covered.  *)
THEOREM ImplementsDivisionPhase == Spec => CoversByCandidates
    BY InvInit, InvStep, PhaseInit, PhaseStep, PTL DEF Spec, CoversByCandidates, Phase!Spec

-----------------------------------------------------------------------------
(* As soon as the search has seen a target with a service that is not       *)
(* covered yet, it holds on to such a target: its fraction is finite, and   *)
(* that of a target all of whose services are covered is an infinity, or    *)
(* 0/0, which the search never holds on to.                                 *)
Uncovered(t) == ServicesOf(t) \ covered # {}

SearchInv ==
    Coverable /\ Productive /\ pc = "search" =>
        /\ host = NoTarget => min = NoFraction /\ todo = Hosts
        /\ host # NoTarget => host \in Hosts /\ min = CostFraction(host)
        /\ host # NoTarget => min.num # 0 \/ min.den # 0
        /\ (\E t \in Hosts \ todo : Uncovered(t)) => host # NoTarget /\ Uncovered(host)

LEMMA UncoveredFraction ==
    ASSUME input \in Inputs, Coverable, Productive, NEW t \in Hosts
    PROVE  /\ Price(t) \in Nat
           /\ CostFraction(t).num = Price(t)
           /\ CostFraction(t).den \in Nat
           /\ Uncovered(t) <=> CostFraction(t).den # 0
    <1>1. t \in Targets /\ input.cost[t] # Unknown /\ Price(t) >= 0
        BY HostsTyped DEF Coverable, Productive
    <1>2. /\ Price(t) \in Int /\ CostFraction(t).num = Price(t)
          /\ CostFraction(t).den = Cardinality(ServicesOf(t) \ covered)
          /\ CostFraction(t).den \in Nat
        BY <1>1, FractionTyped
    <1>3. IsFiniteSet(ServicesOf(t) \ covered)
        BY ValueAssumption, FS_Subset DEF ServicesOf
    <1>4. Cardinality(ServicesOf(t) \ covered) = 0 <=> ServicesOf(t) \ covered = {}
        BY <1>3, FS_EmptySet
    <1> QED
        BY <1>1, <1>2, <1>4 DEF Uncovered

(* A finite price per service is less than an infinite one, and nothing is  *)
(* greater than an infinity, or than 0/0.                                   *)
LEMMA FiniteIsLess ==
    ASSUME NEW a, NEW b, a.num \in Nat, b.num \in Nat, a.den \in Nat, b.den \in Nat
    PROVE  /\ a.den # 0 /\ b.den = 0 /\ b.num # 0 => Less(a, b)
           /\ a.den = 0 => ~Less(a, b)
    <1>1. a.den = 0 /\ b.den = 0 => ~Less(a, b)
        BY DEF Less
    <1>2. a.den = 0 /\ b.den # 0 => ~Less(a, b)
        BY DEF Less
    <1>3. ASSUME a.den # 0, b.den = 0, b.num # 0 PROVE Less(a, b)
        <2>1. a.num * b.den = 0 /\ b.num * a.den > 0
            BY <1>3
        <2> QED
            BY <1>3, <2>1 DEF Less
    <1> QED
        BY <1>1, <1>2, <1>3

(* The fraction of the target that the search starts with is not 0/0.       *)
LEMMA FirstIsNumber ==
    ASSUME Inv, Coverable, Productive, pc = "search",
           NEW t \in Hosts, IsFirst(t, Hosts)
    PROVE  CostFraction(t).num # 0 \/ CostFraction(t).den # 0
    <1>1. Price(t) > 0 \/ input.services \subseteq ServicesOf(t)
        BY DEF Productive
    <1>2. CASE Price(t) > 0
        BY <1>2, UncoveredFraction DEF Inv
    <1>3. CASE input.services \subseteq ServicesOf(t)
        <2>1. PICK s \in input.services : s \notin covered
            BY CountIsComplete, CoveredListed DEF Inv
        <2>2. Uncovered(t)
            BY <1>3, <2>1 DEF Uncovered
        <2> QED
            BY <2>2, UncoveredFraction DEF Inv
    <1> QED
        BY <1>1, <1>2, <1>3

LEMMA SearchInvStep == Inv /\ SearchInv /\ [Next]_vars => SearchInv'
    <1> SUFFICES ASSUME Inv, SearchInv, [Next]_vars,
                        Coverable', Productive', pc' = "search"
                 PROVE  /\ host' = NoTarget => min' = NoFraction /\ todo' = Hosts'
                        /\ host' # NoTarget => host' \in Hosts' /\ min' = CostFraction(host)'
                        /\ host' # NoTarget => min'.num # 0 \/ min'.den # 0
                        /\ (\E t \in Hosts' \ todo' : Uncovered(t)')
                                => host' # NoTarget /\ Uncovered(host)'
        BY DEF SearchInv
    <1>1. UNCHANGED input
        BY DEF Next, vars, OpenModels, FailToOpenModels, StartSearch, Finish, Consider,
               AbortOnTarget, Cover, AbortWithoutTargets
    <1>2. Coverable /\ Productive /\ Hosts' = Hosts
        BY <1>1 DEF Coverable, Productive, Hosts, Price, ServicesOf, IsFirst
    <1>3. CASE StartSearch
        BY <1>2, <1>3 DEF StartSearch, Hosts
    <1>4. ASSUME NEW t \in Targets, Consider(t)
          PROVE  /\ host' = NoTarget => min' = NoFraction /\ todo' = Hosts'
                 /\ host' # NoTarget => host' \in Hosts' /\ min' = CostFraction(host)'
                 /\ host' # NoTarget => min'.num # 0 \/ min'.den # 0
                 /\ (\E u \in Hosts' \ todo' : Uncovered(u)')
                        => host' # NoTarget /\ Uncovered(host)'
        <2>1. /\ pc = "search" /\ IsFirst(t, todo) /\ t \in todo /\ t \in Hosts /\ todo' = todo \ {t}
              /\ min' = (IF IsSmaller(t) THEN CostFraction(t) ELSE min)
              /\ host' = (IF IsSmaller(t) THEN t ELSE host)
              /\ UNCHANGED covered
            BY <1>4 DEF Consider, IsFirst, Inv
        <2>2. \A u : (Uncovered(u)' <=> Uncovered(u)) /\ CostFraction(u)' = CostFraction(u)
            BY <1>1, <2>1 DEF Uncovered, ServicesOf, CostFraction, Price
        <2>3. /\ CostFraction(t).num \in Nat /\ CostFraction(t).den \in Nat
              /\ Uncovered(t) <=> CostFraction(t).den # 0
            BY <1>2, <2>1, UncoveredFraction DEF Inv
        <2>4. t # NoTarget
            BY ValueAssumption
        <2>5. CASE host = NoTarget
            <3>1. IsSmaller(t)
                BY <1>2, <2>1, <2>5 DEF SearchInv, IsSmaller, IsNoFraction, NoFraction
            <3>2. \A u \in Hosts \ todo' : u = t
                BY <1>2, <2>1, <2>5 DEF SearchInv
            <3>3. CostFraction(t).num # 0 \/ CostFraction(t).den # 0
                BY <1>2, <2>1, <2>5, FirstIsNumber DEF SearchInv
            <3> QED
                BY <1>2, <2>1, <2>2, <2>4, <3>1, <3>2, <3>3
        <2>6. CASE host # NoTarget
            <3>1. /\ host \in Hosts /\ min = CostFraction(host)
                  /\ min.num # 0 \/ min.den # 0
                  /\ (\E u \in Hosts \ todo : Uncovered(u)) => Uncovered(host)
                BY <1>2, <2>1, <2>6 DEF SearchInv
            <3>2. /\ min.num \in Nat /\ min.den \in Nat
                  /\ Uncovered(host) <=> min.den # 0
                BY <1>2, <3>1, UncoveredFraction DEF Inv
            <3>3. IsSmaller(t) <=> Less(CostFraction(t), min)
                BY <3>2 DEF IsSmaller, IsNoFraction
            <3>4. Uncovered(t) /\ ~Uncovered(host) => IsSmaller(t)
                BY <2>3, <3>1, <3>2, <3>3, FiniteIsLess
            <3>5. IsSmaller(t) => Uncovered(t)
                BY <2>3, <3>2, <3>3, FiniteIsLess
            <3>6. Uncovered(host') <=> Uncovered(t) \/ Uncovered(host)
                BY <2>1, <3>4, <3>5
            <3>7. (\E u \in Hosts' \ todo' : Uncovered(u)') => Uncovered(t) \/ Uncovered(host)
                BY <1>2, <2>1, <2>2, <3>1
            <3>8. host' # NoTarget => min'.num # 0 \/ min'.den # 0
                BY <2>1, <2>3, <3>1, <3>5
            <3> QED
                BY <1>2, <2>1, <2>2, <2>4, <2>6, <3>1, <3>6, <3>7, <3>8
        <2> QED
            BY <2>5, <2>6
    <1>5. CASE UNCHANGED vars
        BY <1>1, <1>2, <1>5 DEF vars, SearchInv, Hosts, CostFraction, Price, ServicesOf, Uncovered
    <1> QED
        BY <1>3, <1>4, <1>5 DEF Next, OpenModels, FailToOpenModels, Finish, AbortOnTarget,
           Cover, AbortWithoutTargets

(* When the search is over, every target has been seen, and one of them     *)
(* hosts a service that is not covered.                                     *)
LEMMA RoundStep ==
    ASSUME Inv, SearchInv, [Next]_vars, Coverable, Productive, pc = "search", pc' = "cover"
    PROVE  covered' # covered
    <1>1. Cover
        BY DEF Next, vars, OpenModels, FailToOpenModels, StartSearch, Finish, Consider,
               AbortOnTarget, Cover, AbortWithoutTargets
    <1>2. todo = {} /\ covered' = covered \cup ServicesOf(host)
        BY <1>1 DEF Cover, Found
    <1>3. PICK s \in input.services : s \notin covered
        BY CountIsComplete, CoveredListed DEF Inv
    <1>4. PICK t \in Targets : t \in input.candidates[s]
        BY <1>3, InputTyped DEF Coverable, Inv
    <1>5. s \in Services /\ t \in Hosts /\ Uncovered(t)
        BY <1>3, <1>4, InputTyped DEF Hosts, Uncovered, ServicesOf, Inv
    <1>6. Uncovered(host)
        BY <1>2, <1>5 DEF SearchInv
    <1> QED
        BY <1>2, <1>6 DEF Uncovered

(* No round of the loop is in vain when the first machine has a price or    *)
(* hosts all services, so that it takes at most as many rounds as there are *)
(* services.                                                                *)
THEOREM RoundsCover == Spec => EveryRoundCovers
    <1>1. Init => SearchInv
        BY DEF Init, SearchInv
    <1>2. Inv /\ SearchInv /\ [Next]_vars =>
            [Coverable /\ Productive /\ pc = "search" /\ pc' = "cover" => covered' # covered]_vars
        BY RoundStep
    <1> QED
        BY <1>1, <1>2, InvInit, InvStep, SearchInvStep, PTL DEF Spec, EveryRoundCovers
-----------------------------------------------------------------------------
(* The sum of w over a set, as MapThenSumSet computes it: a function on the *)
(* subsets takes one element after another out.                             *)
SumStep(T, w, h) ==
    IF T = {} THEN 0
    ELSE w[CHOOSE x \in T : TRUE] + h[T \ {CHOOSE x \in T : TRUE}]

IsSum(D, w, h) == h = [T \in D |-> SumStep(T, w, h)]

Sum(S, w) == (CHOOSE h : IsSum(SUBSET S, w, h))[S]

Level(S, n) == {T \in SUBSET S : Cardinality(T) <= n}

(* The least element of a set of numbers. *)
LEMMA LeastExists ==
    ASSUME NEW D \in SUBSET Nat, D # {}
    PROVE  \E m \in D : \A n \in D : m <= n
    <1> DEFINE R == {ss \in Nat \X Nat : ss[1] < ss[2]}
    <1>1. IsWellFoundedOn(R, Nat)
        BY NatLessThanWellFounded, Zenon DEF OpToRel
    <1>2. PICK m \in D : \A n \in D : ~(<<n, m>> \in R)
        BY <1>1, WFMin
    <1>3. ASSUME NEW n \in D PROVE m <= n
        <2>1. m \in Nat /\ n \in Nat /\ ~(<<n, m>> \in R)
            BY <1>2
        <2>2. ~(n < m)
            BY <2>1
        <2> QED
            BY <2>1, <2>2
    <1> QED
        BY <1>3

(* Induction over the size of the subsets of a finite set. *)
LEMMA BySize ==
    ASSUME NEW S, IsFiniteSet(S), NEW Good \in SUBSET SUBSET S,
           \A T \in SUBSET S :
               (\A U \in SUBSET S : Cardinality(U) < Cardinality(T) => U \in Good) => T \in Good
    PROVE  \A T \in SUBSET S : T \in Good
    <1> DEFINE Bad == (SUBSET S) \ Good
               Sizes == {Cardinality(T) : T \in Bad}
    <1>1. \A T \in SUBSET S : Cardinality(T) \in Nat
        BY FS_Subset, FS_CardinalityType
    <1>2. SUFFICES ASSUME Bad # {} PROVE FALSE
        OBVIOUS
    <1>3. Sizes \in SUBSET Nat /\ Sizes # {}
        BY <1>1, <1>2
    <1>4. PICK m \in Sizes : \A n \in Sizes : m <= n
        BY <1>3, LeastExists
    <1>5. PICK T \in Bad : m = Cardinality(T)
        BY <1>4
    <1>6. ASSUME NEW U \in SUBSET S, Cardinality(U) < Cardinality(T) PROVE U \in Good
        <2>1. T \in SUBSET S /\ U \in SUBSET S
            OBVIOUS
        <2>2. Cardinality(T) \in Nat /\ Cardinality(U) \in Nat
            BY <1>1, <2>1, Zenon
        <2>3. ~(m <= Cardinality(U))
            BY <1>5, <1>6, <2>2
        <2>4. Cardinality(U) \notin Sizes
            BY <1>4, <2>3, Zenon
        <2> QED
            BY <2>1, <2>4, Zenon
    <1> QED
        BY <1>5, <1>6

(* Taking the chosen element out of a set that is not empty. *)
LEMMA Smaller ==
    ASSUME NEW S, IsFiniteSet(S), NEW T \in SUBSET S, NEW x \in T
    PROVE  /\ T \ {x} \in SUBSET S
           /\ Cardinality(T \ {x}) = Cardinality(T) - 1
           /\ Cardinality(T) \in Nat /\ Cardinality(T \ {x}) \in Nat
           /\ Cardinality(T \ {x}) < Cardinality(T)
    <1>1. IsFiniteSet(T) /\ IsFiniteSet(T \ {x})
        BY FS_Subset, FS_RemoveElement
    <1>2. Cardinality(T) \in Nat /\ Cardinality(T \ {x}) \in Nat
        BY <1>1, FS_CardinalityType
    <1>3. Cardinality(T \ {x}) = Cardinality(T) - 1
        BY <1>1, FS_RemoveElement
    <1> QED
        BY <1>2, <1>3

(* The recursion has a solution, level by level. *)
LEMMA PartialSums ==
    ASSUME NEW S, IsFiniteSet(S), NEW w
    PROVE  \A n \in Nat : \E h : IsSum(Level(S, n), w, h)
    <1> DEFINE Bad == {n \in Nat : ~\E h : IsSum(Level(S, n), w, h)}
    <1>1. SUFFICES ASSUME Bad # {} PROVE FALSE
        OBVIOUS
    <1>2. PICK m \in Bad : \A n \in Bad : m <= n
        BY <1>1, LeastExists
    <1>3. ASSUME NEW g, \A T \in Level(S, m) : T # {} => 
                            LET U == T \ {CHOOSE x \in T : TRUE}
                            IN  SumStep(U, w, g) = g[U] /\ U \in Level(S, m)
          PROVE  FALSE
        <2> DEFINE h == [T \in Level(S, m) |-> SumStep(T, w, g)]
        <2>1. ASSUME NEW T \in Level(S, m) PROVE SumStep(T, w, h) = SumStep(T, w, g)
            <3>1. CASE T = {}
                BY <3>1 DEF SumStep
            <3>2. CASE T # {}
                <4> DEFINE U == T \ {CHOOSE x \in T : TRUE}
                <4>1. SumStep(U, w, g) = g[U] /\ U \in Level(S, m)
                    BY <1>3, <3>2
                <4>2. h[U] = g[U]
                    BY <4>1
                <4> QED
                    BY <3>2, <4>2 DEF SumStep
            <3> QED
                BY <3>1, <3>2
        <2>2. h = [T \in Level(S, m) |-> SumStep(T, w, h)]
            BY <2>1
        <2>3. IsSum(Level(S, m), w, h)
            BY <2>2 DEF IsSum
        <2> HIDE DEF h
        <2> QED
            BY <1>2, <2>3
    <1>4. CASE m = 0
        <2>1. ASSUME NEW T \in Level(S, m) PROVE T = {}
            <3>1. T \in SUBSET S /\ Cardinality(T) <= 0
                BY <1>4 DEF Level
            <3>2. IsFiniteSet(T) /\ Cardinality(T) \in Nat
                BY <3>1, FS_Subset, FS_CardinalityType
            <3> QED
                BY <3>1, <3>2, FS_EmptySet
        <2> QED
            BY <1>3, <2>1
    <1>5. CASE m # 0
        <2>1. m - 1 \in Nat /\ m \in Nat
            BY <1>5
        <2>2. ~(m - 1 \in Bad)
            BY <1>2, <2>1
        <2>3. PICK g : IsSum(Level(S, m - 1), w, g)
            BY <2>1, <2>2
        <2>4. ASSUME NEW T \in Level(S, m), T # {}
              PROVE  LET U == T \ {CHOOSE x \in T : TRUE}
                     IN  SumStep(U, w, g) = g[U] /\ U \in Level(S, m)
            <3> DEFINE c == CHOOSE x \in T : TRUE
                       U == T \ {c}
            <3>1. c \in T /\ T \in SUBSET S /\ Cardinality(T) <= m
                BY <2>4 DEF Level
            <3> HIDE DEF c
            <3>2. /\ U \in SUBSET S /\ Cardinality(U) = Cardinality(T) - 1
                  /\ Cardinality(T) \in Nat /\ Cardinality(U) \in Nat
                BY <3>1, Smaller
            <3>3. U \in Level(S, m - 1) /\ U \in Level(S, m)
                BY <2>1, <3>1, <3>2 DEF Level
            <3>4. g[U] = SumStep(U, w, g)
                BY <2>3, <3>3, Zenon DEF IsSum
            <3> QED
                BY <3>3, <3>4 DEF c
        <2> QED
            BY <1>3, <2>4
    <1> QED
        BY <1>4, <1>5

(* So does the whole recursion, and a sum is a value of a solution. *)
LEMMA SumEquation ==
    ASSUME NEW S, IsFiniteSet(S), NEW w
    PROVE  \E h : IsSum(SUBSET S, w, h) /\ Sum(S, w) = h[S]
    <1>1. Cardinality(S) \in Nat
        BY FS_CardinalityType
    <1>2. Level(S, Cardinality(S)) = SUBSET S
        BY FS_Subset DEF Level
    <1>3. \E h : IsSum(SUBSET S, w, h)
        <2>1. \E h : IsSum(Level(S, Cardinality(S)), w, h)
            BY <1>1, PartialSums, Zenon
        <2> QED
            BY <1>2, <2>1, Zenon
    <1>4. IsSum(SUBSET S, w, CHOOSE h : IsSum(SUBSET S, w, h))
        BY <1>3
    <1> QED
        BY <1>4 DEF Sum

(* One step of the recursion. *)
LEMMA Recursion ==
    ASSUME NEW D, NEW w, NEW h, IsSum(D, w, h), NEW T \in D, T # {}
    PROVE  \E c \in T : c = (CHOOSE x \in T : TRUE) /\ h[T] = w[c] + h[T \ {c}]
    <1>1. h[T] = SumStep(T, w, h)
        BY Zenon DEF IsSum
    <1>2. (CHOOSE x \in T : TRUE) \in T
        OBVIOUS
    <1> QED
        BY <1>1, <1>2 DEF SumStep

LEMMA SumOfNothing ==
    ASSUME NEW D, NEW w, NEW h, IsSum(D, w, h), {} \in D
    PROVE  h[{}] = 0
    <1>1. h[{}] = SumStep({}, w, h)
        BY Zenon DEF IsSum
    <1> QED
        BY <1>1 DEF SumStep

(* Sums of integers are integers. *)
LEMMA SumIsInt ==
    ASSUME NEW S, IsFiniteSet(S), NEW w, \A x \in S : w[x] \in Int,
           NEW h, IsSum(SUBSET S, w, h)
    PROVE  \A T \in SUBSET S : h[T] \in Int
    <1> DEFINE Good == {T \in SUBSET S : h[T] \in Int}
    <1>1. ASSUME NEW T \in SUBSET S,
                 \A U \in SUBSET S : Cardinality(U) < Cardinality(T) => U \in Good
          PROVE  T \in Good
        <2>1. CASE T = {}
            BY <2>1, SumOfNothing
        <2>2. CASE T # {}
            <3>1. PICK c \in T : h[T] = w[c] + h[T \ {c}]
                BY <2>2, Recursion
            <3>2. T \ {c} \in Good
                BY <1>1, Smaller
            <3> QED
                BY <3>1, <3>2
        <2> QED
            BY <2>1, <2>2
    <1> HIDE DEF Good
    <1>2. Good \in SUBSET SUBSET S
        BY DEF Good
    <1>3. \A T \in SUBSET S : T \in Good
        BY <1>1, <1>2, BySize
    <1> QED
        BY <1>3 DEF Good

(* The sum does not depend on the set whose subsets the recursion is over.  *)
LEMMA SumsAgree ==
    ASSUME NEW R, NEW S \in SUBSET R, IsFiniteSet(S), NEW w,
           NEW g, IsSum(SUBSET S, w, g), NEW h, IsSum(SUBSET R, w, h)
    PROVE  g[S] = h[S]
    <1> DEFINE Good == {T \in SUBSET S : g[T] = h[T]}
    <1>1. ASSUME NEW T \in SUBSET S,
                 \A U \in SUBSET S : Cardinality(U) < Cardinality(T) => U \in Good
          PROVE  T \in Good
        <2>1. CASE T = {}
            BY <2>1, SumOfNothing
        <2>2. CASE T # {}
            <3>1. PICK c \in T : c = (CHOOSE x \in T : TRUE) /\ g[T] = w[c] + g[T \ {c}]
                BY <2>2, Recursion
            <3>2. T \in SUBSET R
                OBVIOUS
            <3>3. h[T] = w[c] + h[T \ {c}]
                <4>1. h[T] = SumStep(T, w, h)
                    BY <3>2, Zenon DEF IsSum
                <4> QED
                    BY <2>2, <3>1, <4>1 DEF SumStep
            <3>4. T \ {c} \in Good
                BY <1>1, Smaller
            <3> QED
                BY <3>1, <3>3, <3>4
        <2> QED
            BY <2>1, <2>2
    <1> HIDE DEF Good
    <1>2. Good \in SUBSET SUBSET S
        BY DEF Good
    <1>3. \A T \in SUBSET S : T \in Good
        BY <1>1, <1>2, BySize
    <1> QED
        BY <1>3 DEF Good

(* One more element adds its weight, whichever the recursion takes out.     *)
LEMMA SumAdds ==
    ASSUME NEW S, IsFiniteSet(S), NEW w, \A x \in S : w[x] \in Int,
           NEW h, IsSum(SUBSET S, w, h)
    PROVE  \A T \in SUBSET S : \A x \in T : h[T] = h[T \ {x}] + w[x]
    <1> DEFINE Good == {T \in SUBSET S : \A x \in T : h[T] = h[T \ {x}] + w[x]}
    <1>0. \A T \in SUBSET S : h[T] \in Int
        BY SumIsInt
    <1>1. ASSUME NEW T \in SUBSET S,
                 \A U \in SUBSET S : Cardinality(U) < Cardinality(T) => U \in Good
          PROVE  T \in Good
        <2> SUFFICES ASSUME NEW x \in T PROVE h[T] = h[T \ {x}] + w[x]
            OBVIOUS
        <2>1. PICK c \in T : c = (CHOOSE y \in T : TRUE) /\ h[T] = w[c] + h[T \ {c}]
            BY Recursion
        <2>2. w[c] \in Int /\ w[x] \in Int /\ h[T \ {c}] \in Int /\ h[T \ {x}] \in Int
            BY <1>0
        <2>3. CASE x = c
            BY <2>1, <2>2, <2>3
        <2>4. CASE x # c
            <3> DEFINE U == T \ {c, x}
            <3>1. (T \ {c}) \ {x} = U /\ (T \ {x}) \ {c} = U
                OBVIOUS
            <3>2. T \ {c} \in Good /\ T \ {x} \in Good
                BY <1>1, Smaller
            <3>3. x \in T \ {c} /\ c \in T \ {x}
                BY <2>4
            <3>4. h[T \ {c}] = h[U] + w[x] /\ h[T \ {x}] = h[U] + w[c]
                BY <3>1, <3>2, <3>3
            <3>5. h[U] \in Int
                BY <1>0
            <3> HIDE DEF U
            <3> QED
                BY <2>1, <2>2, <3>4, <3>5
        <2> QED
            BY <2>3, <2>4
    <1> HIDE DEF Good
    <1>2. Good \in SUBSET SUBSET S
        BY DEF Good
    <1>3. \A T \in SUBSET S : T \in Good
        BY <1>1, <1>2, BySize
    <1> QED
        BY <1>3 DEF Good

(* What is used of all this. *)
LEMMA SumEmpty == ASSUME NEW w PROVE Sum({}, w) = 0
    <1>1. PICK h : IsSum(SUBSET {}, w, h) /\ Sum({}, w) = h[{}]
        BY SumEquation, FS_EmptySet
    <1> QED
        BY <1>1, SumOfNothing

LEMMA SumTyped ==
    ASSUME NEW S, IsFiniteSet(S), NEW w, \A x \in S : w[x] \in Int
    PROVE  Sum(S, w) \in Int
    <1>1. PICK h : IsSum(SUBSET S, w, h) /\ Sum(S, w) = h[S]
        BY SumEquation
    <1> QED
        BY <1>1, SumIsInt

LEMMA SumAddsOne ==
    ASSUME NEW S, IsFiniteSet(S), NEW x, x \notin S, NEW w,
           \A y \in S \cup {x} : w[y] \in Int
    PROVE  Sum(S \cup {x}, w) = Sum(S, w) + w[x] /\ Sum(S, w) \in Int
    <1> DEFINE R == S \cup {x}
    <1>1. IsFiniteSet(R)
        BY FS_AddElement
    <1>2. R \ {x} = S /\ S \in SUBSET R /\ x \in R
        OBVIOUS
    <1> HIDE DEF R
    <1>3. PICK h : IsSum(SUBSET R, w, h) /\ Sum(R, w) = h[R]
        BY <1>1, SumEquation
    <1>4. PICK g : IsSum(SUBSET S, w, g) /\ Sum(S, w) = g[S]
        BY SumEquation
    <1>5. g[S] = h[S]
        BY <1>2, <1>3, <1>4, SumsAgree
    <1>6. \A y \in R : w[y] \in Int
        BY DEF R
    <1>7. h[R] = h[S] + w[x] /\ h[S] \in Int
        BY <1>1, <1>2, <1>3, <1>6, SumAdds, SumIsInt
    <1> QED
        BY <1>3, <1>4, <1>5, <1>7 DEF R

(* Induction over the growth of a finite set. *)
LEMMA ByGrowth ==
    ASSUME NEW S, IsFiniteSet(S), NEW Good \in SUBSET SUBSET S, {} \in Good,
           \A T \in Good : \A x \in S \ T : T \cup {x} \in Good
    PROVE  S \in Good
    <1>1. ASSUME NEW T \in SUBSET S,
                 \A U \in SUBSET S : Cardinality(U) < Cardinality(T) => U \in Good
          PROVE  T \in Good
        <2>1. CASE T = {}
            BY <2>1
        <2>2. CASE T # {}
            <3>1. PICK x \in T : TRUE
                BY <2>2
            <3>2. T \ {x} \in Good
                BY <1>1, Smaller
            <3>3. (T \ {x}) \cup {x} = T /\ x \in S \ (T \ {x})
                OBVIOUS
            <3> QED
                BY <3>2, <3>3
        <2> QED
            BY <2>1, <2>2
    <1>2. S \in SUBSET S
        OBVIOUS
    <1> QED
        BY <1>1, <1>2, BySize, Zenon

(* The sums of numbers over disjoint sets, and over sets that overlap.      *)
LEMMA SumOfUnion ==
    ASSUME NEW A, IsFiniteSet(A), NEW B, IsFiniteSet(B), A \cap B = {}, NEW w,
           \A x \in A \cup B : w[x] \in Int
    PROVE  Sum(A \cup B, w) = Sum(A, w) + Sum(B, w)
    <1> DEFINE Good == {T \in SUBSET B : Sum(A \cup T, w) = Sum(A, w) + Sum(T, w)}
    <1>1. {} \in Good
        <2>1. A \cup {} = A /\ Sum(A, w) \in Int
            BY SumTyped
        <2> QED
            BY <2>1, SumEmpty
    <1>2. ASSUME NEW T \in Good, NEW x \in B \ T PROVE T \cup {x} \in Good
        <2>1. IsFiniteSet(T) /\ IsFiniteSet(A \cup T)
            BY FS_Subset, FS_Union
        <2>2. x \notin T /\ x \notin A \cup T /\ A \cup (T \cup {x}) = (A \cup T) \cup {x}
            OBVIOUS
        <2>3. /\ Sum(T \cup {x}, w) = Sum(T, w) + w[x]
              /\ Sum(T, w) \in Int /\ Sum(A, w) \in Int /\ w[x] \in Int
            BY <2>1, <2>2, SumAddsOne, SumTyped
        <2>4. Sum((A \cup T) \cup {x}, w) = Sum(A \cup T, w) + w[x]
            BY <2>1, <2>2, SumAddsOne
        <2>5. Sum(A \cup T, w) = Sum(A, w) + Sum(T, w)
            OBVIOUS
        <2>6. Sum(A \cup (T \cup {x}), w) = Sum((A \cup T) \cup {x}, w)
            BY <2>2
        <2>7. Sum(A \cup (T \cup {x}), w) = Sum(A, w) + Sum(T \cup {x}, w)
            BY <2>3, <2>4, <2>5, <2>6
        <2> QED
            BY <2>7
    <1> HIDE DEF Good
    <1>3. Good \in SUBSET SUBSET B
        BY DEF Good
    <1>4. B \in Good
        BY <1>1, <1>2, <1>3, ByGrowth
    <1> QED
        BY <1>4 DEF Good

LEMMA SumIsMonotone ==
    ASSUME NEW S, IsFiniteSet(S), NEW w, NEW v,
           \A x \in S : w[x] \in Int /\ v[x] \in Int /\ w[x] <= v[x]
    PROVE  Sum(S, w) <= Sum(S, v)
    <1> DEFINE Good == {T \in SUBSET S : Sum(T, w) <= Sum(T, v)}
    <1>1. {} \in Good
        BY SumEmpty
    <1>2. ASSUME NEW T \in Good, NEW x \in S \ T PROVE T \cup {x} \in Good
        <2>1. IsFiniteSet(T)
            BY FS_Subset
        <2>2. Sum(T \cup {x}, w) = Sum(T, w) + w[x] /\ Sum(T, w) \in Int
            BY <2>1, SumAddsOne
        <2>3. Sum(T \cup {x}, v) = Sum(T, v) + v[x] /\ Sum(T, v) \in Int
            BY <2>1, SumAddsOne
        <2> QED
            BY <2>2, <2>3
    <1> HIDE DEF Good
    <1>3. Good \in SUBSET SUBSET S
        BY DEF Good
    <1>4. S \in Good
        BY <1>1, <1>2, <1>3, ByGrowth
    <1> QED
        BY <1>4 DEF Good

LEMMA SumOfConstant ==
    ASSUME NEW S, IsFiniteSet(S), NEW c \in Int, NEW w, \A x \in S : w[x] = c
    PROVE  Sum(S, w) = Cardinality(S) * c
    <1> DEFINE Good == {T \in SUBSET S : Sum(T, w) = Cardinality(T) * c}
    <1>1. {} \in Good
        BY SumEmpty, FS_EmptySet
    <1>2. ASSUME NEW T \in Good, NEW x \in S \ T PROVE T \cup {x} \in Good
        <2>1. IsFiniteSet(T) /\ Cardinality(T) \in Nat
            BY FS_Subset, FS_CardinalityType
        <2>2. Sum(T \cup {x}, w) = Sum(T, w) + c
            <3>1. x \notin T /\ w[x] = c /\ \A y \in T \cup {x} : w[y] \in Int
                OBVIOUS
            <3> QED
                BY <2>1, <3>1, SumAddsOne
        <2>3. Cardinality(T \cup {x}) = Cardinality(T) + 1
            BY <2>1, FS_AddElement
        <2>4. (Cardinality(T) + 1) * c = Cardinality(T) * c + c
            BY <2>1
        <2> QED
            BY <2>2, <2>3, <2>4
    <1> HIDE DEF Good
    <1>3. Good \in SUBSET SUBSET S
        BY DEF Good
    <1>4. S \in Good
        BY <1>1, <1>2, <1>3, ByGrowth
    <1> QED
        BY <1>4 DEF Good

LEMMA SumIsNat ==
    ASSUME NEW S, IsFiniteSet(S), NEW w, \A x \in S : w[x] \in Nat
    PROVE  Sum(S, w) \in Nat
    <1> DEFINE zero == [x \in S |-> 0]
    <1>1. Sum(S, zero) = Cardinality(S) * 0 /\ Cardinality(S) \in Nat
        BY SumOfConstant, FS_CardinalityType
    <1>2. Sum(S, zero) <= Sum(S, w)
        BY SumIsMonotone
    <1>3. Sum(S, w) \in Int
        BY SumTyped
    <1> QED
        BY <1>1, <1>2, <1>3

LEMMA SumOfLarger ==
    ASSUME NEW A, NEW B \in SUBSET A, IsFiniteSet(A), NEW w, \A x \in A : w[x] \in Nat
    PROVE  Sum(B, w) <= Sum(A, w)
    <1>1. IsFiniteSet(B) /\ IsFiniteSet(A \ B) /\ B \cap (A \ B) = {} /\ A = B \cup (A \ B)
        BY FS_Subset
    <1>2. Sum(B, w) \in Nat /\ Sum(A \ B, w) \in Nat
        BY <1>1, SumIsNat
    <1>3. Sum(B \cup (A \ B), w) = Sum(B, w) + Sum(A \ B, w)
        BY <1>1, SumOfUnion
    <1>4. Sum(A, w) = Sum(B \cup (A \ B), w)
        BY <1>1
    <1> QED
        BY <1>2, <1>3, <1>4

LEMMA SumOfOverlap ==
    ASSUME NEW A, IsFiniteSet(A), NEW B, IsFiniteSet(B), NEW w,
           \A x \in A \cup B : w[x] \in Nat
    PROVE  Sum(A \cup B, w) <= Sum(A, w) + Sum(B, w)
    <1>1. IsFiniteSet(B \ A) /\ A \cap (B \ A) = {} /\ A \cup B = A \cup (B \ A)
        BY FS_Subset
    <1>2. Sum(A \cup (B \ A), w) = Sum(A, w) + Sum(B \ A, w)
        BY <1>1, SumOfUnion
    <1>3. Sum(B \ A, w) <= Sum(B, w)
        BY SumOfLarger
    <1>4. Sum(A, w) \in Nat /\ Sum(B, w) \in Nat /\ Sum(B \ A, w) \in Nat
        BY <1>1, SumIsNat
    <1>5. Sum(A \cup B, w) = Sum(A \cup (B \ A), w)
        BY <1>1
    <1> QED
        BY <1>2, <1>3, <1>4, <1>5

(* The numbers of two functions that agree. *)
LEMMA SumOfSame ==
    ASSUME NEW S, IsFiniteSet(S), NEW w, NEW v, \A x \in S : w[x] \in Int /\ w[x] = v[x]
    PROVE  Sum(S, w) = Sum(S, v)
    <1>1. Sum(S, w) <= Sum(S, v) /\ Sum(S, v) <= Sum(S, w)
        BY SumIsMonotone
    <1>2. Sum(S, w) \in Int /\ Sum(S, v) \in Int
        BY SumTyped
    <1> QED
        BY <1>1, <1>2
-----------------------------------------------------------------------------
(* Arithmetic. *)
LEMMA TimesMonotone ==
    ASSUME NEW a \in Int, NEW b \in Int, a <= b, NEW k \in Nat
    PROVE  a * k <= b * k /\ a * k \in Int /\ b * k \in Int
    <1>1. (b - a) * k >= 0
        <2>1. b - a \in Nat
            OBVIOUS
        <2>2. \A x \in Nat : x * k \in Nat
            OBVIOUS
        <2> QED
            BY <2>1, <2>2
    <1>2. (b - a) * k = b * k - a * k
        OBVIOUS
    <1> QED
        BY <1>1, <1>2

LEMMA Cancel ==
    ASSUME NEW a \in Int, NEW b \in Int, NEW k \in Nat \ {0}, a * k <= b * k
    PROVE  a <= b
    <1> SUFFICES ASSUME b < a PROVE FALSE
        OBVIOUS
    <1>1. (b + 1) * k <= a * k
        BY TimesMonotone
    <1>2. (b + 1) * k = b * k + k
        OBVIOUS
    <1>3. a * k \in Int /\ b * k \in Int
        OBVIOUS
    <1> QED
        BY <1>1, <1>2, <1>3

LEMMA FractionsChain ==
    ASSUME NEW p \in Nat, NEW q \in Nat, NEW r \in Nat,
           NEW d \in Nat \ {0}, NEW e \in Nat, NEW f \in Nat,
           p * e <= q * d, r * d <= p * f
    PROVE  r * e <= q * f
    <1>1. (r * d) * e <= (p * f) * e
        BY TimesMonotone
    <1>2. (p * e) * f <= (q * d) * f
        BY TimesMonotone
    <1>3. (r * e) * d = (r * d) * e /\ (p * f) * e = (p * e) * f /\ (q * d) * f = (q * f) * d
        OBVIOUS
    <1>4. (r * e) * d <= (q * f) * d
        <2>1. \A x, y, z \in Int : x <= y /\ y <= z => x <= z
            OBVIOUS
        <2>2. (r * d) * e \in Int /\ (p * f) * e \in Int /\ (q * d) * f \in Int
            OBVIOUS
        <2> QED
            BY <1>1, <1>2, <1>3, <2>1, <2>2
    <1>5. r * e \in Int /\ q * f \in Int
        OBVIOUS
    <1> QED
        BY <1>4, <1>5, Cancel

LEMMA Divided ==
    ASSUME NEW m \in Nat, NEW k \in Nat \ {0}, m % k = 0
    PROVE  m \div k \in Nat /\ (m \div k) * k = m
    OBVIOUS

(* The folds of MinSetCover are sums. *)
LEMMA TotalPriceIsSum ==
    ASSUME NEW T, IsFiniteSet(T), NEW w, \A t \in T : w[t] = Price(t)
    PROVE  TotalPrice(T) = Sum(T, w)
    <1> DEFINE Fold(h) == h = [U \in SUBSET T |->
                                  IF U = {} THEN 0
                                  ELSE Price(CHOOSE x \in U : TRUE)
                                         + h[U \ {CHOOSE x \in U : TRUE}]]
    <1>1. ASSUME NEW h PROVE Fold(h) <=> IsSum(SUBSET T, w, h)
        <2>1. ASSUME NEW U \in SUBSET T, U # {}
              PROVE  w[CHOOSE x \in U : TRUE] = Price(CHOOSE x \in U : TRUE)
            <3>1. (CHOOSE x \in U : TRUE) \in T
                BY <2>1
            <3> QED
                BY <3>1
        <2>2. ASSUME NEW U \in SUBSET T
              PROVE  SumStep(U, w, h) = IF U = {} THEN 0
                                        ELSE Price(CHOOSE x \in U : TRUE)
                                               + h[U \ {CHOOSE x \in U : TRUE}]
            BY <2>1 DEF SumStep
        <2> QED
            BY <2>2, Zenon DEF IsSum
    <1>2. TotalPrice(T) = (CHOOSE h : Fold(h))[T]
        BY SMT DEF TotalPrice, MapThenSumSet, MapThenFoldSet
    <1> HIDE DEF Fold
    <1>3. PICK g : IsSum(SUBSET T, w, g) /\ Sum(T, w) = g[T]
        BY SumEquation
    <1>4. Fold(CHOOSE h : Fold(h))
        BY <1>1, <1>3
    <1>5. IsSum(SUBSET T, w, CHOOSE h : Fold(h))
        BY <1>1, <1>4
    <1>6. T \in SUBSET T
        OBVIOUS
    <1>7. g[T] = (CHOOSE h : Fold(h))[T]
        BY <1>3, <1>5, <1>6, SumsAgree
    <1> QED
        BY <1>2, <1>3, <1>7

LEMMA AllowancesAreSum ==
    ASSUME NEW T, IsFiniteSet(T), NEW w, \A t \in T : w[t] = Allowance(t)
    PROVE  MapThenSumSet(Allowance, T) = Sum(T, w)
    <1> DEFINE Fold(h) == h = [U \in SUBSET T |->
                                  IF U = {} THEN 0
                                  ELSE Allowance(CHOOSE x \in U : TRUE)
                                         + h[U \ {CHOOSE x \in U : TRUE}]]
    <1>1. ASSUME NEW h PROVE Fold(h) <=> IsSum(SUBSET T, w, h)
        <2>1. ASSUME NEW U \in SUBSET T, U # {}
              PROVE  w[CHOOSE x \in U : TRUE] = Allowance(CHOOSE x \in U : TRUE)
            <3>1. (CHOOSE x \in U : TRUE) \in T
                BY <2>1
            <3> QED
                BY <3>1
        <2>2. ASSUME NEW U \in SUBSET T
              PROVE  SumStep(U, w, h) = IF U = {} THEN 0
                                        ELSE Allowance(CHOOSE x \in U : TRUE)
                                               + h[U \ {CHOOSE x \in U : TRUE}]
            BY <2>1 DEF SumStep
        <2> QED
            BY <2>2, Zenon DEF IsSum
    <1>2. MapThenSumSet(Allowance, T) = (CHOOSE h : Fold(h))[T]
        BY SMT DEF MapThenSumSet, MapThenFoldSet
    <1> HIDE DEF Fold
    <1>3. PICK g : IsSum(SUBSET T, w, g) /\ Sum(T, w) = g[T]
        BY SumEquation
    <1>4. Fold(CHOOSE h : Fold(h))
        BY <1>1, <1>3
    <1>5. IsSum(SUBSET T, w, CHOOSE h : Fold(h))
        BY <1>1, <1>4
    <1>6. T \in SUBSET T
        OBVIOUS
    <1>7. g[T] = (CHOOSE h : Fold(h))[T]
        BY <1>3, <1>5, <1>6, SumsAgree
    <1> QED
        BY <1>2, <1>3, <1>7

LEMMA HarmonicIsSum ==
    ASSUME NEW n \in Nat, NEW w, \A k \in 1 .. n : w[k] = Part(k)
    PROVE  Harmonic(n) = Sum(1 .. n, w)
    <1> DEFINE S == 1 .. n
               Fold(h) == h = [U \in SUBSET S |->
                                  IF U = {} THEN 0
                                  ELSE Part(CHOOSE x \in U : TRUE)
                                         + h[U \ {CHOOSE x \in U : TRUE}]]
    <1>2. Harmonic(n) = (CHOOSE h : Fold(h))[S]
        BY SMT DEF Harmonic, MapThenSumSet, MapThenFoldSet
    <1>0. IsFiniteSet(S) /\ \A k \in S : w[k] = Part(k)
        BY FS_Interval
    <1> HIDE DEF S
    <1>1. ASSUME NEW h PROVE Fold(h) <=> IsSum(SUBSET S, w, h)
        <2>1. ASSUME NEW U \in SUBSET S, U # {}
              PROVE  w[CHOOSE x \in U : TRUE] = Part(CHOOSE x \in U : TRUE)
            <3>1. (CHOOSE x \in U : TRUE) \in S
                BY <2>1
            <3> QED
                BY <1>0, <3>1
        <2>2. ASSUME NEW U \in SUBSET S
              PROVE  SumStep(U, w, h) = IF U = {} THEN 0
                                        ELSE Part(CHOOSE x \in U : TRUE)
                                               + h[U \ {CHOOSE x \in U : TRUE}]
            BY <2>1 DEF SumStep
        <2> QED
            BY <2>2, Zenon DEF IsSum
    <1> HIDE DEF Fold
    <1>3. PICK g : IsSum(SUBSET S, w, g) /\ Sum(S, w) = g[S]
        BY <1>0, SumEquation
    <1>4. Fold(CHOOSE h : Fold(h))
        BY <1>1, <1>3
    <1>5. IsSum(SUBSET S, w, CHOOSE h : Fold(h))
        BY <1>1, <1>4
    <1>6. S \in SUBSET S
        OBVIOUS
    <1>7. g[S] = (CHOOSE h : Fold(h))[S]
        BY <1>0, <1>3, <1>5, <1>6, SumsAgree
    <1> QED
        BY <1>2, <1>3, <1>7 DEF S

-----------------------------------------------------------------------------
(* Harmonic numbers. *)
LEMMA PartTyped ==
    ASSUME NEW k \in 1 .. Cardinality(Services)
    PROVE  Part(k) \in Nat /\ Part(k) * k = Multiple
    <1>1. k \in Nat \ {0} /\ Multiple \in Nat /\ Multiple % k = 0
        BY MultipleAssumption
    <1> QED
        BY <1>1, Divided DEF Part

LEMMA PartIsMonotone ==
    ASSUME NEW k \in 1 .. Cardinality(Services), NEW j \in 1 .. k
    PROVE  Part(k) <= Part(j)
    <1>0. Cardinality(Services) \in Nat
        BY SizeTyped
    <1>1. j \in 1 .. Cardinality(Services) /\ j \in Nat \ {0} /\ k \in Nat /\ j <= k
        BY <1>0
    <1>2. /\ Part(k) \in Nat /\ Part(k) * k = Multiple
          /\ Part(j) \in Nat /\ Part(j) * j = Multiple
        BY <1>1, PartTyped
    <1>3. j * Part(k) <= k * Part(k)
        BY <1>1, <1>2, TimesMonotone
    <1>4. j * Part(k) = Part(k) * j /\ k * Part(k) = Part(k) * k
        BY <1>1, <1>2
    <1>5. Part(k) * j <= Part(j) * j
        BY <1>2, <1>3, <1>4
    <1> QED
        BY <1>1, <1>2, <1>5, Cancel

(* The last c terms of a harmonic number are at least c times the last one. *)
LEMMA HarmonicGrows ==
    ASSUME NEW n \in 1 .. Cardinality(Services), NEW m \in 0 .. n
    PROVE  /\ Harmonic(m) \in Nat /\ Harmonic(n) \in Nat
           /\ Harmonic(m) + (n - m) * Part(n) <= Harmonic(n)
    <1> DEFINE w == [k \in 1 .. n |-> Part(k)]
               v == [k \in (m + 1) .. n |-> Part(n)]
    <1>0. Cardinality(Services) \in Nat
        BY SizeTyped
    <1>1. n \in Nat /\ m \in Nat /\ m <= n /\ Part(n) \in Nat
        BY <1>0, PartTyped
    <1>2. /\ IsFiniteSet(1 .. m) /\ IsFiniteSet((m + 1) .. n) /\ IsFiniteSet(1 .. n)
          /\ Cardinality((m + 1) .. n) = n - m
        <2>1. m + 1 \in Int /\ n \in Int /\ m \in Int /\ 1 \in Int
            BY <1>1
        <2>2. IsFiniteSet(1 .. m) /\ IsFiniteSet((m + 1) .. n) /\ IsFiniteSet(1 .. n)
            BY <2>1, FS_Interval
        <2>3. Cardinality((m + 1) .. n) = IF m + 1 > n THEN 0 ELSE n - (m + 1) + 1
            BY <2>1, FS_Interval
        <2> QED
            BY <1>1, <2>2, <2>3
    <1>3. \A k \in 1 .. n : Part(k) \in Nat
        BY <1>0, <1>1, PartTyped
    <1>4. (1 .. m) \cup ((m + 1) .. n) = 1 .. n /\ (1 .. m) \cap ((m + 1) .. n) = {}
        BY <1>1
    <1>5. \A k \in 1 .. n : w[k] = Part(k) /\ w[k] \in Nat
        BY <1>3
    <1>6. \A k \in (m + 1) .. n : v[k] = Part(n) /\ v[k] <= w[k] /\ v[k] \in Nat
        BY <1>1, <1>3, PartIsMonotone
    <1> HIDE DEF w, v
    <1>7. Harmonic(n) = Sum(1 .. n, w) /\ Harmonic(m) = Sum(1 .. m, w)
        BY <1>1, <1>5, HarmonicIsSum
    <1>8. Sum(1 .. n, w) = Sum(1 .. m, w) + Sum((m + 1) .. n, w)
        BY <1>2, <1>4, <1>5, SumOfUnion
    <1>9. Sum((m + 1) .. n, v) = (n - m) * Part(n)
        <2>1. Part(n) \in Int /\ \A k \in (m + 1) .. n : v[k] = Part(n)
            BY <1>1, <1>6
        <2> HIDE DEF v
        <2>2. Sum((m + 1) .. n, v) = Cardinality((m + 1) .. n) * Part(n)
            BY <1>2, <2>1, SumOfConstant
        <2> QED
            BY <1>2, <2>2
    <1>10. Sum((m + 1) .. n, v) <= Sum((m + 1) .. n, w)
        BY <1>1, <1>2, <1>5, <1>6, SumIsMonotone
    <1>11. /\ Sum(1 .. n, w) \in Nat /\ Sum(1 .. m, w) \in Nat
           /\ Sum((m + 1) .. n, w) \in Nat /\ Sum((m + 1) .. n, v) \in Nat
        BY <1>1, <1>2, <1>5, <1>6, SumIsNat
    <1> QED
        BY <1>7, <1>8, <1>9, <1>10, <1>11

LEMMA HarmonicTyped ==
    ASSUME NEW n \in 0 .. Cardinality(Services)
    PROVE  Harmonic(n) \in Nat
    <1> DEFINE w == [k \in 1 .. n |-> Part(k)]
    <1>1. n \in Nat /\ Cardinality(Services) \in Nat
        BY SizeTyped
    <1>2. \A k \in 1 .. n : w[k] = Part(k) /\ w[k] \in Nat
        BY <1>1, PartTyped
    <1>3. Harmonic(n) = Sum(1 .. n, w)
        BY <1>1, <1>2, HarmonicIsSum
    <1>4. IsFiniteSet(1 .. n)
        BY <1>1, FS_Interval
    <1> HIDE DEF w
    <1>5. Sum(1 .. n, w) \in Nat
        BY <1>2, <1>4, SumIsNat
    <1> QED
        BY <1>3, <1>5

-----------------------------------------------------------------------------
(* The search picks a target whose price per service that is not covered    *)
(* yet is the least, unless it holds on to one without a price and without  *)
(* such services, whose fraction is not a number.                           *)
Rest(t, C) == Cardinality(ServicesOf(t) \ C)

IsCheapest(h, t) ==
    \/ Price(h) = 0 /\ ~Uncovered(h)
    \/ Uncovered(h) /\ Price(h) * Rest(t, covered) <= Price(t) * Rest(h, covered)

MinInv ==
    Affordable /\ pc = "search" =>
        /\ host = NoTarget => min = NoFraction /\ todo = Hosts
        /\ host # NoTarget => /\ host \in Hosts /\ min = CostFraction(host)
                              /\ \A t \in Hosts \ todo : Uncovered(t) => IsCheapest(host, t)

LEMMA AffordableTyped ==
    ASSUME input \in Inputs, Affordable, NEW t \in Hosts
    PROVE  t \in Targets /\ input.cost[t] # Unknown /\ Price(t) \in Nat
    <1>1. t \in Targets /\ input.cost[t] # Unknown /\ Price(t) >= 0
        BY HostsTyped DEF Affordable
    <1>2. Price(t) \in Int
        BY <1>1, FractionTyped
    <1> QED
        BY <1>1, <1>2

LEMMA RestTyped ==
    ASSUME NEW t, NEW C
    PROVE  /\ Rest(t, C) \in 0 .. Cardinality(Services)
           /\ Rest(t, C) = 0 <=> ServicesOf(t) \ C = {}
    <1>1. ServicesOf(t) \ C \in SUBSET Services
        BY DEF ServicesOf
    <1>2. IsFiniteSet(ServicesOf(t) \ C) /\ Rest(t, C) <= Cardinality(Services)
        BY <1>1, ValueAssumption, FS_Subset DEF Rest
    <1>3. Rest(t, C) \in Nat /\ Cardinality(Services) \in Nat
        BY <1>1, SizeTyped DEF Rest
    <1>4. Rest(t, C) = 0 <=> ServicesOf(t) \ C = {}
        BY <1>2, FS_EmptySet DEF Rest
    <1> QED
        BY <1>2, <1>3, <1>4

(* A smaller fraction takes the place of the one that the search holds.     *)
LEMMA SmallerFraction ==
    ASSUME input \in Inputs, Affordable, NEW h \in Hosts, NEW t \in Hosts, min = CostFraction(h)
    PROVE  /\ IsSmaller(t) => Price(t) * Rest(h, covered) < Price(h) * Rest(t, covered)
           /\ ~IsSmaller(t) /\ Uncovered(t) =>
                  Price(h) * Rest(t, covered) <= Price(t) * Rest(h, covered)
    <1>1. /\ Price(h) \in Nat /\ Price(t) \in Nat
          /\ Rest(h, covered) \in Nat /\ Rest(t, covered) \in Nat
          /\ Uncovered(t) <=> Rest(t, covered) # 0
        BY AffordableTyped, RestTyped, SizeTyped DEF Uncovered
    <1>2. /\ CostFraction(t).num = Price(t) /\ CostFraction(t).den = Rest(t, covered)
          /\ min.num = Price(h) /\ min.den = Rest(h, covered)
        BY AffordableTyped, FractionTyped DEF Rest
    <1>3. ~IsNoFraction(min)
        BY <1>1, <1>2 DEF IsNoFraction
    <1>4. IsSmaller(t) <=> Less(CostFraction(t), min)
        BY <1>3 DEF IsSmaller
    <1>5. /\ Price(t) * Rest(h, covered) \in Nat
          /\ Price(h) * Rest(t, covered) \in Nat
        BY <1>1
    <1>6. Less(CostFraction(t), min) <=>
              IF Rest(t, covered) = 0 /\ Rest(h, covered) = 0
              THEN Price(t) < 0 /\ Price(h) > 0
              ELSE Price(t) * Rest(h, covered) < Price(h) * Rest(t, covered)
        BY <1>2 DEF Less
    <1> HIDE DEF Rest, Price
    <1> QED
        BY <1>1, <1>4, <1>5, <1>6

LEMMA MinInvStep == Inv /\ MinInv /\ [Next]_vars => MinInv'
    <1> SUFFICES ASSUME Inv, MinInv, [Next]_vars, Affordable', pc' = "search"
                 PROVE  /\ host' = NoTarget => min' = NoFraction /\ todo' = Hosts'
                        /\ host' # NoTarget =>
                              /\ host' \in Hosts' /\ min' = CostFraction(host)'
                              /\ \A t \in Hosts' \ todo' :
                                    Uncovered(t)' => IsCheapest(host, t)'
        BY DEF MinInv
    <1>1. UNCHANGED input
        BY DEF Next, vars, OpenModels, FailToOpenModels, StartSearch, Finish, Consider,
               AbortOnTarget, Cover, AbortWithoutTargets
    <1>2. Affordable /\ Hosts' = Hosts
        BY <1>1 DEF Affordable, Hosts, Price
    <1>3. CASE StartSearch
        BY <1>2, <1>3 DEF StartSearch, Hosts
    <1>4. ASSUME NEW t \in Targets, Consider(t)
          PROVE  /\ host' = NoTarget => min' = NoFraction /\ todo' = Hosts'
                 /\ host' # NoTarget =>
                       /\ host' \in Hosts' /\ min' = CostFraction(host)'
                       /\ \A v \in Hosts' \ todo' : Uncovered(v)' => IsCheapest(host, v)'
        <2>1. /\ pc = "search" /\ t \in todo /\ t \in Hosts /\ todo' = todo \ {t}
              /\ min' = (IF IsSmaller(t) THEN CostFraction(t) ELSE min)
              /\ host' = (IF IsSmaller(t) THEN t ELSE host)
              /\ UNCHANGED covered
            BY <1>4 DEF Consider, IsFirst, Inv
        <2>2. \A v : /\ Uncovered(v)' <=> Uncovered(v)
                     /\ CostFraction(v)' = CostFraction(v)
                     /\ IsCheapest(host, v)' <=> IsCheapest(host', v)
            BY <1>1, <2>1 DEF Uncovered, ServicesOf, CostFraction, Price, Rest, IsCheapest
        <2>3. t # NoTarget
            BY ValueAssumption
        <2>4. CostFraction(host)' = CostFraction(host')
            BY <1>1, <2>1 DEF CostFraction, ServicesOf, Price
        <2>5. ASSUME NEW h \in Hosts, Price(h) \in Nat, Rest(h, covered) \in Nat, Uncovered(h)
              PROVE  IsCheapest(h, h)
            BY <2>5 DEF IsCheapest
        <2>6. /\ Price(t) \in Nat /\ Rest(t, covered) \in Nat
              /\ Uncovered(t) <=> Rest(t, covered) # 0
            BY <1>2, <2>1, AffordableTyped, RestTyped, SizeTyped DEF Uncovered, Inv
        <2>7. CASE host = NoTarget
            <3>1. IsSmaller(t)
                BY <1>2, <2>1, <2>7 DEF MinInv, IsSmaller, IsNoFraction, NoFraction
            <3>2. \A v \in Hosts \ todo' : v = t
                BY <1>2, <2>1, <2>7 DEF MinInv
            <3>3. host' = t /\ min' = CostFraction(t)
                BY <2>1, <3>1
            <3> QED
                BY <1>2, <2>1, <2>2, <2>3, <2>4, <2>5, <2>6, <3>2, <3>3
        <2>8. CASE host # NoTarget
            <3>1. /\ host \in Hosts /\ min = CostFraction(host)
                  /\ \A v \in Hosts \ todo : Uncovered(v) => IsCheapest(host, v)
                BY <1>2, <2>1, <2>8 DEF MinInv
            <3>2. /\ Price(host) \in Nat /\ Rest(host, covered) \in Nat
                  /\ Uncovered(host) <=> Rest(host, covered) # 0
                BY <1>2, <3>1, AffordableTyped, RestTyped, SizeTyped DEF Uncovered, Inv
            <3>3. CASE IsSmaller(t)
                <4>1. host' = t /\ min' = CostFraction(t)
                    BY <2>1, <3>3
                <4>2. Price(t) * Rest(host, covered) < Price(host) * Rest(t, covered)
                    BY <1>2, <2>1, <3>1, <3>3, SmallerFraction DEF Inv
                <4>3. /\ Price(t) * Rest(host, covered) \in Nat
                      /\ Price(host) # 0 /\ Rest(t, covered) # 0
                    BY <2>6, <3>2, <4>2
                <4>4. ASSUME NEW v \in Hosts \ todo', Uncovered(v) PROVE IsCheapest(t, v)
                    <5>1. CASE v = t
                        BY <2>1, <2>5, <2>6, <4>3, <5>1
                    <5>2. CASE v # t
                        <6>1. v \in Hosts \ todo
                            BY <2>1, <5>2
                        <6>2. /\ Uncovered(host)
                              /\ Price(host) * Rest(v, covered) <= Price(v) * Rest(host, covered)
                            BY <3>1, <4>3, <4>4, <6>1 DEF IsCheapest
                        <6>3. Price(v) \in Nat /\ Rest(v, covered) \in Nat
                            BY <1>2, <6>1, AffordableTyped, RestTyped, SizeTyped DEF Inv
                        <6>4. Price(t) * Rest(host, covered) <= Price(host) * Rest(t, covered)
                            BY <2>6, <3>2, <4>2
                        <6>5. Rest(host, covered) \in Nat \ {0}
                            BY <3>2, <6>2
                        <6>6. Price(t) * Rest(v, covered) <= Price(v) * Rest(t, covered)
                            BY <2>6, <3>2, <6>2, <6>3, <6>4, <6>5, FractionsChain
                        <6> QED
                            BY <2>6, <4>3, <6>6 DEF IsCheapest
                    <5> QED
                        BY <5>1, <5>2
                <4> QED
                    BY <1>2, <2>1, <2>2, <2>3, <2>4, <4>1, <4>4
            <3>4. CASE ~IsSmaller(t)
                <4>1. host' = host /\ min' = min
                    BY <2>1, <3>4
                <4>2. ASSUME Uncovered(t) PROVE IsCheapest(host, t)
                    <5>1. Price(host) * Rest(t, covered) <= Price(t) * Rest(host, covered)
                        BY <1>2, <2>1, <3>1, <3>4, <4>2, SmallerFraction DEF Inv
                    <5>2. CASE Uncovered(host)
                        BY <5>1, <5>2 DEF IsCheapest
                    <5>3. CASE ~Uncovered(host)
                        <6>1. Price(host) * Rest(t, covered) <= 0 /\ Rest(t, covered) # 0
                            BY <2>6, <3>2, <4>2, <5>1, <5>3
                        <6>2. Price(host) = 0
                            BY <2>6, <3>2, <6>1
                        <6> QED
                            BY <5>3, <6>2 DEF IsCheapest
                    <5> QED
                        BY <5>2, <5>3
                <4>3. \A v \in Hosts \ todo' : v = t \/ v \in Hosts \ todo
                    BY <2>1
                <4> QED
                    BY <1>2, <2>1, <2>2, <2>4, <2>8, <3>1, <4>1, <4>2, <4>3
            <3> QED
                BY <3>3, <3>4
        <2> QED
            BY <2>7, <2>8
    <1>5. CASE UNCHANGED vars
        BY <1>1, <1>2, <1>5 DEF vars, MinInv, Hosts, CostFraction, Price, ServicesOf, Uncovered,
           IsCheapest, Rest
    <1> QED
        BY <1>3, <1>4, <1>5 DEF Next, OpenModels, FailToOpenModels, Finish, AbortOnTarget,
           Cover, AbortWithoutTargets

-----------------------------------------------------------------------------
(* The price of every target that is used is charged to the services that   *)
(* it was picked for, in equal parts.  All services that a target can host  *)
(* are charged no more than its own price times a harmonic number: the one  *)
(* that is covered first no more than an equal share of that price, as      *)
(* otherwise this target would have been cheaper, the next one no more than *)
(* an equal share among the others, and so on.                              *)
Prices == [t \in Targets |-> Price(t)]

Charged(C, r, y) ==
    /\ Multiple * Sum({r[s] : s \in C}, Prices) <= Sum(C, y)
    /\ \A t \in Hosts :
           Sum(ServicesOf(t) \cap C, y)
               <= Price(t) * (Harmonic(Rest(t, {})) - Harmonic(Rest(t, C)))

ChargeInv ==
    Affordable =>
        /\ \A s \in covered : result[s] \in Hosts
        /\ \E y \in [Services -> Nat] : Charged(covered, result, y)

LEMMA PerService ==
    ASSUME NEW p \in Nat, NEW q \in Nat, NEW a \in Nat, NEW b \in Nat,
           NEW d \in Nat \ {0}, NEW u \in Nat, p * u <= q * d, a * d = b * u
    PROVE  p * a <= q * b
    <1>1. (p * u) * b <= (q * d) * b
        BY TimesMonotone
    <1>2. (p * a) * d = p * (a * d) /\ p * (b * u) = (p * u) * b /\ (q * d) * b = (q * b) * d
        OBVIOUS
    <1>3. (p * a) * d <= (q * b) * d
        BY <1>1, <1>2
    <1>4. p * a \in Int /\ q * b \in Int
        OBVIOUS
    <1> QED
        BY <1>3, <1>4, Cancel

(* The share that the services of h are charged is no more than an equal    *)
(* share of the price of t, and so the harmonic numbers pay for it.         *)
LEMMA ShareIsPaid ==
    ASSUME NEW p \in Nat, NEW q \in Nat,
           NEW d \in 1 .. Cardinality(Services), NEW u \in 1 .. Cardinality(Services),
           NEW c \in 0 .. u, p * u <= q * d
    PROVE  c * (p * Part(d)) <= q * (Harmonic(u) - Harmonic(u - c))
    <1>0. Cardinality(Services) \in Nat
        BY SizeTyped
    <1>1. /\ d \in Nat \ {0} /\ u \in Nat \ {0} /\ c \in Nat
          /\ Part(d) \in Nat /\ Part(u) \in Nat /\ Part(d) * d = Part(u) * u
        BY <1>0, PartTyped
    <1>2. p * Part(d) <= q * Part(u) /\ p * Part(d) \in Nat /\ q * Part(u) \in Nat
        BY <1>1, PerService
    <1>3. u - c \in 0 .. u /\ u - (u - c) = c
        BY <1>1
    <1>4. /\ Harmonic(u - c) \in Nat /\ Harmonic(u) \in Nat
          /\ Harmonic(u - c) + c * Part(u) <= Harmonic(u)
        BY <1>3, HarmonicGrows
    <1> DEFINE g == Harmonic(u) - Harmonic(u - c)
    <1>5. c * Part(u) <= g /\ g \in Int /\ c * Part(u) \in Nat
        BY <1>1, <1>4
    <1> HIDE DEF g
    <1>6. (c * Part(u)) * q <= g * q
        BY <1>5, TimesMonotone
    <1>7. (p * Part(d)) * c <= (q * Part(u)) * c
        BY <1>1, <1>2, TimesMonotone
    <1>8. /\ (p * Part(d)) * c = c * (p * Part(d)) /\ (q * Part(u)) * c = (c * Part(u)) * q
          /\ g * q = q * g
        BY <1>1, <1>2, <1>5
    <1>9. c * (p * Part(d)) \in Int /\ (c * Part(u)) * q \in Int /\ q * g \in Int
        BY <1>1, <1>2, <1>5
    <1>10. c * (p * Part(d)) <= q * g
        BY <1>6, <1>7, <1>8, <1>9
    <1> QED
        BY <1>10 DEF g

(* One more target is picked, h, for those of its services that are not yet *)
(* covered.                                                                 *)
LEMMA ChargeMore ==
    ASSUME input \in Inputs, Affordable,
           NEW C \in SUBSET Services, NEW r, \A s \in C : r[s] \in Hosts,
           NEW y \in [Services -> Nat], Charged(C, r, y),
           NEW h \in Hosts, ServicesOf(h) \ C # {},
           \A t \in Hosts : ServicesOf(t) \ C # {} =>
                                Price(h) * Rest(t, C) <= Price(t) * Rest(h, C),
           NEW q, \A s \in C : q[s] = r[s], \A s \in ServicesOf(h) \ C : q[s] = h
    PROVE  \E z \in [Services -> Nat] : Charged(C \cup ServicesOf(h), q, z)
    <1> DEFINE N == ServicesOf(h) \ C
               D == C \cup ServicesOf(h)
               d == Rest(h, C)
               x == Price(h) * Part(d)
               z == [s \in Services |-> IF s \in N THEN x ELSE y[s]]
    <1>1. /\ h \in Targets /\ Price(h) \in Nat /\ Cardinality(Services) \in Nat
          /\ N \in SUBSET Services /\ D \in SUBSET Services
          /\ D = C \cup N /\ C \cap N = {} /\ N # {}
        BY AffordableTyped, SizeTyped DEF ServicesOf
    <1>2. IsFiniteSet(C) /\ IsFiniteSet(N) /\ IsFiniteSet(D)
        BY <1>1, ValueAssumption, FS_Subset
    <1>3. d \in 1 .. Cardinality(Services) /\ d = Cardinality(N) /\ d \in Nat
        BY <1>1, RestTyped DEF Rest
    <1>4. Part(d) \in Nat /\ Part(d) * d = Multiple /\ Multiple \in Nat
        BY <1>3, PartTyped, MultipleAssumption
    <1>5. x \in Nat /\ d * x = Multiple * Price(h)
        <2>1. d * (Price(h) * Part(d)) = (Part(d) * d) * Price(h)
            BY <1>1, <1>3, <1>4
        <2> QED
            BY <1>1, <1>4, <2>1
    <1>6. z \in [Services -> Nat] /\ (\A s \in N : z[s] = x) /\ \A s \in C : z[s] = y[s]
        BY <1>1, <1>5
    <1> HIDE DEF N, D, d, x, z
    <1>7. Multiple * Sum({q[s] : s \in D}, Prices) <= Sum(D, z)
        <2> DEFINE Old == {r[s] : s \in C}
                   New == {q[s] : s \in D}
        <2>1. New = Old \cup {h}
            <3>1. \A s \in D : q[s] \in Old \cup {h}
                BY <1>1 DEF N
            <3>2. \A s \in C : r[s] \in New
                BY <1>1
            <3>3. h \in New
                BY <1>1 DEF N
            <3> QED
                BY <3>1, <3>2, <3>3
        <2>2. Old \in SUBSET Hosts /\ Hosts \in SUBSET Targets
            BY HostsTyped
        <2> HIDE DEF Old, New
        <2>3. IsFiniteSet(Old)
            BY <2>2, ValueAssumption, FS_Subset
        <2>4. \A t \in Hosts : Prices[t] \in Nat
            BY AffordableTyped DEF Prices
        <2>5. IsFiniteSet({h}) /\ Sum({h}, Prices) = Price(h)
            <3>1. {h} = {} \cup {h} /\ h \notin {} /\ IsFiniteSet({}) /\ Prices[h] \in Int
                BY <2>4, FS_EmptySet
            <3>2. Sum({} \cup {h}, Prices) = Sum({}, Prices) + Prices[h]
                BY <3>1, SumAddsOne
            <3>3. Prices[h] = Price(h) /\ Sum({}, Prices) = 0
                BY <1>1, SumEmpty DEF Prices
            <3>4. Sum({h}, Prices) = Sum({} \cup {h}, Prices)
                BY <3>1
            <3>5. Sum({h}, Prices) = Price(h)
                BY <1>1, <3>2, <3>3, <3>4
            <3>6. IsFiniteSet({h})
                BY FS_Singleton
            <3> QED
                BY <3>5, <3>6
        <2>6. Sum(Old \cup {h}, Prices) <= Sum(Old, Prices) + Sum({h}, Prices)
            BY <2>2, <2>3, <2>4, <2>5, SumOfOverlap
        <2>7. Sum(Old, Prices) \in Nat /\ Sum(Old \cup {h}, Prices) \in Nat
            <3>1. IsFiniteSet(Old \cup {h}) /\ \A t \in Old \cup {h} : Prices[t] \in Nat
                BY <2>2, <2>3, <2>4, FS_AddElement
            <3> QED
                BY <2>2, <2>3, <2>4, <3>1, SumIsNat
        <2> DEFINE a == Sum(Old, Prices)
                   b == Sum(Old \cup {h}, Prices)
        <2>8. a \in Nat /\ b \in Nat /\ b <= a + Price(h)
            BY <2>5, <2>6, <2>7
        <2>9. Sum(New, Prices) = b
            BY <2>1
        <2> HIDE DEF a, b
        <2>10. b * Multiple <= (a + Price(h)) * Multiple
            BY <1>1, <1>4, <2>8, TimesMonotone
        <2>11. Multiple * b <= Multiple * a + Multiple * Price(h)
            BY <1>1, <1>4, <2>8, <2>10
        <2>12. Multiple * a <= Sum(C, y)
            BY DEF Charged, Old, a
        <2>13. Sum(D, z) = Sum(C, z) + Sum(N, z)
            BY <1>1, <1>2, <1>6, SumOfUnion
        <2>14. Sum(C, z) = Sum(C, y) /\ Sum(C, y) \in Nat
            <3>1. \A s \in C : z[s] \in Int /\ y[s] \in Nat /\ z[s] = y[s]
                BY <1>6
            <3> QED
                BY <1>2, <3>1, SumOfSame, SumIsNat
        <2>15. Sum(N, z) = d * x
            BY <1>2, <1>3, <1>5, <1>6, SumOfConstant
        <2>16. Multiple * a \in Nat /\ Multiple * b \in Nat /\ Multiple * Price(h) \in Nat
            BY <1>1, <1>4, <2>8
        <2>17. Multiple * b <= Sum(D, z)
            BY <1>5, <2>11, <2>12, <2>13, <2>14, <2>15, <2>16
        <2>18. Multiple * Sum(New, Prices) <= Sum(D, z)
            BY <2>9, <2>17
        <2> QED
            BY <2>18 DEF New
    <1>8. ASSUME NEW t \in Hosts
          PROVE  Sum(ServicesOf(t) \cap D, z)
                     <= Price(t) * (Harmonic(Rest(t, {})) - Harmonic(Rest(t, D)))
        <2> DEFINE B == ServicesOf(t) \cap C
                   M == ServicesOf(t) \cap N
                   c == Cardinality(M)
                   u == Rest(t, C)
                   H0 == Harmonic(Rest(t, {}))
        <2>1. /\ Price(t) \in Nat /\ ServicesOf(t) \in SUBSET Services
              /\ Rest(t, {}) \in 0 .. Cardinality(Services) /\ u \in 0 .. Cardinality(Services)
              /\ u \in Nat
            BY <1>1, AffordableTyped, RestTyped DEF ServicesOf
        <2>2. /\ ServicesOf(t) \cap D = B \cup M /\ B \cap M = {}
              /\ ServicesOf(t) \ D = (ServicesOf(t) \ C) \ M /\ M \in SUBSET (ServicesOf(t) \ C)
            BY <1>1 DEF N
        <2>3. IsFiniteSet(B) /\ IsFiniteSet(M) /\ IsFiniteSet(ServicesOf(t) \ C)
            BY <2>1, ValueAssumption, FS_Subset
        <2>4. c \in 0 .. u /\ Rest(t, D) = u - c
            <3>1. c \in Nat /\ c <= u
                BY <2>2, <2>3, FS_Subset, FS_CardinalityType DEF Rest
            <3>2. (ServicesOf(t) \ C) \cap M = M
                BY <2>2
            <3>3. Cardinality((ServicesOf(t) \ C) \ M) = u - Cardinality((ServicesOf(t) \ C) \cap M)
                BY <2>3, FS_Difference DEF Rest
            <3>4. Cardinality((ServicesOf(t) \ C) \cap M) = c
                BY <3>2
            <3>5. Rest(t, D) = Cardinality((ServicesOf(t) \ C) \ M)
                BY <2>2 DEF Rest
            <3> HIDE DEF c, u
            <3> QED
                BY <2>1, <3>1, <3>3, <3>4, <3>5
        <2>5. Sum(ServicesOf(t) \cap D, z) = Sum(B, y) + c * x
            <3>1. (\A s \in B \cup M : z[s] \in Int) /\ \A s \in M : z[s] = x
                BY <1>1, <1>6
            <3>2. \A s \in B : z[s] \in Int /\ z[s] = y[s]
                BY <1>6, <3>1
            <3> HIDE DEF B, M
            <3>3. Sum(B \cup M, z) = Sum(B, z) + Sum(M, z)
                BY <2>2, <2>3, <3>1, SumOfUnion
            <3>4. Sum(B, z) = Sum(B, y)
                BY <2>3, <3>2, SumOfSame
            <3>5. Sum(M, z) = c * x
                BY <1>5, <2>3, <3>1, SumOfConstant
            <3>6. Sum(ServicesOf(t) \cap D, z) = Sum(B \cup M, z)
                BY <2>2
            <3> QED
                BY <3>3, <3>4, <3>5, <3>6
        <2>6. Sum(B, y) \in Nat /\ Sum(B, y) <= Price(t) * (H0 - Harmonic(u))
            <3>1. \A s \in B : y[s] \in Nat
                BY <1>1
            <3>2. Sum(B, y) \in Nat
                BY <2>3, <3>1, SumIsNat
            <3> QED
                BY <3>2 DEF Charged
        <2>7. H0 \in Nat /\ Harmonic(u) \in Nat /\ Harmonic(u - c) \in Nat
            <3>1. u - c \in 0 .. Cardinality(Services)
                BY <1>1, <2>1, <2>4
            <3> QED
                BY <2>1, <3>1, HarmonicTyped
        <2>8. c * x <= Price(t) * (Harmonic(u) - Harmonic(u - c))
            <3>1. CASE u = 0
                <4>1. c = 0 /\ u - c = u
                    BY <2>4, <3>1
                <4>2. Harmonic(u) - Harmonic(u - c) = 0
                    BY <2>7, <4>1
                <4> QED
                    BY <1>5, <2>1, <4>1, <4>2
            <3>2. CASE u # 0
                <4>1. u \in 1 .. Cardinality(Services) /\ ServicesOf(t) \ C # {}
                    BY <2>1, <3>2, RestTyped
                <4>2. Price(h) * u <= Price(t) * d
                    BY <4>1 DEF d
                <4> HIDE DEF u, c
                <4>3. c * (Price(h) * Part(d)) <= Price(t) * (Harmonic(u) - Harmonic(u - c))
                    BY <1>1, <1>3, <2>1, <2>4, <4>1, <4>2, ShareIsPaid
                <4> QED
                    BY <4>3 DEF x
            <3> QED
                BY <3>1, <3>2
        <2> HIDE DEF B, M, c, u, H0
        <2>9. Price(t) * (H0 - Harmonic(u)) + Price(t) * (Harmonic(u) - Harmonic(u - c))
                  = Price(t) * (H0 - Harmonic(u - c))
            BY <2>1, <2>7
        <2>10. /\ Price(t) * (H0 - Harmonic(u)) \in Int
               /\ Price(t) * (Harmonic(u) - Harmonic(u - c)) \in Int /\ c * x \in Int
            BY <1>5, <2>1, <2>4, <2>7
        <2>11. Sum(B, y) + c * x <= Price(t) * (H0 - Harmonic(u - c))
            BY <2>6, <2>8, <2>9, <2>10
        <2> QED
            BY <2>4, <2>5, <2>11 DEF H0
    <1>9. Charged(D, q, z)
        BY <1>7, <1>8 DEF Charged
    <1> QED
        BY <1>6, <1>9 DEF D

(* A round that covers something charges it; one that does not changes nothing. *)
LEMMA ChargeInvStep == Inv /\ MinInv /\ ChargeInv /\ [Next]_vars => ChargeInv'
    <1> SUFFICES ASSUME Inv, MinInv, ChargeInv, [Next]_vars, Affordable'
                 PROVE  /\ \A s \in covered' : result'[s] \in Hosts'
                        /\ \E y \in [Services -> Nat] : Charged(covered, result, y)'
        BY DEF ChargeInv
    <1>1. UNCHANGED input
        BY DEF Next, vars, OpenModels, FailToOpenModels, StartSearch, Finish, Consider,
               AbortOnTarget, Cover, AbortWithoutTargets
    <1>2. Affordable /\ Hosts' = Hosts
        BY <1>1 DEF Affordable, Hosts, Price
    <1>3. ASSUME NEW y PROVE Charged(covered, result, y)' <=> Charged(covered', result', y)
        BY <1>1, <1>2 DEF Charged, Prices, Price, ServicesOf, Rest
    <1>4. PICK y \in [Services -> Nat] : Charged(covered, result, y)
        BY <1>2 DEF ChargeInv
    <1>5. \A s \in covered : result[s] \in Hosts
        BY <1>2 DEF ChargeInv
    <1>6. CASE Cover
        <2>1. /\ pc = "search" /\ todo = {} /\ host \in Hosts
              /\ \A t \in Hosts : Uncovered(t) => IsCheapest(host, t)
            BY <1>2, <1>6 DEF Cover, Found, MinInv
        <2>2. /\ covered \in SUBSET Services /\ input \in Inputs
              /\ covered' = covered \cup ServicesOf(host)
              /\ \A s \in covered : result'[s] = result[s]
              /\ \A s \in ServicesOf(host) \ covered : result'[s] = host
            BY <1>6 DEF Cover, Inv, TypeOK, ServicesOf
        <2>3. \A s \in covered' : result'[s] \in Hosts'
            BY <1>2, <1>5, <2>1, <2>2
        <2>4. CASE Uncovered(host)
            <3>1. \A t \in Hosts : ServicesOf(t) \ covered # {} =>
                      Price(host) * Rest(t, covered) <= Price(t) * Rest(host, covered)
                BY <2>1, <2>4 DEF IsCheapest, Uncovered
            <3>2. \E z \in [Services -> Nat] :
                      Charged(covered \cup ServicesOf(host), result', z)
                BY <1>2, <1>4, <1>5, <2>1, <2>2, <2>4, <3>1, ChargeMore DEF Uncovered
            <3> QED
                BY <1>3, <2>2, <2>3, <3>2
        <2>5. CASE ~Uncovered(host)
            <3>1. covered' = covered /\ result' = result
                BY <1>6, <2>2, <2>5 DEF Uncovered, Cover, Inv, TypeOK
            <3> QED
                BY <1>3, <1>4, <2>3, <3>1
        <2> QED
            BY <2>4, <2>5
    <1>7. CASE UNCHANGED <<covered, result>>
        BY <1>2, <1>3, <1>4, <1>5, <1>7
    <1> QED
        BY <1>6, <1>7 DEF Next, vars, OpenModels, FailToOpenModels, StartSearch, Finish, Consider,
           AbortOnTarget, AbortWithoutTargets

LEMMA ChargeInvInit == Init => MinInv /\ ChargeInv
    <1> SUFFICES ASSUME Init, Affordable
                 PROVE  \E y \in [Services -> Nat] : Charged({}, result, y)
        BY DEF Init, MinInv, ChargeInv
    <1> DEFINE y == [s \in Services |-> 0]
    <1>1. Multiple * Sum({result[s] : s \in {}}, Prices) <= Sum({}, y)
        <2>1. {result[s] : s \in {}} = {}
            OBVIOUS
        <2>2. Sum({result[s] : s \in {}}, Prices) = Sum({}, Prices)
            BY <2>1
        <2>3. Sum({}, Prices) = 0 /\ Sum({}, y) = 0
            BY SumEmpty
        <2> QED
            BY <2>2, <2>3, MultipleAssumption
    <1>2. ASSUME NEW t \in Hosts
          PROVE  Sum(ServicesOf(t) \cap {}, y)
                     <= Price(t) * (Harmonic(Rest(t, {})) - Harmonic(Rest(t, {})))
        <2>1. ServicesOf(t) \cap {} = {} /\ Price(t) \in Nat
            BY AffordableTyped DEF Init
        <2>2. Harmonic(Rest(t, {})) \in Nat
            BY RestTyped, HarmonicTyped
        <2>3. Harmonic(Rest(t, {})) - Harmonic(Rest(t, {})) = 0
            BY <2>2
        <2>4. Sum(ServicesOf(t) \cap {}, y) = 0
            BY <2>1, SumEmpty
        <2> QED
            BY <2>1, <2>3, <2>4
    <1>3. y \in [Services -> Nat]
        OBVIOUS
    <1> QED
        BY <1>1, <1>2, <1>3 DEF Charged

(* The program succeeds only when all services are covered. *)
OkInv == status = "ok" => AllCovered

LEMMA OkInvStep == Inv /\ OkInv /\ [Next]_vars => OkInv'
    BY DEF Inv, TypeOK, OkInv, AllCovered, Next, vars, OpenModels, FailToOpenModels, StartSearch,
           Finish, Consider, AbortOnTarget, Cover, Found, AbortWithoutTargets

(* What the services are charged together is at most the sum of what the    *)
(* services of each target of a cover are charged.                          *)
LEMMA ChargesOfCover ==
    ASSUME NEW T, IsFiniteSet(T), NEW C \in SUBSET Services, NEW y \in [Services -> Nat],
           NEW w, \A t \in T : w[t] = Sum(ServicesOf(t) \cap C, y)
    PROVE  Sum(UNION {ServicesOf(t) \cap C : t \in T}, y) <= Sum(T, w)
    <1> DEFINE K(U) == UNION {ServicesOf(t) \cap C : t \in U}
               Good == {U \in SUBSET T : Sum(K(U), y) <= Sum(U, w)}
    <1>1. {} \in Good
        <2>1. K({}) = {}
            OBVIOUS
        <2> QED
            BY <2>1, SumEmpty
    <1>2. \A t \in T : w[t] \in Nat
        <2> SUFFICES ASSUME NEW t \in T PROVE w[t] \in Nat
            OBVIOUS
        <2>1. IsFiniteSet(ServicesOf(t) \cap C)
            BY ValueAssumption, FS_Subset
        <2>2. \A s \in ServicesOf(t) \cap C : y[s] \in Nat
            OBVIOUS
        <2> QED
            BY <2>1, <2>2, SumIsNat
    <1>3. ASSUME NEW U \in Good, NEW x \in T \ U PROVE U \cup {x} \in Good
        <2> DEFINE B == ServicesOf(x) \cap C
        <2>1. K(U \cup {x}) = K(U) \cup B
            OBVIOUS
        <2>2. K(U) \in SUBSET Services /\ B \in SUBSET Services
            OBVIOUS
        <2>3. Sum(K(U), y) <= Sum(U, w) /\ U \in SUBSET T
            OBVIOUS
        <2>4. IsFiniteSet(U) /\ x \notin U
            BY FS_Subset
        <2> HIDE DEF K
        <2>5. IsFiniteSet(K(U)) /\ IsFiniteSet(B)
            BY <2>2, ValueAssumption, FS_Subset
        <2>6. \A s \in K(U) \cup B : y[s] \in Nat
            BY <2>2
        <2> HIDE DEF B
        <2>7. Sum(K(U) \cup B, y) <= Sum(K(U), y) + Sum(B, y)
            BY <2>5, <2>6, SumOfOverlap
        <2>8. \A t \in U \cup {x} : w[t] \in Int
            BY <1>2, <2>3
        <2>9. Sum(U \cup {x}, w) = Sum(U, w) + w[x] /\ Sum(U, w) \in Int
            BY <2>4, <2>8, SumAddsOne
        <2>10. w[x] = Sum(B, y)
            BY DEF B
        <2>11. Sum(K(U), y) \in Nat /\ Sum(B, y) \in Nat
            BY <2>5, <2>6, SumIsNat
        <2>12. IsFiniteSet(K(U) \cup B)
            BY <2>5, FS_Union
        <2>13. Sum(K(U) \cup B, y) \in Nat
            BY <2>6, <2>12, SumIsNat
        <2>14. Sum(K(U) \cup B, y) <= Sum(U \cup {x}, w)
            BY <2>3, <2>7, <2>9, <2>10, <2>11, <2>13
        <2>15. Sum(K(U \cup {x}), y) = Sum(K(U) \cup B, y)
            BY <2>1
        <2> QED
            BY <2>14, <2>15
    <1> HIDE DEF Good
    <1>4. Good \in SUBSET SUBSET T
        BY DEF Good
    <1>5. T \in Good
        BY <1>1, <1>3, <1>4, ByGrowth
    <1> QED
        BY <1>5 DEF Good

(* When all services are covered, every service of a target of the cover is. *)
LEMMA BoundReached == Inv /\ ChargeInv /\ OkInv => WithinHarmonicBound
    <1> SUFFICES ASSUME Inv, ChargeInv, OkInv, status = "ok", Affordable,
                        NEW T \in SUBSET Hosts, IsCover(T)
                 PROVE  Multiple * TotalPrice({result[s] : s \in input.services})
                            <= MapThenSumSet(Allowance, T)
        BY DEF WithinHarmonicBound
    <1> DEFINE C == input.services
               Used == {result[s] : s \in C}
    <1>1. covered = C /\ C \in SUBSET Services /\ input \in Inputs
        BY CountIsComplete, InputTyped DEF OkInv, Inv
    <1>2. PICK y \in [Services -> Nat] : Charged(C, result, y)
        BY <1>1 DEF ChargeInv
    <1>3. Used \in SUBSET Hosts /\ Hosts \in SUBSET Targets
        BY <1>1, HostsTyped DEF ChargeInv
    <1>4. IsFiniteSet(Used) /\ IsFiniteSet(T) /\ IsFiniteSet(C)
        BY <1>1, <1>3, ValueAssumption, FS_Subset
    <1>5. TotalPrice(Used) = Sum(Used, Prices)
        BY <1>3, <1>4, TotalPriceIsSum DEF Prices
    <1>6. Multiple * Sum(Used, Prices) <= Sum(C, y)
        BY <1>2 DEF Charged
    <1> DEFINE v == [t \in T |-> Sum(ServicesOf(t) \cap C, y)]
               a == [t \in T |-> Allowance(t)]
               K == UNION {ServicesOf(t) \cap C : t \in T}
    <1>7. K = C
        <2>1. ASSUME NEW s \in C PROVE s \in K
            <3>1. PICK t \in T : t \in input.candidates[s]
                BY <2>1 DEF IsCover
            <3>2. s \in ServicesOf(t) \cap C
                BY <1>1, <2>1, <3>1 DEF ServicesOf
            <3> QED
                BY <3>2
        <2> QED
            BY <2>1
    <1>8. Sum(K, y) <= Sum(T, v)
        BY <1>1, <1>4, ChargesOfCover
    <1>9. ASSUME NEW t \in T PROVE v[t] \in Int /\ a[t] \in Int /\ v[t] <= a[t]
        <2>1. /\ t \in Hosts /\ Price(t) \in Nat
              /\ Rest(t, {}) \in 0 .. Cardinality(Services)
              /\ Rest(t, {}) = Cardinality(ServicesOf(t))
            <3>1. ServicesOf(t) \ {} = ServicesOf(t)
                OBVIOUS
            <3> QED
                BY <1>1, <3>1, AffordableTyped, RestTyped DEF Rest
        <2>2. ServicesOf(t) \ C = {} /\ IsFiniteSet(ServicesOf(t) \cap C)
            BY <1>1, <1>4, InputTyped, FS_Subset DEF ServicesOf
        <2>3. Rest(t, C) = 0
            BY <2>2, RestTyped
        <2>4. Harmonic(Rest(t, {})) \in Nat /\ Harmonic(0) \in Nat
            <3>1. 0 \in 0 .. Cardinality(Services)
                BY SizeTyped
            <3> QED
                BY <2>1, <3>1, HarmonicTyped
        <2> DEFINE H == Harmonic(Rest(t, {}))
                   Z == Harmonic(0)
        <2>5. Sum(ServicesOf(t) \cap C, y) <= Price(t) * (H - Z)
            BY <1>2, <2>1, <2>3 DEF Charged
        <2>6. H \in Nat /\ Z \in Nat /\ Allowance(t) = Price(t) * H
            BY <2>1, <2>4 DEF Allowance
        <2> HIDE DEF H, Z
        <2>7. Price(t) * (H - Z) = Price(t) * H - Price(t) * Z
            BY <2>1, <2>6
        <2>8. Price(t) * Z \in Nat /\ Price(t) * H \in Nat
            BY <2>1, <2>6
        <2>9. Sum(ServicesOf(t) \cap C, y) \in Nat
            <3>1. \A s \in ServicesOf(t) \cap C : y[s] \in Nat
                BY <1>1
            <3> QED
                BY <2>2, <3>1, SumIsNat
        <2> QED
            BY <2>5, <2>6, <2>7, <2>8, <2>9
    <1> HIDE DEF v
    <1>10. Sum(T, v) <= Sum(T, a)
        BY <1>4, <1>9, SumIsMonotone
    <1>11. MapThenSumSet(Allowance, T) = Sum(T, a)
        BY <1>4, AllowancesAreSum
    <1>12. /\ Multiple * Sum(Used, Prices) \in Nat /\ Sum(C, y) \in Nat
           /\ Sum(T, v) \in Int /\ Sum(T, a) \in Int
        <2>1. \A t \in Used : Prices[t] \in Nat
            BY <1>1, <1>3, AffordableTyped DEF Prices
        <2>2. Sum(Used, Prices) \in Nat
            BY <1>4, <2>1, SumIsNat
        <2>3. Sum(C, y) \in Nat
            BY <1>1, <1>4, SumIsNat
        <2> HIDE DEF a, Used
        <2>4. Sum(T, v) \in Int /\ Sum(T, a) \in Int
            BY <1>4, <1>9, SumTyped
        <2> QED
            BY <2>2, <2>3, <2>4, MultipleAssumption
    <1>13. Sum(K, y) = Sum(C, y)
        BY <1>7
    <1> HIDE DEF C, Used, K, a
    <1>14. Multiple * TotalPrice(Used) <= MapThenSumSet(Allowance, T)
        BY <1>5, <1>6, <1>8, <1>10, <1>11, <1>12, <1>13
    <1> QED
        BY <1>14 DEF C, Used

(* The guarantee of the greedy approximation, for all models, prices and    *)
(* covers to compare with: the targets that the program uses cost at most   *)
(* as much as those of any cover, each times a harmonic number.             *)
THEOREM HarmonicGuarantee == Spec => []WithinHarmonicBound
    <1> DEFINE AllInv == Inv /\ MinInv /\ ChargeInv /\ OkInv
    <1>1. Init => AllInv
        BY InvInit, ChargeInvInit DEF Init, OkInv
    <1>2. AllInv /\ [Next]_vars => AllInv'
        BY InvStep, MinInvStep, ChargeInvStep, OkInvStep
    <1>3. AllInv => WithinHarmonicBound
        BY BoundReached
    <1> QED
        BY <1>1, <1>2, <1>3, PTL DEF Spec
=============================================================================
