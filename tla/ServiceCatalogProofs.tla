------------------------ MODULE ServiceCatalogProofs ------------------------
(***************************************************************************)
(* Proofs about module ServiceCatalog: the grouped table is the quotient   *)
(* of the queried one after every visit, in any order; no edge dangles;    *)
(* and every link of a populated catalog leads to a page.                  *)
(***************************************************************************)
EXTENDS ServiceCatalog, SequenceTheorems, WellFoundedInduction, TLAPS

Ind(b) == IF b THEN 1 ELSE 0

(* No service depends on itself, and on another one at most once. *)
Simple(table) ==
    \A s \in Services, k \in Kinds :
        table[s][k][s] = 0 /\ \A n \in Names : table[s][k][n] \in {0, 1}

SimpleInv ==
    /\ pc \in {"dependencies", "context"} => Simple(deps)
    /\ pc = "group" => Simple(given)

(* Before the context is added, only the group itself has dependencies. *)
QueriedInv ==
    /\ pc = "dependencies" => ~Documents /\ \A s \in Services \ queried : deps[s] = NoEdges
    /\ pc = "group" /\ ~Merges =>
          todo = {} /\ drawn = queried
          /\ \A n \in Names : edges[n] = IF n \in queried THEN given[n] ELSE NoEdges

(* A diagram has all that a service on it depends on. *)
Closed(table) ==
    \A s \in queried, k \in Kinds, n \in Names : table[s][k][n] > 0 => n \in queried

ContextInv ==
    /\ pc = "context" /\ ~Documents => Closed(deps)
    /\ pc = "group" /\ ~Documents => Closed(given)

(* The dependencies of a service, visited or not, are those it was given,   *)
(* each by the node that stands for it now, and none twice.                 *)
Rewritten ==
    \A s \in queried, k \in Kinds, m \in Names : deps[s][k][m] = Ind(Refers(given[s], k, m))

GroupingInv == pc = "group" /\ Merges => todo \subseteq queried /\ Rewritten /\ Quotient

(* A page has services of its group only. *)
PageInv ==
    Documents /\ pc \in {"context", "group"} =>
        (pc = "context" => todo = {}) /\ \A s \in queried : InGroup(s, view)

(* Every group is still to be done, being done, or done. *)
Catalog == input.batch /\ Documents /\ status \in {"running", "ok"}

CoverInv ==
    Catalog => \A s \in input.services :
        \/ group[s] \in pages \cup unvisited
        \/ group[s] = view /\ pc \in {"query", "dependencies", "context", "group"}

EndInv ==
    /\ pc # "done" => status = "running"
    /\ status = "ok" => pc = "done" /\ (input.batch => unvisited = {})

(* A link leads to a group that a service is in, or a sub group of it is in. *)
LinksInv ==
    input.batch /\ Documents => \A l \in links : \E s \in input.services :
        \E i \in 1 .. Len(group[s]) : l = SubSeq(group[s], 1, i)

Inv == /\ TypeOK /\ SimpleInv /\ QueriedInv /\ ContextInv /\ GroupingInv
       /\ PageInv /\ CoverInv /\ EndInv /\ LinksInv

-----------------------------------------------------------------------------
(* Paths *)

(* A set of naturals that is not empty has a smallest element. *)
LEMMA Smallest ==
    ASSUME NEW S \in SUBSET Nat, S # {}
    PROVE  \E m \in S : \A n \in S : m <= n
    <1> DEFINE R == {p \in Nat \X Nat : p[1] < p[2]}
    <1>1. IsWellFoundedOn(R, Nat)
        BY NatLessThanWellFounded, Zenon DEF OpToRel
    <1>2. \A n, m \in Nat : n < m => <<n, m>> \in R
        OBVIOUS
    <1> HIDE DEF R
    <1>3. PICK m \in S : \A n \in S : ~ (<<n, m>> \in R)
        BY <1>1, WFMin
    <1>4. \A n \in S : ~ (n < m)
        BY <1>2, <1>3
    <1> QED
        BY <1>4

(* The first place where a path leaves another one. *)
Leaves(p, v, i) ==
    /\ i > Len(v) \/ p[i] # v[i]
    /\ \A j \in 1 .. (i - 1) : j <= Len(v) /\ p[j] = v[j]

LEMMA PathLeaves ==
    ASSUME NEW p \in Groups, NEW v \in Groups, ~Prefix(p, v)
    PROVE  \E i \in 1 .. Len(p) : Leaves(p, v, i)
    <1> DEFINE D == {i \in 1 .. Len(p) : i > Len(v) \/ p[i] # v[i]}
    <1>1. Len(p) \in Nat /\ Len(v) \in Nat
        BY LenProperties DEF Groups
    <1>2. D # {}
        <2> SUFFICES ASSUME D = {} PROVE Prefix(p, v)
            OBVIOUS
        <2>1. \A i \in 1 .. Len(p) : i <= Len(v) /\ p[i] = v[i]
            BY <1>1
        <2>2. Len(p) <= Len(v)
            BY <1>1, <2>1
        <2> DEFINE q == SubSeq(v, 1, Len(p))
        <2>3. q \in Groups /\ Len(q) = Len(p) /\ \A i \in 1 .. Len(p) : q[i] = p[i]
            <3>1. \A i \in 1 .. Len(p) : v[i] \in Tokens
                BY <1>1, <2>2, ElementOfSeq DEF Groups
            <3>2. /\ q \in Seq(Tokens)
                  /\ Len(q) = IF 1 <= Len(p) THEN Len(p) - 1 + 1 ELSE 0
                  /\ \A i \in 1 .. Len(p) - 1 + 1 : q[i] = v[1 + i - 1]
                BY <1>1, <3>1, SubSeqProperties
            <3> QED
                BY <1>1, <2>1, <3>2 DEF Groups
        <2> HIDE DEF q
        <2>4. q = p
            BY <2>3, SeqEqual DEF Groups
        <2> QED
            BY <2>2, <2>4 DEF Prefix, q
    <1>3. D \in SUBSET Nat
        BY <1>1
    <1>4. PICK i \in D : \A n \in D : i <= n
        BY <1>2, <1>3, Smallest
    <1>5. \A j \in 1 .. (i - 1) : j \notin D /\ j \in 1 .. Len(p)
        BY <1>1, <1>4
    <1>6. \A j \in 1 .. (i - 1) : j <= Len(v) /\ p[j] = v[j]
        BY <1>1, <1>5
    <1> QED
        BY <1>4, <1>6 DEF Leaves

(* A path below another one leaves it right after its end. *)
LEMMA LeavesBelow ==
    ASSUME NEW p \in Groups, NEW v \in Groups, Prefix(v, p), NEW i \in 1 .. Len(p),
           Leaves(p, v, i)
    PROVE  i = Len(v) + 1 /\ Append(v, p[i]) = SubSeq(p, 1, i)
    <1>1. Len(p) \in Nat /\ Len(v) \in Nat /\ Len(v) <= Len(p)
        BY LenProperties DEF Groups, Prefix
    <1>2. \A j \in 1 .. Len(p) : p[j] \in Tokens
        BY ElementOfSeq DEF Groups
    <1>3. \A j \in 1 .. Len(v) : p[j] = v[j]
        <2> DEFINE q == SubSeq(p, 1, Len(v))
        <2>1. \A j \in 1 .. Len(v) - 1 + 1 : q[j] = p[1 + j - 1]
            BY <1>1, <1>2, SubSeqProperties
        <2>2. q = v
            BY DEF Prefix
        <2> HIDE DEF q
        <2> QED
            BY <1>1, <2>1, <2>2
    <1>4. i = Len(v) + 1
        BY <1>1, <1>3 DEF Leaves
    <1> DEFINE a == Append(v, p[i])
               q == SubSeq(p, 1, i)
    <1>5. a \in Groups /\ Len(a) = i /\ \A j \in 1 .. i : a[j] = p[j]
        <2>1. /\ a \in Groups /\ Len(a) = Len(v) + 1
              /\ \A j \in 1 .. Len(v) : a[j] = v[j]
              /\ a[Len(v) + 1] = p[i]
            BY <1>2, AppendProperties DEF Groups
        <2> HIDE DEF a
        <2> QED
            BY <1>1, <1>3, <1>4, <2>1
    <1>6. q \in Groups /\ Len(q) = i /\ \A j \in 1 .. i : q[j] = p[j]
        <2>1. \A j \in 1 .. i : p[j] \in Tokens
            BY <1>1, <1>2
        <2>2. /\ q \in Seq(Tokens) /\ Len(q) = (IF 1 <= i THEN i - 1 + 1 ELSE 0)
              /\ \A j \in 1 .. i - 1 + 1 : q[j] = p[1 + j - 1]
            BY <2>1, SubSeqProperties
        <2> HIDE DEF q
        <2> QED
            BY <1>1, <2>2 DEF Groups
    <1> HIDE DEF a, q
    <1>7. a = q
        BY <1>5, <1>6, SeqEqual DEF Groups
    <1> QED
        BY <1>4, <1>7 DEF a, q

(* The node of a sub group is named by a token, the one where the group of  *)
(* the service leaves the group that is looked at.                          *)
GroupsTyped == group \in [Services -> Groups] /\ view \in Groups

LEMMA SubgroupRootLeaves ==
    ASSUME GroupsTyped, NEW s \in Services, ~Fits(s)
    PROVE  \E i \in 1 .. Len(group[s]) :
              Leaves(group[s], view, i) /\ SubgroupRoot(s) = group[s][i]
    <1> DEFINE path == group[s]
               i == CHOOSE i \in 1 .. Len(path) : Leaves(path, view, i)
    <1>1. path \in Groups /\ view \in Groups /\ ~Prefix(path, view)
        BY DEF GroupsTyped, Fits
    <1>2. SubgroupRoot(s) = path[i]
        BY DEF SubgroupRoot, Leaves
    <1> HIDE DEF path
    <1>3. i \in 1 .. Len(path) /\ Leaves(path, view, i)
        BY <1>1, PathLeaves
    <1> HIDE DEF i
    <1> QED
        BY <1>2, <1>3 DEF path

LEMMA RootIsToken ==
    GroupsTyped => \A s \in Services : ~Fits(s) => SubgroupRoot(s) \in Tokens
    BY SubgroupRootLeaves, ElementOfSeq DEF GroupsTyped, Groups

-----------------------------------------------------------------------------
(* Dependencies *)

LEMMA NoEdgesTyped == NoEdges \in Edges /\ \A k \in Kinds, n \in Names : NoEdges[k][n] = 0
    BY DEF NoEdges, Edges

LEMMA EdgesTyped ==
    ASSUME NEW e \in Edges, NEW f \in Edges, NEW s \in Names, NEW g \in Names
    PROVE  /\ Replace(e, s, g) \in Edges
           /\ RemoveSelfReference(e, g) \in Edges
           /\ Merge(f, e, g) \in Edges
    BY DEF Edges, Replace, RemoveSelfReference, Merge

LEMMA ReplaceAt ==
    ASSUME NEW e, NEW s, NEW g, NEW k \in Kinds, NEW m \in Names
    PROVE  Replace(e, s, g)[k][m] =
               IF m = g THEN Ind(e[k][g] + e[k][s] > 0) ELSE IF m = s THEN 0 ELSE e[k][m]
    BY DEF Replace, Ind

LEMMA RemoveAt ==
    ASSUME NEW e \in Edges, NEW g \in Names, NEW k \in Kinds, NEW m \in Names
    PROVE  RemoveSelfReference(e, g)[k][m] =
               IF m = g THEN (IF e[k][g] > 0 THEN e[k][g] - 1 ELSE 0) ELSE e[k][m]
    BY DEF RemoveSelfReference, Edges

LEMMA MergeAt ==
    ASSUME NEW e, NEW into, NEW g, NEW k \in Kinds, NEW m \in Names
    PROVE  Merge(e, into, g)[k][m] =
               IF m # g /\ e[k][m] > 0 /\ into[k][m] = 0 THEN 1 ELSE into[k][m]
    BY DEF Merge

-----------------------------------------------------------------------------
(* Types *)

LEMMA InputTyped ==
    ASSUME TypeOK
    PROVE  /\ input \in Input /\ GroupsTyped
           /\ queried \subseteq Services /\ todo \subseteq Services
    BY ModelAssumption DEF TypeOK, Input, GroupsTyped

LEMMA TypeInit == Init => TypeOK
    <1> SUFFICES ASSUME Init PROVE TypeOK
        OBVIOUS
    <1>1. input \in Input
        BY ModelAssumption DEF Init
    <1>2. view \in Groups /\ unvisited \in SUBSET Groups
        <2>1. <<>> \in Groups
            BY EmptySeq DEF Groups
        <2> QED
            BY <1>1, <2>1 DEF Init, Input
    <1> QED
        BY <1>2, NoEdgesTyped DEF Init, TypeOK, noTable

(* The table of groups after a service was absorbed. *)
LEMMA AbsorbTyped ==
    ASSUME TypeOK, NEW s \in todo, ~Fits(s), Absorb(s)
    PROVE  /\ deps' \in [Services -> Edges] /\ edges' \in [Names -> Edges]
           /\ drawn' \in SUBSET Names /\ dashed' \in SUBSET (drawn' \cap Tokens)
           /\ \A n \in Names \ drawn' : edges'[n] = NoEdges
    <1> DEFINE g == SubgroupRoot(s)
               R == ReplaceIn(edges, drawn \cup {g}, s, g)
    <1>1. s \in Services /\ s \in Names /\ g \in Tokens /\ g \in Names
        BY InputTyped, RootIsToken DEF Names
    <1>2. /\ drawn' = drawn \cup {g}
          /\ dashed' = IF g \in drawn THEN dashed ELSE dashed \cup {g}
          /\ deps' = ReplaceIn(deps, queried \ {s}, s, g)
          /\ edges' = [R EXCEPT ![g] = Merge(deps[s], RemoveSelfReference(R[g], g), g)]
        BY DEF Absorb
    <1> HIDE DEF g
    <1>3. \A e \in Edges : Replace(e, s, g) \in Edges
        BY <1>1, EdgesTyped
    <1>4. R \in [Names -> Edges]
        BY <1>3 DEF ReplaceIn, TypeOK
    <1>5. deps' \in [Services -> Edges]
        BY <1>2, <1>3 DEF ReplaceIn, TypeOK
    <1>6. Merge(deps[s], RemoveSelfReference(R[g], g), g) \in Edges
        BY <1>1, <1>4, EdgesTyped DEF TypeOK
    <1>7. edges' \in [Names -> Edges]
        BY <1>2, <1>4, <1>6
    <1>8. ASSUME NEW n \in Names, n \notin drawn' PROVE edges'[n] = NoEdges
        BY <1>2, <1>4, <1>8 DEF ReplaceIn, TypeOK
    <1> QED
        BY <1>1, <1>2, <1>5, <1>7, <1>8 DEF TypeOK

LEMMA TypeStep == TypeOK /\ [Next]_vars => TypeOK'
    <1> SUFFICES ASSUME TypeOK, [Next]_vars PROVE TypeOK'
        OBVIOUS
    <1> USE NoEdgesTyped, InputTyped
    <1>0. \A s \in Services : input.needs[s] \in Edges
        BY DEF Input
    <1>1. CASE QueryGroup
        BY <1>0, <1>1 DEF QueryGroup, TypeOK
    <1>2. CASE AddDependencies
        BY <1>2 DEF AddDependencies, Interdependent, TypeOK
    <1>3. CASE AbortOnDependency
        BY <1>3 DEF AbortOnDependency, TypeOK, tables
    <1>4. CASE \E s \in Services : AppendInterdependent(s)
        <2> PICK s \in Services : AppendInterdependent(s)
            BY <1>4
        <2>1. NonDangling(input.needs[s]) \in Edges
            BY <1>0 DEF NonDangling, Edges
        <2> QED
            BY <2>1 DEF AppendInterdependent, TypeOK
    <1>5. CASE BeginGrouping
        <2>1. edges' \in [Names -> Edges]
            BY <1>5 DEF BeginGrouping, TypeOK
        <2>2. \A n \in Names \ drawn' : edges'[n] = NoEdges
            BY <1>5 DEF BeginGrouping
        <2> QED
            BY <1>5, <2>1, <2>2 DEF BeginGrouping, TypeOK, Names
    <1>6. CASE \E s \in Services : Group(s)
        <2> PICK s \in Services : Group(s)
            BY <1>6
        <2>1. s \in todo /\ todo' = todo \ {s}
            BY DEF Group, GroupService
        <2>2. UNCHANGED <<group, view, queried, given, input, pc, unvisited, pages, links, status>>
            BY DEF Group, GroupService
        <2>3. CASE AddLeaf(s)
            <3>1. s \in Names /\ s \notin Tokens
                BY NameAssumption DEF Names
            <3> QED
                BY <2>1, <2>2, <2>3, <3>1 DEF AddLeaf, TypeOK
        <2>4. CASE ~Fits(s) /\ Absorb(s)
            BY <2>1, <2>2, <2>4, AbsorbTyped DEF TypeOK
        <2> QED
            BY <2>3, <2>4 DEF Group, GroupService
    <1>7. CASE Write
        <2>1. \A g \in Tokens : Append(view, g) \in Groups
            BY AppendProperties DEF Groups, GroupsTyped
        <2> QED
            BY <1>7, <2>1 DEF Write, LinksOfPage, TypeOK, tables
    <1>8. CASE FailToWrite
        BY <1>8 DEF FailToWrite, TypeOK, tables
    <1>9. CASE \E g \in unvisited : NextGroup(g)
        BY <1>9 DEF NextGroup, TypeOK, tables
    <1>10. CASE Finish
        BY <1>10 DEF Finish, TypeOK, tables
    <1>11. CASE UNCHANGED vars
        BY <1>11 DEF vars, TypeOK, tables
    <1> QED
        BY <1>1, <1>2, <1>3, <1>4, <1>5, <1>6, <1>7, <1>8, <1>9, <1>10, <1>11 DEF Next

-----------------------------------------------------------------------------
(* A visit keeps the quotient *)

LEMMA NodeTyped ==
    ASSUME GroupsTyped, queried \subseteq Services, NEW n \in Names
    PROVE  NodeOf(n) \in Names /\ (NodeOf(n) \in Services => NodeOf(n) = n)
    BY RootIsToken, NameAssumption DEF NodeOf, Names, Visited

(* What a visit of s leaves alone, and the node that stands for it then. *)
Visit(s) ==
    /\ s \in todo /\ todo \subseteq queried /\ queried \subseteq Services
    /\ todo' = todo \ {s}
    /\ UNCHANGED <<group, view, queried, given>>

LEMMA NodeOfAfter ==
    ASSUME NEW s, Visit(s)
    PROVE  /\ Visited' = Visited \cup {s} /\ s \notin Visited /\ Visited \subseteq queried
           /\ NodeOf(s) = s
           /\ \A n \in Names : NodeOf(n)' =
                  IF n = s /\ ~Fits(s) THEN SubgroupRoot(s) ELSE NodeOf(n)
           /\ \A n : SubgroupRoot(n)' = SubgroupRoot(n) /\ Fits(n)' = Fits(n)
    <1>1. Visited' = Visited \cup {s} /\ s \notin Visited /\ Visited \subseteq queried
        BY DEF Visit, Visited
    <1>2. \A n : SubgroupRoot(n)' = SubgroupRoot(n) /\ Fits(n)' = Fits(n)
        BY DEF Visit, SubgroupRoot, Fits
    <1> QED
        BY <1>1, <1>2 DEF NodeOf

LEMMA RefersFits ==
    ASSUME NEW s, Visit(s), Fits(s), NEW v, NEW k, NEW m
    PROVE  Refers(given[v], k, m)' = Refers(given[v], k, m)
    <1>1. \A n \in Names : NodeOf(n)' = NodeOf(n)
        BY NodeOfAfter
    <1> QED
        BY <1>1 DEF Refers, Visit

LEMMA RefersAbsorbed ==
    ASSUME GroupsTyped, NEW s, Visit(s), ~Fits(s), NEW v, NEW k, NEW m \in Names
    PROVE  Refers(given[v], k, m)' =
               IF m = SubgroupRoot(s) THEN Refers(given[v], k, m) \/ Refers(given[v], k, s)
               ELSE IF m = s THEN FALSE ELSE Refers(given[v], k, m)
    <1> DEFINE g == SubgroupRoot(s)
    <1>1. s \in Services /\ s \in Names /\ g \in Tokens /\ g \notin Services
        BY RootIsToken, NameAssumption DEF Visit, Names
    <1>2. \A t \in Names : NodeOf(t)' = IF t = s THEN g ELSE NodeOf(t)
        BY NodeOfAfter
    <1>3. NodeOf(s) = s /\ \A t \in Names : NodeOf(t) = s => t = s
        BY <1>1, NodeOfAfter, NodeTyped DEF Visit
    <1>4. given' = given
        BY DEF Visit
    <1>5. Refers(given[v], k, m)' <=> \E t \in Names : NodeOf(t)' = m /\ given[v][k][t] > 0
        BY <1>4 DEF Refers
    <1> HIDE DEF g
    <1>6. CASE m = g
        BY <1>1, <1>2, <1>3, <1>5, <1>6 DEF Refers, g
    <1>7. CASE m = s
        BY <1>1, <1>2, <1>3, <1>5, <1>7 DEF Refers, g
    <1>8. CASE m # g /\ m # s
        BY <1>2, <1>3, <1>5, <1>8 DEF Refers, g
    <1> QED
        BY <1>6, <1>7, <1>8 DEF g

(* The dependencies of the node of s gain those of s. *)
LEMMA RelatedAfter ==
    ASSUME NEW s, Visit(s), s \in Names, NEW n, NEW k, NEW m
    PROVE  Related(n, k, m)' =
               \/ \E v \in Visited : NodeOf(v) = n /\ Refers(given[v], k, m)'
               \/ NodeOf(s)' = n /\ Refers(given[s], k, m)'
    <1>1. /\ Visited' = Visited \cup {s} /\ given' = given
          /\ \A v \in Visited : NodeOf(v)' = NodeOf(v)
        <2>1. \A v \in Visited : v \in Names /\ v # s
            BY NodeOfAfter DEF Visit, Names
        <2> QED
            BY <2>1, NodeOfAfter DEF Visit
    <1> QED
        BY <1>1 DEF Related

LEMMA IndSum ==
    ASSUME NEW a \in BOOLEAN, NEW b \in BOOLEAN
    PROVE  /\ Ind(Ind(a) + Ind(b) > 0) = Ind(a \/ b)
           /\ Ind(a) > 0 <=> a
           /\ Ind(FALSE) = 0 /\ Ind(TRUE) = 1
    BY DEF Ind

(* A service that has not been visited does not refer to itself. *)
LEMMA NoSelf ==
    ASSUME GroupsTyped, NEW s, Visit(s), Simple(given), NEW k \in Kinds
    PROVE  ~Refers(given[s], k, s)
    <1>1. s \in Services /\ \A t \in Names : NodeOf(t) = s => t = s
        BY NodeTyped DEF Visit
    <1> QED
        BY <1>1 DEF Refers, Simple

LEMMA RefersIsBoolean == \A e, k, m : Refers(e, k, m) \in BOOLEAN
    BY DEF Refers

LEMMA RewrittenStep ==
    ASSUME TypeOK, NEW s, Visit(s), Simple(given), Rewritten,
           (Fits(s) /\ AddLeaf(s)) \/ (~Fits(s) /\ Absorb(s))
    PROVE  Rewritten'
    <1> SUFFICES ASSUME NEW v \in queried, NEW k \in Kinds, NEW m \in Names
                 PROVE  deps'[v][k][m] = Ind(Refers(given[v], k, m)')
        BY DEF Rewritten, Visit, Ind
    <1>1. GroupsTyped /\ v \in Services /\ s \in Services /\ s \in Names
        BY InputTyped DEF Visit, Names
    <1>2. \A n \in Names : deps[v][k][n] = Ind(Refers(given[v], k, n))
        BY DEF Rewritten
    <1>3. CASE Fits(s) /\ AddLeaf(s)
        BY <1>2, <1>3, RefersFits DEF AddLeaf
    <1>4. CASE ~Fits(s) /\ Absorb(s)
        <2> DEFINE g == SubgroupRoot(s)
        <2>1. g \in Tokens /\ g \in Names /\ g # s
            BY <1>1, <1>4, RootIsToken, NameAssumption DEF Names
        <2>2. Refers(given[v], k, m)' =
                  IF m = g THEN Refers(given[v], k, m) \/ Refers(given[v], k, s)
                  ELSE IF m = s THEN FALSE ELSE Refers(given[v], k, m)
            BY <1>1, <1>4, RefersAbsorbed
        <2>3. deps' = ReplaceIn(deps, queried \ {s}, s, g)
            BY <1>4 DEF Absorb
        <2>4. v \in DOMAIN deps
            BY <1>1 DEF TypeOK
        <2> HIDE DEF g
        <2>5. CASE v = s
            <3>1. deps'[v] = deps[v] /\ ~Refers(given[v], k, s)
                BY <1>1, <2>3, <2>4, <2>5, NoSelf DEF ReplaceIn
            <3> QED
                BY <1>2, <2>2, <3>1 DEF Ind
        <2>6. CASE v # s
            <3>1. deps'[v] = Replace(deps[v], s, g)
                BY <2>3, <2>4, <2>6 DEF ReplaceIn
            <3>2. deps'[v][k][m] =
                      IF m = g THEN Ind(deps[v][k][g] + deps[v][k][s] > 0)
                      ELSE IF m = s THEN 0 ELSE deps[v][k][m]
                BY <3>1, ReplaceAt
            <3>3. CASE m = g
                <4> DEFINE A == Refers(given[v], k, g)
                           B == Refers(given[v], k, s)
                <4>1. deps'[v][k][m] = Ind(deps[v][k][g] + deps[v][k][s] > 0)
                    BY <3>2, <3>3
                <4>2. deps[v][k][g] = Ind(A) /\ deps[v][k][s] = Ind(B)
                    BY <1>1, <1>2, <2>1
                <4>3. Refers(given[v], k, m)' <=> A \/ B
                    BY <2>2, <3>3
                <4>4. A \in BOOLEAN /\ B \in BOOLEAN
                    BY RefersIsBoolean
                <4> HIDE DEF A, B
                <4>5. deps'[v][k][m] = Ind(A \/ B)
                    BY <4>1, <4>2, <4>4, IndSum
                <4> QED
                    BY <4>3, <4>5 DEF Ind
            <3>4. CASE m # g
                BY <1>2, <2>2, <3>2, <3>4 DEF Ind
            <3> QED
                BY <3>3, <3>4
        <2> QED
            BY <2>5, <2>6
    <1> QED
        BY <1>3, <1>4

(* The nodes of the table. *)
LEMMA NodesStep ==
    ASSUME TypeOK, NEW s, Visit(s), Quotient,
           (Fits(s) /\ AddLeaf(s)) \/ (~Fits(s) /\ Absorb(s))
    PROVE  /\ drawn' = {NodeOf(v)' : v \in Visited'}
           /\ dashed' = {SubgroupRoot(v)' : v \in {u \in Visited' : ~Fits(u)'}}
           /\ \A n \in Names : n \in dashed' <=> n \in dashed \/ (n = SubgroupRoot(s) /\ ~Fits(s))
    <1> DEFINE a == NodeOf(s)'
    <1>1. /\ Visited' = Visited \cup {s} /\ s \in Names /\ s \notin Visited
          /\ \A v \in Visited : v \in Services /\ v \in Names /\ NodeOf(v)' = NodeOf(v)
          /\ \A n : SubgroupRoot(n)' = SubgroupRoot(n) /\ Fits(n)' = Fits(n)
        <2>1. s \in Names /\ \A v \in Visited : v \in Services /\ v \in Names /\ v # s
            BY NodeOfAfter DEF Visit, Names
        <2> QED
            BY <2>1, NodeOfAfter
    <1>2. a = IF Fits(s) THEN s ELSE SubgroupRoot(s)
        BY <1>1, NodeOfAfter
    <1> HIDE DEF a
    <1>3. {NodeOf(v)' : v \in Visited'} = {NodeOf(v) : v \in Visited} \cup {a}
        BY <1>1 DEF a
    <1>4. drawn' = drawn \cup {a}
        BY <1>2 DEF AddLeaf, Absorb
    <1>5. {SubgroupRoot(v)' : v \in {u \in Visited' : ~Fits(u)'}}
              = IF Fits(s) THEN dashed ELSE dashed \cup {SubgroupRoot(s)}
        BY <1>1 DEF Quotient
    <1>6. dashed' = IF Fits(s) THEN dashed ELSE dashed \cup {SubgroupRoot(s)}
        <2>1. CASE Fits(s)
            <3>1. s \notin dashed
                BY NameAssumption DEF TypeOK, Visit
            <3> QED
                BY <2>1, <3>1 DEF AddLeaf
        <2>2. CASE ~Fits(s) /\ SubgroupRoot(s) \notin drawn
            BY <2>2 DEF Absorb
        <2>3. CASE ~Fits(s) /\ SubgroupRoot(s) \in drawn
            <3>1. SubgroupRoot(s) \in Tokens
                BY <2>3, InputTyped, RootIsToken DEF Visit
            <3>2. PICK v \in Visited : SubgroupRoot(s) = NodeOf(v)
                BY <2>3 DEF Quotient
            <3>3. ~Fits(v) /\ NodeOf(v) = SubgroupRoot(v)
                BY <1>1, <3>1, <3>2, NameAssumption DEF NodeOf
            <3>4. SubgroupRoot(s) \in dashed
                BY <3>2, <3>3 DEF Quotient
            <3> QED
                BY <2>3, <3>4 DEF Absorb
        <2> QED
            BY <2>1, <2>2, <2>3
    <1> QED
        BY <1>3, <1>4, <1>5, <1>6 DEF Quotient

(* The edges, when the service is copied ... *)
EdgesOfNodes ==
    \A n \in Names, k \in Kinds, m \in Names :
        edges[n][k][m] = Ind(Related(n, k, m) /\ ~(n = m /\ n \in dashed))

LEMMA LeafStep ==
    ASSUME TypeOK, NEW s, Visit(s), Rewritten, Quotient, EdgesOfNodes, Fits(s), AddLeaf(s)
    PROVE  EdgesOfNodes'
    <1> SUFFICES ASSUME NEW n \in Names, NEW k \in Kinds, NEW m \in Names
                 PROVE  edges'[n][k][m] = Ind(Related(n, k, m)' /\ ~(n = m /\ n \in dashed'))
        BY DEF EdgesOfNodes, Ind
    <1>1. GroupsTyped /\ s \in Services /\ s \in Names
        BY InputTyped DEF Visit, Names
    <1>2. edges' = [edges EXCEPT ![s] = deps[s]] /\ edges \in [Names -> Edges]
        BY DEF AddLeaf, TypeOK
    <1>3. Related(n, k, m)' <=> Related(n, k, m) \/ (n = s /\ Refers(given[s], k, m))
        <2>1. NodeOf(s)' = s
            BY <1>1, NodeOfAfter
        <2>2. \A v : Refers(given[v], k, m)' = Refers(given[v], k, m)
            BY RefersFits
        <2>3. Related(n, k, m)' =
                  \/ \E v \in Visited : NodeOf(v) = n /\ Refers(given[v], k, m)'
                  \/ NodeOf(s)' = n /\ Refers(given[s], k, m)'
            BY <1>1, RelatedAfter
        <2> QED
            BY <2>1, <2>2, <2>3 DEF Related
    <1>4. n \in dashed' <=> n \in dashed
        BY <1>1, NameAssumption DEF AddLeaf, TypeOK
    <1>5. CASE n # s
        BY <1>2, <1>3, <1>4, <1>5 DEF EdgesOfNodes, Ind
    <1>6. CASE n = s
        <2>1. ~Related(s, k, m)
            <3>1. \A v \in Visited : v \in Names /\ v # s
                BY NodeOfAfter DEF Visit, Names
            <3>2. \A v \in Visited : NodeOf(v) # s
                BY <1>1, <3>1, NodeTyped DEF Visit
            <3> QED
                BY <3>2 DEF Related
        <2>2. s \notin dashed
            BY <1>1, NameAssumption DEF TypeOK
        <2>3. edges'[n][k][m] = Ind(Refers(given[s], k, m))
            BY <1>1, <1>2, <1>6 DEF Rewritten, Visit
        <2> QED
            BY <1>3, <1>4, <1>6, <2>1, <2>2, <2>3 DEF Ind
    <1> QED
        BY <1>5, <1>6

(* ... and when it is absorbed. *)
LEMMA AbsorbedEdges ==
    ASSUME TypeOK, NEW s, Visit(s), ~Fits(s), Absorb(s), NEW g, g = SubgroupRoot(s),
           NEW n \in Names
    PROVE  edges'[n] =
               IF n = g THEN Merge(deps[s], RemoveSelfReference(Replace(edges[g], s, g), g), g)
               ELSE IF n \in drawn THEN Replace(edges[n], s, g)
               ELSE edges[n]
    <1> DEFINE R == ReplaceIn(edges, drawn \cup {g}, s, g)
    <1>1. g \in Names
        BY InputTyped, RootIsToken DEF Visit, Names
    <1>2. edges' = [R EXCEPT ![g] = Merge(deps[s], RemoveSelfReference(R[g], g), g)]
        BY DEF Absorb
    <1>3. /\ DOMAIN R = Names /\ R[g] = Replace(edges[g], s, g)
          /\ R[n] = IF n \in drawn \cup {g} THEN Replace(edges[n], s, g) ELSE edges[n]
        BY <1>1 DEF ReplaceIn, TypeOK
    <1> HIDE DEF R
    <1> QED
        BY <1>1, <1>2, <1>3

LEMMA AbsorbStep ==
    ASSUME TypeOK, NEW s, Visit(s), Simple(given), Rewritten, Quotient, EdgesOfNodes,
           ~Fits(s), Absorb(s)
    PROVE  EdgesOfNodes'
    <1> SUFFICES ASSUME NEW n \in Names, NEW k \in Kinds, NEW m \in Names
                 PROVE  edges'[n][k][m] = Ind(Related(n, k, m)' /\ ~(n = m /\ n \in dashed'))
        BY DEF EdgesOfNodes, Ind
    <1> DEFINE g == SubgroupRoot(s)
               Others == \E v \in Visited : NodeOf(v) = n /\ Refers(given[v], k, m)'
    <1>1. /\ GroupsTyped /\ s \in Services /\ s \in Names
          /\ g \in Tokens /\ g \in Names /\ g # s
        BY InputTyped, RootIsToken, NameAssumption DEF Visit, Names
    <1>2. \A v : Refers(given[v], k, m)' =
              IF m = g THEN Refers(given[v], k, m) \/ Refers(given[v], k, s)
              ELSE IF m = s THEN FALSE ELSE Refers(given[v], k, m)
        BY <1>1, RefersAbsorbed
    <1>3. Related(n, k, m)' <=> Others \/ (n = g /\ Refers(given[s], k, m)')
        <2>1. NodeOf(s)' = g
            BY <1>1, NodeOfAfter
        <2>2. Related(n, k, m)' = (Others \/ (NodeOf(s)' = n /\ Refers(given[s], k, m)'))
            BY <1>1, RelatedAfter
        <2> HIDE DEF g, Others
        <2> QED
            BY <2>1, <2>2
    <1>4. n \in dashed' <=> n \in dashed \/ n = g
        BY NodesStep
    <1>5. Others <=> IF m = g THEN Related(n, k, g) \/ Related(n, k, s)
                     ELSE IF m = s THEN FALSE ELSE Related(n, k, m)
        BY <1>2 DEF Related
    <1>6. s \notin dashed /\ (n \in drawn \/ \A j \in Names : ~Related(n, k, j))
        <2>1. s \notin dashed
            BY <1>1, NameAssumption DEF TypeOK
        <2>2. ASSUME NEW j \in Names, Related(n, k, j) PROVE n \in drawn
            BY <2>2 DEF Related, Quotient
        <2> QED
            BY <2>1, <2>2
    <1>7. edges'[n] = IF n = g
                      THEN Merge(deps[s], RemoveSelfReference(Replace(edges[g], s, g), g), g)
                      ELSE IF n \in drawn THEN Replace(edges[n], s, g)
                      ELSE edges[n]
        BY AbsorbedEdges
    <1>8. \A j \in Names : edges[n][k][j] = Ind(Related(n, k, j) /\ ~(n = j /\ n \in dashed))
        BY DEF EdgesOfNodes
    <1> HIDE DEF g, Others
    <1>9. Replace(edges[n], s, g)[k][m] =
              IF m = g THEN Ind(edges[n][k][g] + edges[n][k][s] > 0)
              ELSE IF m = s THEN 0 ELSE edges[n][k][m]
        BY ReplaceAt
    <1>10. CASE n # g
        <2>1. edges[n][k][s] = Ind(Related(n, k, s)) /\ edges[n][k][g] = Ind(Related(n, k, g))
            BY <1>1, <1>6, <1>8, <1>10 DEF Ind
        <2>2. edges'[n][k][m] = IF m = g THEN Ind(Related(n, k, g) \/ Related(n, k, s))
                                ELSE IF m = s THEN 0 ELSE edges[n][k][m]
            <3>1. CASE n \in drawn
                BY <1>7, <1>9, <1>10, <2>1, <3>1 DEF Ind
            <3>2. CASE n \notin drawn
                BY <1>1, <1>6, <1>7, <1>10, <2>1, <1>8, <3>2 DEF Ind
            <3> QED
                BY <3>1, <3>2
        <2>3. Related(n, k, m)' <=> Others
            BY <1>3, <1>10
        <2>4. CASE m = g
            BY <1>5, <1>10, <2>2, <2>3, <2>4 DEF Ind
        <2>5. CASE m = s
            BY <1>1, <1>5, <2>2, <2>3, <2>5 DEF Ind
        <2>6. CASE m # g /\ m # s
            BY <1>4, <1>5, <1>8, <1>10, <2>2, <2>3, <2>6 DEF Ind
        <2> QED
            BY <2>4, <2>5, <2>6
    <1>11. CASE n = g
        <2> DEFINE e == Replace(edges[g], s, g)
                   r == RemoveSelfReference(e, g)
        <2>1. e \in Edges
            BY <1>1, EdgesTyped DEF TypeOK
        <2>2. e[k][m] = IF m = g THEN Ind(edges[g][k][g] + edges[g][k][s] > 0)
                        ELSE IF m = s THEN 0 ELSE edges[g][k][m]
            BY <1>9, <1>11
        <2> HIDE DEF e
        <2>3. r[k][m] = IF m = g THEN (IF e[k][g] > 0 THEN e[k][g] - 1 ELSE 0) ELSE e[k][m]
            BY <1>1, <2>1, RemoveAt
        <2> HIDE DEF r
        <2>4. edges'[n][k][m] =
                  IF m # g /\ deps[s][k][m] > 0 /\ r[k][m] = 0 THEN 1 ELSE r[k][m]
            BY <1>7, <1>11, MergeAt DEF e, r
        <2>5. deps[s][k][m] = Ind(Refers(given[s], k, m))
            BY DEF Rewritten, Visit
        <2>6. CASE m = g
            <3>1. e[k][g] \in {0, 1}
                BY <2>2, <2>6 DEF Ind
            <3>2. r[k][m] = 0
                BY <2>3, <2>6, <3>1
            <3>3. edges'[n][k][m] = 0
                BY <2>4, <2>6, <3>2
            <3>4. n = m /\ n \in dashed'
                BY <1>4, <1>11, <2>6
            <3> QED
                BY <3>3, <3>4 DEF Ind
        <2>7. CASE m = s
            <3>1. ~Refers(given[s], k, s)
                BY <1>1, NoSelf
            <3> QED
                <4>1. g # s
                    BY <1>1
                <4>2. ~Related(n, k, m)'
                    BY <1>2, <1>3, <1>5, <2>7, <4>1
                <4>3. r[k][m] = 0 /\ deps[s][k][m] = 0
                    BY <2>2, <2>3, <2>5, <2>7, <3>1, <4>1 DEF Ind
                <4> QED
                    BY <2>4, <4>2, <4>3 DEF Ind
        <2>8. CASE m # g /\ m # s
            <3>1. r[k][m] = Ind(Related(n, k, m))
                BY <1>8, <1>11, <2>2, <2>3, <2>8 DEF Ind
            <3>2. Related(n, k, m)' <=> Related(n, k, m) \/ Refers(given[s], k, m)
                BY <1>2, <1>3, <1>5, <1>11, <2>8
            <3> QED
                BY <1>11, <2>4, <2>5, <2>8, <3>1, <3>2 DEF Ind
        <2> QED
            BY <2>6, <2>7, <2>8
    <1> QED
        BY <1>10, <1>11

LEMMA QuotientStep ==
    ASSUME TypeOK, NEW s, Visit(s), Simple(given), Rewritten, Quotient,
           (Fits(s) /\ AddLeaf(s)) \/ (~Fits(s) /\ Absorb(s))
    PROVE  Quotient'
    <1>1. EdgesOfNodes
        BY DEF EdgesOfNodes, Quotient, Ind
    <1>2. EdgesOfNodes'
        BY <1>1, LeafStep, AbsorbStep
    <1>3. /\ drawn' = {NodeOf(v)' : v \in Visited'}
          /\ dashed' = {SubgroupRoot(v)' : v \in {u \in Visited' : ~Fits(u)'}}
        BY NodesStep
    <1> QED
        BY <1>2, <1>3 DEF Quotient, EdgesOfNodes, Ind

-----------------------------------------------------------------------------
(* The steps of the program *)

Fixed == UNCHANGED <<group, input>>

LEMMA InputFixed == [Next]_vars => Fixed
    BY DEF Fixed, Next, vars, tables, QueryGroup, AddDependencies, AbortOnDependency,
           AppendInterdependent, BeginGrouping, Group, GroupService, Write, FailToWrite,
           NextGroup, Finish

(* Those that query and group services, and those in between. *)
LEMMA Steps ==
    ASSUME [Next]_vars
    PROVE  \/ QueryGroup \/ AddDependencies \/ BeginGrouping
           \/ \E s \in Services : AppendInterdependent(s)
           \/ \E s \in Services : Group(s)
           \/ pc' \in {"query", "next", "done"}
           \/ UNCHANGED vars
    BY DEF Next, AbortOnDependency, Write, FailToWrite, NextGroup, Finish

LEMMA SimpleInput ==
    ASSUME TypeOK
    PROVE  Simple(input.needs)
    BY ModelAssumption DEF TypeOK, Simple

LEMMA SimpleStep == TypeOK /\ SimpleInv /\ [Next]_vars => SimpleInv'
    <1> SUFFICES ASSUME TypeOK, SimpleInv, [Next]_vars PROVE SimpleInv'
        OBVIOUS
    <1> USE DEF SimpleInv
    <1>1. CASE QueryGroup
        <2>1. Simple(deps)'
            BY <1>1, SimpleInput, NoEdgesTyped DEF QueryGroup, Simple, Names
        <2> QED
            BY <1>1, <2>1 DEF QueryGroup
    <1>2. CASE AddDependencies
        BY <1>2 DEF AddDependencies, Simple
    <1>3. CASE BeginGrouping
        BY <1>3 DEF BeginGrouping, Simple
    <1>4. CASE \E s \in Services : AppendInterdependent(s)
        <2> PICK s \in Services : AppendInterdependent(s)
            BY <1>4
        <2>1. Simple(deps)
            BY DEF AppendInterdependent
        <2>2. \A k \in Kinds, n \in Names : NonDangling(input.needs[s])[k][n] =
                  IF n \in queried THEN input.needs[s][k][n] ELSE 0
            BY DEF NonDangling
        <2>3. deps' = [deps EXCEPT ![s] = NonDangling(input.needs[s])] /\ DOMAIN deps = Services
            BY DEF AppendInterdependent, TypeOK
        <2>4. Simple(deps)'
            BY <2>1, <2>2, <2>3, SimpleInput DEF Simple, Names
        <2> QED
            BY <2>4 DEF AppendInterdependent
    <1>5. CASE \E s \in Services : Group(s)
        BY <1>5 DEF Group, GroupService, Simple
    <1>6. CASE UNCHANGED vars
        BY <1>6 DEF vars, tables, Simple
    <1> QED
        BY <1>1, <1>2, <1>3, <1>4, <1>5, <1>6, Steps

LEMMA QueriedStep == TypeOK /\ QueriedInv /\ [Next]_vars => QueriedInv'
    <1> SUFFICES ASSUME TypeOK, QueriedInv, [Next]_vars PROVE QueriedInv'
        OBVIOUS
    <1> USE DEF QueriedInv, Documents, Merges
    <1>1. CASE QueryGroup
        BY <1>1 DEF QueryGroup
    <1>2. CASE AddDependencies \/ \E s \in Services : AppendInterdependent(s)
        BY <1>2 DEF AddDependencies, AppendInterdependent
    <1>3. CASE BeginGrouping
        BY <1>3 DEF BeginGrouping
    <1>4. CASE \E s \in Services : Group(s)
        BY <1>4 DEF Group, GroupService
    <1>5. CASE UNCHANGED vars
        BY <1>5 DEF vars, tables
    <1> QED
        BY <1>1, <1>2, <1>3, <1>4, <1>5, Steps

LEMMA ContextStep == TypeOK /\ QueriedInv /\ ContextInv /\ [Next]_vars => ContextInv'
    <1> SUFFICES ASSUME TypeOK, QueriedInv, ContextInv, [Next]_vars PROVE ContextInv'
        OBVIOUS
    <1> USE DEF ContextInv, Documents
    <1>1. CASE QueryGroup
        BY <1>1 DEF QueryGroup
    <1>2. CASE AddDependencies
        <2>1. queried' = queried \cup Outside /\ deps' = deps /\ pc' = "context"
            BY <1>2 DEF AddDependencies
        <2>2. ASSUME NEW s \in queried', NEW k \in Kinds, NEW n \in Names, deps[s][k][n] > 0
              PROVE  n \in queried'
            <3>1. CASE s \in queried
                BY <2>1, <2>2, <3>1 DEF Outside
            <3>2. CASE s \notin queried
                <4>1. s \in Services
                    BY <1>2, <2>1, <3>2, InputTyped DEF AddDependencies, Input
                <4>2. deps[s] = NoEdges
                    BY <1>2, <3>2, <4>1 DEF QueriedInv, AddDependencies
                <4> QED
                    BY <2>2, <4>2, NoEdgesTyped
            <3> QED
                BY <3>1, <3>2
        <2>3. Closed(deps)'
            BY <2>1, <2>2 DEF Closed
        <2> QED
            BY <2>1, <2>3
    <1>3. CASE BeginGrouping
        BY <1>3 DEF BeginGrouping, Closed
    <1>4. CASE \E s \in Services : AppendInterdependent(s)
        <2> PICK s \in Services : AppendInterdependent(s)
            BY <1>4
        <2>1. \A k \in Kinds, n \in Names : NonDangling(input.needs[s])[k][n] =
                  IF n \in queried THEN input.needs[s][k][n] ELSE 0
            BY DEF NonDangling
        <2>2. /\ deps' = [deps EXCEPT ![s] = NonDangling(input.needs[s])]
              /\ DOMAIN deps = Services /\ queried' = queried \cup {s} /\ queried \subseteq Services
              /\ pc = "context" /\ pc' = "context" /\ input' = input
            BY InputTyped DEF AppendInterdependent, TypeOK
        <2>3. Closed(deps) => Closed(deps)'
            BY <2>1, <2>2 DEF Closed
        <2> QED
            BY <2>2, <2>3
    <1>5. CASE \E s \in Services : Group(s)
        BY <1>5 DEF Group, GroupService, Closed
    <1>6. CASE UNCHANGED vars
        BY <1>6 DEF vars, tables, Closed
    <1> QED
        BY <1>1, <1>2, <1>3, <1>4, <1>5, <1>6, Steps

(* Before the first visit. *)
LEMMA NothingVisited ==
    /\ Visited = {} /\ queried \subseteq Services /\ given = deps /\ Simple(deps)
    /\ drawn = {} /\ dashed = {} /\ \A n \in Names : edges[n] = NoEdges
    => Rewritten /\ Quotient
    <1> SUFFICES ASSUME Visited = {}, queried \subseteq Services, given = deps, Simple(deps),
                        drawn = {}, dashed = {}, \A n \in Names : edges[n] = NoEdges
                 PROVE  Rewritten /\ Quotient
        OBVIOUS
    <1>1. \A s, k, m : Refers(given[s], k, m) <=> m \in Names /\ given[s][k][m] > 0
        BY DEF Refers, NodeOf
    <1>2. Rewritten
        BY <1>1 DEF Rewritten, Simple, Ind
    <1>3. \A n, k, m : ~Related(n, k, m)
        BY DEF Related
    <1> QED
        BY <1>2, <1>3, NoEdgesTyped DEF Quotient

LEMMA GroupingStep ==
    TypeOK /\ SimpleInv /\ QueriedInv /\ GroupingInv /\ [Next]_vars => GroupingInv'
    <1> SUFFICES ASSUME TypeOK, SimpleInv, QueriedInv, GroupingInv, [Next]_vars
                 PROVE  GroupingInv'
        OBVIOUS
    <1> USE DEF GroupingInv, Merges
    <1>1. CASE BeginGrouping
        <2> SUFFICES ASSUME Merges PROVE todo' \subseteq queried' /\ (Rewritten /\ Quotient)'
            BY <1>1 DEF BeginGrouping
        <2>1. /\ Visited' = {} /\ queried' \subseteq Services /\ given' = deps' /\ todo' = queried'
              /\ drawn' = {} /\ dashed' = {} /\ \A n \in Names : edges'[n] = NoEdges
            BY <1>1, InputTyped DEF BeginGrouping, Visited
        <2>2. Simple(deps)'
            BY <1>1 DEF BeginGrouping, SimpleInv, Simple
        <2>3. (Rewritten /\ Quotient)'
            <3>1. (/\ Visited = {} /\ queried \subseteq Services /\ given = deps /\ Simple(deps)
                   /\ drawn = {} /\ dashed = {} /\ \A n \in Names : edges[n] = NoEdges)'
                BY <2>1, <2>2
            <3> QED
                BY <3>1, NothingVisited, PTL
        <2> QED
            BY <2>1, <2>3
    <1>2. CASE \E s \in Services : Group(s)
        <2> PICK s \in Services : Group(s)
            BY <1>2
        <2>1. /\ pc = "group" /\ pc' = "group" /\ input' = input /\ s \in todo
              /\ (Fits(s) /\ AddLeaf(s)) \/ (~Fits(s) /\ Absorb(s))
            BY DEF Group, GroupService
        <2>2. Merges
            BY <2>1 DEF QueriedInv
        <2>3. Visit(s) /\ Simple(given) /\ Rewritten /\ Quotient
            BY <2>1, <2>2, InputTyped DEF Visit, Group, GroupService, SimpleInv
        <2>4. Rewritten' /\ Quotient'
            BY <2>1, <2>3, RewrittenStep, QuotientStep
        <2> QED
            BY <2>1, <2>3, <2>4 DEF Visit
    <1>3. CASE UNCHANGED vars
        <2>1. UNCHANGED <<group, view, queried, given, deps, todo, drawn, dashed, edges, pc, input>>
            BY <1>3 DEF vars, tables
        <2>2. Visited' = Visited /\ \A n : SubgroupRoot(n)' = SubgroupRoot(n) /\ Fits(n)' = Fits(n)
            BY <2>1 DEF SubgroupRoot, Fits, Visited
        <2>3. \A n : NodeOf(n)' = NodeOf(n)
            BY <2>2 DEF NodeOf
        <2>4. \A s, k, m : Refers(given[s], k, m)' <=> Refers(given[s], k, m)
            BY <2>1, <2>3 DEF Refers
        <2>5. \A n, k, m : Related(n, k, m)' <=> Related(n, k, m)
            BY <2>1, <2>2, <2>3, <2>4 DEF Related
        <2>6. Rewritten => Rewritten'
            <3> SUFFICES ASSUME Rewritten, NEW s \in queried, NEW k \in Kinds, NEW m \in Names
                         PROVE  deps'[s][k][m] = Ind(Refers(given[s], k, m)')
                BY <2>1 DEF Rewritten, Ind
            <3>1. Refers(given[s], k, m)' <=> Refers(given[s], k, m)
                BY <2>4
            <3> QED
                BY <2>1, <3>1 DEF Rewritten, Ind
        <2>7. {NodeOf(s) : s \in Visited}' = {NodeOf(s) : s \in Visited}
            BY <2>2, <2>3
        <2>8. {SubgroupRoot(s) : s \in {v \in Visited : ~Fits(v)}}'
                  = {SubgroupRoot(s) : s \in {v \in Visited : ~Fits(v)}}
            BY <2>2
        <2>9. Quotient => Quotient'
            <3> SUFFICES ASSUME Quotient, NEW n \in Names, NEW k \in Kinds, NEW m \in Names
                         PROVE  edges'[n][k][m] =
                                    IF Related(n, k, m)' /\ ~(n = m /\ n \in dashed') THEN 1 ELSE 0
                BY <2>1, <2>7, <2>8 DEF Quotient
            <3>1. Related(n, k, m)' <=> Related(n, k, m)
                BY <2>5
            <3> QED
                BY <2>1, <3>1 DEF Quotient
        <2> QED
            BY <2>1, <2>6, <2>9
    <1>4. CASE QueryGroup \/ AddDependencies \/ \E s \in Services : AppendInterdependent(s)
        BY <1>4 DEF QueryGroup, AddDependencies, AppendInterdependent
    <1> QED
        BY <1>1, <1>2, <1>3, <1>4, Steps

-----------------------------------------------------------------------------
(* Pages and links *)

LEMMA PageStep == TypeOK /\ QueriedInv /\ PageInv /\ [Next]_vars => PageInv'
    <1> SUFFICES ASSUME TypeOK, QueriedInv, PageInv, [Next]_vars PROVE PageInv'
        OBVIOUS
    <1> USE DEF PageInv, Documents, InGroup
    <1>1. CASE QueryGroup
        BY <1>1 DEF QueryGroup
    <1>2. CASE AddDependencies \/ BeginGrouping
        BY <1>2 DEF AddDependencies, BeginGrouping, QueriedInv
    <1>3. CASE \E s \in Services : AppendInterdependent(s)
        BY <1>3 DEF AppendInterdependent
    <1>4. CASE \E s \in Services : Group(s)
        BY <1>4 DEF Group, GroupService
    <1>5. CASE UNCHANGED vars
        BY <1>5 DEF vars, tables
    <1> QED
        BY <1>1, <1>2, <1>3, <1>4, <1>5, Steps

LEMMA CoverStep == EndInv /\ CoverInv /\ [Next]_vars => CoverInv'
    <1> SUFFICES ASSUME EndInv, CoverInv, [Next]_vars, Catalog', NEW s \in input.services
                 PROVE  \/ group[s] \in pages' \cup unvisited'
                        \/ group[s] = view' /\ pc' \in {"query", "dependencies", "context", "group"}
        BY InputFixed DEF CoverInv, Fixed
    <1>1. input.batch /\ Documents /\ status' \in {"running", "ok"}
        BY InputFixed DEF Catalog, Documents, Fixed
    <1>2. status \in {"running", "ok"} =>
              \/ group[s] \in pages \cup unvisited
              \/ group[s] = view /\ pc \in {"query", "dependencies", "context", "group"}
        BY <1>1 DEF CoverInv, Catalog
    <1>3. CASE QueryGroup \/ AddDependencies \/ BeginGrouping
        BY <1>1, <1>2, <1>3 DEF QueryGroup, AddDependencies, BeginGrouping
    <1>4. CASE AbortOnDependency \/ FailToWrite
        BY <1>1, <1>4 DEF AbortOnDependency, FailToWrite
    <1>5. CASE \E t \in Services : AppendInterdependent(t) \/ Group(t)
        BY <1>1, <1>2, <1>5 DEF AppendInterdependent, Group, GroupService
    <1>6. CASE Write
        BY <1>1, <1>2, <1>6 DEF Write, EndInv
    <1>7. CASE \E g \in unvisited : NextGroup(g)
        BY <1>1, <1>2, <1>7 DEF NextGroup
    <1>8. CASE Finish
        BY <1>1, <1>2, <1>8 DEF Finish, EndInv
    <1>9. CASE UNCHANGED vars
        BY <1>1, <1>2, <1>9 DEF vars
    <1> QED
        BY <1>3, <1>4, <1>5, <1>6, <1>7, <1>8, <1>9 DEF Next

LEMMA EndStep == EndInv /\ [Next]_vars => EndInv'
    BY DEF EndInv, Next, vars, tables, QueryGroup, AddDependencies,
           AbortOnDependency, AppendInterdependent, BeginGrouping, Group, GroupService, Write,
           FailToWrite, NextGroup, Finish

(* The link to a sub group, one level below the page it is on. *)
LEMMA LinkIsPrefix ==
    ASSUME TypeOK, QueriedInv, GroupingInv, PageInv, pc = "group", todo = {}, input.batch,
           Documents, NEW d \in dashed
    PROVE  \E s \in input.services : \E i \in 1 .. Len(group[s]) :
              Append(view, d) = SubSeq(group[s], 1, i)
    <1>1. PICK s \in queried : ~Fits(s) /\ d = SubgroupRoot(s)
        BY DEF GroupingInv, Merges, Quotient, Visited
    <1>2. /\ s \in input.services /\ s \in Services /\ GroupsTyped
          /\ group[s] \in Groups /\ view \in Groups /\ Prefix(view, group[s])
        BY InputTyped DEF TypeOK, GroupsTyped, PageInv, InGroup
    <1>3. PICK i \in 1 .. Len(group[s]) : Leaves(group[s], view, i) /\ d = group[s][i]
        BY <1>1, <1>2, SubgroupRootLeaves
    <1>4. Append(view, d) = SubSeq(group[s], 1, i)
        BY <1>2, <1>3, LeavesBelow
    <1> QED
        BY <1>2, <1>4

LEMMA LinksStep ==
    TypeOK /\ QueriedInv /\ GroupingInv /\ PageInv /\ LinksInv /\ [Next]_vars => LinksInv'
    <1> SUFFICES ASSUME TypeOK, QueriedInv, GroupingInv, PageInv, LinksInv, [Next]_vars
                 PROVE  LinksInv'
        OBVIOUS
    <1>1. group' = group /\ input' = input
        BY InputFixed DEF Fixed
    <1>2. CASE Write /\ Documents /\ input.batch
        <2>1. links' = links \cup {Append(view, g) : g \in dashed} /\ pc = "group" /\ todo = {}
            BY <1>2 DEF Write, LinksOfPage
        <2>2. ASSUME NEW l \in links'
              PROVE  \E s \in input.services : \E i \in 1 .. Len(group[s]) :
                        l = SubSeq(group[s], 1, i)
            <3>1. CASE l \in links
                BY <1>2, <3>1 DEF LinksInv
            <3>2. CASE l \notin links
                <4>1. PICK d \in dashed : l = Append(view, d)
                    BY <2>1, <2>2, <3>2
                <4> QED
                    BY <1>2, <2>1, <4>1, LinkIsPrefix
            <3> QED
                BY <3>1, <3>2
        <2> QED
            BY <1>1, <2>2 DEF LinksInv
    <1>3. CASE links' = links
        BY <1>1, <1>3 DEF LinksInv, Documents
    <1>4. CASE ~(Documents /\ input.batch)
        BY <1>1, <1>4 DEF LinksInv, Documents
    <1> QED
        BY <1>2, <1>3, <1>4
        DEF Next, vars, tables, QueryGroup, AddDependencies, AbortOnDependency,
            AppendInterdependent, BeginGrouping, Group, GroupService, Write, FailToWrite,
            NextGroup, Finish

-----------------------------------------------------------------------------
(* Theorems *)

LEMMA Invariance == Spec => []Inv
    <1>1. Init => Inv
        <2> SUFFICES ASSUME Init PROVE Inv
            OBVIOUS
        <2>1. TypeOK
            BY TypeInit
        <2>2. /\ pc = "query" /\ status = "running" /\ links = {} /\ group = input.group
              /\ input.batch => unvisited = {group[s] : s \in input.services}
            BY DEF Init
        <2> QED
            BY <2>1, <2>2 DEF Inv, SimpleInv, QueriedInv, ContextInv, GroupingInv, PageInv,
                              CoverInv, Catalog, EndInv, LinksInv
    <1>2. Inv /\ [Next]_vars => Inv'
        BY TypeStep, SimpleStep, QueriedStep, ContextStep, GroupingStep, PageStep, CoverStep,
           EndStep, LinksStep DEF Inv
    <1> QED
        BY <1>1, <1>2, PTL DEF Spec

(* Every variable has its type: a group node is always named by a token,    *)
(* and the queried services are services of the model.                      *)
THEOREM TypeCorrect == Spec => []TypeOK
    <1>1. Inv => TypeOK
        BY DEF Inv
    <1> QED
        BY <1>1, Invariance, PTL

(* Whatever the order of the hash table, the nodes and the edges are those  *)
(* of the services visited so far, each by its group, after every visit.    *)
THEOREM GroupingIsQuotient == Spec => []GroupsAreQuotient
    <1>1. Inv => GroupsAreQuotient
        BY DEF Inv, GroupingInv, GroupsAreQuotient
    <1> QED
        BY <1>1, Invariance, PTL

(* Both ends of every edge of a diagram are nodes of it, merged or not.     *)
THEOREM DiagramsAreClosed == Spec => []NoDanglingEdges
    <1>1. ASSUME Inv, pc = "group", todo = {}, ~Documents, NEW n \in drawn, NEW k \in Kinds,
                 NEW m \in Names, edges[n][k][m] > 0
          PROVE  m \in drawn
        <2>1. n \in Names /\ Closed(given) /\ queried \subseteq Services
            BY <1>1, InputTyped DEF Inv, TypeOK, ContextInv
        <2>2. CASE Merges
            <3>1. Quotient /\ Visited = queried
                BY <1>1, <2>2 DEF Inv, GroupingInv, Visited
            <3>2. Related(n, k, m)
                BY <1>1, <2>1, <3>1 DEF Quotient
            <3>3. PICK s \in queried, t \in Names : NodeOf(t) = m /\ given[s][k][t] > 0
                BY <3>1, <3>2 DEF Related, Refers
            <3>4. t \in queried
                BY <2>1, <3>3 DEF Closed
            <3> QED
                BY <3>1, <3>3, <3>4 DEF Quotient
        <2>3. CASE ~Merges
            BY <1>1, <2>1, <2>3, NoEdgesTyped DEF Inv, QueriedInv, Closed
        <2> QED
            BY <2>2, <2>3
    <1>2. Inv => NoDanglingEdges
        BY <1>1 DEF NoDanglingEdges
    <1> QED
        BY <1>2, Invariance, PTL

(* Every group with services gets its page, and if all layers have services *)
(* the links of the catalog lead to pages.                                  *)
THEOREM CatalogIsConnected == Spec => []LinksLeadToPages
    <1>1. ASSUME Inv, status = "ok", input.batch, Documents
          PROVE  /\ \A s \in input.services : group[s] \in pages
                 /\ Populated => links \subseteq pages
        <2>1. \A s \in input.services : group[s] \in pages
            BY <1>1 DEF Inv, EndInv, CoverInv, Catalog
        <2>2. ASSUME Populated, NEW l \in links PROVE l \in pages
            <3>0. PICK s \in input.services : \E i \in 1 .. Len(group[s]) : l = SubSeq(group[s], 1, i)
                BY <1>1, <2>2 DEF Inv, LinksInv
            <3>1. PICK i \in 1 .. Len(group[s]) : l = SubSeq(group[s], 1, i)
                BY <3>0
            <3>2. PICK t \in input.services : group[t] = SubSeq(group[s], 1, i)
                BY <2>2 DEF Populated
            <3> QED
                BY <2>1, <3>1, <3>2
        <2> QED
            BY <2>1, <2>2
    <1>2. Inv => LinksLeadToPages
        BY <1>1 DEF LinksLeadToPages
    <1> QED
        BY <1>2, Invariance, PTL
=============================================================================
