--------------------------- MODULE ServiceGroups ---------------------------
(***************************************************************************)
(* The grouping of services for the diagrams and the documentation         *)
(* (src/libservices/servicegroup.c): the services of a sub group of the    *)
(* group that is looked at become one node, and every dependency on one of *)
(* them becomes a dependency on that node.                                 *)
(*                                                                         *)
(* The queried services are visited in the order of a hash table, which is *)
(* any order, while the dependencies of those not visited yet are changed. *)
(*                                                                         *)
(* Data abstraction: a group is the sequence of its tokens.  The array of  *)
(* dependencies of a service is the number of times that it has each name; *)
(* the order in it is of no influence.  depends_on and connects_to are     *)
(* treated alike; Kinds holds the two of them, or one.                     *)
(***************************************************************************)
EXTENDS Naturals, Sequences

CONSTANTS
    Services,   \* service names
    Tokens,     \* names of groups, without the groups they are in
    Kinds       \* the kinds of dependencies

Names  == Services \cup Tokens
Groups == Seq(Tokens)
Edges  == [Kinds -> [Names -> Nat]]

(* The entries of a table share one name space.  The code does not look at  *)
(* what it finds under the name of a group, so the names have to differ.    *)
ASSUME NameAssumption == Services \cap Tokens = {}

VARIABLES
    group,      \* the group of each service
    view,       \* the group that is looked at
    queried,    \* keys of queried_services_table
    given,      \* history: the dependencies in it before the grouping
    deps,       \* the dependencies in it
    todo,       \* the services that the current iteration has not visited
    drawn,      \* keys of grouped_services_table
    dashed,     \* those of them that are group nodes
    edges       \* the dependencies in it

tables == <<queried, given, deps, todo, drawn, dashed, edges>>

NoEdges == [k \in Kinds |-> [n \in Names |-> 0]]

-----------------------------------------------------------------------------
(* Groups as paths *)

Prefix(p, q) == Len(p) <= Len(q) /\ SubSeq(q, 1, Len(p)) = p

(* is_in_group *)
InGroup(s, g) == Prefix(g, group[s])

(* fits_in_group: the services of the group and of those around it. *)
Fits(s) == Prefix(group[s], view)

(* derive_sub_group_root: the first token that the group looked at has not.  *)
(* Mutant: the last token, the group that the service is in itself.         *)
InnermostGroup(s) == group[s][Len(group[s])]

SubgroupRoot(s) ==
    LET path == group[s]
        i == CHOOSE i \in 1 .. Len(path) :
                 /\ i > Len(view) \/ path[i] # view[i]
                 /\ \A j \in 1 .. (i - 1) : j <= Len(view) /\ path[j] = view[j]
    IN  path[i]

-----------------------------------------------------------------------------
(* Dependencies *)

(* replace_service_dependency_by_group_dependency: s and g become one g. *)
Replace(e, s, g) ==
    [k \in Kinds |-> [n \in Names |->
        IF n = g THEN (IF e[k][g] + e[k][s] > 0 THEN 1 ELSE 0)
        ELSE IF n = s THEN 0 ELSE e[k][n]]]

(* replace_service_dependencies_by_groups, in these entries of a table. *)
ReplaceIn(table, S, s, g) ==
    [n \in DOMAIN table |-> IF n \in S THEN Replace(table[n], s, g) ELSE table[n]]

(* remove_self_reference removes one. *)
RemoveSelfReference(e, g) ==
    [k \in Kinds |-> [e[k] EXCEPT ![g] = IF @ > 0 THEN @ - 1 ELSE 0]]

(* merge_dependencies: what the group does not depend on yet, except itself. *)
Merge(e, into, g) ==
    [k \in Kinds |-> [n \in Names |->
        IF n # g /\ e[k][n] > 0 /\ into[k][n] = 0 THEN 1 ELSE into[k][n]]]

-----------------------------------------------------------------------------
(* group_service: s is copied verbatim if it fits, and is otherwise absorbed *)
(* by the node of its sub group, which is created when it is not there yet.  *)
AddLeaf(s) ==
    /\ drawn' = drawn \cup {s} /\ dashed' = dashed \ {s}
    /\ edges' = [edges EXCEPT ![s] = deps[s]]
    /\ deps' = deps

(* Mutant: only what is still to be visited refers to the group. *)
AbsorbForLater(s) ==
    LET g == SubgroupRoot(s) IN
    /\ drawn' = drawn \cup {g}
    /\ dashed' = IF g \in drawn THEN dashed ELSE dashed \cup {g}
    /\ deps' = ReplaceIn(deps, queried \ {s}, s, g)
    /\ edges' = [edges EXCEPT ![g] = Merge(deps[s], RemoveSelfReference(edges[g], g), g)]

Absorb(s) ==
    LET g == SubgroupRoot(s) IN
    /\ drawn' = drawn \cup {g}
    /\ dashed' = IF g \in drawn THEN dashed ELSE dashed \cup {g}
    /\ deps' = ReplaceIn(deps, queried \ {s}, s, g)
    /\ edges' = [ReplaceIn(edges, drawn \cup {g}, s, g) EXCEPT ![g] = Merge(deps[s], RemoveSelfReference(@, g), g)]

(* One round of the loop of group_services. *)
GroupService(s) ==
    /\ s \in todo
    /\ todo' = todo \ {s}
    /\ \/ Fits(s) /\ AddLeaf(s)
       \/ ~Fits(s) /\ Absorb(s)
    /\ UNCHANGED <<group, view, queried, given>>

-----------------------------------------------------------------------------
(* What the grouping computes *)

Visited == queried \ todo

(* The node that stands for a name, once these services have been visited. *)
NodeOf(n) == IF n \in Visited /\ ~Fits(n) THEN SubgroupRoot(n) ELSE n

(* There is a dependency of a service that m stands for among those of e. *)
Refers(e, k, m) == \E t \in Names : NodeOf(t) = m /\ e[k][t] > 0

(* The services that a node stands for depend on something that m stands for. *)
Related(n, k, m) == \E s \in Visited : NodeOf(s) = n /\ Refers(given[s], k, m)

(* The grouped table is the quotient of the dependency graph by the groups. *)
Quotient ==
    /\ drawn = {NodeOf(s) : s \in Visited}
    /\ dashed = {SubgroupRoot(s) : s \in {v \in Visited : ~Fits(v)}}
    /\ \A n \in Names, k \in Kinds, m \in Names :
          edges[n][k][m] = IF Related(n, k, m) /\ ~(n = m /\ n \in dashed) THEN 1 ELSE 0
=============================================================================
