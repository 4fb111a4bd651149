--------------------------- MODULE ServiceCatalog ---------------------------
(***************************************************************************)
(* dydisnix-visualize-services and dydisnix-document-services (src), which *)
(* dydisnix-generate-services-docs runs in batch mode: for the root and    *)
(* every group that a service is in, the services of the group are copied, *)
(* the sub groups in it are merged (module ServiceGroups), and a diagram   *)
(* or a page is written.  A diagram also shows the services outside the    *)
(* group that its services depend on, and those that depend on them.       *)
(*                                                                         *)
(* Formatting is left out, except for what a reader clicks on: a page has  *)
(* a link to the page of every sub group that is a node on it.             *)
(***************************************************************************)
EXTENDS ServiceGroups

CONSTANTS
    Models,     \* the services models, with the options of the program
    Faults      \* "write": a file may not be written

(* program: "document" or "visualize"; batch: --batch; view: --group;       *)
(* merge: --group-subservices; group, needs: of the services of the model.  *)
Input == [services : SUBSET Services, group : [Services -> Groups], needs : [Services -> Edges],
          program : {"document", "visualize"}, batch : BOOLEAN, view : Groups, merge : BOOLEAN]

ASSUME ModelAssumption ==
    /\ Models \subseteq Input
    /\ \A in \in Models, s \in Services, k \in Kinds :
          /\ in.needs[s][k][s] = 0
          /\ \A n \in Names : in.needs[s][k][n] \in 0 .. 1

VARIABLES
    input,      \* the options and the services model
    pc,         \* the next part of the program
    unvisited,  \* the groups of unique_groups_array that are still to be done
    pages,      \* the groups that have a page or a diagram
    links,      \* the groups that a link of a page leads to
    status      \* "running", the exit status, or how the process died

vars == <<group, view, tables, input, pc, unvisited, pages, links, status>>
noTable == [s \in Services |-> NoEdges]

Documents == input.program = "document"

Init ==
    /\ input \in Models
    /\ group = input.group
    /\ view = IF input.batch THEN <<>> ELSE input.view
    /\ queried = {} /\ given = noTable /\ deps = noTable /\ todo = {}
    /\ drawn = {} /\ dashed = {} /\ edges = [n \in Names |-> NoEdges]
    /\ pc = "query"
    /\ unvisited = IF input.batch THEN {group[s] : s \in input.services} ELSE {}
    /\ pages = {} /\ links = {}
    /\ status = "running"

-----------------------------------------------------------------------------
(* The queried services *)

(* query_services_in_group copies the services of the group. *)
QueryGroup ==
    /\ pc = "query"
    /\ queried' = {s \in input.services : InGroup(s, view)}
    /\ deps' = [s \in Services |-> IF s \in queried' THEN input.needs[s] ELSE NoEdges]
    /\ todo' = {}
    /\ pc' = IF Documents THEN "context" ELSE "dependencies"
    /\ UNCHANGED <<group, view, given, drawn, dashed, edges, input, unvisited, pages, links, status>>

(* The names outside the table that services in it depend on. *)
Outside == {n \in Names \ queried : \E s \in queried, k \in Kinds : deps[s][k][n] > 0}

(* Services outside the group that depend on services in it. *)
Interdependent ==
    {s \in input.services \ queried : \E k \in Kinds, n \in queried : input.needs[s][k][n] > 0}

(* Mutant: a dependency that the model does not have gets a node as well. *)
AddUnknownDependencies ==
    /\ pc = "dependencies"
    /\ queried' = queried \cup Outside
    /\ todo' = Interdependent \ Outside
    /\ pc' = "context"
    /\ UNCHANGED <<group, view, given, deps, drawn, dashed, edges, input, unvisited, pages, links,
                   status>>

(* query_direct_dependencies and append_dependencies_to_table: the services *)
(* outside the group, without dependencies of their own; what depends on    *)
(* the group is determined as well (query_interdependent_services).         *)
AddDependencies ==
    /\ pc = "dependencies" /\ Outside \subseteq input.services
    /\ queried' = queried \cup Outside
    /\ todo' = Interdependent \ Outside
    /\ pc' = "context"
    /\ UNCHANGED <<group, view, given, deps, drawn, dashed, edges, input, unvisited, pages, links,
                   status>>

(* A dependency that the model does not have: NULL is dereferenced. *)
AbortOnDependency ==
    /\ pc = "dependencies" /\ ~(Outside \subseteq input.services)
    /\ status' = "aborted" /\ pc' = "done"
    /\ UNCHANGED <<group, view, tables, input, unvisited, pages, links>>

(* Mutant: the copy keeps all its dependencies. *)
AppendVerbatim(s) ==
    /\ pc = "context" /\ s \in todo
    /\ queried' = queried \cup {s}
    /\ deps' = [deps EXCEPT ![s] = input.needs[s]]
    /\ todo' = todo \ {s}
    /\ UNCHANGED <<group, view, given, drawn, dashed, edges, input, pc, unvisited, pages, links,
                   status>>

(* copy_non_dangling_dependencies *)
NonDangling(e) ==
    [k \in Kinds |-> [n \in Names |-> IF n \in queried THEN e[k][n] ELSE 0]]

(* append_interdependent_services_to_table, one service: the dependencies   *)
(* that are not in the table, as far as it has been filled, are dropped.    *)
AppendInterdependent(s) ==
    /\ pc = "context" /\ s \in todo
    /\ queried' = queried \cup {s}
    /\ deps' = [deps EXCEPT ![s] = NonDangling(input.needs[s])]
    /\ todo' = todo \ {s}
    /\ UNCHANGED <<group, view, given, drawn, dashed, edges, input, pc, unvisited, pages, links,
                   status>>

-----------------------------------------------------------------------------
(* The grouping, and what is written *)

(* Without --group-subservices the queried table is shown as it is. *)
Merges == input.batch \/ input.merge

BeginGrouping ==
    /\ pc = "context" /\ todo = {}
    /\ given' = deps
    /\ todo' = IF Merges THEN queried ELSE {}
    /\ drawn' = IF Merges THEN {} ELSE queried
    /\ dashed' = {}
    /\ edges' = [n \in Names |-> IF ~Merges /\ n \in queried THEN deps[n] ELSE NoEdges]
    /\ pc' = "group"
    /\ UNCHANGED <<group, view, queried, deps, input, unvisited, pages, links, status>>

Group(s) ==
    /\ pc = "group" /\ GroupService(s)
    /\ UNCHANGED <<input, pc, unvisited, pages, links, status>>

(* A page has a link for every node that stands for a sub group; a diagram  *)
(* has none.                                                                *)
LinksOfPage == IF Documents THEN {Append(view, g) : g \in dashed} ELSE {}

(* The page or diagram of the group; it goes to stdout without --batch. *)
Write ==
    /\ pc = "group" /\ todo = {}
    /\ pages' = pages \cup {view}
    /\ links' = links \cup LinksOfPage
    /\ pc' = IF input.batch THEN "next" ELSE "done"
    /\ status' = IF input.batch THEN "running" ELSE "ok"
    /\ UNCHANGED <<group, view, tables, input, unvisited>>

(* A file of a catalog cannot be written.  The result of the generation of  *)
(* a diagram is ignored; the documentation stops.                           *)
FailToWrite ==
    /\ "write" \in Faults /\ input.batch /\ pc = "group" /\ todo = {}
    /\ pc' = IF Documents THEN "done" ELSE "next"
    /\ status' = IF Documents THEN "error" ELSE "running"
    /\ UNCHANGED <<group, view, tables, input, unvisited, pages, links>>

NextGroup(g) ==
    /\ pc = "next" /\ g \in unvisited
    /\ unvisited' = unvisited \ {g}
    /\ view' = g
    /\ pc' = "query"
    /\ UNCHANGED <<group, tables, input, pages, links, status>>

(* All groups are done; the documentation gets its style sheet. *)
Finish ==
    /\ pc = "next" /\ unvisited = {}
    /\ status' \in {"ok"} \cup (IF Documents /\ "write" \in Faults THEN {"error"} ELSE {})
    /\ pc' = "done"
    /\ UNCHANGED <<group, view, tables, input, unvisited, pages, links>>

Next ==
    \/ QueryGroup \/ AddDependencies \/ AbortOnDependency
    \/ \E s \in Services : AppendInterdependent(s) \/ Group(s)
    \/ BeginGrouping
    \/ Write \/ FailToWrite
    \/ \E g \in unvisited : NextGroup(g)
    \/ Finish

Spec == Init /\ [][Next]_vars

-----------------------------------------------------------------------------
(* Properties *)

TypeOK ==
    /\ input \in Models /\ group = input.group
    /\ view \in Groups
    /\ queried \in SUBSET input.services /\ todo \in SUBSET input.services
    /\ given \in [Services -> Edges] /\ deps \in [Services -> Edges]
    /\ drawn \in SUBSET Names /\ dashed \in SUBSET (drawn \cap Tokens)
    /\ edges \in [Names -> Edges]
    /\ \A n \in Names \ drawn : edges[n] = NoEdges
    /\ pc \in {"query", "dependencies", "context", "group", "next", "done"}
    /\ unvisited \in SUBSET Groups /\ pages \in SUBSET Groups /\ links \in SUBSET Groups
    /\ status \in {"running", "ok", "error", "aborted"}

(* "Substitute a dependency on this service by the group", "prevent         *)
(* duplicates": whatever the order in which the hash table yields the       *)
(* services, and although their dependencies are changed in the meantime,   *)
(* the nodes and edges are those of the visited services, each by its       *)
(* group, with no edge twice, none to a service that is merged into a       *)
(* group, and none of a group to itself.                                    *)
GroupsAreQuotient == pc = "group" /\ Merges => Quotient

(* Both ends of every edge of a diagram are nodes of it: the context has    *)
(* all services that the group depends on, and what outside services depend *)
(* on is dropped when it is not shown.                                      *)
NoDanglingEdges ==
    pc = "group" /\ todo = {} /\ ~Documents =>
        \A n \in drawn, k \in Kinds, m \in Names : edges[n][k][m] > 0 => m \in drawn

(* "allowing you to zoom in from the highest abstraction layer to deeper    *)
(* layers": if all layers have services of their own, every link of a       *)
(* catalog that was generated without an error leads to a page.             *)
Populated ==
    \A s \in input.services : \A i \in 1 .. Len(group[s]) :
        \E t \in input.services : group[t] = SubSeq(group[s], 1, i)

LinksLeadToPages ==
    status = "ok" /\ input.batch /\ Documents =>
        /\ \A s \in input.services : group[s] \in pages
        /\ Populated => links \subseteq pages
=============================================================================
