----------------------------- MODULE MultiwayCut -----------------------------
(***************************************************************************)
(* The approximation of the multiway cut problem of dydisnix-multiwaycut   *)
(* (src/src/multiwaycut): services and target machines are nodes, linked   *)
(* by dependencies and by candidate mappings.  For each machine it finds   *)
(* the services through which the machine is connected with another one,   *)
(* spares the machine with most of them, cuts the mappings of the others,  *)
(* and attaches the services that are left without a machine to their      *)
(* first candidate.                                                        *)
(*                                                                         *)
(* Data abstraction: dependsOn and connectsTo are one relation; a target   *)
(* is a candidate of a service at most once; which candidate of a service  *)
(* is listed first is left open.                                           *)
(***************************************************************************)
EXTENDS Integers, FiniteSets

CONSTANTS
    Services,  \* service names
    Targets,   \* machine names
    NameRank,  \* the order in which an ordered iteration visits machines
    TableRank, \* the order in which an iteration over a hash table does
    LinkRank,  \* the order of the services that a machine is linked to
    Inputs,    \* what the program may be given
    NoNode     \* no node

(* The services of the services model, what they depend on, the services    *)
(* that the distribution model maps and their candidates, and whether both  *)
(* models can be opened.                                                    *)
InputType ==
    [ services    : SUBSET Services,
      deps        : [Services -> SUBSET Services],
      distributed : SUBSET Services,
      candidates  : [Services -> SUBSET Targets],
      readable    : BOOLEAN ]

ASSUME ValueAssumption ==
    /\ IsFiniteSet(Services) /\ IsFiniteSet(Targets)
    /\ Services \cap Targets = {} /\ NoNode \notin Services \cup Targets

ASSUME InputAssumption ==
    /\ NameRank \in [Targets -> Nat] /\ TableRank \in [Targets -> Nat]
    /\ LinkRank \in [Services -> Nat]
    /\ \A t, o \in Targets : NameRank[t] = NameRank[o] \/ TableRank[t] = TableRank[o] => t = o
    /\ \A s, o \in Services : LinkRank[s] = LinkRank[o] => s = o
    /\ \A in \in Inputs :
        /\ in.services \in SUBSET Services
        /\ in.deps \in [Services -> SUBSET Services]
        /\ in.distributed \in SUBSET Services
        /\ in.candidates \in [Services -> SUBSET Targets]
        /\ in.readable \in BOOLEAN
        /\ \A s \in Services \ in.distributed : in.candidates[s] = {}

VARIABLES
    input,     \* what the program was given
    pc,        \* where the process is
    attached,  \* the host nodes that each app node is linked to
    terminals, \* host nodes that the first loop has yet to visit
    host,      \* host_node
    links,     \* app nodes linked to it that the second loop has yet to visit
    app,       \* app_node
    others,    \* host nodes that the third loop has yet to visit
    goal,      \* target_host_node
    visited,   \* nodes marked as visited
    queue,     \* the queue of search_node_breadth_first
    cuts,      \* cuts_per_terminal_table; {} for an entry that is discarded
    result,    \* the distribution that is printed; {} for no entry
    status     \* "running", "ok", "error", or "aborted" by a segmentation fault

loops  == <<terminals, host, links, app, others>>
search == <<goal, visited, queue>>
vars   == <<input, pc, attached, loops, search, cuts, result, status>>

-----------------------------------------------------------------------------
(* The graph *)

Hosts         == UNION {input.candidates[s] : s \in input.distributed}
ServicesOf(t) == {s \in input.distributed : t \in input.candidates[s]}

AdjacentToApp(s) ==
    attached[s] \cup {o \in input.distributed : o \in input.deps[s] \/ s \in input.deps[o]}
AdjacentToHost(t) == {s \in input.distributed : t \in attached[s]}

Adjacent(n) == IF n \in Targets THEN AdjacentToHost(n) ELSE AdjacentToApp(n)

IsFirst(n, S, rank) == n \in S /\ \A o \in S : rank[n] <= rank[o]

Weight(t) == Cardinality(cuts[t])

(* determine_heaviest_host: the first of those with most connections. *)
IsHeaviest(t) ==
    /\ Weight(t) > 0
    /\ \A o \in Hosts : Weight(o) <= Weight(t)
    /\ \A o \in Hosts : Weight(o) = Weight(t) => NameRank[t] <= NameRank[o]

-----------------------------------------------------------------------------
(* The process *)

Init ==
    /\ input \in Inputs
    /\ pc = "open"
    /\ attached = input.candidates
    /\ terminals = {} /\ host = NoNode
    /\ links = {} /\ app = NoNode
    /\ others = {} /\ goal = NoNode
    /\ visited = {} /\ queue = {}
    /\ cuts = [t \in Targets |-> {}]
    /\ result = [s \in Services |-> {}]
    /\ status = "running"

(* All services that are mapped are in the services model, and all their    *)
(* dependencies are mapped.                                                 *)
Closed ==
    /\ input.distributed \subseteq input.services
    /\ \A s \in input.distributed : input.deps[s] \subseteq input.distributed

End(outcome) ==
    /\ status' = outcome
    /\ pc' = "done"
    /\ UNCHANGED <<input, attached, loops, search, cuts, result>>

FailToOpenModels == pc = "open" /\ ~input.readable /\ End("error")

(* generate_application_host_graph *)
GenerateGraph ==
    /\ pc = "open" /\ input.readable /\ Closed
    /\ terminals' = Hosts
    /\ pc' = "terminal"
    /\ UNCHANGED <<input, attached, host, links, app, others, search, cuts, result, status>>

(* A NULL pointer for a service or a node that is not there. *)
AbortOnGraph == pc = "open" /\ input.readable /\ ~Closed /\ End("aborted")

(* The loops of generate_minimum_cuts_per_terminal. *)
VisitTerminal(t) ==
    /\ pc = "terminal" /\ IsFirst(t, terminals, TableRank)
    /\ terminals' = terminals \ {t}
    /\ host' = t
    /\ links' = AdjacentToHost(t)
    /\ pc' = "link"
    /\ UNCHANGED <<input, attached, app, others, search, cuts, result, status>>

VisitLink(s) ==
    /\ pc = "link" /\ IsFirst(s, links, LinkRank)
    /\ links' = links \ {s}
    /\ app' = s
    /\ others' = Hosts \ {host}
    /\ pc' = "other"
    /\ UNCHANGED <<input, attached, terminals, host, search, cuts, result, status>>

LeaveTerminal ==
    /\ pc = "link" /\ links = {}
    /\ pc' = "terminal"
    /\ UNCHANGED <<input, attached, loops, search, cuts, result, status>>

(* Mutant: the marks of the search before stay. *)
SearchOnly(t) ==
    /\ pc = "other" /\ IsFirst(t, others, TableRank)
    /\ others' = others \ {t}
    /\ goal' = t
    /\ visited' = visited \cup {app}
    /\ queue' = {app}
    /\ pc' = "search"
    /\ UNCHANGED <<input, attached, terminals, host, links, app, cuts, result, status>>

(* mark_all_nodes_unvisited, and the start of the search. *)
SearchOther(t) ==
    /\ pc = "other" /\ IsFirst(t, others, TableRank)
    /\ others' = others \ {t}
    /\ goal' = t
    /\ visited' = {app}
    /\ queue' = {app}
    /\ pc' = "search"
    /\ UNCHANGED <<input, attached, terminals, host, links, app, cuts, result, status>>

(* The app node is connected with no other host node: its link is kept. *)
KeepLink ==
    /\ pc = "other" /\ others = {}
    /\ pc' = "link"
    /\ UNCHANGED <<input, attached, loops, search, cuts, result, status>>

(* Mutant: a node is not marked before it is examined. *)
ExamineAgain(n) ==
    /\ pc = "search" /\ n \in queue /\ n # goal
    /\ queue' = (queue \ {n}) \cup Adjacent(n)
    /\ visited' = visited \cup {n} \cup Adjacent(n)
    /\ UNCHANGED <<input, pc, attached, loops, goal, cuts, result, status>>

(* search_node_breadth_first examines a node of its queue.  What it finds   *)
(* does not depend on the order in which it takes them.                     *)
Examine(n) ==
    /\ pc = "search" /\ n \in queue /\ n # goal
    /\ queue' = (queue \ {n}) \cup (Adjacent(n) \ visited)
    /\ visited' = visited \cup Adjacent(n)
    /\ UNCHANGED <<input, pc, attached, loops, goal, cuts, result, status>>

(* The other host node is found: the link has to be cut. *)
FindGoal ==
    /\ pc = "search" /\ goal \in queue
    /\ cuts' = [cuts EXCEPT ![host] = @ \cup {app}]
    /\ pc' = "link"
    /\ UNCHANGED <<input, attached, loops, search, result, status>>

FindNothing ==
    /\ pc = "search" /\ queue = {}
    /\ pc' = "other"
    /\ UNCHANGED <<input, attached, loops, search, cuts, result, status>>

(* Mutant: all cuts that are as heavy are discarded. *)
DiscardHeaviestCuts ==
    /\ pc = "terminal" /\ terminals = {}
    /\ cuts' = [t \in Targets |->
                   IF \A o \in Hosts : Weight(o) <= Weight(t) THEN {} ELSE cuts[t]]
    /\ pc' = "unlink"
    /\ UNCHANGED <<input, attached, loops, search, result, status>>

(* discard_heaviest_cut *)
DiscardHeaviestCut ==
    /\ pc = "terminal" /\ terminals = {}
    /\ cuts' = [t \in Targets |-> IF t \in Hosts /\ IsHeaviest(t) THEN {} ELSE cuts[t]]
    /\ pc' = "unlink"
    /\ UNCHANGED <<input, attached, loops, search, result, status>>

(* Mutant: nothing is unlinked. *)
UnlinkNothing ==
    /\ pc = "unlink"
    /\ pc' = "fix"
    /\ UNCHANGED <<input, attached, loops, search, cuts, result, status>>

(* unlink_cuts_in_graph; the links do not depend on each other. *)
UnlinkCuts ==
    /\ pc = "unlink"
    /\ attached' = [s \in Services |-> {t \in attached[s] : s \notin cuts[t]}]
    /\ pc' = "fix"
    /\ UNCHANGED <<input, loops, search, cuts, result, status>>

Orphans == {s \in input.distributed : attached[s] = {}}

(* Mutant: an orphan is attached to any host node. *)
AttachAnywhere(s, t) ==
    /\ pc = "fix" /\ s \in Orphans /\ t \in Hosts
    /\ attached' = [attached EXCEPT ![s] = {t}]
    /\ UNCHANGED <<input, pc, loops, search, cuts, result, status>>

(* attach_app_node_to_first_host_node *)
Attach(s, t) ==
    /\ pc = "fix" /\ s \in Orphans /\ t \in input.candidates[s]
    /\ attached' = [attached EXCEPT ![s] = {t}]
    /\ UNCHANGED <<input, pc, loops, search, cuts, result, status>>

(* The service has no candidates: the first one is read from an empty array. *)
AbortOnOrphan(s) ==
    pc = "fix" /\ s \in Orphans /\ input.candidates[s] = {} /\ End("aborted")

FinishFixing ==
    /\ pc = "fix" /\ Orphans = {}
    /\ pc' = "convert"
    /\ UNCHANGED <<input, attached, loops, search, cuts, result, status>>

(* generate_distribution_table_from_application_host_graph, one service.    *)
Convert(s) ==
    /\ pc = "convert" /\ s \in input.distributed /\ result[s] = {}
    /\ result' = [result EXCEPT ![s] = attached[s]]
    /\ UNCHANGED <<input, pc, attached, loops, search, cuts, status>>

PrintDistribution ==
    pc = "convert" /\ (\A s \in input.distributed : result[s] # {}) /\ End("ok")

Next ==
    \/ FailToOpenModels \/ GenerateGraph \/ AbortOnGraph
    \/ \E t \in Targets : VisitTerminal(t) \/ SearchOther(t)
    \/ \E s \in Services : VisitLink(s)
    \/ LeaveTerminal \/ KeepLink
    \/ \E n \in Services \cup Targets : Examine(n)
    \/ FindGoal \/ FindNothing
    \/ DiscardHeaviestCut \/ UnlinkCuts
    \/ \E s \in Services, t \in Targets : Attach(s, t)
    \/ \E s \in Services : AbortOnOrphan(s)
    \/ FinishFixing
    \/ \E s \in Services : Convert(s)
    \/ PrintDistribution

Spec == Init /\ [][Next]_vars

(* The program is one sequential process. *)
FairSpec == Spec /\ WF_vars(Next)

-----------------------------------------------------------------------------
(* Properties *)

(* Links are only ever removed from the candidates or restored to them.     *)
TypeOK ==
    /\ pc \in {"open", "terminal", "link", "other", "search", "unlink", "fix", "convert", "done"}
    /\ \A s \in Services : attached[s] \subseteq input.candidates[s]
    /\ terminals \in SUBSET Targets /\ host \in Targets \cup {NoNode}
    /\ links \in SUBSET input.distributed /\ app \in Services \cup {NoNode}
    /\ others \in SUBSET Targets /\ goal \in Targets \cup {NoNode}
    /\ visited \in SUBSET (Services \cup Targets) /\ queue \in SUBSET visited
    /\ cuts \in [Targets -> SUBSET input.distributed]
    /\ result \in [Services -> SUBSET Targets]
    /\ status \in {"running", "ok", "error", "aborted"}

(* Two nodes are connected if no set of nodes that is closed under links    *)
(* has one and not the other.                                               *)
Nodes == Services \cup Targets
ClosedUnderLinks(C) == \A n \in C : Adjacent(n) \subseteq C
Connected(m, n) == \A C \in SUBSET Nodes : m \in C /\ ClosedUnderLinks(C) => n \in C

(* The cut of a machine has exactly the services through which the machine  *)
(* is connected with another one, whichever searches were made before.      *)
Isolating(t) == {s \in ServicesOf(t) : \E o \in Hosts \ {t} : Connected(s, o)}

CutsAreExact ==
    pc = "terminal" => \A t \in Hosts \ terminals : cuts[t] = Isolating(t)

(* What remains after step 3 is a multiway cut: no two machines are         *)
(* connected any more ("disconnects the terminal (machine) from the rest of *)
(* the terminals", multiwaycut-approximate.c), although one cut has been    *)
(* discarded.                                                               *)
Separated == \A t, o \in Hosts : t # o => ~Connected(t, o)

TerminalsSeparated == [][pc = "unlink" /\ pc' = "fix" => Separated']_vars

(* Every service is mapped to exactly one of its candidates: all others are *)
(* cut, and those that lose the last one get one back.                      *)
Phase == INSTANCE DivisionPhase WITH
    candidates <- input.candidates,
    chosen <- result,
    outcome <- IF status \in {"running", "ok"} THEN status ELSE "failed"

CutsAsDivision == Phase!Spec

(* All searches and loops come to an end, with a distribution if the models *)
(* are consistent and all services have candidates.                         *)
Consistent ==
    input.readable /\ Closed /\ \A s \in input.distributed : input.candidates[s] # {}

CutEnds == Consistent ~> status = "ok"
=============================================================================
