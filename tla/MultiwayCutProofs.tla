-------------------------- MODULE MultiwayCutProofs --------------------------
(***************************************************************************)
(* Proofs about MultiwayCut, for any services, machines and models: the    *)
(* searches find exactly the connections that there are, cutting these     *)
(* separates the machines, and so every service keeps one machine, which   *)
(* is how the program implements DivisionPhase.                            *)
(***************************************************************************)
EXTENDS MultiwayCut, FiniteSetTheorems, TLAPS

(* The process has models, and runs until it is done. *)
ProcessInv ==
    /\ input \in Inputs
    /\ attached \in [Services -> SUBSET Targets]
    /\ status = "running" <=> pc # "done"

(* Until links are cut, the graph is that of the models. *)
Uncut == pc \in {"open", "terminal", "link", "other", "search", "unlink"}
GraphInv == Uncut => attached = input.candidates

(* Where the three loops are. *)
LoopInv ==
    /\ pc \in {"terminal", "link", "other", "search"} => terminals \subseteq Hosts
    /\ pc \in {"link", "other", "search"} =>
          host \in Hosts \ terminals /\ links \subseteq ServicesOf(host)
    /\ pc \in {"other", "search"} =>
          app \in ServicesOf(host) \ links /\ others \subseteq Hosts \ {host}
    /\ pc = "search" => goal \in Hosts \ ({host} \cup others)

(* What a search has marked can be reached from where it started, and what  *)
(* it has examined has no neighbours that are not marked; the goal is never *)
(* examined.                                                                *)
SearchInv ==
    pc = "search" =>
        /\ app \in visited
        /\ \A C \in SUBSET Nodes : app \in C /\ ClosedUnderLinks(C) => visited \subseteq C
        /\ \A n \in visited \ queue : Adjacent(n) \subseteq visited
        /\ goal \in visited => goal \in queue

(* The hosts that searches from the app node have not found are connected   *)
(* with it by nothing.                                                      *)
NotFoundInv ==
    pc \in {"other", "search"} =>
        \A t \in Hosts \ ({host} \cup others) :
            (pc = "search" /\ t = goal) \/ ~Connected(app, t)

(* The cuts of the hosts and app nodes that the loops have visited. *)
CutInv ==
    /\ pc = "open" => cuts = [t \in Targets |-> {}]
    /\ pc \in {"terminal", "link", "other", "search"} =>
          \A t \in Hosts :
              IF t \in terminals THEN cuts[t] = {}
              ELSE IF pc = "terminal" \/ t # host THEN cuts[t] = Isolating(t)
              ELSE cuts[t] = Isolating(t) \ (links \cup (IF pc = "link" THEN {} ELSE {app}))

(* Of two hosts at most one has its cut discarded. *)
DiscardInv ==
    pc = "unlink" =>
        \A t, o \in Hosts : t # o => cuts[t] = Isolating(t) \/ cuts[o] = Isolating(o)

(* No service has two hosts. *)
Single == \A s \in Services : \A t, o \in attached[s] : t = o

(* After the cut no service has two hosts; after the repair each has one,   *)
(* and the distribution has no other.                                       *)
SingleInv ==
    /\ pc \in {"fix", "convert"} => Single
    /\ pc = "convert" => \A s \in input.distributed : attached[s] # {}
    /\ pc \notin {"convert", "done"} => result = [s \in Services |-> {}]
    /\ \A s \in Services : result[s] # {} => s \in input.distributed

Inv ==
    /\ TypeOK /\ ProcessInv /\ GraphInv /\ LoopInv /\ SearchInv /\ NotFoundInv
    /\ CutInv /\ DiscardInv /\ SingleInv

-----------------------------------------------------------------------------
(* The graph *)

(* What the models are. *)
LEMMA InputTyped ==
    ASSUME input \in Inputs
    PROVE  /\ input.services \in SUBSET Services /\ input.distributed \in SUBSET Services
           /\ input.candidates \in [Services -> SUBSET Targets]
           /\ input.deps \in [Services -> SUBSET Services]
           /\ \A s \in Services \ input.distributed : input.candidates[s] = {}
           /\ Hosts \in SUBSET Targets
    BY InputAssumption DEF Hosts

(* A node is linked to nodes of the graph. *)
LEMMA AdjacentTyped ==
    ASSUME ProcessInv
    PROVE  /\ \A n \in Nodes : Adjacent(n) \in SUBSET Nodes
           /\ \A s \in Services : Adjacent(s) = AdjacentToApp(s)
           /\ \A t \in Targets : Adjacent(t) = AdjacentToHost(t)
    BY InputTyped, ValueAssumption
    DEF ProcessInv, Nodes, Adjacent, AdjacentToApp, AdjacentToHost

(* A graph with the same links has the same connections. *)
LEMMA GraphIsKept ==
    ASSUME attached' = attached, input' = input
    PROVE  /\ Hosts' = Hosts
           /\ \A t \in Targets : ServicesOf(t)' = ServicesOf(t)
           /\ \A n \in Nodes : Adjacent(n)' = Adjacent(n)
           /\ \A C \in SUBSET Nodes : ClosedUnderLinks(C)' = ClosedUnderLinks(C)
           /\ \A m, n \in Nodes : Connected(m, n)' = Connected(m, n)
    <1>1. \A n \in Nodes : Adjacent(n)' = Adjacent(n)
        BY DEF Adjacent, AdjacentToApp, AdjacentToHost
    <1>2. \A C \in SUBSET Nodes : ClosedUnderLinks(C)' = ClosedUnderLinks(C)
        BY <1>1 DEF ClosedUnderLinks
    <1>3. \A m, n \in Nodes : Connected(m, n)' = Connected(m, n)
        BY <1>2 DEF Connected
    <1> QED
        BY <1>1, <1>2, <1>3 DEF Hosts, ServicesOf

LEMMA IsolatingIsKept ==
    ASSUME attached' = attached, input' = input, input \in Inputs, NEW t \in Targets
    PROVE  Isolating(t)' = Isolating(t)
    <1>1. \A s \in ServicesOf(t), o \in Hosts : s \in Nodes /\ o \in Nodes
        BY InputTyped DEF ServicesOf, Nodes
    <1> QED
        BY <1>1, GraphIsKept DEF Isolating

(* A node is connected with its neighbours, and theirs. *)
LEMMA ConnectedToNeighbour ==
    ASSUME NEW m, NEW n \in Nodes, NEW k \in Adjacent(n), Connected(m, n)
    PROVE  Connected(m, k)
    BY DEF Connected, ClosedUnderLinks

LEMMA ConnectedToItself == \A n \in Nodes : Connected(n, n)
    BY DEF Connected

-----------------------------------------------------------------------------
(* Types *)

LEMMA InvInit == Init => Inv
    <1> SUFFICES ASSUME Init PROVE Inv
        OBVIOUS
    <1>1. TypeOK /\ ProcessInv
        BY InputTyped DEF Init, TypeOK, ProcessInv
    <1>2. GraphInv /\ LoopInv /\ SearchInv /\ NotFoundInv /\ CutInv /\ DiscardInv /\ SingleInv
        BY DEF Init, GraphInv, LoopInv, SearchInv, NotFoundInv, CutInv, DiscardInv, SingleInv
    <1> QED
        BY <1>1, <1>2 DEF Inv

LEMMA InputIsKept == [Next]_vars => input' = input
    BY DEF Next, vars, End, FailToOpenModels, GenerateGraph, AbortOnGraph, VisitTerminal,
       SearchOther, VisitLink, LeaveTerminal, KeepLink, Examine, FindGoal, FindNothing,
       DiscardHeaviestCut, UnlinkCuts, Attach, AbortOnOrphan, FinishFixing, Convert,
       PrintDistribution

(* The end of the process, however it comes. *)
LEMMA EndTyped ==
    ASSUME TypeOK, ProcessInv, NEW outcome \in {"ok", "error", "aborted"}, End(outcome)
    PROVE  TypeOK' /\ ProcessInv'
    BY DEF TypeOK, ProcessInv, End, loops, search

LEMMA TypeStep == TypeOK /\ ProcessInv /\ LoopInv /\ [Next]_vars => TypeOK' /\ ProcessInv'
    <1> SUFFICES ASSUME TypeOK, ProcessInv, LoopInv, [Next]_vars PROVE TypeOK' /\ ProcessInv'
        OBVIOUS
    <1> USE DEF TypeOK, ProcessInv
    <1>1. CASE FailToOpenModels \/ AbortOnGraph \/ PrintDistribution
        BY <1>1, EndTyped DEF FailToOpenModels, AbortOnGraph, PrintDistribution
    <1>2. CASE GenerateGraph
        BY <1>2, InputTyped DEF GenerateGraph, search
    <1>3. ASSUME NEW t \in Targets, VisitTerminal(t) PROVE TypeOK' /\ ProcessInv'
        BY <1>3, InputTyped DEF VisitTerminal, search, AdjacentToHost
    <1>4. ASSUME NEW t \in Targets, SearchOther(t) PROVE TypeOK' /\ ProcessInv'
        <2>1. app \in Services
            BY <1>4, InputTyped DEF LoopInv, SearchOther, ServicesOf
        <2> QED
            BY <1>4, <2>1 DEF SearchOther
    <1>5. ASSUME NEW s \in Services, VisitLink(s) PROVE TypeOK' /\ ProcessInv'
        BY <1>5, InputTyped DEF VisitLink, search
    <1>6. CASE LeaveTerminal \/ KeepLink \/ FindNothing \/ FinishFixing
        BY <1>6 DEF LeaveTerminal, KeepLink, FindNothing, FinishFixing, loops, search
    <1>7. ASSUME NEW n \in Services \cup Targets, Examine(n) PROVE TypeOK' /\ ProcessInv'
        BY <1>7, AdjacentTyped DEF Examine, loops, Nodes
    <1>8. CASE FindGoal
        <2>1. host \in Targets /\ app \in input.distributed
            BY <1>8, InputTyped DEF LoopInv, FindGoal, ServicesOf
        <2> QED
            BY <1>8, <2>1 DEF FindGoal, loops, search
    <1>9. CASE DiscardHeaviestCut
        BY <1>9 DEF DiscardHeaviestCut, loops, search
    <1>10. CASE UnlinkCuts
        BY <1>10 DEF UnlinkCuts, loops, search
    <1>11. ASSUME NEW s \in Services, NEW t \in Targets, Attach(s, t)
           PROVE  TypeOK' /\ ProcessInv'
        BY <1>11 DEF Attach, loops, search
    <1>12. ASSUME NEW s \in Services, AbortOnOrphan(s) PROVE TypeOK' /\ ProcessInv'
        BY <1>12, EndTyped DEF AbortOnOrphan
    <1>13. ASSUME NEW s \in Services, Convert(s) PROVE TypeOK' /\ ProcessInv'
        BY <1>13 DEF Convert, loops, search
    <1>14. CASE UNCHANGED vars
        BY <1>14 DEF vars, loops, search
    <1> QED
        BY <1>1, <1>2, <1>3, <1>4, <1>5, <1>6, <1>7, <1>8, <1>9, <1>10, <1>11, <1>12, <1>13,
           <1>14 DEF Next

-----------------------------------------------------------------------------
(* The loops and the searches *)

LEMMA GraphStep == GraphInv /\ [Next]_vars => GraphInv'
    BY InputIsKept
    DEF GraphInv, Uncut, Next, vars, loops, search, End, FailToOpenModels, GenerateGraph,
        AbortOnGraph, VisitTerminal, SearchOther, VisitLink, LeaveTerminal, KeepLink, Examine,
        FindGoal, FindNothing, DiscardHeaviestCut, UnlinkCuts, Attach, AbortOnOrphan,
        FinishFixing, Convert, PrintDistribution

(* What the loops run over is the same in all steps. *)
LEMMA HostsAreKept ==
    ASSUME [Next]_vars
    PROVE  Hosts' = Hosts /\ \A t : ServicesOf(t)' = ServicesOf(t)
    BY InputIsKept DEF Hosts, ServicesOf

LEMMA LoopStep == GraphInv /\ LoopInv /\ [Next]_vars => LoopInv'
    <1> SUFFICES ASSUME GraphInv, LoopInv, [Next]_vars PROVE LoopInv'
        OBVIOUS
    <1>0. Hosts' = Hosts /\ \A t : ServicesOf(t)' = ServicesOf(t)
        BY HostsAreKept
    <1> USE DEF LoopInv
    <1>1. ASSUME pc' \notin {"terminal", "link", "other", "search"} PROVE LoopInv'
        BY <1>1
    <1>2. CASE GenerateGraph
        BY <1>0, <1>2 DEF GenerateGraph
    <1>3. ASSUME NEW t \in Targets, VisitTerminal(t) PROVE LoopInv'
        <2>1. AdjacentToHost(t) = ServicesOf(t)
            BY <1>3 DEF VisitTerminal, GraphInv, Uncut, AdjacentToHost, ServicesOf
        <2>2. ServicesOf(host)' = ServicesOf(t)
            BY <1>3, InputIsKept DEF VisitTerminal, ServicesOf
        <2> QED
            BY <1>0, <1>3, <2>1, <2>2 DEF VisitTerminal, IsFirst
    <1>4. ASSUME ServicesOf(host)' = ServicesOf(host), terminals' = terminals, host' = host,
                 \/ \E t \in Targets : SearchOther(t)
                 \/ \E s \in Services : VisitLink(s)
                 \/ LeaveTerminal \/ KeepLink \/ FindGoal \/ FindNothing
                 \/ \E n \in Services \cup Targets : Examine(n)
                 \/ UNCHANGED vars
          PROVE  LoopInv'
        BY <1>0, <1>4 DEF SearchOther, VisitLink, LeaveTerminal, KeepLink, FindGoal, FindNothing,
                          Examine, IsFirst, vars, loops, search
    <1>5. ASSUME host' = host PROVE ServicesOf(host)' = ServicesOf(host)
        BY <1>5, InputIsKept DEF ServicesOf
    <1> QED
        BY <1>1, <1>2, <1>3, <1>4, <1>5
        DEF Next, FailToOpenModels, AbortOnGraph, PrintDistribution, End, DiscardHeaviestCut,
            UnlinkCuts, Attach, AbortOnOrphan, FinishFixing, Convert, SearchOther, VisitLink,
            LeaveTerminal, KeepLink, FindGoal, FindNothing, Examine, vars, loops

LEMMA SearchStep == TypeOK /\ ProcessInv /\ LoopInv /\ SearchInv /\ [Next]_vars => SearchInv'
    <1> SUFFICES ASSUME TypeOK, ProcessInv, LoopInv, SearchInv, [Next]_vars, pc' = "search"
                 PROVE  SearchInv'
        BY DEF SearchInv
    <1>1. ASSUME NEW t \in Targets, SearchOther(t) PROVE SearchInv'
        BY <1>1 DEF SearchOther, SearchInv
    <1>2. ASSUME NEW n \in Services \cup Targets, Examine(n) PROVE SearchInv'
        <2>0. n \in Nodes /\ visited \in SUBSET Nodes /\ n \in visited
            BY <1>2 DEF Nodes, TypeOK, Examine
        <2>1. /\ Adjacent(n) \in SUBSET Nodes
              /\ \A m \in Nodes : Adjacent(m)' = Adjacent(m)
              /\ \A C \in SUBSET Nodes : ClosedUnderLinks(C)' = ClosedUnderLinks(C)
            BY <1>2, <2>0, AdjacentTyped, GraphIsKept DEF Examine
        <2>2. app' \in visited'
            BY <1>2 DEF Examine, SearchInv, loops
        <2>3. ASSUME NEW C \in SUBSET Nodes, app \in C, ClosedUnderLinks(C)
              PROVE  visited \cup Adjacent(n) \subseteq C
            BY <1>2, <2>0, <2>3 DEF SearchInv, Examine, ClosedUnderLinks
        <2>4. ASSUME NEW m \in visited' \ queue' PROVE Adjacent(m) \subseteq visited'
            BY <1>2, <2>0, <2>4 DEF SearchInv, Examine
        <2>5. goal' \in visited' => goal' \in queue'
            BY <1>2 DEF SearchInv, Examine
        <2>6. visited' \in SUBSET Nodes
            BY <1>2, <2>0, <2>1 DEF Examine
        <2> QED
            BY <1>2, <2>1, <2>2, <2>3, <2>4, <2>5, <2>6 DEF SearchInv, Examine, loops, Nodes
    <1>3. CASE UNCHANGED vars
        <2>1. /\ \A m \in Nodes : Adjacent(m)' = Adjacent(m)
              /\ \A C \in SUBSET Nodes : ClosedUnderLinks(C)' = ClosedUnderLinks(C)
            BY <1>3, GraphIsKept DEF vars
        <2>2. visited \in SUBSET Nodes
            BY DEF TypeOK, Nodes
        <2> QED
            BY <1>3, <2>1, <2>2 DEF SearchInv, vars, loops, search, Nodes
    <1> QED
        BY <1>1, <1>2, <1>3
        DEF Next, FailToOpenModels, GenerateGraph, AbortOnGraph, PrintDistribution, End,
            VisitTerminal, VisitLink, LeaveTerminal, KeepLink, FindGoal, FindNothing,
            DiscardHeaviestCut, UnlinkCuts, Attach, AbortOnOrphan, FinishFixing, Convert

(* A search that has found nothing has been everywhere that links lead to. *)
LEMMA NothingIsFound ==
    ASSUME TypeOK, ProcessInv, SearchInv, FindNothing
    PROVE  ~Connected(app, goal)
    <1>1. visited \in SUBSET Nodes /\ app \in visited /\ goal \notin visited
        BY DEF TypeOK, Nodes, SearchInv, FindNothing
    <1>2. ClosedUnderLinks(visited)
        BY DEF ClosedUnderLinks, SearchInv, FindNothing
    <1> QED
        BY <1>1, <1>2 DEF Connected

LEMMA NotFoundStep ==
    TypeOK /\ ProcessInv /\ LoopInv /\ SearchInv /\ NotFoundInv /\ [Next]_vars => NotFoundInv'
    <1> SUFFICES ASSUME TypeOK, ProcessInv, LoopInv, SearchInv, NotFoundInv, [Next]_vars,
                        pc' \in {"other", "search"}
                 PROVE  NotFoundInv'
        BY DEF NotFoundInv
    <1>0. Hosts' = Hosts /\ Hosts \subseteq Nodes
        BY HostsAreKept, InputTyped DEF ProcessInv, Nodes
    <1>1. ASSUME attached' = attached, host' = host, app' = app, pc \in {"other", "search"},
                 \A t \in Hosts \ ({host} \cup others') :
                    (pc' = "search" /\ t = goal') \/ ~Connected(app, t)
          PROVE  NotFoundInv'
        <2>1. app \in Nodes
            BY <1>1, InputTyped DEF LoopInv, ProcessInv, ServicesOf, Nodes
        <2>2. \A t \in Hosts : Connected(app, t)' = Connected(app, t)
            BY <1>0, <1>1, <2>1, GraphIsKept, InputIsKept DEF Connected
        <2> QED
            BY <1>0, <1>1, <2>2 DEF NotFoundInv
    <1>2. ASSUME NEW s \in Services, VisitLink(s) PROVE NotFoundInv'
        BY <1>0, <1>2 DEF VisitLink, NotFoundInv
    <1>3. ASSUME NEW t \in Targets, SearchOther(t) PROVE NotFoundInv'
        BY <1>1, <1>3 DEF SearchOther, NotFoundInv
    <1>4. ASSUME NEW n \in Services \cup Targets, Examine(n) PROVE NotFoundInv'
        BY <1>1, <1>4 DEF Examine, NotFoundInv, loops
    <1>5. CASE FindNothing
        BY <1>1, <1>5, NothingIsFound DEF FindNothing, NotFoundInv, loops, search
    <1>6. CASE UNCHANGED vars
        BY <1>1, <1>6 DEF NotFoundInv, vars, loops, search
    <1> QED
        BY <1>2, <1>3, <1>4, <1>5, <1>6
        DEF Next, FailToOpenModels, GenerateGraph, AbortOnGraph, PrintDistribution, End,
            VisitTerminal, LeaveTerminal, KeepLink, FindGoal,
            DiscardHeaviestCut, UnlinkCuts, Attach, AbortOnOrphan, FinishFixing, Convert

-----------------------------------------------------------------------------
(* The cuts *)

LEMMA CutStep ==
    TypeOK /\ ProcessInv /\ GraphInv /\ LoopInv /\ SearchInv /\ NotFoundInv /\ CutInv
        /\ [Next]_vars => CutInv'
    <1> SUFFICES ASSUME TypeOK, ProcessInv, GraphInv, LoopInv, SearchInv, NotFoundInv, CutInv,
                        [Next]_vars, pc' \in {"terminal", "link", "other", "search", "open"}
                 PROVE  CutInv'
        BY DEF CutInv
    <1>0. Hosts' = Hosts /\ Hosts \subseteq Targets /\ input' = input
        BY HostsAreKept, InputTyped, InputIsKept DEF ProcessInv
    <1>1. \A t \in Hosts : attached' = attached => Isolating(t)' = Isolating(t)
        BY <1>0, IsolatingIsKept DEF ProcessInv
    <1>2. \A t \in Hosts : Isolating(t) \subseteq ServicesOf(t)
        BY DEF Isolating
    <1>3. CASE GenerateGraph
        BY <1>0, <1>3 DEF GenerateGraph, CutInv
    <1>4. ASSUME NEW t \in Targets, VisitTerminal(t) PROVE CutInv'
        <2>1. t \in Hosts /\ cuts[t] = {} /\ links' = ServicesOf(t)
            BY <1>4 DEF VisitTerminal, IsFirst, LoopInv, CutInv, GraphInv, Uncut, AdjacentToHost,
                        ServicesOf
        <2>2. cuts[t] = Isolating(t) \ links'
            BY <1>2, <2>1
        <2> QED
            BY <1>0, <1>1, <1>4, <2>2 DEF VisitTerminal, IsFirst, CutInv
    <1>5. ASSUME NEW s \in Services, VisitLink(s) PROVE CutInv'
        BY <1>0, <1>1, <1>5 DEF VisitLink, IsFirst, CutInv
    <1>6. CASE LeaveTerminal
        BY <1>0, <1>1, <1>6 DEF LeaveTerminal, CutInv, loops
    <1>7. ASSUME NEW t \in Targets, SearchOther(t) PROVE CutInv'
        BY <1>0, <1>1, <1>7 DEF SearchOther, CutInv
    <1>8. CASE KeepLink
        <2>1. host \in Hosts /\ app \notin Isolating(host)
            BY <1>8 DEF KeepLink, LoopInv, NotFoundInv, Isolating
        <2>2. Isolating(host) \ (links \cup {app}) = Isolating(host) \ links
            BY <2>1
        <2> QED
            BY <1>0, <1>1, <1>8, <2>2 DEF KeepLink, CutInv, loops
    <1>9. ASSUME NEW n \in Services \cup Targets, Examine(n) PROVE CutInv'
        BY <1>0, <1>1, <1>9 DEF Examine, CutInv, loops
    <1>10. CASE FindGoal
        <2>1. /\ host \in Hosts \ terminals /\ app \in ServicesOf(host) \ links
              /\ goal \in Hosts \ {host}
            BY <1>10 DEF FindGoal, LoopInv
        <2>2. goal \in visited
            BY <1>10 DEF FindGoal, TypeOK
        <2>3. Connected(app, goal)
            BY <1>10, <2>2 DEF FindGoal, SearchInv, Connected
        <2>4. app \in Isolating(host) \ links
            BY <2>1, <2>3 DEF Isolating
        <2>5. cuts[host] = Isolating(host) \ (links \cup {app})
            BY <1>10, <2>1 DEF FindGoal, CutInv
        <2>6. cuts'[host] = Isolating(host) \ links
            BY <1>0, <1>10, <2>1, <2>4, <2>5 DEF FindGoal, TypeOK
        <2>7. \A t \in Hosts \ {host} : cuts'[t] = cuts[t]
            BY <1>0, <1>10 DEF FindGoal, TypeOK
        <2> QED
            BY <1>0, <1>1, <1>10, <2>1, <2>6, <2>7 DEF FindGoal, CutInv, loops
    <1>11. CASE FindNothing
        BY <1>0, <1>1, <1>11 DEF FindNothing, CutInv, loops
    <1>12. CASE UNCHANGED vars
        BY <1>0, <1>1, <1>12 DEF CutInv, vars, loops
    <1> QED
        BY <1>3, <1>4, <1>5, <1>6, <1>7, <1>8, <1>9, <1>10, <1>11, <1>12
        DEF Next, FailToOpenModels, AbortOnGraph, PrintDistribution, End, DiscardHeaviestCut,
            UnlinkCuts, Attach, AbortOnOrphan, FinishFixing, Convert, ProcessInv, GraphInv

(* There is one heaviest host, if there is any. *)
LEMMA HeaviestIsUnique ==
    ASSUME TypeOK, ProcessInv, NEW t \in Hosts, NEW o \in Hosts, IsHeaviest(t), IsHeaviest(o)
    PROVE  t = o
    <1>1. t \in Targets /\ o \in Targets
        BY InputTyped DEF ProcessInv
    <1>2. ASSUME NEW h \in Targets PROVE Weight(h) \in Nat
        <2>1. cuts[h] \subseteq Services
            BY <1>2, InputTyped DEF TypeOK, ProcessInv
        <2> QED
            BY <2>1, FS_Subset, FS_CardinalityType, ValueAssumption DEF Weight
    <1>3. Weight(t) = Weight(o)
        BY <1>1, <1>2 DEF IsHeaviest
    <1>4. NameRank[t] <= NameRank[o] /\ NameRank[o] <= NameRank[t]
        BY <1>3 DEF IsHeaviest
    <1>5. NameRank[t] \in Nat /\ NameRank[o] \in Nat
        BY <1>1, InputAssumption
    <1> QED
        BY <1>1, <1>4, <1>5, InputAssumption

LEMMA DiscardStep ==
    TypeOK /\ ProcessInv /\ CutInv /\ DiscardInv /\ [Next]_vars => DiscardInv'
    <1> SUFFICES ASSUME TypeOK, ProcessInv, CutInv, DiscardInv, [Next]_vars, pc' = "unlink"
                 PROVE  DiscardInv'
        BY DEF DiscardInv
    <1>0. Hosts' = Hosts /\ Hosts \subseteq Targets /\ input' = input
        BY HostsAreKept, InputTyped, InputIsKept DEF ProcessInv
    <1>1. \A t \in Hosts : attached' = attached => Isolating(t)' = Isolating(t)
        BY <1>0, IsolatingIsKept DEF ProcessInv
    <1>2. CASE DiscardHeaviestCut
        <2>1. \A t \in Hosts : cuts[t] = Isolating(t)
            BY <1>2 DEF DiscardHeaviestCut, CutInv
        <2>2. \A t \in Hosts : ~IsHeaviest(t) => cuts'[t] = Isolating(t)
            BY <1>0, <1>2, <2>1 DEF DiscardHeaviestCut
        <2> QED
            BY <1>0, <1>1, <1>2, <2>2, HeaviestIsUnique DEF DiscardHeaviestCut, DiscardInv
    <1>3. CASE UNCHANGED vars
        BY <1>0, <1>1, <1>3 DEF DiscardInv, vars
    <1> QED
        BY <1>2, <1>3
        DEF Next, FailToOpenModels, GenerateGraph, AbortOnGraph, PrintDistribution, End,
            VisitTerminal, SearchOther, VisitLink, LeaveTerminal, KeepLink, Examine, FindGoal,
            FindNothing, UnlinkCuts, Attach, AbortOnOrphan, FinishFixing, Convert

-----------------------------------------------------------------------------
(* Separation *)

(* Once the links to the services in its cut are gone, a host is connected  *)
(* with nothing but what its other services were connected with.            *)
LEMMA CutSeparates ==
    ASSUME TypeOK, ProcessInv, GraphInv, UnlinkCuts,
           NEW t \in Hosts, cuts[t] = Isolating(t)
    PROVE  \E C \in SUBSET Nodes :
              t \in C /\ ClosedUnderLinks(C)' /\ \A o \in Hosts \ {t} : o \notin C
    <1>0. t \in Targets /\ Hosts \subseteq Targets /\ input.distributed \subseteq Services
        BY InputTyped DEF ProcessInv
    <1>1. /\ input' = input /\ attached = input.candidates
          /\ attached' = [s \in Services |-> {o \in attached[s] : s \notin cuts[o]}]
        BY DEF UnlinkCuts, GraphInv, Uncut
    <1> DEFINE S == ServicesOf(t) \ Isolating(t)
               C == {t} \cup {n \in Nodes : \E s \in S : Connected(s, n)}
    <1>2. \A n \in Nodes : Adjacent(n)' \subseteq Adjacent(n)
        BY <1>0, <1>1, ValueAssumption
        DEF Nodes, Adjacent, AdjacentToApp, AdjacentToHost
    <1>3. AdjacentToHost(t)' = S
        BY <1>0, <1>1 DEF AdjacentToHost, ServicesOf
    <1>4. ASSUME NEW n \in C, NEW k \in Adjacent(n)' PROVE k \in C
        <2>1. CASE n = t
            <3>1. k \in S
                BY <1>0, <1>3, <1>4, <2>1 DEF Adjacent
            <3>2. k \in Nodes
                BY <1>0, <3>1 DEF ServicesOf, Nodes
            <3> QED
                BY <3>1, <3>2, ConnectedToItself
        <2>2. CASE n # t
            <3>1. PICK s \in S : Connected(s, n)
                BY <1>4, <2>2
            <3>2. n \in Nodes /\ k \in Adjacent(n) /\ k \in Nodes
                BY <1>2, <1>4, <2>2, AdjacentTyped
            <3>3. Connected(s, k)
                BY <3>1, <3>2, ConnectedToNeighbour
            <3> QED
                BY <3>1, <3>2, <3>3
        <2> QED
            BY <2>1, <2>2
    <1>5. ASSUME NEW o \in Hosts, o # t PROVE o \notin C
        BY <1>5 DEF Isolating
    <1>6. C \in SUBSET Nodes /\ t \in C
        BY <1>0 DEF Nodes
    <1> HIDE DEF C
    <1>7. PICK D : D = C
        OBVIOUS
    <1>8. ClosedUnderLinks(D)'
        BY <1>4, <1>7 DEF ClosedUnderLinks
    <1> QED
        BY <1>5, <1>6, <1>7, <1>8

(* The neighbours of a node of the graph have it as a neighbour. *)
LEMMA LinksAreMutual ==
    ASSUME ProcessInv, GraphInv, UnlinkCuts,
           NEW n \in input.distributed \cup Hosts, NEW k \in Adjacent(n)'
    PROVE  k \in input.distributed \cup Hosts /\ n \in Adjacent(k)'
    <1>0. Hosts \subseteq Targets /\ input.distributed \subseteq Services
        BY InputTyped DEF ProcessInv
    <1>1. /\ input' = input
          /\ \A s \in Services : attached'[s] \subseteq input.candidates[s]
        BY DEF UnlinkCuts, GraphInv, Uncut
    <1>2. CASE n \in Hosts
        BY <1>0, <1>1, <1>2, ValueAssumption DEF Adjacent, AdjacentToHost, AdjacentToApp
    <1>3. CASE n \in input.distributed
        <2>1. k \in attached'[n] \/ k \in input.distributed
            BY <1>0, <1>1, <1>3, ValueAssumption DEF Adjacent, AdjacentToApp
        <2>2. k \in attached'[n] => k \in Hosts
            BY <1>0, <1>1, <1>3 DEF Hosts
        <2> QED
            BY <1>0, <1>1, <1>3, <2>1, <2>2, ValueAssumption
            DEF Adjacent, AdjacentToHost, AdjacentToApp
    <1> QED
        BY <1>2, <1>3

(* It is enough that the links of one of two hosts are cut. *)
LEMMA UnlinkSeparates ==
    ASSUME TypeOK, ProcessInv, GraphInv, DiscardInv, UnlinkCuts
    PROVE  Separated'
    <1> SUFFICES ASSUME NEW t \in Hosts, NEW o \in Hosts, t # o
                 PROVE  \E C \in SUBSET Nodes : t \in C /\ ClosedUnderLinks(C)' /\ o \notin C
        <2>1. Hosts' = Hosts
            BY DEF UnlinkCuts, Hosts
        <2> QED
            BY <2>1 DEF Separated, Connected
    <1>1. CASE cuts[t] = Isolating(t)
        BY <1>1, CutSeparates
    <1>2. CASE cuts[o] = Isolating(o)
        <2>1. PICK D \in SUBSET Nodes :
                 o \in D /\ ClosedUnderLinks(D)' /\ \A h \in Hosts \ {o} : h \notin D
            BY <1>2, CutSeparates
        <2>2. input.distributed \cup Hosts \in SUBSET Nodes
            BY InputTyped DEF ProcessInv, Nodes
        <2>3. PICK C : C = (input.distributed \cup Hosts) \ D
            OBVIOUS
        <2>4. ASSUME NEW n \in C, NEW k \in Adjacent(n)' PROVE k \in C
            <3>1. k \in input.distributed \cup Hosts /\ n \in Adjacent(k)'
                BY <2>3, <2>4, LinksAreMutual
            <3>2. k \notin D
                BY <2>1, <2>3, <2>4, <3>1 DEF ClosedUnderLinks
            <3> QED
                BY <2>3, <3>1, <3>2
        <2>5. ClosedUnderLinks(C)'
            BY <2>4 DEF ClosedUnderLinks
        <2> QED
            BY <2>1, <2>2, <2>3, <2>5
    <1> QED
        BY <1>1, <1>2 DEF DiscardInv, UnlinkCuts

(* A service links its hosts. *)
LEMMA SeparatedIsSingle == ProcessInv /\ TypeOK /\ Separated => Single
    <1> SUFFICES ASSUME ProcessInv, TypeOK, Separated,
                        NEW s \in Services, NEW t \in attached[s], NEW o \in attached[s]
                 PROVE  t = o
        BY DEF Single
    <1>1. s \in input.distributed
        BY InputTyped DEF TypeOK, ProcessInv
    <1>2. t \in Hosts /\ o \in Hosts /\ t \in Targets /\ o \in Targets
        BY <1>1, InputTyped DEF TypeOK, ProcessInv, Hosts
    <1>3. s \in Adjacent(t) /\ o \in Adjacent(s)
        BY <1>1, <1>2, AdjacentTyped DEF AdjacentToHost, AdjacentToApp
    <1>4. Connected(t, o)
        BY <1>2, <1>3, ConnectedToItself, ConnectedToNeighbour DEF Nodes
    <1> QED
        BY <1>2, <1>4 DEF Separated

LEMMA SingleStep ==
    TypeOK /\ ProcessInv /\ GraphInv /\ DiscardInv /\ SingleInv /\ [Next]_vars
        /\ TypeOK' /\ ProcessInv' => SingleInv'
    <1> SUFFICES ASSUME TypeOK, ProcessInv, GraphInv, DiscardInv, SingleInv, [Next]_vars,
                        TypeOK', ProcessInv'
                 PROVE  SingleInv'
        OBVIOUS
    <1>0. input' = input /\ input.distributed \subseteq Services
        BY InputIsKept, InputTyped DEF ProcessInv
    <1>1. ASSUME pc' \notin {"fix", "convert"}, result' = result,
                 pc' = "done" \/ pc \notin {"convert", "done"}
          PROVE  SingleInv'
        BY <1>0, <1>1 DEF SingleInv
    <1>2. CASE UnlinkCuts
        <2>1. Separated'
            BY <1>2, UnlinkSeparates
        <2>2. Single'
            BY <2>1, SeparatedIsSingle, PTL
        <2> QED
            BY <1>0, <1>2, <2>2 DEF SingleInv, UnlinkCuts
    <1>3. ASSUME NEW s \in Services, NEW t \in Targets, Attach(s, t) PROVE SingleInv'
        BY <1>0, <1>3 DEF SingleInv, Single, Attach, ProcessInv
    <1>4. CASE FinishFixing
        BY <1>0, <1>4 DEF SingleInv, Single, FinishFixing, Orphans
    <1>5. ASSUME NEW s \in Services, Convert(s) PROVE SingleInv'
        BY <1>0, <1>5 DEF SingleInv, Single, Convert, TypeOK
    <1>6. CASE UNCHANGED vars
        BY <1>0, <1>6 DEF SingleInv, Single, vars
    <1>7. CASE FailToOpenModels \/ GenerateGraph \/ AbortOnGraph \/ PrintDistribution
        BY <1>1, <1>7 DEF FailToOpenModels, GenerateGraph, AbortOnGraph, PrintDistribution, End
    <1>8. ASSUME NEW s \in Services, AbortOnOrphan(s) PROVE SingleInv'
        BY <1>1, <1>8 DEF AbortOnOrphan, End
    <1>9. ASSUME \/ \E t \in Targets : VisitTerminal(t) \/ SearchOther(t)
                 \/ \E s \in Services : VisitLink(s)
                 \/ LeaveTerminal \/ KeepLink \/ FindGoal \/ FindNothing \/ DiscardHeaviestCut
                 \/ \E n \in Services \cup Targets : Examine(n)
          PROVE  SingleInv'
        BY <1>1, <1>9 DEF VisitTerminal, SearchOther, VisitLink, LeaveTerminal, KeepLink, FindGoal,
                          FindNothing, DiscardHeaviestCut, Examine
    <1> QED
        BY <1>2, <1>3, <1>4, <1>5, <1>6, <1>7, <1>8, <1>9 DEF Next

-----------------------------------------------------------------------------
(* Theorems *)

LEMMA InvStep == Inv /\ [Next]_vars => Inv'
    BY TypeStep, GraphStep, LoopStep, SearchStep, NotFoundStep, CutStep, DiscardStep, SingleStep
    DEF Inv

LEMMA Invariance == Spec => []Inv
    BY InvInit, InvStep, PTL DEF Spec

(* Every variable has its type. *)
THEOREM TypeCorrect == Spec => []TypeOK
    <1>1. Inv => TypeOK
        BY DEF Inv
    <1> QED
        BY <1>1, Invariance, PTL

(* The searches of generate_minimum_cuts_per_terminal, with their marks and *)
(* their early ends, find for every host exactly the services through which *)
(* it is connected with another one, in any graph.                          *)
THEOREM SearchesAreExact == Spec => []CutsAreExact
    <1>1. Inv => CutsAreExact
        BY DEF Inv, CutInv, CutsAreExact
    <1> QED
        BY <1>1, Invariance, PTL

(* After unlink_cuts_in_graph no two hosts are connected, although one cut  *)
(* has been discarded.                                                      *)
THEOREM CutsSeparate == Spec => TerminalsSeparated
    <1>1. Inv /\ [Next]_vars => [pc = "unlink" /\ pc' = "fix" => Separated']_vars
        <2> SUFFICES ASSUME Inv, Next, pc = "unlink", pc' = "fix" PROVE Separated'
            OBVIOUS
        <2>1. UnlinkCuts
            BY DEF Next, FailToOpenModels, GenerateGraph, AbortOnGraph, PrintDistribution, End,
                   VisitTerminal, SearchOther, VisitLink, LeaveTerminal, KeepLink, Examine,
                   FindGoal, FindNothing, DiscardHeaviestCut, Attach, AbortOnOrphan,
                   FinishFixing, Convert
        <2> QED
            BY <2>1, UnlinkSeparates DEF Inv
    <1> QED
        BY <1>1, Invariance, PTL DEF Spec, TerminalsSeparated

LEMMA PhaseInit == Init => Phase!Init
    BY InputTyped, InputAssumption DEF Init, Phase!Init

LEMMA PhaseStep == Inv /\ [Next]_vars => [Phase!Next]_Phase!vars
    <1> SUFFICES ASSUME Inv, [Next]_vars PROVE Phase!Next \/ UNCHANGED Phase!vars
        OBVIOUS
    <1>0. input \in Inputs /\ input.distributed \subseteq Services
        BY InputTyped DEF Inv, ProcessInv
    <1>1. UNCHANGED <<input, result, status>> => UNCHANGED Phase!vars
        BY DEF Phase!vars
    <1>2. ASSUME NEW s \in Services, Convert(s) PROVE Phase!Next
        <2>1. PICK t \in attached[s] : attached[s] = {t}
            BY <1>2 DEF Inv, SingleInv, Single, Convert
        <2>2. t \in Targets /\ t \in input.candidates[s]
            BY <1>0, <2>1, InputTyped DEF Inv, TypeOK
        <2>3. result' = [o \in Services |-> IF o \in {s} THEN {t} ELSE result[o]]
            BY <1>2, <2>1 DEF Convert, Inv, TypeOK
        <2>4. status = "running"
            BY <1>2 DEF Convert, Inv, ProcessInv
        <2>5. Phase!Map({s}, t)
            BY <1>2, <2>2, <2>3, <2>4 DEF Phase!Map, Convert
        <2> QED
            BY <2>2, <2>5 DEF Phase!Next
    <1>3. CASE PrintDistribution
        <2>1. \A s \in Services : input.candidates[s] # {} => result[s] # {}
            BY <1>0, <1>3, InputTyped DEF PrintDistribution
        <2>2. status = "running"
            BY <1>3 DEF PrintDistribution, Inv, ProcessInv
        <2> QED
            BY <1>3, <2>1, <2>2 DEF PrintDistribution, End, Phase!Next, Phase!Succeed
    <1>4. ASSUME NEW outcome \in {"error", "aborted"}, pc # "done", End(outcome) PROVE Phase!Next
        <2>1. status = "running"
            BY <1>4 DEF Inv, ProcessInv
        <2> QED
            BY <1>4, <2>1 DEF End, Phase!Next, Phase!Fail
    <1>5. CASE FailToOpenModels \/ AbortOnGraph
        BY <1>4, <1>5 DEF FailToOpenModels, AbortOnGraph
    <1>6. ASSUME NEW s \in Services, AbortOnOrphan(s) PROVE Phase!Next
        BY <1>4, <1>6 DEF AbortOnOrphan
    <1>7. ASSUME \/ \E t \in Targets : VisitTerminal(t) \/ SearchOther(t)
                 \/ \E s \in Services : VisitLink(s)
                 \/ GenerateGraph \/ LeaveTerminal \/ KeepLink \/ FindGoal \/ FindNothing
                 \/ \E n \in Services \cup Targets : Examine(n)
                 \/ DiscardHeaviestCut \/ UnlinkCuts \/ FinishFixing
                 \/ \E s \in Services, t \in Targets : Attach(s, t)
                 \/ UNCHANGED vars
          PROVE  UNCHANGED <<input, result, status>>
        BY <1>7 DEF VisitTerminal, SearchOther, VisitLink, GenerateGraph, LeaveTerminal, KeepLink,
                    FindGoal, FindNothing, Examine, DiscardHeaviestCut, UnlinkCuts, FinishFixing,
                    Attach, vars
    <1> QED
        BY <1>1, <1>2, <1>3, <1>5, <1>6, <1>7 DEF Next

(* The program is a division phase: it maps every service to a single one   *)
(* of its candidates and reports success only when all of them are mapped.  *)
THEOREM ImplementsDivisionPhase == Spec => CutsAsDivision
    BY Invariance, PhaseInit, PhaseStep, PTL DEF Spec, CutsAsDivision, Phase!Spec
=============================================================================
