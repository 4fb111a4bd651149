# A verification of Dynamic Disnix

Dynamic Disnix decides on which machines the services of a system run, gives
them unique ids (such as TCP ports), and redeploys the system when the machines
change. This directory holds TLA+ models of its programs, the TLC
configurations that check them, and proofs that the TLA+ proof system (TLAPS)
checks. `PROJECT.json` is the machine-readable index: which definition models
which lines, which run checks which property, which change to a definition
breaks each property, and what is proved.

Paths below are relative to `src/`, the repository.

## 1. Inventory

A deployment goes through a chain of small programs, each a sequential process
that reads models from files and writes one:

    geninfra -> augment-infra -> gendist -> id-assign -> disnix-env
                                   |
          nix/*.nix: filters and, per stage, one of
          divide | minsetcover | graphcol | multiwaycut | filter-buildable

`dydisnix-env` runs the chain once, `dydisnix-self-adapt` runs it whenever the
captured infrastructure has changed. The programs share no memory; they
interact through files: the models, the ids file (`ids.nix`) that one run of
`dydisnix-id-assign` leaves to the next, and the coordinator profile (the
manifest of what is deployed) that `disnix-env` leaves to the next deployment.

| Component | Source | State | Operations | What makes it correct | Module |
|---|---|---|---|---|---|
| ID assigner | `src/idassign` | the ids file; per run: id tables, last ids, position in three nested iterations, table of used ids | load, drop invalid ids, search the next free id, truncate and write the file | ids are unique per scope, in range, complete, retained while valid, not reused too soon; a failed run changes nothing; runs end | `IdAssign`, `IdAssignHistory`, `IdRegistry` |
| Self-adaptation loop | `scripts/dydisnix-self-adapt.in` | infrastructure, hash, previous hash, distribution; on disk the profile and the ids file | capture, snapshot, hash, reconstruct, gendist, id-assign, deploy, sleep | the hash stands for what is deployed; ids match what is deployed; nothing stray keeps running; the loop adapts | `SelfAdapt` |
| Division | `src/divide` | what each target has left, the result | walk over services and candidates, select by a strategy, subtract | no target overcommitted; the documented strategy; complete or failed | `Divide` |
| Minimum set cover | `src/minsetcover` | covered services, smallest cost fraction, the result | find the cheapest target per uncovered service, cover | within the harmonic bound of the optimum; the loop ends, except for known models | `MinSetCover` |
| Graph coloring | `src/graphcol` | colors, the array of nodes ordered by degree | select a node, give it the lowest color, convert | linked services on different machines; the greedy bound; no memory error; it ends | `GraphColoring` |
| Multiway cut | `src/multiwaycut` | a graph of services and machines, a cut per machine | search from each link to all other machines, discard the heaviest cut, unlink, re-attach orphans | cuts are exact; the rest separates the machines; one machine per service | `MultiwayCut` |
| Graph library | `src/libgraph` | links and marks of nodes | link, unlink, breadth-first search | see its two users | in `GraphColoring`, `MultiwayCut` |
| Distribution, infrastructure, services libraries | `src/libdistribution`, `src/libinfrastructure2`, `src/libservices` | tables | parse, print, look up, invert | a conversion loses nothing | inputs of the modules; the inversion in `IdAssign`, `MinSetCover` |
| Front end | `scripts/dydisnix-env.in` | none of its own | the chain, once | as one iteration of the loop | in `SelfAdapt` |
| Generation of a distribution | `scripts/dydisnix-gendist.in`, `nix/*.nix` | the candidates of each service; on disk the manifest | capture, all candidates, try builds, filter after filter, deploy | a stateful service does not leave its state; a round robin is even; bound services stay | `Redeploy` |
| Buildability filter, previous distribution | `src/filter-buildable`, `src/previous-distribution` | the tables | instantiate services per candidate; manifest to distribution | steps of the above | in `Redeploy` |
| Services catalog | `src/libservices/servicegroup.c`, `src/visualize-services`, `src/document-services` | the tables of queried and of grouped services, the groups that are left | query a group and its context, merge sub groups, write a page or diagram per group | the grouping is a quotient in every visiting order; no edge dangles; links lead to pages | `ServiceGroups`, `ServiceCatalog` |
| Augmentation, visualisation of the infrastructure, option checks | see `PROJECT.json` | none | evaluate, print, check | - | not modelled (section 9) |

What is hard to test in this code:

* **Sequences of runs.** The ids file is the memory of `dydisnix-id-assign`. The
  tests run it two or three times; the interesting states need a service that
  left, a pool that wrapped around, a machine that left, a run that failed.
* **Failure in the middle.** A run fails at its second resource, is killed between
  truncating and writing the file, or the disk is full. A deployment fails
  after the ids file was rewritten for it.
* **Interleaving with the network.** Machines join and leave between any two
  commands of the loop, which has decided by then what to deploy where.
* **What the last deployment leaves to the next.** The filters that keep a
  service where it is know only the last manifest, in one of two notations.
* **The order of hash tables.** Services are grouped one by one, while the
  dependencies of those that come later are rewritten.
* **Loops without a bound of their own**: the search for an id, the two loops
  `while(number < number of services)`, the breadth-first searches.
* **Undefined behaviour**: freed tables, NULL pointers for names a model does not
  list, indices beyond an array, NaN in comparisons.

`PROJECT.json` lists such hazards, each at its line, with the properties that
would catch it.

## 2. Modules

| Module | Contents |
|---|---|
| `IdAssign` | the ID assigner, run over and over on one file |
| `IdAssignHistory` | the same with history variables (ids ever published, searches that wrapped around), and the refinement to `IdRegistry` |
| `IdRegistry` | abstract: a registry of ids that is updated as a whole |
| `SelfAdapt` | the feedback loop, the machines and the network |
| `DivisionPhase` | abstract: what every division method promises |
| `Divide`, `MinSetCover`, `GraphColoring`, `MultiwayCut` | the four division methods; each implements `DivisionPhase` |
| `Redeploy` | deployment after deployment with the filters of a quality of service model |
| `ServiceGroups` | the grouping of services, and what it is to compute |
| `ServiceCatalog` | the programs that draw and document services, on top of it |
| `MC...` | constants, inputs and reference definitions for TLC |
| `IdAssignProofs` (about `IdAssign` and `IdAssignHistory`), `SelfAdaptProofs`, `DivideProofs`, `MinSetCoverProofs`, `GraphColoringProofs`, `MultiwayCutProofs`, `RedeployProofs`, `ServiceCatalogProofs` (with `ServiceGroups`) | theorems and proofs |

In every module the variables are those of the program, under its names where
they exist (`searchId` is `search_id`, `min` is `min_cost_fraction`), `pc` is
where the process is, and one action is one step between two points at which
something can be observed or decided: an iteration of a loop, a call that can
fail, a write. `map` in `PROJECT.json` gives the lines of every definition. A
definition whose name no source has and whose comment begins with "Mutant" is a
plausible bug; it is not used by the specification, and stands beside the
definition that it distorts.

### IdAssign

State: the file (`Absent`, `Broken`, or its three tables), the tables in memory,
the iteration over resources, targets and services, and the search. `Load`
starts a run with any of `Inputs` and whatever the file holds;
`RemoveInvalidServiceIds` / `RemoveInvalidDistributionIds` drop what is no
longer valid; `VisitGlobalResource`, `VisitMachineResource`, `VisitTarget`
set up a list of services with the table of used ids
(`derive_id_to_service_table`); `SkipService`, `Deplete`, `StartSearch`,
`TryNextId`, `AssignId` are `create_id_assignments_for_services` and
`derive_next_id`; `OpenOutput`, `WriteOutput` are the two moments of
`print_ids_config`, between which the file is broken. Faults are a constant:
kills at any step, a file that cannot be opened, a write that is lost.

Undefined behaviour: `remove_unneeded_last_assignments_tables` frees a table
and removes the entry from the wrong hash table, so it is freed again and stays
reachable. The model keeps the entry, sets `corrupt`, and from then on the
process may abort at any step (`Crash`). `last_id` points to a variable of the
loop body after its lifetime; the slot still holds the previous id, which is
what the model uses.

The comparison that reports depletion is one of unsigned integers: an empty
pool is depleted, a pool with `max < min - 1` never is (`Depleted`). Ids are
integers; a pool near `INT_MAX` is outside the model.

`IdAssignHistory` adds what no program variable holds: ids ever published, and
whether a search has passed the maximum. `IdRegistry` is the promise to the
readers of the file: the update is atomic, ids are unique, a held id never turns
into another one, and the registry may be lost (a kill or a full disk during
the write) but never becomes wrong.

### SelfAdapt

State: the machines that are up, the services that run on each of them, the
coordinator profile, the services with an id in the ids file, and the variables
of the script. One action per command. `Join` and `Leave` are the environment.
`Fail` is any command that fails: `bash -e` ends the script; `Start` is the
administrator or the init system that starts it again, with nothing left but
what is on disk. The writing of the ids file is one step here: a kill or a full disk in
the middle of it counts as a failure that leaves a complete file, the old or the
new one; what becomes of a broken file is in `IdAssign` only. A failure of `nix-instantiate` does not end the script, since
it is not the last command of its pipe (`HashNothing`).

The Disnix tools are not part of the repository. Assumed of them, and marked
external in the map: a command fails if a machine it has to contact is down;
`disnix-env` deactivates what only the old manifest places on the captured
machines, activates what only the new one does, and rolls back on a failure;
`disnix-reconstruct` writes a manifest of what really runs; `disnix-snapshot`
covers the placements of the manifest it reads. A quality of service model is
arbitrary: `GenerateDistribution` chooses any distribution over the captured
machines.

### DivisionPhase

`Map(S, t)` maps services that have no target yet to a common candidate;
`Succeed` only when every service with candidates is mapped; `Fail` at any
time. A mapping is never revised.

### Divide

One action per iteration of the two loops. `Bids` is the choice of the three
strategies: greedy stops at the first sufficient target, the bidders compare
what the targets have left at that moment. A property that is missing rejects a
service and skips a target; a name that the model does not list is a NULL
dereference (`AbortOn...`, status "aborted").

### MinSetCover

`Consider` compares one target, in the order of their names; fractions are
pairs, so that a covered target has the denominator 0: an infinity, or NaN when
it also has no price. `Less` follows IEEE comparisons (nothing is less than
NaN, NaN is less than nothing). `Cover` maps the uncovered services of the
target found; the loop counts services (`AllCovered`) as the code does.
`Productive` says when a round of the loop is not in vain: the search starts with
the first machine, and if that has the fraction 0/0, nothing replaces it.
Containers of mappings are left out. Negative prices, which would collide with
the sentinel -1, are outside the inputs (`ValueAssumption`). `Multiple` is no part of the
program: it is a common multiple of the sizes of sets of services, by which the
property multiplies harmonic numbers to make them whole.

### GraphColoring

`ordered` is `nodes_ordered_by_degree`, `HighestDegree` its first entry that is
not NULL, `Selected` the choice by saturation or by degree. `AssignColor` sets
the entry *at the index of the color* to NULL, as the code does, so that a node
may be selected again; whether this does harm is what most properties are
about. `dependsOn` and `connectsTo` are one relation, and every machine has the
`hostname` property that the conversion prints.

### MultiwayCut

One action per node that a breadth-first search examines. Hash tables without
an order are visited in the order of a constant rank (`TableRank`, `LinkRank`);
which node of the queue comes next, and which of its candidates an orphan gets
back, is left open. Weights of dependency links play no role in the code, only
the number of machine links in a cut does; the model says the same.

### Redeploy

State: the network and the captured infrastructure, the services model, the
manifest, the candidates of each service and how many filters of the quality of
service model have been applied. `Start` makes all machines candidates;
`TryBuild` is one service of `dydisnix-filter-buildable`, where a failure of the
command and a service that cannot be built look the same; one action per filter
of `nix/intfilters.nix`, the round robin service by service; `Divide` is
`dydisnix-divide`, `-minsetcover` or `-multiwaycut` by its contract,
`DivisionPhase`: it picks candidates or fails. `dydisnix-graphcol` is not one of
them, since `graphcol` of `nix/extfilters.nix` takes no candidates. `Deploy` is `disnix-env`, external, which writes the new manifest.
`DeployByHand` is an administrator who maps a service to a machine, and perhaps
to a container other than the one of its type.

A candidate is a name or an attribute set with a container, and this is what the
model keeps of the two notations: a program of the division phase prints names;
a filter that compares properties throws on an attribute set (`Evaluates`); the
style sheet that writes the distribution passes over it (`Written`); the previous
distribution uses one notation or the other for all services (`Automapped`).
Nix is lazy, and what the filter for bound services replaces may never be
evaluated: where the model lets a filter before it throw, the program may
succeed. That a machine lacks the property of a map filter, which throws, is not
modelled. No property depends on either.

A list of candidates is a set, ordered by name or by priority in the same way
for all services. The list that the filter for bound services puts in is not
ordered like that, so an order has to come after it (`OrderAssumption`). Names of
machines have different ranks, as attribute names differ (`RankAssumption`).

`home` is a history variable, where the state of a service is: a service of the
model that a deployment does not place anywhere keeps it, one that has left the
model loses it. `given` is the candidates
before a round robin.

### ServiceGroups and ServiceCatalog

`ServiceGroups` has one action per service that `group_services` visits, in any
order: it is copied (`AddLeaf`) or absorbed by the node of its sub group
(`Absorb`), and then every queried and every drawn service has its dependencies
rewritten. Arrays of dependencies are multisets, because what the code removes
is *one* occurrence. In the models that are given, a service depends on another
one at most once in each of the two ways, and not on itself (`ModelAssumption`):
two attributes of `dependsOn` that name the same service are excluded. `Quotient` says what the result of the visited services is,
without any rewriting.

`ServiceCatalog` composes it with the programs: the query of the services of a
group, for diagrams the services outside that the group depends on and those
that depend on it, the grouping, and the writing of a page or diagram, for one
group or, in batch mode, for the root and every group of a service. A
dependency on a service that the model does not list is a NULL dereference
(`AbortOnDependency`). What stands on a page is left out, except for its links.
Services and groups have different names (`NameAssumption`); the code puts both
into one table and would take the one for the other.

## 3. Runs

All runs are of a few minutes at most on two cores.

| Run | Instance | Question |
|---|---|---|
| `id_updates` | 3 services, 2 targets; a global pool 1..3, a second one of size 1 or of unknown scope, a machine pool 1..2; models that cannot be opened, failing opens and writes; double frees | type, uniqueness, range and completeness, retention, all-or-nothing, depletion only when the pool is full |
| `id_history` | 3 services on a pool of 2; kills, failing opens and writes; fairness | no reuse before the limit, refinement of `IdRegistry`, every run ends |
| `id_moving` | a service moves between machines | violation: section 6 |
| `self_adapt` | 2 machines, 2 services, all options with the default profile; any command may fail | hash, ids, stray services, adaptation |
| `divide` | 3 services that need 1..2, 3 targets that have 0..3, three strategies; missing properties, unknown names | capacity, strategy, refinement of `DivisionPhase` |
| `minsetcover` | 3 services, 3 targets hosted in every way at every price 1..3, or with any of them free of charge; services without candidates | harmonic bound, when the loop ends and when it does not, refinement |
| `graphcol` | all acyclic graphs of up to 5 services on 1..4 machines, mutual dependencies, inconsistent models | links, kept colors, greedy bound, memory, refinement |
| `graphcol_ends` | 1..5 services without dependencies | violation: section 6 |
| `multiwaycut` | 3 services in all dependency graphs up to naming, 3 machines, all candidate sets | exact cuts, separation, refinement, termination |
| `catalog` | 3 services in groups two levels deep; rings, trees, complete graphs, two kinds of dependencies; batches and single groups, files that cannot be written | the quotient, edges, links |
| `redeploy` | 3 services, 2 of them stateful, 3 machines, 1 of which may be away; three plans; builds that fail for one machine; a service that may leave the model | state that stays, even round robin |
| `redeploy_containers` | the same with the plan that binds services | violation: section 6 |

Why these bounds are enough for the interesting cases to occur:

* Three services are the least for a wrap-around search to skip a *retained* id
  while it looks for a free one, and for one service to leave and come back
  while another takes its place. A pool of two for three services is depleted
  and wraps around in two runs. Two machines suffice for a move, and for a
  machine to leave. The number of runs of the program is not bounded.
* Two machines and two services let a service move off a machine that is gone,
  and come back to a machine that still runs it. The number of iterations,
  failures and restarts is not bounded.
* Demands 1..2 and capacities 0..3 give targets that are used up exactly, by one
  or by two services, and ties between bids.
* Prices 1..3 with three services make the greedy cover differ from the optimum;
  six (`Multiple`) makes the harmonic numbers of up to three services whole.
* Graphs of up to five services include those in which a node that has a color
  is selected again after a neighbour was colored since, odd cycles, and a
  complete graph with more services than machines.
* Three machines are the least for which discarding one cut leaves two.
* Three services in groups two levels deep put one on the layer that is looked
  at, one in a sub group and one in a sub group of that, or two in one sub group
  that depend on each other and on a third; a third service outside may depend
  on both. Two sub groups of one name are in different groups.
* Three machines let the round robin wrap around, and let a machine be away
  while two others stay candidates. One machine away at a time (`MaxAbsent`) is
  enough for a capture that lacks it, for a deployment that cannot reach it, and
  for its return; any machine may go next. The number of deployments is not
  bounded. The three plans are every filter for which the previous deployment
  or the order counts; the proof is about all plans.

Deadlock checking is on for the ID assigner, the loop and the redeployments,
which never stop. The division programs and the catalog end, and their
configurations say `CHECK_DEADLOCK FALSE`; that they end properly, where they do,
is a liveness property (`Divide` and the catalog have none: their loops walk over
finite lists and tables). Every property has a mutant that breaks it in its own
run.

No symmetry is used: the code depends on the order of names.

## 4. Properties worth a second look

* `GlobalIdsUnique` is about the *file*, over all sequences of runs, and only
  about resources that no model ever gives the scope "machine": a change of
  scope keeps ids that were unique per machine only.
* `IdsCorrect` is what a run leaves behind if it ends well: ids unique per
  machine, within the bounds, and exactly for the services that need one. In
  `id_updates` a service that is replicated finds the pool depleted; if it did
  not, the property would fail (section 6).
* `MachineIdsUnique` holds as long as no service moves onto a machine where
  its id is taken (`id_updates`); when one does, it fails (`id_moving`).
* `ValidIdsRetained` and `FailedRunKeepsFile` leave out the runs with a
  distribution whose services model cannot be opened (section 6).
  `ValidIdsRetained` is not true of replicated services, whose ids are given
  anew in every run (section 6).
* `NoReuseBeforeLimit` is why one memorized id per resource is enough to keep
  ids of departed services from being handed out again at once.
* `HashMatchesDeployment`: the hash is remembered only after the redeployment,
  and is the one of the captured model, so a change in the meantime is seen in
  the next iteration. `AdaptsToChanges` is the liveness side of it.
* `IdsMatchDeployment` is about rest points only: between the rewriting of the
  ids file and a deployment that fails, the two differ, which is visible after
  the script has ended; started again, it redeploys before it rests.
* `ColorsAreKept` and `DependenciesAreLinks` hold *although* the loop selects
  colored nodes again; section 5 says why.
* `GreedyBound` makes "not enough target machines" meaningful: it is only
  reported if some service has as many linked services as there are machines.
* `WithinHarmonicBound` compares the cover with *every* set of targets that can
  host all services, the optimum among them: no such set, with each target
  priced times the harmonic number of the services that it can host, is cheaper.
* `CoverTerminates` draws the line between the models for which the loop ends and
  those for which it runs for ever. It ends if every service has a candidate,
  and the first machine, in the order of names, has a price or hosts all
  services; a machine without a price in another place does no harm, as 0/0 is
  not less than the number that the search has by then. For all other models
  the program never succeeds (section 6); mending that in the code means to
  change the property. Negative prices and unknown machines are left out.
* `CutsAreExact` compares the searches, with their shared marks, with
  connectivity defined without any search.
* `GroupsAreQuotient` holds after every single visit, whatever the order: the
  nodes and edges are those of the services visited so far, each by its group.
* `LinksLeadToPages` needs layers that have services of their own; a link to a
  group without any is dead (section 6).
* `StatefulStays` is about all series of deployments with plans that have the
  filter for stateful services, not the one for bound services, and at the end
  a division among the candidates: the round robin, `divide`, `minsetcover` or
  `multiwaycut`, not `graphcol` (section 6). If the candidates are gone, such a plan fails instead of moving
  the service. A service that the model leaves out is undeployed, and its state
  is forgotten.
* `RoundRobinBalanced` holds at every step of the loop, for services with equal
  candidates; with different ones the documented "equal proportions" are not met
  (section 6).

## 5. Proofs

Every invariant that a run checks, every action property and every refinement is
proved for all values of the constants. What the theorems are, by module; "on
`X`" names the hypotheses that a theorem has beside the assumptions of its module:

| Theorem | Statement |
|---|---|
| `IdAssignProofs!TypeCorrect` | `Spec => []TypeOK` |
| `IdAssignProofs!UniqueGlobally` | `Spec => []GlobalIdsUnique` |
| `IdAssignProofs!AllOrNothing` | `Spec => []FailedRunKeepsFile` |
| `IdAssignProofs!SingleIdsStay` | `Spec => SingleIdsRetained`, for services on one machine each |
| `IdAssignProofs!ValidIdsStay` | `Spec => ValidIdsRetained`, on `NotReplicated` |
| `IdAssignProofs!DepletedPoolsAreFull` | `Spec => DepletedOnlyWhenFull`, for finitely many services |
| `IdAssignProofs!CorrectAssignments` | `Spec => []IdsCorrect`, on `SteadyPools`, `SteadyMachines` |
| `IdAssignProofs!RegistryImplemented` | `HistorySpec => ImplementsRegistry`, on `SteadyPools`, `NotReplicated`, `GlobalOnly = Resources` |
| `IdAssignProofs!NoEarlyReuse` | `HistorySpec => NoReuseBeforeLimit`, on `SamePools`, `GlobalOnly = Resources` |
| `SelfAdaptProofs!TypeCorrect` | `Spec => []TypeOK` |
| `SelfAdaptProofs!HashStandsForDeployment` | `Spec => []HashMatchesDeployment` |
| `SelfAdaptProofs!IdsStandForDeployment` | `Spec => []IdsMatchDeployment` |
| `SelfAdaptProofs!ReconstructionRemovesStrays` | `Spec => []NoStrayServices` |
| `DivideProofs!TypeCorrect` | `Spec => []TypeOK` |
| `DivideProofs!NeverOvercommitted` | `Spec => []CapacityNeverNegative` |
| `DivideProofs!DemandsFit` | `Spec => []NotOvercommitted` |
| `DivideProofs!SelectsByStrategy` | `Spec => []StrategyFollowed` |
| `DivideProofs!ImplementsDivisionPhase` | `Spec => DividesOverCandidates` |
| `MinSetCoverProofs!TypeCorrect` | `Spec => []TypeOK` |
| `MinSetCoverProofs!HarmonicGuarantee` | `Spec => []WithinHarmonicBound` |
| `MinSetCoverProofs!RoundsCover` | `Spec => EveryRoundCovers` |
| `MinSetCoverProofs!ImplementsDivisionPhase` | `Spec => CoversByCandidates` |
| `GraphColoringProofs!TypeCorrect` | `Spec => []TypeOK` |
| `GraphColoringProofs!DependenciesApart` | `Spec => []DependenciesAreLinks` |
| `GraphColoringProofs!KeepsColors` | `Spec => ColorsAreKept` |
| `GraphColoringProofs!Greedy` | `Spec => []GreedyBound` |
| `GraphColoringProofs!MemorySafe` | `Spec => []StaysInMemory` |
| `GraphColoringProofs!ImplementsDivisionPhase` | `Spec => ColorsAsDivision` |
| `MultiwayCutProofs!TypeCorrect` | `Spec => []TypeOK` |
| `MultiwayCutProofs!SearchesAreExact` | `Spec => []CutsAreExact` |
| `MultiwayCutProofs!CutsSeparate` | `Spec => TerminalsSeparated` |
| `MultiwayCutProofs!ImplementsDivisionPhase` | `Spec => CutsAsDivision` |
| `ServiceCatalogProofs!TypeCorrect` | `Spec => []TypeOK` |
| `ServiceCatalogProofs!GroupingIsQuotient` | `Spec => []GroupsAreQuotient` |
| `ServiceCatalogProofs!DiagramsAreClosed` | `Spec => []NoDanglingEdges` |
| `ServiceCatalogProofs!CatalogIsConnected` | `Spec => []LinksLeadToPages` |
| `RedeployProofs!TypeCorrect` | `Spec => []TypeOK` |
| `RedeployProofs!StatefulServicesStay` | `Spec => StatefulStays` |
| `RedeployProofs!RoundRobinIsEven` | `Spec => []RoundRobinBalanced` |

**Assumptions of the modules.** Sentinels differ from values, inputs are well
typed, names are ordered by a rank, in which different names have different
positions where this matters (`GraphColoring`, `MultiwayCut`, `Redeploy`). The
modules that count assume finitely many services and machines. `MinSetCover` also
assumes that a distribution maps no services but those of the services model, and
that `Multiple` is a common multiple of the numbers up to that of the services,
which always exists; `GraphColoring` that no service depends on itself, as does
the catalog. TLC evaluates all of these in the runs.

**Hypotheses about the ID assigner.** They restrict the models that the program
is given from one run to the next, and the code needs them. `SteadyPools`: when a
pool gets other bounds, the search starts from an id that may lie outside of them.
`SteadyMachines`: a service that moves keeps an id that its new neighbours may
have (`id_moving`); one on two machines, which the documentation rules out for
ids per machine (`README.md:422-423`) and the program does not check, may get an id
that a service on the second has. `NotReplicated`: a service on two machines loses
its ids in every run.
`SamePools`: a pool that is dropped for one run is forgotten, with its last id.
`GlobalOnly = Resources`: the abstract registry, and the order in which ids are
handed out, are about pools of the whole system. The instance of `id_history`
meets all that the theorems about the history ask for, by an assumption that TLC
evaluates (`HistoryHypotheses`). That of `id_updates` has steady pools; it also
has a replicated service, for which the two properties concerned hold only as its
pool is depleted, so that its files are never written.

**Unique ids.** `TypeOK` needs `Quiet`: between two runs the memory is blank,
and no target is visited outside the machine-level iteration. Uniqueness needs
`UniqueInv`: ids are unique in memory too and held only by services that take
part in the run (`UniqueInMemory`); a target is visited only for machine-level
resources (`TargetOfMachine`); `used` is exactly the set of ids of the list that
is walked over (`UsedIsComplete`); and the service that is searched for has none
(`SearchIsNeeded`). The heart is that every id that survives the removal of
invalid ones belongs to a service of that list (`ValidTakesPart`): an id held by
a service outside the list would be invisible to the search.

**The runs of the ID assigner.** `RunInv`: until the file is opened for writing it
is the one that was read, and a run that gets there has not failed. `RetainInv`:
an id that was valid when it was read is in memory from the cleanup on, since
only a service without an id is given one. `SharersInv`: who holds an id requires
it, and the table of used ids is that of the services that share the pool; a
search that finds the table as large as the pool therefore has one holder per id
and itself beside them, which is more services than ids (`DepletedPoolsAreFull`).
`CorrectAssignments` adds that holders take part (`HoldersInv`), that ids and
memorized ids are within the bounds (`BoundsInv`), that services with a machine in
common have different ids (`ApartInv`), and how far the three nested iterations
have come: everything they have passed is served (`ProgressInv`).

**The registry.** The readers see a new registry when the write ends; every other
step stutters, except those that lose the file. The step is an update because
what was written before and is held again is the same id: an id in the file is
within the bounds (`OriginInBounds`), hence valid if its service still holds one,
hence retained. `NoEarlyReuse` rests on a ceiling: as long as the maximum has not
been passed, every id ever published is at most the memorized last id, in the
file and in memory, and a search starts above it (`IssuedInv`).

**The loop.** `HashInv`: while the loop redeploys, the hash is that of the captured
machines, or nothing. `DistributionInv`: what is about to be deployed lies on
these machines, and the ids file is written for it. `ReconstructInv`: a
reconstructed manifest says what runs there until it is replaced. The three
properties are part of the invariant: together they say what a step from rest
starts with, also after a restart from nothing but the files.

**Division.** `CandidateInv`: the candidate of the walk is sufficient. With it,
subtracting its demand leaves no negative rest. `SelectsByStrategy` needs what
is known of the mappings already walked over: none of them is better than the
candidate (`SeenInv`), where better depends on the strategy; for the higher
bidder, which does not compare with the demand, sufficiency follows from the
comparison with a sufficient candidate. `SumInv`: a target has left its capacity
less the sum of the demands of the services that it was given; there are finitely
many of them, as there is one more in each step.

**Sums.** The sum over a set is a fold of the community modules, and what it
equals has to be shown by induction over the set. No theorem of induction of the
library can be used, but minimal counterexamples can (`WFMin`): of the sizes for
which a statement about sets fails, the least one is looked at (`BySize`). So the
recursive equation of the fold has one solution (`PartialSums`), and sums can be
split, compared and exchanged. The lemmas are proved in `DivideProofs` and again in
`MinSetCoverProofs`, as the two modules cannot extend each other.

**Set cover.** `CountIsComplete`: as the covered services are among those of the
model, equal numbers mean equal sets. `RoundsCover` needs `SearchInv`: as soon
as a target with an uncovered service has been seen, the search holds one with
a finite fraction, since neither an infinite one nor 0/0 wins against it. That the
search does not begin with 0/0 is `FirstIsNumber`, which needs `Productive`; from
then on it holds no such fraction. `HarmonicGuarantee` is the classical argument
by charging: in `MinInv` the search holds a target with the smallest price per
uncovered service of those it has seen; when it is chosen, every service that it
covers is charged an equal share. `ChargeInv` says that there is such a charging
of the covered services: it pays for all targets in use, and of the services of
any one target it charges no more than the price of that target times a difference
of harmonic numbers, those of the services it could host at first and of those
that are left. A step keeps it because the target chosen was at most as dear, per
uncovered service, as this one. Summed over the targets of any cover this is at
least all that was charged (`ChargesOfCover`).
Fractions are compared by cross multiplication (`FractionsChain`).

**Graph coloring.** `ColorInv` adds to "linked nodes have different colors" that
all colors below that of a node are taken by linked nodes. A node that is
selected again finds these still taken and its own still free, so it gets the
same color (`Assigned`): the wrong index in `assign_color` costs termination,
never correctness. `OrderedNodesTyped` shows that sorting fills every entry of
the array with a node: the positions are an injection into an interval of the
same size, hence onto. `Greedy` counts: the colors below inject into the linked
nodes. `MemorySafe` needs both, and `SlotsInv`: an entry of the array is NULL only
at the index of a color that is in use, so that a selection finds a node.

**Multiway cut.** A search marks only what is reachable, and everything it has
examined has only marked neighbours (`SearchInv`); when its queue is empty, the
marks are closed under links and the goal is not connected (`NotFoundInv`). Marks
are shared by all searches, and are reset by each. With that, the cut of every
machine that the loops have passed is exactly its links on a path to another one
(`CutInv`). At most one cut is discarded (`DiscardInv`), and of two machines one
has all its links on such paths removed: no path is left between them. A path is
a statement about all sets closed under links, so none needs an induction. Then no
service has two machines (`SingleInv`), and the repair gives one back to those
without, which is the refinement.

**Catalog.** Every visit rewrites the dependencies of all services, visited or not:
they are those given, each by the node that stands for it now, and none twice
(`Rewritten`). With this a visit keeps `Quotient`, in both cases, a copied
service and an absorbed one whose node may exist already. `SimpleInv` says that
dependencies occur once and that no service depends on itself, which is why
removing *one* occurrence is enough. `ContextInv`: before services are grouped,
what a queried service depends on is queried; the quotient of such a graph is
closed too. `CoverInv`: every group of a service has its page, is being looked at,
or is left; `LinksInv`: a link names a prefix of the path of a service; where
layers have services of their own, every prefix has a page. Paths are compared by
the least position in which they differ (`PathLeaves`).

**Redeployment.** `Inv` of `RedeployProofs` has four parts beside the types.
`PreviousInv`: once the filter for stateful services has been applied, the
candidates of a stateful service are among its previous ones; every later filter
only takes candidates away. This needs `NamesInv`, that without the filter for
bound services all candidates are plain names, since a division turns what it
picks into a name. `PlaceInv` says where the generation is, and that after the
last step, a division, every service has a candidate, so that none is
undeployed. `HomeInv`, the manifest says where the state is, rests on that. The
round robin stays among the candidates because every list has a head
(`FirstIsHead`), by the minimum of a set of naturals.

`RoundInv`: of two candidates the earlier one has one service more if the previous
target is between them, or the earlier one itself, and as many otherwise. A step
keeps this, as the next target is the successor of the previous one, or the head
when there is none (`NextIsSuccessor`), and gets one service more (`LoadStep`). It
rests on a total order, and so on no list having a target twice: `SingleInv`, over
all deployments, since the filter for bound services puts the targets of a
manifest into a list.

**Refinement.** The four division programs map to `DivisionPhase` step by step:
the step that records a result maps to `Map`, the one that ends well to
`Succeed`, all failures and aborts to `Fail`, everything else stutters.

**Only model-checked.** Liveness: `RunsTerminate`, `AdaptsToChanges`,
`CoverTerminates`, `CutEnds`. TLAPS proves nothing about fairness and `ENABLED`; what
is proved of termination is its safety part for the set cover (`RoundsCover`).
`CapacityNeverNegative`, `EveryRoundCovers` and `SingleIdsRetained` are proved only,
as their runs check stronger or closely related properties. The three properties
of the runs in section 6 do not hold.

## 6. Where the code and its documentation disagree

Each of these has a run that shows it (`findings` in `PROJECT.json`):

1. `id_moving`: with machine-level ids, two services that got the same id on
   different machines both keep it when one moves to the other's machine
   (`src/idassign/idassignmentstable.c:81`; `README.md:420-421`).
2. `graphcol_ends`: the entry set to NULL is that of the color, not of the node;
   four services without dependencies are never colored
   (`src/graphcol/graphcol-approximate.c:150`, comment at 173-175).
3. `redeploy_containers`: as soon as one service is mapped to a container other
   than the one of its type, the previous distribution consists of attribute
   sets; the filter for bound services passes them on, and the style sheet that
   writes the distribution leaves out what is not a string
   (`xsl/distribution_expr.xsl:10`). The bound services are undeployed without an
   error (`nix/intfilters.nix:188-189`).

Seen in the code, modelled as it is where the model reaches it, without a run of
their own:

* With a distribution, a services model that cannot be opened is reported, but
  for want of an `else` the run goes on and writes a file without ids
  (`src/idassign/idassign.c:116`; `README.md:532`). The properties of
  `id_updates` name these runs as an exception (`LacksServices`).
* When a machine with memorized ids leaves, its table is freed twice
  (`src/idassign/lastassignmentspertargettable.c:80`).
* A first machine without a price makes the smallest fraction NaN as soon as all
  its services are covered, and the loop picks it for ever, unless it hosts all
  services (`src/minsetcover/minsetcover.c:82` and 101, comment at 144).
* A service without candidates makes the same loop run for ever, since it counts
  the services of the services model (`src/minsetcover/minsetcover.c:145`), or abort
  when no service has any.
  `CoverTerminates` says this of both.
* `graphcol` takes no distribution and colors over all machines of the
  infrastructure (`nix/extfilters.nix:199`): at the end of a quality of service
  model it disregards what all filters before it have left, the one for stateful
  services included.
* The snapshot contacts the machines of the last deployment
  (`scripts/dydisnix-self-adapt.in:230`), so that, with this option, a machine that
  has left ends the script before it adapts to that.
* `divideRoundRobin` starts at the head of a list that does not contain the
  previous target, so services with different lists may all get the same target
  although the comment promises equal proportions (`nix/intfilters.nix:252-253`).
* One service in a container of its own also turns the previous targets of the
  stateful services into attribute sets, which are equal to no candidate: the
  stateful filter leaves nothing, and every redeployment fails until the
  container is given up.
* A failure of `nix-instantiate` that has nothing to do with the service makes
  the machine unfit for it, without an error (`src/filter-buildable`, line 37).
* A stateful service that no deployment places for once, as the plan has no
  division or the model leaves it out, may go anywhere the next time: only the
  last manifest counts.
* `dydisnix-gendist` copies the coordinator profile once
  (`scripts/dydisnix-gendist.in:159`); a deployment in the meantime is not seen.
* A catalog has no page for a group that has sub groups but no services, though
  the page above links to it (`src/document-services/document-services.c:164`).
* A dependency on a service that the model lacks is a NULL dereference when a
  diagram is drawn (`src/visualize-services/visualize-services.c:191`).
* `dydisnix-visualize-services` in batch mode ignores the result of every diagram
  and reports success; `dydisnix-document-services` stops at the first failure.
* The edges between services outside the group of a diagram, of which the comment
  at `visualize-services.c:328` says there are none, depend on the order of the
  hash table.
* A service with the name of a group is taken for the node of the group.
* One failing command ends `dydisnix-self-adapt` (`bash -e`), although its usage
  text speaks of continuous redeployment (lines 12-14).
* `$coordinatorProfileArg` is never set (`scripts/dydisnix-self-adapt.in:230`):
  snapshots are always taken of the default profile.
* A step that does not divide the pool can make the search for an id visit only
  a part of it, for ever (`idtoservicetable.c:18` counts the whole pool). A Nix
  model always has step one, since `xsl/idresources.xsl` drops it.
* When `min` of a pool is raised, the search starts from the memorized id below
  it (`idtoservicetable.c:30`).
* A service that is distributed to two targets loses its ids in every run and gets
  new ones (`idassignmentstable.c:81`), though `README.md:532` says that valid ids
  are retained. The theorems about retention name these services as an exception.
* An id of such a service that is to be unique per machine is chosen on the first
  of its machines that the program visits, and skipped on the others: another
  service there may hold the same id. `README.md:422-423` says that such a service
  can be deployed to one machine only; nothing checks it. `CorrectAssignments`
  excludes it.
* `dydisnix-env` passes the filters to `dydisnix-id-assign`, not to
  `dydisnix-gendist` (lines 222 and 234), uses `$noMigrateStateArg`, which
  nothing sets (line 238), and gives `dydisnix-augment-infra` options it does not
  know (line 216).
* `dydisnix-minsetcover` drops the containers of mappings; the color table maps
  to hostnames instead of target names (a TODO in the code).

## 7. Fairness

Every program is one sequential process that nothing blocks, so weak fairness of
its steps is what any scheduler gives: `WF_vars(Next)` for the division
programs, `WF_vars(Step)` for the ID assigner (runs are not started fairly, and
faults are not obliged to happen), `WF_vars(Work \/ Fail)` for the loop (nobody
is obliged to start it again, machines join and leave as they like).
`AdaptsToChanges` is conditional on what it needs of the environment: machines
settle, commands stop failing.

## 8. Plan

Done, in this order, the most important behaviour first: `IdAssign` with its
history and registry, `SelfAdapt`, `DivisionPhase` with `Divide` and
`MinSetCover`, `GraphColoring`, `MultiwayCut`; `ServiceGroups` with
`ServiceCatalog`; `Redeploy`, which composes the filters, the buildability
filter, the previous distribution and the contract of a division; proofs of the
safety properties of all of these, the refinements included.

Next proofs:

1. The safety part of termination, as for the set cover: that a search for an id
   comes to no id twice, and that every step of a breadth-first search examines
   another node.
2. `BoundServicesStay` for manifests without containers, which is what the filter
   promises where its style sheet does not get in the way.

One more module is worth writing: two processes of `dydisnix-id-assign` on one
file, a loop and an administrator, as the file is written without a lock.

## 9. Not modelled

* `dydisnix-augment-infra`: one evaluation of a Nix function that the user writes.
  In `SelfAdapt` it is part of the capture.
* `dydisnix-visualize-infra`: prints the infrastructure model in one pass, without
  a decision.
* `libdymain` and the command lines of all programs: checks and defaults of options,
  no state. What options change is a constant of the models.
* Parsing and printing of models (`libservices`, `libdistribution`,
  `libinfrastructure2`, `nix/`, `xsl/`), except where it changes what a model
  says: `xsl/idresources.xsl` drops the step of a pool (`IdAssign`),
  `xsl/distribution_expr.xsl` drops mappings (`Redeploy`), an ids file that was
  cut off cannot be read (`IdAssign`).
* Disnix itself, which is not part of the repository: what `SelfAdapt` and
  `Redeploy` assume of it is marked external in the map.
