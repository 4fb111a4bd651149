----------------------------- MODULE SelfAdapt -----------------------------
(***************************************************************************)
(* The feedback loop of dydisnix-self-adapt (src/scripts): capture the     *)
(* infrastructure, and when it differs from the one of the last iteration  *)
(* generate a distribution, update the ID assignments and redeploy.        *)
(*                                                                         *)
(* The script runs under bash -e: the first command that fails ends it.    *)
(* It may be started again, with nothing left but what is on disk: the     *)
(* coordinator profiles and the ids file.  Machines may join and leave     *)
(* between any two commands.                                               *)
(*                                                                         *)
(* Data abstraction: an infrastructure model is the set of its machines;   *)
(* different models have different hashes.  The quality of service model is unknown:   *)
(* any distribution over the captured machines may be generated.  The ids  *)
(* file is the set of services it has an id for (module IdAssign models    *)
(* what dydisnix-id-assign does with the ids themselves).  The commands of *)
(* Disnix are not part of the repository; they are modelled by what the    *)
(* script relies on.                                                       *)
(***************************************************************************)
EXTENDS FiniteSets

CONSTANTS
    Machines,     \* machine names
    Services,     \* service names
    CommandLines, \* the option sets the script may be started with
    Faults,       \* "fail": any command may fail; "hash": only nix-instantiate may
    Nowhere,      \* no target: the service is not distributed
    NoManifest,   \* an empty coordinator profile
    NoHash,       \* the value of hash and previousHash before they are set
    NoOutput      \* the hash of an empty output

Options == [snapshot : BOOLEAN, reconstruct : BOOLEAN, ids : BOOLEAN,
            path : {"default", "custom"}]

Infrastructure == SUBSET Machines
ModelHash      == [of : Infrastructure]
Hashes         == ModelHash \cup {NoHash, NoOutput}
Placement      == Services \X Machines
Distribution   == [Services -> Machines \cup {Nowhere}]
Manifest       == [infra : Infrastructure, placed : SUBSET Placement]

ASSUME OptionAssumption == CommandLines \subseteq Options /\ Faults \subseteq {"fail", "hash"}

ASSUME ValueAssumption ==
    /\ Nowhere \notin Machines
    /\ NoManifest \notin Manifest
    /\ NoHash \notin ModelHash /\ NoOutput \notin ModelHash /\ NoHash # NoOutput

VARIABLES
    network,      \* the machines that are up
    hosts,        \* the services that run on each machine
    profiles,     \* the manifest in the coordinator profile, for each path
    identified,   \* the services with an id in the ids file
    options,      \* the options the script was started with
    pc,           \* the next command of the loop; "stopped" without a process
    captured,     \* $infrastructureFile
    hash,         \* $hash
    previousHash, \* $previousHash
    distribution  \* $distribution

disk    == <<profiles, identified>>
process == <<captured, hash, previousHash, distribution>>
vars    == <<network, hosts, disk, options, pc, process>>

-----------------------------------------------------------------------------
(* Helpers *)

Undistributed == [s \in Services |-> Nowhere]

(* The placements of a distribution.  Mutant: also those without a target. *)
PlacedAnywhere(d) == {<<s, d[s]>> : s \in Services}

PlacedBy(d)   == {p \in Placement : d[p[1]] = p[2]}
PlacedIn(man) == IF man = NoManifest THEN {} ELSE man.placed
ServicesAt(placed, m) == {s \in Services : <<s, m>> \in placed}
Running(infra) == {p \in Placement : p[2] \in infra /\ p[1] \in hosts[p[2]]}

Current == profiles[options.path]

(* The machines a command has to reach: disnix-snapshot those of the        *)
(* manifest it reads, disnix-reconstruct and disnix-env those of the        *)
(* captured infrastructure model.                                           *)
Contacted ==
    CASE pc = "snapshot" -> {p[2] : p \in PlacedIn(profiles["default"])}
      [] pc \in {"reconstruct", "deploy"} -> captured
      [] OTHER -> {}

CanReach == Contacted \subseteq network

(* What follows a command, under the options of the script.  Mutant: the     *)
(* manifest is never reconstructed.                                         *)
NeverReconstruct == "gendist"

AfterCapture == IF options.snapshot THEN "snapshot" ELSE "hash"
AfterChange  == IF options.reconstruct THEN "reconstruct" ELSE "gendist"
AfterGendist == IF options.ids THEN "assign" ELSE "deploy"

-----------------------------------------------------------------------------
(* The network *)

Join(m) ==
    /\ network' = network \cup {m}
    /\ UNCHANGED <<hosts, disk, options, pc, process>>

Leave(m) ==
    /\ network' = network \ {m}
    /\ UNCHANGED <<hosts, disk, options, pc, process>>

-----------------------------------------------------------------------------
(* The script *)

Init ==
    /\ network \in Infrastructure
    /\ hosts \in [Machines -> SUBSET Services]
    /\ profiles = [p \in {"default", "custom"} |-> NoManifest]
    /\ identified = {}
    /\ options \in CommandLines
    /\ pc = "stopped"
    /\ captured = {}
    /\ hash = NoHash
    /\ previousHash = NoHash
    /\ distribution = Undistributed

(* Mutant: the hash of the last deployment outlives the process. *)
StartAsBefore ==
    /\ pc = "stopped"
    /\ pc' = "capture"
    /\ captured' = {} /\ hash' = NoHash /\ distribution' = Undistributed
    /\ UNCHANGED <<network, hosts, disk, options, previousHash>>

(* The script is started, or started again after it ended. *)
Start ==
    /\ pc = "stopped"
    /\ pc' = "capture"
    /\ captured' = {} /\ hash' = NoHash /\ distribution' = Undistributed
    /\ previousHash' = NoHash
    /\ UNCHANGED <<network, hosts, disk, options>>

(* A command that fails ends the script.  A failed deployment is rolled     *)
(* back by disnix-env, and dydisnix-id-assign leaves the file as it was.    *)
Fail ==
    /\ pc \in {"capture", "snapshot", "reconstruct", "gendist", "assign", "deploy"}
    /\ "fail" \in Faults \/ ~CanReach
    /\ pc' = "stopped"
    /\ UNCHANGED <<network, hosts, disk, options, process>>

(* $geninfra and dydisnix-augment-infra *)
Capture ==
    /\ pc = "capture"
    /\ captured' = network
    /\ pc' = AfterCapture
    /\ UNCHANGED <<network, hosts, disk, options, hash, previousHash, distribution>>

(* disnix-snapshot.  The script passes it $coordinatorProfileArg, which is  *)
(* never set: whatever the options say, it reads the default profile.       *)
Snapshot ==
    /\ pc = "snapshot" /\ CanReach
    /\ pc' = "hash"
    /\ UNCHANGED <<network, hosts, disk, options, captured, hash, previousHash, distribution>>

(* Mutant: only the first iteration takes the infrastructure for changed.   *)
HashOnce(h) ==
    /\ pc = "hash"
    /\ hash' = h
    /\ pc' = IF previousHash = NoHash THEN AfterChange ELSE "sleep"
    /\ UNCHANGED <<network, hosts, disk, options, captured, previousHash, distribution>>

(* The hash of the model, compared to the previous one.  A failure of       *)
(* nix-instantiate is lost: the status of a pipe is that of sha256sum.      *)
HashAs(h) ==
    /\ pc = "hash"
    /\ hash' = h
    /\ pc' = IF h # previousHash THEN AfterChange ELSE "sleep"
    /\ UNCHANGED <<network, hosts, disk, options, captured, previousHash, distribution>>

ComputeHash == HashAs([of |-> captured])

HashNothing == "hash" \in Faults /\ HashAs(NoOutput)

(* disnix-reconstruct: the manifest of what really runs on the machines. *)
Reconstruct ==
    /\ pc = "reconstruct" /\ CanReach
    /\ profiles' = [profiles EXCEPT ![options.path] =
                       [infra |-> captured, placed |-> Running(captured)]]
    /\ pc' = "gendist"
    /\ UNCHANGED <<network, hosts, identified, options, process>>

(* dydisnix-gendist *)
GenerateDistribution ==
    /\ pc = "gendist"
    /\ distribution' \in [Services -> captured \cup {Nowhere}]
    /\ pc' = AfterGendist
    /\ UNCHANGED <<network, hosts, disk, options, captured, hash, previousHash>>

(* dydisnix-id-assign: every distributed service has an id afterwards, and  *)
(* no other service (IdsComplete and IsValid of module IdAssign).           *)
AssignIds ==
    /\ pc = "assign"
    /\ identified' = {s \in Services : distribution[s] # Nowhere}
    /\ pc' = "deploy"
    /\ UNCHANGED <<network, hosts, profiles, options, process>>

(* disnix-env: what the old manifest places on the captured machines and    *)
(* the new one does not is deactivated, what only the new one places is     *)
(* activated, and the new manifest replaces the old one.                    *)
Deployed(m) ==
    (hosts[m] \ ServicesAt(PlacedIn(Current), m))
    \cup (hosts[m] \cap ServicesAt(PlacedIn(Current) \cap PlacedBy(distribution), m))
    \cup ServicesAt(PlacedBy(distribution) \ PlacedIn(Current), m)

(* Mutant: the hash that is remembered is one of the network as it is now.  *)
DeployAndRecapture ==
    /\ pc = "deploy" /\ CanReach
    /\ hosts' = [m \in Machines |-> IF m \in captured THEN Deployed(m) ELSE hosts[m]]
    /\ profiles' = [profiles EXCEPT ![options.path] =
                       [infra |-> captured, placed |-> PlacedBy(distribution)]]
    /\ previousHash' = [of |-> network]
    /\ distribution' = Undistributed
    /\ pc' = "sleep"
    /\ UNCHANGED <<network, identified, options, captured, hash>>

(* The redeployment; the distribution is of no use after it. *)
Deploy ==
    /\ pc = "deploy" /\ CanReach
    /\ hosts' = [m \in Machines |-> IF m \in captured THEN Deployed(m) ELSE hosts[m]]
    /\ profiles' = [profiles EXCEPT ![options.path] =
                       [infra |-> captured, placed |-> PlacedBy(distribution)]]
    /\ previousHash' = hash
    /\ distribution' = Undistributed
    /\ pc' = "sleep"
    /\ UNCHANGED <<network, identified, options, captured, hash>>

Sleep ==
    /\ pc = "sleep"
    /\ pc' = "capture"
    /\ UNCHANGED <<network, hosts, disk, options, process>>

-----------------------------------------------------------------------------
Work == Capture \/ Snapshot \/ ComputeHash \/ HashNothing \/ Reconstruct
        \/ GenerateDistribution \/ AssignIds \/ Deploy \/ Sleep

Next ==
    \/ \E m \in Machines : Join(m) \/ Leave(m)
    \/ Start
    \/ Fail
    \/ Work

Spec == Init /\ [][Next]_vars

(* A running process is scheduled; nothing starts it again when it ended. *)
FairSpec == Spec /\ WF_vars(Work \/ Fail)

-----------------------------------------------------------------------------
(* Properties *)

(* Between two changes of the manifest that the script made itself. *)
Idle == pc \in {"capture", "snapshot", "hash", "sleep"} /\ previousHash # NoHash

TypeOK ==
    /\ network \in Infrastructure
    /\ hosts \in [Machines -> SUBSET Services]
    /\ profiles \in [{"default", "custom"} -> Manifest \cup {NoManifest}]
    /\ identified \in SUBSET Services
    /\ options \in CommandLines
    /\ pc \in {"stopped", "capture", "snapshot", "hash", "reconstruct", "gendist", "assign",
               "deploy", "sleep"}
    /\ captured \in Infrastructure
    /\ hash \in Hashes /\ previousHash \in Hashes
    /\ distribution \in Distribution

(* previousHash decides that nothing has to be done, so it must never stand *)
(* for an infrastructure other than the one the system was deployed to,     *)
(* whatever the machines do between capturing and redeploying.              *)
HashMatchesDeployment ==
    Idle /\ previousHash # NoOutput =>
        Current # NoManifest /\ Current.infra = previousHash.of

(* The ids file is rewritten before the redeployment that it is for, and    *)
(* the redeployment may fail.  The script nevertheless only rests when the  *)
(* file has an id for every service that is deployed, and for no other.     *)
IdsMatchDeployment ==
    Idle /\ options.ids => identified = {p[1] : p \in PlacedIn(Current)}

(* With --reconstruct, no machine of the deployment runs a service that the *)
(* distribution does not place there: not one that was left behind on a     *)
(* machine that was gone when its services were redeployed elsewhere, and   *)
(* not one of an existing deployment on a machine that joined.              *)
NoStrayServices ==
    Idle /\ options.reconstruct =>
        \A m \in Current.infra : hosts[m] = ServicesAt(PlacedIn(Current), m)

(* The system is deployed to the machines that are up, and runs there. *)
InSync ==
    /\ Current # NoManifest
    /\ Current.infra = network
    /\ \A p \in PlacedIn(Current) : p[1] \in hosts[p[2]]

Settled == InSync /\ pc \in {"capture", "snapshot", "hash", "sleep"}

(* When the machines stop joining and leaving, and neither a command nor    *)
(* the evaluation of the infrastructure model fails any more, the loop gets *)
(* the system deployed to these machines and then leaves it alone.          *)
AdaptsToChanges ==
    /\ <>[](pc # "stopped" /\ hash # NoOutput)
    /\ <>[][network' = network]_network
    => <>[]Settled
=============================================================================
