--------------------------- MODULE SelfAdaptProofs ---------------------------
(***************************************************************************)
(* Proofs about SelfAdapt, for any machines, services and options: when    *)
(* the loop rests, the hash, the ids file and the machines agree with the  *)
(* manifest, whatever fails and whichever machines come and go.            *)
(***************************************************************************)
EXTENDS SelfAdapt, TLAPS

Changing == pc \in {"reconstruct", "gendist", "assign", "deploy"}

(* Until the redeployment ends, the hash is that of the captured machines.  *)
HashInv == Changing => hash \in {[of |-> captured], NoOutput}

(* A distribution places services on captured machines, and the ids file is *)
(* updated for it before it is deployed.                                    *)
DistributionInv ==
    /\ pc \in {"assign", "deploy"} => distribution \in [Services -> captured \cup {Nowhere}]
    /\ pc = "deploy" /\ options.ids => identified = {s \in Services : distribution[s] # Nowhere}

(* A reconstructed manifest stands for what runs on the captured machines   *)
(* until it is replaced.                                                    *)
ReconstructInv ==
    pc \in {"gendist", "assign", "deploy"} /\ options.reconstruct =>
        Current = [infra |-> captured, placed |-> Running(captured)]

Inv ==
    /\ TypeOK /\ HashInv /\ DistributionInv /\ ReconstructInv
    /\ HashMatchesDeployment /\ IdsMatchDeployment /\ NoStrayServices

-----------------------------------------------------------------------------
(* Types *)

LEMMA OptionsTyped ==
    ASSUME TypeOK
    PROVE  /\ options \in Options /\ options.path \in {"default", "custom"}
           /\ options.ids \in BOOLEAN /\ options.reconstruct \in BOOLEAN
    BY OptionAssumption DEF TypeOK, Options

(* A manifest is not an empty profile. *)
LEMMA ManifestTyped ==
    ASSUME NEW infra \in Infrastructure, NEW placed \in SUBSET Placement
    PROVE  /\ [infra |-> infra, placed |-> placed] \in Manifest
           /\ [infra |-> infra, placed |-> placed] # NoManifest
           /\ PlacedIn([infra |-> infra, placed |-> placed]) = placed
    <1>1. [infra |-> infra, placed |-> placed] \in Manifest
        BY DEF Manifest
    <1>2. [infra |-> infra, placed |-> placed] # NoManifest
        BY <1>1, ValueAssumption
    <1> QED
        BY <1>1, <1>2 DEF PlacedIn

LEMMA TypeInit == Init => TypeOK
    BY DEF Init, TypeOK, Infrastructure, Hashes, Distribution, Undistributed

LEMMA TypeStep == TypeOK /\ [Next]_vars => TypeOK'
    <1> SUFFICES ASSUME TypeOK, [Next]_vars PROVE TypeOK'
        OBVIOUS
    <1> USE DEF TypeOK
    <1>1. ASSUME NEW m \in Machines, Join(m) \/ Leave(m) PROVE TypeOK'
        BY <1>1 DEF Join, Leave, disk, process, Infrastructure
    <1>2. CASE Start
        BY <1>2 DEF Start, disk, Infrastructure, Hashes, Distribution, Undistributed
    <1>3. CASE Fail
        BY <1>3 DEF Fail, disk, process
    <1>4. CASE Capture
        BY <1>4 DEF Capture, AfterCapture, disk
    <1>5. CASE Snapshot
        BY <1>5 DEF Snapshot, disk
    <1>6. CASE ComputeHash \/ HashNothing
        BY <1>6 DEF ComputeHash, HashNothing, HashAs, AfterChange, disk, Hashes, ModelHash
    <1>7. CASE Reconstruct
        <2>1. Running(captured) \in SUBSET Placement
            BY DEF Running
        <2> QED
            BY <1>7, <2>1, OptionsTyped, ManifestTyped DEF Reconstruct, process
    <1>8. CASE GenerateDistribution
        BY <1>8 DEF GenerateDistribution, AfterGendist, disk, Distribution, Infrastructure
    <1>9. CASE AssignIds
        BY <1>9 DEF AssignIds, process
    <1>10. CASE Deploy
        <2>1. PlacedBy(distribution) \in SUBSET Placement
            BY DEF PlacedBy
        <2>2. profiles' \in [{"default", "custom"} -> Manifest \cup {NoManifest}]
            BY <1>10, <2>1, OptionsTyped, ManifestTyped DEF Deploy
        <2>3. hosts' \in [Machines -> SUBSET Services]
            BY <1>10 DEF Deploy, Deployed, ServicesAt
        <2> QED
            BY <1>10, <2>2, <2>3 DEF Deploy, Distribution, Undistributed
    <1>11. CASE Sleep
        BY <1>11 DEF Sleep, disk, process
    <1>12. CASE UNCHANGED vars
        BY <1>12 DEF vars, disk, process
    <1> QED
        BY <1>1, <1>2, <1>3, <1>4, <1>5, <1>6, <1>7, <1>8, <1>9, <1>10, <1>11, <1>12
        DEF Next, Work

-----------------------------------------------------------------------------
(* What a redeployment knows *)

LEMMA HashStep == HashInv /\ [Next]_vars => HashInv'
    BY DEF HashInv, Changing, Next, Work, vars, disk, process, Join, Leave, Start, Fail, Capture,
           AfterCapture, Snapshot, ComputeHash, HashNothing, HashAs, Reconstruct,
           GenerateDistribution, AssignIds, Deploy, Sleep

LEMMA DistributionStep == TypeOK /\ DistributionInv /\ [Next]_vars => DistributionInv'
    BY OptionsTyped
    DEF DistributionInv, Next, Work, vars, disk, process, Join, Leave, Start, Fail, Capture,
        AfterCapture, AfterChange, AfterGendist, Snapshot, ComputeHash, HashNothing, HashAs,
        Reconstruct, GenerateDistribution, AssignIds, Deploy, Sleep

LEMMA ReconstructStep == TypeOK /\ ReconstructInv /\ [Next]_vars => ReconstructInv'
    <1> SUFFICES ASSUME TypeOK, ReconstructInv, [Next]_vars PROVE ReconstructInv'
        OBVIOUS
    <1>1. CASE Reconstruct
        BY <1>1, OptionsTyped
        DEF ReconstructInv, Reconstruct, Current, Running, process, TypeOK
    <1>2. ASSUME pc' \notin {"gendist", "assign", "deploy"} \/ ~options'.reconstruct
          PROVE  ReconstructInv'
        BY <1>2 DEF ReconstructInv
    <1>3. ASSUME UNCHANGED <<hosts, profiles, options, captured>>,
                 pc \in {"gendist", "assign", "deploy"}
          PROVE  ReconstructInv'
        BY <1>3 DEF ReconstructInv, Current, Running
    <1> QED
        BY <1>1, <1>2, <1>3, OptionsTyped
        DEF Next, Work, vars, disk, process, Join, Leave, Start, Fail, Capture, AfterCapture,
            AfterChange, AfterGendist, Snapshot, ComputeHash, HashNothing, HashAs,
            GenerateDistribution, AssignIds, Deploy, Sleep

-----------------------------------------------------------------------------
(* What the loop rests on *)

(* Only a redeployment brings the loop to rest, or it was at rest before.   *)
LEMMA RestIsKept ==
    ASSUME [Next]_vars, ~Deploy, Idle'
    PROVE  Idle /\ UNCHANGED <<hosts, profiles, options, identified, previousHash>>
    BY DEF Idle, Next, Work, vars, disk, process, Join, Leave, Start, Fail, Capture,
           AfterCapture, AfterChange, AfterGendist, Snapshot, ComputeHash, HashNothing, HashAs,
           Reconstruct, GenerateDistribution, AssignIds, Sleep

(* The manifest after a redeployment. *)
LEMMA DeployedManifest ==
    ASSUME TypeOK, Deploy
    PROVE  /\ Current' = [infra |-> captured, placed |-> PlacedBy(distribution)]
           /\ Current' # NoManifest
           /\ PlacedIn(Current)' = PlacedBy(distribution)
    <1>1. Current' = [infra |-> captured, placed |-> PlacedBy(distribution)]
        BY OptionsTyped DEF Deploy, Current, TypeOK
    <1>2. PlacedBy(distribution) \in SUBSET Placement /\ captured \in Infrastructure
        BY DEF PlacedBy, TypeOK
    <1> QED
        BY <1>1, <1>2, ManifestTyped DEF PlacedIn

LEMMA HashMatchesStep ==
    TypeOK /\ HashInv /\ HashMatchesDeployment /\ [Next]_vars => HashMatchesDeployment'
    <1> SUFFICES ASSUME TypeOK, HashInv, HashMatchesDeployment, [Next]_vars
                 PROVE  HashMatchesDeployment'
        OBVIOUS
    <1>1. CASE Deploy
        <2>1. previousHash' \in {[of |-> captured], NoOutput}
            BY <1>1 DEF Deploy, HashInv, Changing
        <2>2. /\ Current' = [infra |-> captured, placed |-> PlacedBy(distribution)]
              /\ Current' # NoManifest
            BY <1>1, DeployedManifest
        <2>3. Current'.infra = captured
            BY <2>2
        <2>4. CASE previousHash' = NoOutput
            BY <2>4 DEF HashMatchesDeployment
        <2>5. CASE previousHash' = [of |-> captured]
            <3>1. previousHash'.of = captured
                BY <2>5
            <3> QED
                BY <2>2, <2>3, <3>1 DEF HashMatchesDeployment
        <2> QED
            BY <2>1, <2>4, <2>5
    <1>2. CASE ~Deploy
        BY <1>2, RestIsKept DEF HashMatchesDeployment, Current
    <1> QED
        BY <1>1, <1>2

LEMMA IdsMatchStep ==
    TypeOK /\ DistributionInv /\ IdsMatchDeployment /\ [Next]_vars => IdsMatchDeployment'
    <1> SUFFICES ASSUME TypeOK, DistributionInv, IdsMatchDeployment, [Next]_vars
                 PROVE  IdsMatchDeployment'
        OBVIOUS
    <1>1. CASE Deploy
        <2> SUFFICES ASSUME options.ids
                     PROVE  identified = {p[1] : p \in PlacedBy(distribution)}
            BY <1>1, DeployedManifest DEF Deploy, IdsMatchDeployment
        <2>1. identified = {s \in Services : distribution[s] # Nowhere}
            BY <1>1 DEF Deploy, DistributionInv
        <2>2. ASSUME NEW s \in identified PROVE <<s, distribution[s]>> \in PlacedBy(distribution)
            BY <2>1 DEF PlacedBy, Placement, TypeOK, Distribution
        <2>3. ASSUME NEW p \in PlacedBy(distribution) PROVE p[1] \in identified
            BY <2>1, ValueAssumption DEF PlacedBy, Placement
        <2>4. identified \subseteq {p[1] : p \in PlacedBy(distribution)}
            <3> SUFFICES ASSUME NEW s \in identified
                         PROVE  \E p \in PlacedBy(distribution) : s = p[1]
                OBVIOUS
            <3>1. s = <<s, distribution[s]>>[1]
                OBVIOUS
            <3> QED
                BY <2>2, <3>1
        <2>5. {p[1] : p \in PlacedBy(distribution)} \subseteq identified
            BY <2>3
        <2> QED
            BY <2>4, <2>5
    <1>2. CASE ~Deploy
        BY <1>2, RestIsKept DEF IdsMatchDeployment, Current, PlacedIn
    <1> QED
        BY <1>1, <1>2

LEMMA NoStrayStep ==
    TypeOK /\ ReconstructInv /\ NoStrayServices /\ [Next]_vars => NoStrayServices'
    <1> SUFFICES ASSUME TypeOK, ReconstructInv, NoStrayServices, [Next]_vars
                 PROVE  NoStrayServices'
        OBVIOUS
    <1>1. CASE Deploy
        <2> SUFFICES ASSUME options.reconstruct, NEW m \in captured
                     PROVE  hosts'[m] = ServicesAt(PlacedBy(distribution), m)
            BY <1>1, DeployedManifest DEF Deploy, NoStrayServices, ServicesAt
        <2>1. PlacedIn(Current) = Running(captured)
            <3>1. Running(captured) \in SUBSET Placement /\ captured \in Infrastructure
                BY DEF Running, TypeOK
            <3> QED
                BY <1>1, <3>1, ManifestTyped DEF Deploy, ReconstructInv
        <2>2. m \in Machines /\ hosts[m] \subseteq Services
            BY DEF TypeOK, Infrastructure
        <2>3. ServicesAt(Running(captured), m) = hosts[m]
            BY <2>2 DEF ServicesAt, Running, Placement
        <2>4. hosts'[m] = Deployed(m)
            BY <1>1, <2>2 DEF Deploy
        <2> QED
            BY <2>1, <2>3, <2>4 DEF Deployed, ServicesAt
    <1>2. CASE ~Deploy
        BY <1>2, RestIsKept DEF NoStrayServices, Current, PlacedIn, ServicesAt
    <1> QED
        BY <1>1, <1>2

-----------------------------------------------------------------------------
(* Theorems *)

LEMMA Invariance == Spec => []Inv
    <1>1. Init => Inv
        BY TypeInit DEF Init, Inv, HashInv, Changing, DistributionInv, ReconstructInv, Idle,
                        HashMatchesDeployment, IdsMatchDeployment, NoStrayServices
    <1>2. Inv /\ [Next]_vars => Inv'
        BY TypeStep, HashStep, DistributionStep, ReconstructStep, HashMatchesStep, IdsMatchStep,
           NoStrayStep DEF Inv
    <1> QED
        BY <1>1, <1>2, PTL DEF Spec

(* Every variable has its type. *)
THEOREM TypeCorrect == Spec => []TypeOK
    <1>1. Inv => TypeOK
        BY DEF Inv
    <1> QED
        BY <1>1, Invariance, PTL

(* The hash that the loop compares with is that of the machines that the    *)
(* system is deployed to, although machines come and go between capturing   *)
(* them and redeploying, and any command may fail.                          *)
THEOREM HashStandsForDeployment == Spec => []HashMatchesDeployment
    <1>1. Inv => HashMatchesDeployment
        BY DEF Inv
    <1> QED
        BY <1>1, Invariance, PTL

(* The loop rests only when the ids file and the manifest agree, although   *)
(* the file is written before a redeployment that may fail.                 *)
THEOREM IdsStandForDeployment == Spec => []IdsMatchDeployment
    <1>1. Inv => IdsMatchDeployment
        BY DEF Inv
    <1> QED
        BY <1>1, Invariance, PTL

(* With --reconstruct, a redeployment leaves nothing on the machines that   *)
(* its manifest does not have.                                              *)
THEOREM ReconstructionRemovesStrays == Spec => []NoStrayServices
    <1>1. Inv => NoStrayServices
        BY DEF Inv
    <1> QED
        BY <1>1, Invariance, PTL
=============================================================================
