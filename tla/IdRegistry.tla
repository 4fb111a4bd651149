----------------------------- MODULE IdRegistry -----------------------------
(***************************************************************************)
(* What the ID assigner promises to the models that import its file: a      *)
(* registry of ids that is updated as a whole.  No two services hold the    *)
(* same id of a resource, and a service that holds an id keeps it until it  *)
(* gives it up; only then can it be given another one.  The registry may be *)
(* lost, and then stays lost.                                               *)
(***************************************************************************)
CONSTANTS Services, Resources, NoId

VARIABLES
    assigned,   \* per resource, the id that each service holds
    lost        \* the registry can no longer be read

vars == <<assigned, lost>>

NoneAssigned == [r \in Resources |-> [s \in Services |-> NoId]]

Init == assigned = NoneAssigned /\ lost = FALSE

Unique(table) ==
    \A s1, s2 \in Services : s1 # s2 /\ table[s1] # NoId => table[s1] # table[s2]

Held(table, s) == table[s] # NoId

(* Any number of services give up their id or are given one. *)
Update ==
    /\ ~lost /\ UNCHANGED lost
    /\ \A r \in Resources :
          /\ Unique(assigned'[r])
          /\ \A s \in Services :
                Held(assigned[r], s) /\ Held(assigned'[r], s) => assigned'[r][s] = assigned[r][s]

Lose == lost' = TRUE /\ assigned' = NoneAssigned

Next == Update \/ Lose

Spec == Init /\ [][Next]_vars
=============================================================================
