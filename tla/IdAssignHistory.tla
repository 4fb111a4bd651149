--------------------------- MODULE IdAssignHistory ---------------------------
(***************************************************************************)
(* IdAssign seen by the readers of its file: what has ever been published,  *)
(* as history variables, and the registry that the runs implement.          *)
(***************************************************************************)
EXTENDS IdAssign

VARIABLES
    issued,     \* per resource, the ids that some published file has held
    wrapping,   \* the resources whose search has passed max in this run
    wrapped     \* the resources whose search had passed max in a published run

historyVars == <<issued, wrapping, wrapped>>

HistoryInit ==
    /\ Init
    /\ issued = [r \in Resources |-> {}]
    /\ wrapping = {} /\ wrapped = {}

(* The search goes past the end of the pool. *)
PassesMax ==
    LET pool == PoolOf(resource) IN
    \/ pc = "search" /\ searchId \in used /\ searchId + pool.step > pool.max
    \/ pc = "service" /\ pc' = "search" /\ lastId # NoId /\ lastId + pool.step > pool.max

Publishes == pc = "write" /\ file' # file

HistoryNext ==
    /\ Next
    /\ issued' = IF Publishes
                 THEN [r \in Resources |-> issued[r] \cup UsedBy(r, Services)]
                 ELSE issued
    /\ wrapping' = IF pc' = "exited" THEN {}
                   ELSE IF PassesMax THEN wrapping \cup {resource} ELSE wrapping
    /\ wrapped' = IF Publishes THEN wrapped \cup wrapping ELSE wrapped

HistorySpec ==
    HistoryInit /\ [][HistoryNext]_<<vars, historyVars>> /\ WF_vars(Step)

(* "memorizes the last assigned IDs per resource so that it will not reuse  *)
(* any previously assigned IDs, unless the limit has been reached": an id   *)
(* that any earlier file has published, for a service that may be long      *)
(* gone, is given out again only after the search has passed the maximum,   *)
(* across runs, failed runs and killed runs.                                *)
NoReuseBeforeLimit ==
    [][AssignId => searchId \notin issued[resource]
                   \/ resource \in wrapping \cup wrapped]_<<vars, historyVars>>

-----------------------------------------------------------------------------
(* While the file is being rewritten the registry still holds what the run  *)
(* has read; it is lost when the rewriting does not come to its end.        *)
PublishedIds ==
    IF file \in {Absent, Broken}
    THEN IF pc = "write" /\ origin # Absent THEN origin.ids ELSE NoIds
    ELSE file.ids

RegistryLost == file = Broken /\ pc # "write"

Registry == INSTANCE IdRegistry WITH assigned <- PublishedIds, lost <- RegistryLost

(* Successive runs on the same pools, with every service on at most one     *)
(* target, implement the registry: seen from outside an update is atomic,   *)
(* and an id that a service holds never turns into another one.             *)
ImplementsRegistry == Registry!Spec
=============================================================================
