-------------------------- MODULE MCIdAssignHistory --------------------------
(***************************************************************************)
(* The instances of MCIdAssign with the history variables.                  *)
(***************************************************************************)
EXTENDS MCIdAssign, IdAssignHistory

(* The instance is one that the theorems about the history speak of. *)
ASSUME HistoryHypotheses ==
    SteadyPools /\ SamePools /\ NotReplicated /\ GlobalOnly = Resources
=============================================================================
