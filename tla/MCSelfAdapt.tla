---------------------------- MODULE MCSelfAdapt ----------------------------
(***************************************************************************)
(* Instances of SelfAdapt for TLC: the options of each run.                *)
(***************************************************************************)
EXTENDS SelfAdapt

CommandLine(snapshot, reconstruct, ids, path) ==
    [snapshot |-> snapshot, reconstruct |-> reconstruct, ids |-> ids, path |-> path]

(* Every combination of options, with the default profile path. *)
AllOptions == {CommandLine(s, r, i, "default") : s, r, i \in BOOLEAN}
=============================================================================
