---------------------------- MODULE MCFetchQueue ----------------------------
(***************************************************************************)
(* Instances of FetchQueue for TLC: values for Entries and symmetry.       *)
(***************************************************************************)
EXTENDS FetchQueue, TLC

AllEntries == EntryPoints

(* Callers that wait, and the periodic workers. *)
QueuedEntries == EntryPoints \ {"devicesRefresh"}

(* Callers and blocks are interchangeable in every safety run. *)
Symmetry == Permutations(Callers) \cup Permutations(Reqs)
=============================================================================
