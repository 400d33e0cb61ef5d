---------------------------- MODULE MCHttpServer ----------------------------
(***************************************************************************)
(* Configurations of HttpServer for TLC.                                   *)
(***************************************************************************)
EXTENDS HttpServer

Given(p, f, m) == [pool |-> p, fails |-> f, freeMax |-> m]

(* With and without a pool, with and without failing allocations, a free list *)
(* that does and does not hold all blocks, and the one combination of them    *)
(* where task_queue_push uses a block that it has freed.                      *)
AllConfigs == {Given(FALSE, TRUE, 1), Given(TRUE, FALSE, 1),
               Given(TRUE, TRUE, 2), Given(TRUE, TRUE, 1)}

(* A pool and nothing that fails. *)
PoolConfigs == {Given(TRUE, FALSE, 1)}
=============================================================================
