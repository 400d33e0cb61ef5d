---------------------------- MODULE FetchDemand ----------------------------
(***************************************************************************)
(* What the fetch queue promises its callers, without queue, threads or    *)
(* memory: a set of kinds of work that somebody wants done.  Asking adds a *)
(* kind unless pending work already covers it; serving takes one kind out; *)
(* nothing that was asked for is ever dropped; and every pending kind is   *)
(* served in the end, however much else is asked for meanwhile, unless the *)
(* process is lost.                                                        *)
(***************************************************************************)
CONSTANTS Types    \* what can be fetched

VARIABLES
  pending,   \* the kinds of work asked for and not yet begun
  dropped,   \* was a request refused
  crashed    \* has the process been lost

demandVars == <<pending, dropped, crashed>>

Kinds == [type : Types, force : BOOLEAN]

(* Forced work covers unforced work of its type. *)
Covers(done, asked) ==
  done.type = asked.type /\ (done.force \/ ~asked.force)

DemandTypeOK ==
  pending \subseteq Kinds /\ dropped \in BOOLEAN /\ crashed \in BOOLEAN

DemandInit ==
  pending = {} /\ dropped = FALSE /\ crashed = FALSE

Ask(k) ==
  /\ \A p \in pending : ~Covers(p, k)
  /\ pending' = pending \cup {k}
  /\ UNCHANGED <<dropped, crashed>>

Serve(k) ==
  /\ k \in pending
  /\ pending' = pending \ {k}
  /\ UNCHANGED <<dropped, crashed>>

Lose ==
  /\ crashed' = TRUE
  /\ UNCHANGED <<pending, dropped>>

DemandNext ==
  \/ \E k \in Kinds : Ask(k) \/ Serve(k)
  \/ Lose

DemandSpec == DemandInit /\ [][DemandNext]_demandVars

DemandFairSpec ==
  DemandSpec /\ \A k \in Kinds : WF_demandVars(~crashed /\ Serve(k))
=============================================================================
