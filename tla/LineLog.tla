------------------------------ MODULE LineLog ------------------------------
(***************************************************************************)
(* What the log promises: the last lines that were logged, as many as      *)
(* there is room for, in their order.                                      *)
(***************************************************************************)
EXTENDS Integers, Sequences

CONSTANTS
  Room,   \* lines that are kept
  Lines   \* lines that may be logged

VARIABLE kept

LastOf(s, n) == SubSeq(s, IF Len(s) > n THEN Len(s) - n + 1 ELSE 1, Len(s))

Begin == kept = <<>>

Add == \E line \in Lines : kept' = LastOf(Append(kept, line), Room)

(* The text of the lines is given up, their number is not. *)
Blank == kept' = [n \in DOMAIN kept |-> <<>>]

Spec == Begin /\ [][Add \/ Blank]_kept
=============================================================================
