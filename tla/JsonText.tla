------------------------------ MODULE JsonText ------------------------------
(***************************************************************************)
(* How the plugin reads JSON: it does not parse, it looks for "key" from a *)
(* place in the text on. A text is the sequence of its objects, an object  *)
(* a function from its keys to values, and all values are strings.         *)
(***************************************************************************)
EXTENDS ByteStrings, FiniteSetsExt

CONSTANTS
  Plain,    \* value |-> the same without its /mask, for values that have one
  Octets,   \* address |-> its four bytes: what inet_aton makes of a text
  Extended  \* <<longer, shorter>>: values that begin with another one

ASSUME OctetsAssumption ==
  "" \notin DOMAIN Octets /\ \A a \in DOMAIN Octets : Octets[a] \in Bytes /\ Len(Octets[a]) = 4

(* objs is the sequence of a text's objects, of any keys and values. *)
IsSequence(objs) == objs \in Seq({objs[i] : i \in DOMAIN objs})

Trim(v) == IF v \in DOMAIN Plain THEN Plain[v] ELSE v
BeginsWith(v, w) == v = w \/ <<v, w>> \in Extended

(* The value of the first such key in object i or in any later one: the end of *)
(* the object does not end the search. Nothing or one value.                   *)
find_json_string_value(objs, i, key) ==
  LET at == {j \in i .. Len(objs) : key \in DOMAIN objs[j]}
  IN IF at = {} THEN <<>> ELSE <<objs[Min(at)][key]>>

(* find(a) || find(b) || ...: the first key found anywhere decides. *)
FindFirst(objs, i, keys) ==
  LET hits == {n \in DOMAIN keys : find_json_string_value(objs, i, keys[n]) # <<>>}
  IN IF hits = {} THEN <<>> ELSE find_json_string_value(objs, i, keys[Min(hits)])

(* The same into a buffer that is empty before. *)
ValueOf(objs, i, keys) ==
  LET v == FindFirst(objs, i, keys) IN IF v = <<>> THEN "" ELSE v[1]
=============================================================================
