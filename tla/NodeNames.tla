----------------------------- MODULE NodeNames -----------------------------
(***************************************************************************)
(* Which node name the node DB gives an address                            *)
(* (find_best_nodename_in_nodedb).                                         *)
(*                                                                         *)
(* The DB is a sequence of entries: net is the address of a key that       *)
(* begins with a digit and len what atoi makes of its mask (32 without     *)
(* one); net is "" for other keys. obj holds the entry's fields.           *)
(***************************************************************************)
EXTENDS AllowList, JsonText

NameKeys    == <<"n", "name", "hostname">>
AddressKeys == {"h", "host", "hostname", "m", "ip", "ipv4", "addr", "address"}

IsNodeDb(db) == IsSequence(db) /\ \A i \in DOMAIN db : db[i].len \in Int

Objects(db) == [i \in DOMAIN db |-> db[i].obj]

MaskOf(e) == IF e.net = "" \/ e.len > 32 THEN 32
             ELSE IF e.len < 0 THEN 0 ELSE e.len

(* The last bit of the mask is forgotten. *)
BadSameNet(a, b, mask) ==
  /\ a \in DOMAIN Octets
  /\ \A n \in 0 .. mask - 2 : Bit(Octets[a], n) = Bit(Octets[b], n)

SameNet(a, b, mask) ==
  /\ a \in DOMAIN Octets
  /\ \A n \in 0 .. mask - 1 : Bit(Octets[a], n) = Bit(Octets[b], n)

(* A network key holds dest, or some address in the text from here on is dest. *)
Matches(db, i, dest) ==
  IF db[i].net # "" THEN SameNet(db[i].net, dest, MaskOf(db[i]))
  ELSE \E key \in AddressKeys :
         LET v == find_json_string_value(Objects(db), i, key)
         IN v # <<>> /\ Trim(v[1]) = dest

(* The loop keeps the highest mask, but overwrites the name on every match, so *)
(* that the last match gives the name. "" is no name.                          *)
find_best_nodename_in_nodedb(db, dest) ==
  LET NameAt(i) == FindFirst(Objects(db), i, NameKeys)
      hits == IF dest \notin DOMAIN Octets THEN {}
              ELSE {i \in DOMAIN db : Matches(db, i, dest) /\ NameAt(i) # <<>>}
      best_mask == Max({-1} \cup {MaskOf(db[i]) : i \in hits})
  IN IF best_mask >= 0 THEN NameAt(Max(hits))[1] ELSE ""

-----------------------------------------------------------------------------
(* Every entry has the fields the code asks it for. *)
Complete(db) ==
  \A i \in DOMAIN db :
    /\ "n" \in DOMAIN db[i].obj
    /\ db[i].net = "" => \A j \in i .. Len(db) :
                           DOMAIN db[j].obj \cap AddressKeys \subseteq DOMAIN db[i].obj

(* The entries that are about dest, whatever else is in the text. *)
About(db, dest) ==
  {i \in DOMAIN db :
     IF db[i].net \in DOMAIN Octets
     THEN InBlock([form |-> "slash", addr |-> Octets[db[i].net], len |-> MaskOf(db[i])], Octets[dest])
     ELSE /\ db[i].net = ""
          /\ \E key \in AddressKeys \cap DOMAIN db[i].obj : Trim(db[i].obj[key]) = dest}

(* The name found is that of an entry about dest, and of the most specific one *)
(* where the DB lists these from wide to narrow (2418-2515); in any other      *)
(* order a wider network listed later gives its name.                          *)
NameIsSound(db, dest) ==
  LET name  == find_best_nodename_in_nodedb(db, dest)
      about == About(db, dest)
      sorted == \A i, j \in about : i < j => MaskOf(db[i]) <= MaskOf(db[j])
  IN Complete(db) /\ dest \in DOMAIN Octets =>
       IF about = {} THEN name = ""
       ELSE \E i \in about :
              /\ name = db[i].obj["n"]
              /\ sorted => \A j \in about : MaskOf(db[j]) <= MaskOf(db[i])
=============================================================================
