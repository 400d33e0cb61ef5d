----------------------------- MODULE LinkCounts -----------------------------
(***************************************************************************)
(* How many routes and nodes the link table shows for each neighbour       *)
(* (normalize_olsrd_links and its helpers).                                *)
(*                                                                         *)
(* raw.objs are the objects of the whole text in order, raw.seg says which *)
(* of them lie in the array of each key that is there, raw.strings are the *)
(* routes of builds that give plain strings. kernel is the routing table,  *)
(* in order; via is "" for lines without a gateway.                        *)
(***************************************************************************)
EXTENDS NodeNames

CONSTANTS
  Atoi,         \* value |-> its number, 0 for all others
  MaxGateways,  \* MAX_GW_STATS
  MaxNames,     \* names kept of a gateway
  MaxUnique     \* MAX_UNIQUE

ASSUME LinkAssumption == MaxGateways \in Nat /\ MaxNames \in Nat /\ MaxUnique \in Nat

GatewayKeys == <<"gateway", "via", "gatewayIP", "nextHop", "nexthop">>
LastHopKeys == <<"lastHopIP", "lastHopIp", "lastHopIpAddress", "lastHop", "via",
                 "gateway", "gatewayIP", "nextHop">>
DestKeys    == <<"destinationIP", "destinationIp", "destination", "destIpAddress",
                 "dest", "to", "target", "originator">>
RemoteKeys  == <<"remoteIP", "remoteIp", "remote", "neighborIP">>

(* Sections lie in the text, and may be empty. *)
IsRaw(raw) ==
  /\ IsSequence(raw.objs)
  /\ \A s \in DOMAIN raw.seg : raw.seg[s][1] \in Nat \ {0} /\ raw.seg[s][2] \in 0 .. Len(raw.objs)

IsTable(kernel) == IsSequence(kernel)

FirstNonZero(counts) ==
  LET at == {n \in DOMAIN counts : counts[n] # 0}
  IN IF at = {} THEN 0 ELSE counts[Min(at)]

(* Objects of a section that name ip under one of the keys. *)
Naming(raw, sec, keys, ip) ==
  {i \in raw.seg[sec][1] .. raw.seg[sec][2] : Trim(ValueOf(raw.objs, i, keys)) = ip}

(* "key":"ip as a text, from the section to the end of everything. *)
Occurrences(raw, sec, key, ip) ==
  Cardinality({i \in raw.seg[sec][1] .. Len(raw.objs) :
                 key \in DOMAIN raw.objs[i] /\ BeginsWith(raw.objs[i][key], ip)})

(* Strings of the array that are ip or go on with a blank. *)
StringsFrom(raw, sec, ip) ==
  Cardinality({i \in DOMAIN raw.strings : raw.strings[i] = ip})
  + Cardinality(UNION {{<<i, key>> : key \in {k \in DOMAIN raw.objs[i] : raw.objs[i][k] = ip}}
                       : i \in raw.seg[sec][1] .. raw.seg[sec][2]})

count_routes_for_ip(raw, sec, ip) ==
  FirstNonZero(<<Cardinality(Naming(raw, sec, GatewayKeys, ip)),
                 StringsFrom(raw, sec, ip),
                 Occurrences(raw, sec, "gateway", ip),
                 Occurrences(raw, sec, "nextHop", ip)>>)

count_nodes_for_ip(raw, sec, ip) ==
  FirstNonZero(<<Cardinality(Naming(raw, sec, LastHopKeys, ip))>>
               \o [n \in 1 .. 5 |-> Occurrences(raw, sec,
                     <<"lastHopIP", "lastHopIp", "lastHop", "gateway", "via">>[n], ip)])

NodeOf(db, dest) ==
  LET name == find_best_nodename_in_nodedb(db, dest) IN IF name = "" THEN dest ELSE name

Capped(S, most) == IF Cardinality(S) > most THEN most ELSE Cardinality(S)

(* Destinations are not told apart by node. *)
Badcount_unique_nodes_for_ip(raw, sec, ip, db) ==
  LET Dest(i) == Trim(ValueOf(raw.objs, i, DestKeys))
  IN Capped({Dest(i) : i \in Naming(raw, sec, LastHopKeys, ip)} \ {"", ip}, MaxUnique)

count_unique_nodes_for_ip(raw, sec, ip, db) ==
  LET Dest(i) == Trim(ValueOf(raw.objs, i, DestKeys))
      dests   == {Dest(i) : i \in Naming(raw, sec, LastHopKeys, ip)} \ {"", ip}
  IN Capped({NodeOf(db, d) : d \in dests}, MaxUnique)

(* The largest of a neighbour's entries; linkcount where there is no other. *)
neighbor_twohop_for_ip(raw, sec, ip) ==
  LET Text(i) == IF ValueOf(raw.objs, i, <<"twoHopNeighborCount">>) # ""
                 THEN ValueOf(raw.objs, i, <<"twoHopNeighborCount">>)
                 ELSE ValueOf(raw.objs, i, <<"linkcount">>)
      Number(v) == IF v \in DOMAIN Atoi THEN Atoi[v] ELSE 0
  IN Max({0} \cup {Number(Text(i)) : i \in Naming(raw, sec, <<"ipAddress", "ip">>, ip)})

-----------------------------------------------------------------------------
Via(kernel, gw) == {n \in DOMAIN kernel : kernel[n].via = gw}

(* gw_stats: gateways in the order of their first route, as many as fit. *)
Gateways(kernel) ==
  LET first == {n \in DOMAIN kernel : kernel[n].via # ""
                                      /\ n = Min(Via(kernel, kernel[n].via))}
  IN {kernel[n].via : n \in {m \in first : Cardinality({k \in first : k <= m}) <= MaxGateways}}

NamesVia(kernel, gw, db) ==
  {find_best_nodename_in_nodedb(db, kernel[n].dest) : n \in Via(kernel, gw)} \ {""}

(* Without the key, the array of the first object that looks like topology. *)
TopologySection(raw) ==
  LET clues == <<"lastHopIP", "lastHop", "destinationIP", "destination", "destIpAddress">>
      With(n) == {i \in DOMAIN raw.objs : clues[n] \in DOMAIN raw.objs[i]}
      known == {n \in DOMAIN clues : With(n) # {}}
  IN IF "topology" \in DOMAIN raw.seg THEN {"topology"}
     ELSE IF known = {} THEN {}
     ELSE {s \in DOMAIN raw.seg : Min(With(Min(known))) \in raw.seg[s][1] .. raw.seg[s][2]}

BadLinkOf(raw, kernel, db, remote) ==
  [remote |-> remote,
   routes |-> IF "routes" \in DOMAIN raw.seg
              THEN count_routes_for_ip(raw, "routes", remote)
              ELSE Cardinality(Via(kernel, remote)),
   nodes  |-> Capped(NamesVia(kernel, remote, db), MaxNames)]

(* The routing table comes first, then topology, then two-hop neighbours. *)
LinkOf(raw, kernel, db, remote) ==
  LET known  == remote \in Gateways(kernel)
      topo   == TopologySection(raw)
      routes == IF known THEN Cardinality(Via(kernel, remote))
                ELSE IF "routes" \in DOMAIN raw.seg
                THEN count_routes_for_ip(raw, "routes", remote) ELSE 0
      nodes  == FirstNonZero(
                  <<IF known THEN Capped(NamesVia(kernel, remote, db), MaxNames) ELSE 0>>
                  \o IF topo = {} THEN <<>>
                     ELSE LET sec == CHOOSE s \in topo : TRUE
                          IN <<count_unique_nodes_for_ip(raw, sec, remote, db),
                               count_nodes_for_ip(raw, sec, remote)>>)
      twohop == IF nodes = 0 /\ "neighbors" \in DOMAIN raw.seg
                THEN neighbor_twohop_for_ip(raw, "neighbors", remote) ELSE 0
  IN [remote |-> remote,
      routes |-> IF routes = 0 THEN twohop ELSE routes,
      nodes  |-> IF nodes = 0 THEN twohop ELSE nodes]

(* One row for each object of the links array (of the first array, where there *)
(* is no such key) that has, or finds behind it, a remote address.             *)
LinkRows(raw, kernel, db) ==
  LET sec  == IF "links" \in DOMAIN raw.seg THEN "links"
              ELSE CHOOSE s \in DOMAIN raw.seg :
                     \A t \in DOMAIN raw.seg : raw.seg[s][1] <= raw.seg[t][1]
      rows == {i \in raw.seg[sec][1] .. raw.seg[sec][2] :
                 ValueOf(raw.objs, i, RemoteKeys) # ""}
  IN [i \in rows |-> LinkOf(raw, kernel, db, ValueOf(raw.objs, i, RemoteKeys))]

-----------------------------------------------------------------------------
(* Every row of a neighbour that the routing table knows counts the table's   *)
(* routes through it, whatever the text says (1824-1886, 1990-2044).          *)
KernelRoutesWin(raw, kernel, db) ==
  LET rows == LinkRows(raw, kernel, db)
  IN \A i \in DOMAIN rows :
       rows[i].remote \in Gateways(kernel) =>
         rows[i].routes = Cardinality(Via(kernel, rows[i].remote))

(* In a topology whose objects all have the two addresses, an unknown         *)
(* neighbour's nodes are the different nodes behind it: not itself, and one   *)
(* for all the addresses of a node (1348-1420).                               *)
NodesAreDistinct(raw, kernel, db) ==
  LET rows  == LinkRows(raw, kernel, db)
      links == raw.seg["topology"][1] .. raw.seg["topology"][2]
      Behind(gw) == {Trim(raw.objs[i]["destinationIP"]) :
                       i \in {j \in links : Trim(raw.objs[j]["lastHopIP"]) = gw}} \ {"", gw}
  IN "topology" \in DOMAIN raw.seg =>
       ((\A i \in links : {"lastHopIP", "destinationIP"} \subseteq DOMAIN raw.objs[i]) =>
          \A i \in DOMAIN rows :
            LET different == {NodeOf(db, d) : d \in Behind(rows[i].remote)}
            IN /\ rows[i].remote \notin Gateways(kernel)
               /\ different # {} /\ Cardinality(different) <= MaxUnique
               => rows[i].nodes = Cardinality(different))
=============================================================================
