------------------------------ MODULE MCPlugin ------------------------------
(***************************************************************************)
(* Plugin for TLC: the values of its constants.                            *)
(***************************************************************************)
EXTENDS Plugin

-----------------------------------------------------------------------------
(* PluginConfig: settings that are read together, with values in, at and      *)
(* beyond their ranges.                                                       *)
MCFocus == {{"nodedb_ttl"}, {"nodedb_url"}, {"fetch_queue_max", "port"},
            {"fetch_log_queue", "fetch_log_force", "fetch_log_unsilence"},
            {"log_request_debug", "log_req_dbg"}, {"log_buf_lines"},
            {"discover_interval", "fetch_log_queue"}, {"startup_wait"},
            {"coalesce_devices_ttl", "fetch_dropped_warn"}, {"Net"}}
MCIntHalf == 1048576
MCValues == [s \in Settings \cup EnvNames |->
               IF s \in {"fetch_log_queue", "fetch_log_force", "fetch_log_unsilence",
                         "log_request_debug", "log_req_dbg"} THEN {0, 1, 2}
               ELSE {-1, 5, 257, MCIntHalf + 7}]
Slash(a, n) == [form |-> "slash", addr |-> a, len |-> n]
MCNets == {[form |-> "pair", addr |-> <<10, 0, 4, 0>>, mask |-> <<255, 255, 252, 0>>],
           Slash(<<10, 0, 0, 0>>, 9), Slash(<<10, 0, 5, 1>>, 32), Slash(<<10, 0, 0, 0>>, 40),
           Slash([n \in 1 .. 16 |-> IF n = 1 THEN 253 ELSE 0], 8),
           [form |-> "single", addr |-> <<10, 128, 0, 1>>], [form |-> "garbage"]}
MCClients == {<<10, 0, 5, 1>>, <<10, 0, 9, 1>>, <<10, 128, 0, 1>>, <<192, 168, 0, 1>>,
              [n \in 1 .. 16 |-> IF n = 1 THEN 253 ELSE 1], Mapped(<<10, 0, 5, 1>>)}

(* JsonText, NodeNames, LinkCounts. *)
MCOctets == [a |-> <<10, 0, 0, 1>>, b |-> <<10, 0, 0, 2>>, c |-> <<10, 0, 1, 1>>,
             net |-> <<10, 0, 0, 0>>]
MCPlain    == ("a/32" :> "a")
MCExtended == {<<"a/32", "a">>}
MCAtoi     == ("3" :> 3)

NameEntries ==
  [net : {"a", "net"}, len : {-1, 0, 24, 30, 31, 32, 33}, obj : {[n |-> "wide"], [n |-> "narrow"]}]
  \cup [net : {""}, len : {0}, obj : {[n |-> "host", h |-> "a/32"], [n |-> "other", ip |-> "b"],
                                      [hostname |-> "b"]}]
MCNameInputs == {[of |-> "name", db |-> db, dest |-> dest] :
                 db \in {<<>>} \cup [1 .. 1 -> NameEntries] \cup [1 .. 2 -> NameEntries],
                 dest \in {"a", "b", "c", "text"}}

TopologyObjects == {[lastHopIP |-> g, destinationIP |-> d] : g \in {"a", "b"}, d \in {"a", "b", "c"}}
                   \cup {[lastHopIP |-> "a/32"], [destinationIP |-> "c"]}
Kernels == {<<>>} \cup UNION {[1 .. n -> [via : {"", "a", "b"}, dest : {"b", "c"}]] : n \in {1, 2}}
LinkDbs == {<<>>, <<[net |-> "net", len |-> 16, obj |-> [n |-> "node"]]>>}
MCLinkInputs ==
  {[of |-> "links",
    raw |-> [objs |-> <<[remoteIP |-> "a"], l>> \o t \o <<[ipAddress |-> "b", linkcount |-> "3"],
                                                        [gateway |-> "a"]>>,
             seg  |-> [links |-> <<1, 2>>, topology |-> <<3, Len(t) + 2>>,
                       neighbors |-> <<Len(t) + 3, Len(t) + 3>>]
                      @@ [s \in routes |-> <<Len(t) + 4, Len(t) + 4>>],
             strings |-> IF routes = {} THEN <<>> ELSE <<"b", "b">>],
    kernel |-> k, db |-> db] :
     l \in {[remoteIP |-> "b"], [lq |-> "1"]},
     t \in [1 .. 1 -> TopologyObjects] \cup [1 .. 2 -> TopologyObjects],
     k \in Kernels, db \in LinkDbs, routes \in {{}, {"routes"}}}

(* UbntPacket. *)
PacketFields == {[tag |-> 1, value |-> <<1, 2, 3, 4, 5, 6>>], [tag |-> 1, value |-> <<1>>],
                 [tag |-> 2, value |-> <<10, 0, 0, 1>>], [tag |-> 11, value |-> <<97, 45, 0>>],
                 [tag |-> 12, value |-> <<69, 82, 7>>], [tag |-> 65, value |-> <<1, 0, 0, 2>>],
                 [tag |-> 3, value |-> <<123, 97, 97, 97, 97>>], [tag |-> 3, value |-> <<>>],
                 [tag |-> 97, value |-> <<200>>]}
MCPacketInputs ==
  {[of |-> "packet", fields |-> f, tail |-> t, cap |-> cap] :
     f \in UNION {[1 .. n -> PacketFields] : n \in 0 .. 3},
     t \in {<<>>, <<11>>, <<11, 9, 97, 98, 99>>, <<3, 4, 97, 98, 1>>}, cap \in {1, 64}}

(* UbntDiscovery: a name as a field, one behind a text that looks like one and *)
(* a JSON value that has another one.                                          *)
MCDatagrams  == {<<11, 2, 97, 45>>, <<3, 4, 118, 49, 46, 97, 3, 3, 123, 97, 97>>}
MCJsonFields == (<<123, 97, 97>> :> [hostname |-> <<106>>, product |-> <<112>>])

(* NodedbCache, SlotCaches. *)
MCLength == [d1 |-> 5, d2 |-> 7]
MCNames  == [d1 |-> {3}, d2 |-> {0, 3}]
MCHash   == [k1 |-> 0, k2 |-> 0, long |-> 1, lon |-> 1]
MCStored == [k1 |-> "k1", k2 |-> "k2", long |-> "lon", lon |-> "lon"]
=============================================================================
