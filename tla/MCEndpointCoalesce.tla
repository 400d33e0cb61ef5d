------------------------- MODULE MCEndpointCoalesce -------------------------
(***************************************************************************)
(* Configurations of EndpointCoalesce for TLC.  The clock runs to 2.       *)
(***************************************************************************)
EXTENDS EndpointCoalesce

Given(e, t, m, r) ==
  [endpoint |-> e, ttl |-> t, memoryFails |-> m, earlyRequests |-> r]

(* A TTL that passes while everything else can go wrong, caching switched off, *)
(* and a TTL that nothing outlives.                                            *)
AllConfigs ==
  {Given("traceroute", 1, TRUE, TRUE), Given("discover", 1, TRUE, TRUE),
   Given("traceroute", -1, TRUE, FALSE), Given("discover", 0, FALSE, TRUE),
   Given("devices", 2, FALSE, FALSE)}

(* The default configuration, where an allocation may fail. *)
DevicesConfigs ==
  {Given("devices", 5, TRUE, FALSE)}

(* The default configuration, with requests during start-up. *)
StartupConfigs ==
  {Given("devices", 5, FALSE, TRUE)}
=============================================================================
