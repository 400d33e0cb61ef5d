---------------------------- MODULE PluginConfig ----------------------------
(***************************************************************************)
(* Where the plugin's settings come from: olsrd hands over the PlParams of *)
(* olsrd.conf one by one, then olsrd_plugin_init reads the environment.    *)
(*                                                                         *)
(* A setting is named by its PlParam, or by its field where it has none.   *)
(* All values are integers: what is malformed for strtol stands with those *)
(* that are out of range, a URL is a number, and the width of int is       *)
(* 2 * IntHalf.                                                            *)
(***************************************************************************)
EXTENDS AllowList, TLC, SequencesExt

CONSTANTS
  Focus,    \* sets of settings; a behaviour is about one of them
  Values,   \* the values tried for each setting and alias
  IntHalf,  \* INT_MAX + 1
  Nets,     \* Net entries
  Clients,  \* addresses that ask
  MaxLines  \* lines of olsrd.conf

ASSUME ConfigAssumption ==
  /\ Nets \subseteq NetEntry /\ Clients \subseteq Address
  /\ IntHalf \in Nat \ {0}

VARIABLES
  stage,    \* "load" while olsrd hands over parameters, then "running"
  focus,    \* the settings this behaviour is about
  val,      \* the fields
  isSet,    \* the g_cfg_..._set flags
  env,      \* the environment: no value or one
  envNet,   \* the entries of OLSRD_STATUS_PLUGIN_NET
  allowed,  \* g_allowed of httpd.c
  given,    \* history: the last PlParam of each setting
  nets      \* history: the Net PlParams

configVars == <<stage, focus, val, isSet, env, envNet, allowed, given, nets>>

-----------------------------------------------------------------------------
(* PlParams that set_str_param and set_int_param remember. *)
Tracked == {"nodedb_url", "port", "nodedb_ttl", "nodedb_write_disk",
            "fetch_queue_max", "fetch_retries", "fetch_backoff_initial",
            "fetch_report_interval", "fetch_auto_refresh_ms", "fetch_queue_warn",
            "fetch_queue_crit", "fetch_dropped_warn", "log_request_debug",
            "log_buf_lines"}

Params == Tracked \cup
          {"enableipv6", "fetch_log_queue", "fetch_log_force", "discover_interval",
           "ubnt_probe_window_ms", "ubnt_cache_ttl_s", "arp_cache_ttl_s",
           "status_devices_mode", "coalesce_devices_ttl", "coalesce_discover_ttl",
           "coalesce_traceroute_ttl"}

Long == 4 * IntHalf  \* stands for LONG_MAX

(* What is accepted from the environment. The two of the node DB and the wait *)
(* at the end of olsrd_plugin_init are checked before the cast to int.        *)
NodedbRange == [nodedb_url |-> <<0, IntHalf - 1>>, nodedb_ttl |-> <<0, Long>>,
                nodedb_write_disk |-> <<0, Long>>, startup_wait |-> <<0, 300>>]

FetchRange ==
  [port |-> <<1, 65535>>, allow_arp_fallback |-> <<0, 1>>,
   fetch_queue_max |-> <<1, 256>>, fetch_retries |-> <<0, 10>>,
   fetch_backoff_initial |-> <<0, 60>>, fetch_queue_warn |-> <<0, 100000>>,
   fetch_queue_crit |-> <<0, 100000>>, fetch_dropped_warn |-> <<0, 100000>>,
   fetch_report_interval |-> <<0, 3600>>, fetch_auto_refresh_ms |-> <<0, 600000>>]

LogRange == [log_request_debug |-> <<0, 1>>, log_buf_lines |-> <<1, 10000>>]

(* Read inside the block that tests g_cfg_fetch_log_queue_set. *)
BlockRange ==
  [fetch_log_queue |-> <<0, 1>>, fetch_log_force |-> <<0, 1>>,
   discover_interval |-> <<5, 86400>>, ubnt_probe_window_ms |-> <<100, 60000>>,
   ubnt_cache_ttl_s |-> <<1, 86400>>, arp_cache_ttl_s |-> <<0, 86400>>,
   status_devices_mode |-> <<0, 2>>]

EnvRange == NodedbRange @@ FetchRange @@ LogRange @@ BlockRange

(* A second name, looked up when the first is not set. *)
Alias == [fetch_log_force |-> "fetch_log_unsilence", log_request_debug |-> "log_req_dbg"]

Settings == Params \cup DOMAIN EnvRange
EnvNames == DOMAIN EnvRange \cup {"fetch_log_unsilence", "log_req_dbg"}

ASSUME ValuesAssumption == \A s \in Settings \cup EnvNames : Values[s] \subseteq Int

Preset ==
  [port |-> 11080, nodedb_ttl |-> 300, startup_wait |-> 30, fetch_queue_max |-> 4,
   fetch_retries |-> 3, fetch_backoff_initial |-> 1, fetch_queue_warn |-> 50,
   fetch_queue_crit |-> 200, fetch_dropped_warn |-> 10,
   fetch_auto_refresh_ms |-> 15000, discover_interval |-> 300,
   ubnt_probe_window_ms |-> 1000, ubnt_cache_ttl_s |-> 300, arp_cache_ttl_s |-> 5,
   status_devices_mode |-> 1, coalesce_devices_ttl |-> 5,
   coalesce_discover_ttl |-> 300, coalesce_traceroute_ttl |-> 5,
   log_buf_lines |-> 100]

Default == [s \in Settings |-> IF s \in DOMAIN Preset THEN Preset[s] ELSE 0]

(* (int) of a long. *)
Cast(v) == ((v + IntHalf) % (2 * IntHalf)) - IntHalf

EnvOf(s) == IF env[s] = <<>> /\ s \in DOMAIN Alias THEN env[Alias[s]] ELSE env[s]

(* The flag is tested for some of the settings only. *)
BadOverrides(s) ==
  /\ s \in DOMAIN EnvRange
  /\ EnvOf(s) # <<>>
  /\ EnvOf(s)[1] \in EnvRange[s][1] .. EnvRange[s][2]
  /\ s \in DOMAIN FetchRange \/ ~isSet[s]
  /\ s \in DOMAIN BlockRange => ~isSet["fetch_log_queue"]

Overrides(s) ==
  /\ s \in DOMAIN EnvRange
  /\ EnvOf(s) # <<>>
  /\ EnvOf(s)[1] \in EnvRange[s][1] .. EnvRange[s][2]
  /\ ~isSet[s]
  /\ s \in DOMAIN BlockRange => ~isSet["fetch_log_queue"]

FromEnv(s) == IF Overrides(s) THEN Cast(EnvOf(s)[1]) ELSE val[s]

(* strtok_r also splits at blanks, and so the two halves of a pair. *)
Tokens(s) ==
  IF s.form = "pair" THEN {[form |-> "single", addr |-> s.addr],
                           [form |-> "single", addr |-> s.mask]}
  ELSE {s}

EnvAllowed == AllowAll(UNION {Tokens(envNet[i]) : i \in DOMAIN envNet})

-----------------------------------------------------------------------------
(* No value or one. *)
Optional(S) == {<<>>} \cup {<<v>> : v \in S}

ConfigTypeOK ==
  /\ stage \in {"load", "running"}
  /\ focus \in Focus
  /\ val \in [Settings -> Int]
  /\ isSet \in [Settings -> BOOLEAN]
  /\ env \in [EnvNames -> Seq(Int)]
  /\ envNet \in Seq(Nets)
  /\ allowed \subseteq [addr : Bytes, prefix : Int]
  /\ given \in [Settings -> Seq(Int)]
  /\ nets \in Seq(Nets)

ConfigInit ==
  /\ stage = "load"
  /\ focus \in Focus
  /\ val = Default
  /\ isSet = [s \in Settings |-> FALSE]
  /\ \E e \in [focus \cap EnvNames -> Optional(UNION {Values[s] : s \in focus \cap EnvNames})] :
       env = [s \in EnvNames |-> IF s \in focus THEN e[s] ELSE <<>>]
  /\ envNet \in IF "Net" \in focus THEN {<<>>} \cup [1 .. 1 -> Nets] \cup [1 .. 2 -> Nets]
                ELSE {<<>>}
  /\ allowed = {}
  /\ given = [s \in Settings |-> <<>>]
  /\ nets = <<>>

Lines == Len(nets) + Cardinality({s \in Settings : given[s] # <<>>})

(* The obvious repair: PlParams of the log are remembered as well. *)
BadSetParam(s, v) ==
  /\ stage = "load"
  /\ Lines < MaxLines
  /\ val' = [val EXCEPT ![s] = v]
  /\ isSet' = [isSet EXCEPT ![s] = @ \/ s \in Tracked \/ s = "fetch_log_queue"]
  /\ given' = [given EXCEPT ![s] = <<v>>]
  /\ UNCHANGED <<stage, focus, env, envNet, allowed, nets>>

(* atoi, whatever comes of it. Two lines may be about the same setting. *)
SetParam(s, v) ==
  /\ stage = "load"
  /\ Lines < MaxLines
  /\ val' = [val EXCEPT ![s] = v]
  /\ isSet' = [isSet EXCEPT ![s] = @ \/ s \in Tracked]
  /\ given' = [given EXCEPT ![s] = <<v>>]
  /\ UNCHANGED <<stage, focus, env, envNet, allowed, nets>>

SetNetParam(n) ==
  /\ stage = "load"
  /\ Lines < MaxLines
  /\ allowed' = http_allow_cidr(allowed, n)
  /\ nets' = Append(nets, n)
  /\ UNCHANGED <<stage, focus, val, isSet, env, envNet, given>>

(* fetch_log_force, wherever it came from, turns on fetch_log_queue. *)
ReadEnvironment ==
  /\ stage = "load"
  /\ stage' = "running"
  /\ val' = [s \in Settings |->
               IF /\ s = "fetch_log_queue"
                  /\ ~isSet["fetch_log_queue"]
                  /\ FromEnv("fetch_log_force") # 0
               THEN 1 ELSE FromEnv(s)]
  /\ allowed' = IF envNet = <<>> THEN allowed ELSE EnvAllowed
  /\ UNCHANGED <<focus, isSet, env, envNet, given, nets>>

ConfigNext ==
  \/ \E s \in focus \cap Params : \E v \in Values[s] : SetParam(s, v)
  \/ "Net" \in focus /\ \E n \in Nets : SetNetParam(n)
  \/ ReadEnvironment

ConfigSpec == ConfigInit /\ [][ConfigNext]_configVars

-----------------------------------------------------------------------------
(* A setting whose PlParam is remembered has the PlParam's last value, the    *)
(* environment or not, and however many parameters come in between.           *)
TrackedParamWins ==
  stage = "running" =>
    \A s \in Tracked : given[s] # <<>> => val[s] = given[s][1]

(* fetch_log_force in force means that the queue is logged (5205-5209).       *)
(* This holds because no PlParam ever sets g_cfg_fetch_log_queue_set: that    *)
(* flag would skip the whole block.                                           *)
ForceLogsQueue ==
  stage = "running" /\ val["fetch_log_force"] # 0 => val["fetch_log_queue"] # 0

(* The networks of the environment replace those of olsrd.conf; from then on  *)
(* a client is let in when there is no entry that could be read, or when one  *)
(* of them is a block with the client in it. Entries with a length no address *)
(* has, and pairs in the environment, mean something else to the code.        *)
AllowListMeansNets ==
  LET source == Range(IF envNet = <<>> THEN nets ELSE envNet)
      good   == {n \in source : Parses(n)}
  IN /\ stage = "running"
     /\ \A n \in source : WellFormed(n)
     /\ \A i \in DOMAIN envNet : envNet[i].form # "pair"
     => \A c \in Clients, past \in BOOLEAN :
          http_is_client_allowed(allowed, c, past) <=>
            good = {} \/ \E n \in good : InBlock(n, c)

(* Claimed of every parameter: "This lets olsrd.conf PlParam explicitly win    *)
(* over env vars" (5031; 4971: "PlParam wins over env").                 *)
ParamWins ==
  stage = "running" =>
    \A s \in Params : given[s] # <<>> => val[s] = given[s][1]

=============================================================================
