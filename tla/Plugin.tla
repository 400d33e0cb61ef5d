------------------------------- MODULE Plugin -------------------------------
(***************************************************************************)
(* The smaller parts of the plugin side by side. They share no state, so a *)
(* behaviour is about one part and the others stand still; pure algorithms *)
(* are given one input each.                                               *)
(***************************************************************************)
EXTENDS PluginConfig, LinkCounts, UbntDiscovery, NodedbCache, SlotCaches,
        LogCapture, Metrics, DeviceTables, Lifecycle

CONSTANTS
  Parts,        \* the parts there are behaviours about
  NameInputs,   \* what find_best_nodename_in_nodedb is given
  LinkInputs,   \* what normalize_olsrd_links is given
  PacketInputs  \* what ubnt_discover_recv is given

ASSUME InputAssumption ==
  /\ \A x \in NameInputs : x.of = "name" /\ IsNodeDb(x.db)
  /\ \A x \in LinkInputs : x.of = "links" /\ IsTable(x.kernel) /\ IsRaw(x.raw)
  /\ \A x \in PacketInputs :
       x.of = "packet" /\ x.fields \in Seq(Sent) /\ x.tail \in Bytes /\ x.cap \in Nat

VARIABLES
  part,  \* what this behaviour is about
  input  \* what a pure algorithm is given

Inputs == NameInputs \cup LinkInputs \cup PacketInputs
NoInput == [of |-> "nothing"]

-----------------------------------------------------------------------------
Init ==
  /\ part \in Parts
  /\ ConfigInit
  /\ part # "config" =>
       /\ focus = CHOOSE f \in Focus : TRUE
       /\ envNet = <<>> /\ \A s \in EnvNames : env[s] = <<>>
  /\ DiscoveryInit
  /\ NodedbInit
  /\ SlotInit
  /\ LogInit
  /\ MetricsInit
  /\ part # "metrics" => c11
  /\ TablesInit
  /\ LifeInit
  /\ input = NoInput

TakeInput == input = NoInput /\ input' \in Inputs

Next ==
  /\ UNCHANGED part
  /\ IF part = "config" THEN ConfigNext ELSE UNCHANGED configVars
  /\ IF part = "discovery" THEN DiscoveryNext ELSE UNCHANGED discoveryVars
  /\ IF part = "nodedb" THEN NodedbNext ELSE UNCHANGED nodedbVars
  /\ IF part = "urls" THEN UrlNext ELSE IF part = "keys" THEN KeyNext ELSE UNCHANGED slotVars
  /\ IF part = "log" THEN LogNext ELSE UNCHANGED logVars
  /\ IF part = "metrics" THEN MetricsNext ELSE UNCHANGED metricsVars
  /\ IF part = "tables" THEN TablesNext ELSE UNCHANGED tablesVars
  /\ IF part = "lifecycle" THEN LifeNext ELSE UNCHANGED lifeVars
  /\ IF part = "inputs" THEN TakeInput ELSE UNCHANGED input

Spec == Init /\ [][Next]_<<part, configVars, discoveryVars, nodedbVars, slotVars, logVars,
                           metricsVars, tablesVars, lifeVars, input>>

-----------------------------------------------------------------------------
(* The state of every part has its type.                                      *)
PartsTypeOK ==
  /\ ConfigTypeOK /\ DiscoveryTypeOK /\ NodedbTypeOK /\ SlotTypeOK /\ LogTypeOK
  /\ MetricsTypeOK /\ TablesTypeOK /\ LifeTypeOK

(* NodeNames: the node DB gives an address the name of an entry about it.     *)
NodeNameIsSound == input.of = "name" => NameIsSound(input.db, input.dest)

(* LinkCounts: the routing table decides how many routes a row shows.         *)
RoutesAreTheKernels ==
  input.of = "links" => KernelRoutesWin(input.raw, input.kernel, input.db)

(* LinkCounts: the topology decides how many nodes are behind a neighbour.    *)
NodesAreCountedOnce ==
  input.of = "links" => NodesAreDistinct(input.raw, input.kernel, input.db)

(* UbntPacket: a reply means its fields.                                      *)
PacketsAreUnderstood ==
  input.of = "packet" => PacketMeansItsFields(input.fields, input.tail, input.cap)
=============================================================================
