SPECIFICATION Spec

CONSTANTS
  Focus <- MCFocus
  Values <- MCValues
  IntHalf <- MCIntHalf
  Nets <- MCNets
  Clients <- MCClients
  MaxLines = 2
  Plain <- MCPlain
  Octets <- MCOctets
  Extended <- MCExtended
  Atoi <- MCAtoi
  MaxGateways = 1
  MaxNames = 2
  MaxUnique = 2
  MaxValue = 4
  MaxPacket = 16
  Callers = {"handler", "worker"}
  Hosts = {"h1", "h2"}
  Datagrams <- MCDatagrams
  JsonFields <- MCJsonFields
  g_ubnt_cache_ttl_s = 1
  WindowSeconds = 1
  MaxDevices = 1
  MaxClock = 2
  Readers = {"r1", "r2"}
  Lookups = {"l1", "l2"}
  Docs = {"d1", "d2"}
  Length <- MCLength
  Names <- MCNames
  g_nodedb_write_disk = TRUE
  MaxFetches = 3
  Requests = {"q1", "q2"}
  Urls = {"u1", "u2"}
  UrlSlots = 2
  UrlTtl = 1
  Keys = {"k1", "k2", "long", "lon"}
  Hash <- MCHash
  Stored <- MCStored
  KeyTtl = 1
  LastSecond = 2
  MaxBodies = 3
  g_log_buf_lines = 2
  LineMax = 2
  ReadMax = 2
  PerMinute = 1
  MaxWritten = 5
  MaxTraces = 1
  Counters = {"dropped", "successes"}
  Threads = {"worker", "handler", "reporter"}
  MaxCounts = 2
  Tasks = {"handler", "worker"}
  ArpTtl = 1
  DevicesTtl = 1
  LastMoment = 3
  MaxRounds = 3
  NameInputs <- MCNameInputs
  LinkInputs <- MCLinkInputs
  PacketInputs <- MCPacketInputs
  Parts = {"config"}

INVARIANT ParamWins

CHECK_DEADLOCK FALSE
