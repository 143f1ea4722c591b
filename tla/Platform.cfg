SPECIFICATION PlatformSpec
CONSTANTS
  Subjects = {"memory", "cores", "devices", "fex_boot", "fex_cache", "monitors", "bridge", "event_ring",
              "dtb", "acpi", "host", "x86", "check", "registries"}
  Fanout = 2
  L1Entries = 2
  LastIpa = 7
  LastPa = 1
  PoolPages = 3
  Kinds = {NormalRw}
  Unmapped = Unmapped
  Table = Table
  MaxCalls = 2
  NumCores = 3
  AndroidCoreCount = 2
  MaxSecondaryCores = 2
  Payloads = {1}
  GuestCalls = {"CPU_ON", "CPU_OFF", "SYSTEM_OFF"}
  SerialisedCallers = FALSE
  FirmwareMayFail = TRUE
  Parked = Parked
  Requests <- MCRequests
  SMMU_MAX_STREAMS = 8
  RegistryCapacity = 2
  MaxPipelines = 4
  MaxSwitches = 2
  FexPage = 4
  FexCacheMin = 6
  FexArenaMin = 2
  FexConfigs <- MCFexConfigs
  FexSegments = 2
  FexElfs <- MCFexElfs
  FexLibraries <- MCFexLibraries
  FexQueueMax = 2
  FexBlocks = {1, 2, 3}
  FexBuckets = 2
  FexProbes = 2
  FexAlign = 2
  FexCores = {c1, c2}
  FexLengths = {1}
  NoCore = NoCore
  MonitorKinds = {"userspace", "android_x86", "adreno", "bridge", "sensors", "x86_hw", "compat"}
  MonLine = 1
  MonCount = 2
  MonTimeouts = 2
  PassRate = 950
  BridgeChunks <- MCBridgeChunks
  BRIDGE_MAGIC <- MCBridgeMagic
  MaxStream = 12
  SENSOR_LEN = 1
  IDENTITY_LEN = 2
  HANDSHAKE_MIN = 1
  HidReports <- MCHidReports
  RingDepth = 3
  MaxEvents = 6
  DtbConfigs <- MCDtbConfigs
  DtbCaps <- MCDtbCaps
  AcpiSets <- MCAcpiSets
  FirmwareMaps <- MCFirmwareMaps
  MaxMapChanges = 2
  MapCap = 4
  BufferCap = 5
  RsdpTables <- MCRsdpTables
  Xsdts <- MCXsdts
  FirmwareSet <- MCFirmwareSet
  KernelImages <- MCKernelImages
  DtbResults = {0, 3000}
  TablePages <- MCTablePages
  ListRegisters = 2
  BootCores = 2
  ItLines = 1
  X86Processors <- MCX86Processors
  X86Configs <- MCX86Configs
  MaxExits = 4
  Hosts <- MCHosts
  Macs = {"m1", "m2", "m3"}
  NicAddrs = {"p1", "p2"}
  Vfs = {"v1", "v2", "v3"}
  Nsids = {1, 2}
  Controllers = {"c1", "c2"}
  MAX_INTERFACES = 3
  MAX_NIC_VFS = 2
  MAX_NS_COUNT = 3
  MAX_NVME_VFS = 2
  MAX_VFCOUNT = 2
  CommandLines <- MCCommandLines
INVARIANTS
  OnlyAsked
  PagesAccounted
  NoCrossPartitionStart
  GuestRunsUnderStage2
  GroupToOneGuest
  CommittedStreams
  OwnerHasStreams
  BlocksLive
  GateIsEvidence
  DecodedWhole
  ReportsInOrder
  DtbReadable
  AcpiSetReads
  BootPrepared
  X86GateEarned
  PlanFitsHost
PROPERTIES
  OkMeansMapped
  ImplementsAddressSpace
  HandedOverReset
  PhasesAdvance
  OwnersFinal
CHECK_DEADLOCK FALSE
