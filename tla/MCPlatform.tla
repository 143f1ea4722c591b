------------------------------ MODULE MCPlatform -------------------------------
(***************************************************************************)
(* The components that share no state, checked in one run.  A behaviour    *)
(* moves one of them, its subject; the others rest in an initial state,    *)
(* because interleaving components that cannot see each other would only   *)
(* multiply their states.                                                  *)
(***************************************************************************)
EXTENDS MCInputSwitch, MCAcpi, Stage2, SmpBringup, FexCache, BootMonitors, BridgeData,
        EventRing, Dtb, HostBoot, X86Tier, HostCheck, PartitionRegistries

CONSTANT Subjects

VARIABLE subject

(* ------------------------------- constants ------------------------------- *)

(* Arenas over, beside and above a code cache at 4 .. 9: the first         *)
(* overlaps it, the second is not aligned, the last is accepted.           *)
MCFexConfigs ==
  {[inHypervisor |-> TRUE, jitBase |-> 4, jitSize |-> 6, arenaBase |-> b,
    arenaSize |-> 2, aot |-> TRUE] : b \in {8, 9, 12}}
MCFexElfs ==
  {[header |-> "arm64", phentsize |-> TRUE, table |-> t] :
     t \in {<< >>, <<"load">>, <<"note", "loadx">>, <<"load", "load", "loadx">>,
            <<"loadx", "short">>}}
MCFexLibraries == <<TRUE, FALSE>>

(* The magic is 7 8, the third byte is the type, the fourth the length.    *)
MCBridgeMagic == <<7, 8>>
MCBridgeChunks ==
  {<<7>>, <<8, 1>>, <<1, 9, 7>>, <<1, 4, 7>>, <<2, 7, 8, 2>>, <<8, 3, 1, 1, 7>>,
   <<7, 8, 2, 2, 6, 6, 7>>}

MCHidReports ==
  {[modifiers |-> m, keys |-> {"Tab"}] : m \in {{"LeftCtrl", "LeftAlt"}, {"LeftAlt"}}}

MCDtbConfigs ==
  [prod : BOOLEAN, cpus : {0, 1, 2, 8, 9}, cmdline : {0, 64, 4096, 4097},
   out : {1024, 8192}, initrd : {<<1, 2>>}, ramoops : {2048}, record : {64}]
  \cup [prod : {TRUE}, cpus : {2}, cmdline : {64}, out : {8192},
        initrd : {<<0, 0>>, <<2, 1>>}, ramoops : {64, 128, 2000}, record : {64, 48}]
MCDtbCaps == [android |-> <<4096, 512>>, prod |-> <<8192, 1024>>]

MemRange(t, s) == [type |-> t, size |-> s]
MCFirmwareMaps ==
  {<<MemRange("Conventional", 8), MemRange("LoaderCode", 9), MemRange("BootServicesData", 8)>>,
   <<MemRange("LoaderData", 9), MemRange("Conventional", 4), MemRange("BootServicesCode", 5),
     MemRange("AcpiNvs", 9), MemRange("Conventional", 9)>>,
   <<MemRange("MemoryMappedIo", 9), MemRange("Conventional", 3), MemRange("AcpiReclaimable", 2)>>,
   <<MemRange("RuntimeServicesCode", 9), MemRange("Reserved", 9)>>,
   [i \in 1 .. 6 |-> MemRange("Conventional", 8)]}
MCRsdpTables == {<<"acpi10", "acpi20 valid">>, <<"acpi20 invalid">>}
MCXsdts == {SdtTable("XSDT", 68, <<0, 1, 2>>), SdtTable("RSDT", 68, <<1, 2>>),
            SdtTable("XSDT", 20, <<1, 2>>), SdtTable("XSDT", 68, <<1>>)}
MCKernelImages == [magic : BOOLEAN, load : {1032, 1033}, size : {16}]
MCTablePages == [root |-> 2, ram |-> 3, gic |-> 2]
MCFirmwareSet ==
  [cpus |-> 1, version |-> 3, timer |-> <<29, 30, 27, 26>>, gicd |-> <<8, 0>>,
   gicr |-> <<10, 0>>, gicrLen |-> 8, its |-> <<9, 0>>, maint |-> 25,
   giccGicr |-> <<10, 0>>, buffer |-> 5000]

MCX86Processors ==
  [flavor : {"vtx"}, vendor : {"intel"}, supported : BOOLEAN, npt : {TRUE}, asids : {0},
   lock : {"open", "locked on", "locked off"}, on : {FALSE}, current : {FALSE},
   fails : {{}} \cup {{f} : f \in {"vmxon", "vmclear", "vmptrld", "vmwrite host",
                                   "vmwrite guest", "vmwrite controls", "vmread"}}]
  \cup
  [flavor : {"svm"}, vendor : {"amd", "intel"}, supported : BOOLEAN, npt : BOOLEAN,
   asids : {1, 2}, lock : {"open", "locked off"}, on : {FALSE}, current : {FALSE},
   fails : {{}}]
MCX86Configs ==
  [region : {0, 4096}, control : {8192, 1}, tables : {12288}, ram : {0, 1},
   entry : {65536}, guest64 : BOOLEAN]

MCGpu(v, k, id, name, vfs) ==
  [pci |-> v # "none", vendor |-> v, kind |-> k, id |-> id, name |-> name, vfs |-> vfs]
MCGeForce == MCGpu("nvidia", "consumer", "consumer", {}, -1)
MCArc == MCGpu("intel", "discrete", "other", {"arc"}, 4)
MCVirtual == MCGpu("none", "unknown", "garbled", {}, -1)
MCGpuSets ==
  {<< >>, <<MCVirtual>>, <<MCVirtual, MCGeForce>>, <<MCGeForce, MCArc>>,
   <<MCGpu("amd", "integrated", "other", {"radeon", "vega"}, -1)>>,
   <<MCGpu("intel", "integrated", "other", {}, 0), MCGpu("amd", "discrete", "other", {"radeon"}, 0)>>,
   <<MCGpu("nvidia", "professional", "professional", {}, -1)>>,
   <<MCGpu("other", "unknown", "other", {}, -1), MCGpu("nvidia", "consumer", "garbled", {}, 0)>>}
MCDrive(n, space, nvme) == [name |-> n, free |-> space, nvme |-> nvme]
MCHost ==
  [arch |-> "x86", vendor |-> "amd", hypervisor |-> FALSE, flags |-> {"svm"}, memory |-> 16,
   drives |-> <<MCDrive("ssd", 20, FALSE), MCDrive("nvme", 64, TRUE)>>, os |-> "linux",
   scans |-> TRUE, gpus |-> <<MCArc>>]
MCHosts ==
  {[MCHost EXCEPT !.os = o, !.gpus = g, !.scans = (g # <<MCVirtual>>)] :
     o \in {"linux", "windows"}, g \in MCGpuSets}
  \cup {[MCHost EXCEPT !.arch = a, !.vendor = v, !.hypervisor = h, !.flags = f] :
         a \in {"x86", "arm64"}, v \in {"intel", "other"}, h \in BOOLEAN, f \in {{}, {"vmx"}}}
  \cup {[MCHost EXCEPT !.memory = m, !.drives = d] : m \in {7, 8},
         d \in {<< >>, <<MCDrive("nvme", 63, TRUE)>>, <<MCDrive("nvme", 8, TRUE), MCDrive("ssd", 64, FALSE)>>}}
MCCommandLines ==
  {<<"install", "--gpu", m>> : m \in {"sriov", "passthrough", "software", "other"}}
  \cup {<<"install", f>> : f \in {"--yes", "--no-gpu-prompt", "--esp", "--other"}}
  \cup {<< >>, <<"check">>, <<"install">>, <<"--apply", "install">>, <<"--gpu", "sriov", "install">>,
        <<"--yes", "--version">>, <<"update", "--esp", "--help">>, <<"status", "--help", "--other">>,
        <<"install", "--target-disk", "disk9", "--apply">>}

(* ------------------------------ composition ------------------------------ *)

Some(S) == CHOOSE x \in S : TRUE

Starts(s, any, one) == IF subject = s THEN any ELSE one

PlatformInit ==
  /\ subject \in Subjects
  /\ MapInit /\ (subject # "memory" => \A h \in DOMAIN l2 : l2[h] = Unmapped)
  /\ SmpInit
  /\ InitSwitch
  /\ FexInit
  /\ Starts("fex_cache", FexCacheInit, FexCacheOf(CHOOSE c \in FexConfigs : FexValid(c)))
  /\ Starts("monitors", MonInit, MonOf(Some(MonitorKinds)))
  /\ BridgeInit
  /\ RingInit
  /\ Starts("dtb", DtbInit, DtbOf(Some(DtbConfigs)))
  /\ Starts("acpi", AcpiInit, AcpiOf(Some(AcpiSets)))
  /\ Starts("host", HostBootInit, HostBootOf(Some(Boots)))
  /\ Starts("x86", X86Init, X86Of(Some(X86Processors), Some(X86Configs)))
  /\ Starts("check", HostCheckInit, HostCheckOf(Some(Hosts), Some(CommandLines)))
  /\ RegistriesInit
  /\ subject # "registries" => which = "gpu"

PlatformNext ==
  /\ UNCHANGED subject
  /\ \/ /\ subject = "devices" /\ Next
        /\ UNCHANGED <<stage2Vars, smpVars, fexVars, cacheVars, monVars, bridgeVars, ringVars,
                       dtb, acpi, bootVars, x86vars, chk, regVars>>
     \/ /\ subject = "memory" /\ MapNext
        /\ UNCHANGED <<smpVars, allvars, fexVars, cacheVars, monVars, bridgeVars, ringVars,
                       dtb, acpi, bootVars, x86vars, chk, regVars>>
     \/ /\ subject = "cores" /\ SmpNext
        /\ UNCHANGED <<stage2Vars, allvars, fexVars, cacheVars, monVars, bridgeVars, ringVars,
                       dtb, acpi, bootVars, x86vars, chk, regVars>>
     \/ /\ subject = "fex_boot" /\ FexNext
        /\ UNCHANGED <<stage2Vars, smpVars, allvars, cacheVars, monVars, bridgeVars, ringVars,
                       dtb, acpi, bootVars, x86vars, chk, regVars>>
     \/ /\ subject = "fex_cache" /\ FexCacheNext
        /\ UNCHANGED <<stage2Vars, smpVars, allvars, fexVars, monVars, bridgeVars, ringVars,
                       dtb, acpi, bootVars, x86vars, chk, regVars>>
     \/ /\ subject = "monitors" /\ MonNext
        /\ UNCHANGED <<stage2Vars, smpVars, allvars, fexVars, cacheVars, bridgeVars, ringVars,
                       dtb, acpi, bootVars, x86vars, chk, regVars>>
     \/ /\ subject = "bridge" /\ BridgeNext
        /\ UNCHANGED <<stage2Vars, smpVars, allvars, fexVars, cacheVars, monVars, ringVars,
                       dtb, acpi, bootVars, x86vars, chk, regVars>>
     \/ /\ subject = "event_ring" /\ RingNext
        /\ UNCHANGED <<stage2Vars, smpVars, allvars, fexVars, cacheVars, monVars, bridgeVars,
                       dtb, acpi, bootVars, x86vars, chk, regVars>>
     \/ /\ subject = "dtb" /\ DtbNext
        /\ UNCHANGED <<stage2Vars, smpVars, allvars, fexVars, cacheVars, monVars, bridgeVars,
                       ringVars, acpi, bootVars, x86vars, chk, regVars>>
     \/ /\ subject = "acpi" /\ AcpiNext
        /\ UNCHANGED <<stage2Vars, smpVars, allvars, fexVars, cacheVars, monVars, bridgeVars,
                       ringVars, dtb, bootVars, x86vars, chk, regVars>>
     \/ /\ subject = "host" /\ HostBootNext
        /\ UNCHANGED <<stage2Vars, smpVars, allvars, fexVars, cacheVars, monVars, bridgeVars,
                       ringVars, dtb, acpi, x86vars, chk, regVars>>
     \/ /\ subject = "x86" /\ X86Next
        /\ UNCHANGED <<stage2Vars, smpVars, allvars, fexVars, cacheVars, monVars, bridgeVars,
                       ringVars, dtb, acpi, bootVars, chk, regVars>>
     \/ /\ subject = "check" /\ HostCheckNext
        /\ UNCHANGED <<stage2Vars, smpVars, allvars, fexVars, cacheVars, monVars, bridgeVars,
                       ringVars, dtb, acpi, bootVars, x86vars, regVars>>
     \/ /\ subject = "registries" /\ RegistriesNext
        /\ UNCHANGED <<stage2Vars, smpVars, allvars, fexVars, cacheVars, monVars, bridgeVars,
                       ringVars, dtb, acpi, bootVars, x86vars, chk>>

platformVars == <<subject, stage2Vars, smpVars, allvars, fexVars, cacheVars, monVars, bridgeVars,
                  ringVars, dtb, acpi, bootVars, x86vars, chk, regVars>>

PlatformSpec == PlatformInit /\ [][PlatformNext]_platformVars
================================================================================
