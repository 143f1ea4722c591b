-------------------------------- MODULE HostBoot --------------------------------
(***************************************************************************)
(* The boot processor from the firmware to the guest's first instruction:  *)
(* efi_main (main.rs), the exit from boot services and the memory map      *)
(* (boot.rs), the checks of the kernel image and the launch state machine  *)
(* (linux_boot.rs, kernel.rs).  The other cores are in SmpBringup, the     *)
(* page tables in Stage2, the device tree in Dtb, the registers of the     *)
(* interrupt controller in GicBoot; tree and tables count here as steps    *)
(* that happened or failed.                                                *)
(*                                                                         *)
(* The firmware (external) may change its memory map as long as boot       *)
(* services run, also between the two calls of the exit.                   *)
(***************************************************************************)
EXTENDS AcpiTables, GicBoot, FiniteSets

CONSTANTS
  FirmwareMaps,     \* memory maps of the firmware: <<type, size>> sequences
  MaxMapChanges,    \* bound on the changes of the map
  MapCap,           \* MAX_MEMORY_REGIONS
  BufferCap,        \* entries that fit EFI_MEMORY_MAP_BUFFER
  RsdpTables,       \* configuration tables
  Xsdts,            \* XSDTs, whose entries 1 .. 4 are the tables of FirmwareSet
  FirmwareSet,      \* a table set of AcpiTables
  KernelImages,     \* headers of the image at KERNEL1_PA
  DtbResults,       \* what build_android_dtb returns: its size, or 0
  TablePages,       \* pages of the root, the RAM map and the GIC map
  ListRegisters     \* List Registers of the virtual interface

ASSUME HostBootAssumption ==
  /\ FirmwareMaps # {} /\ FirmwareMaps \subseteq Seq([type : STRING, size : Nat])
  /\ MaxMapChanges \in Nat /\ MapCap \in Nat /\ ListRegisters \in Nat \ {0}
  /\ TablePages \in [root : Nat, ram : Nat, gic : Nat]
  /\ KernelImages \subseteq [magic : BOOLEAN, load : Nat, size : Nat] /\ DtbResults \subseteq Nat

VARIABLES
  fw,    \* the firmware: map, its key, boot services running
  host   \* efi_main: its step and what it has set up

bootVars == <<fw, host>>

KERNEL_LOAD_ALIGN == 2   \* in MiB

(* ------------------------------ the memory map ------------------------------ *)

KindOf(type) ==
  CASE type \in {"Conventional", "BootServicesCode", "BootServicesData"} -> "Conventional"
    [] type = "AcpiReclaimable" -> "AcpiReclaimable"
    [] type = "AcpiNvs" -> "AcpiNvs"
    [] type \in {"RuntimeServicesCode", "RuntimeServicesData"} -> "RuntimeServices"
    [] type \in {"LoaderCode", "LoaderData"} -> "HypervisorImage"
    [] type \in {"MemoryMappedIo", "MemoryMappedIoPortSpace"} -> "MmioRegion"
    [] OTHER -> "Reserved"

(* What does not fit is left out, and so counts as reserved.               *)
parse_memory_map(buffer) ==
  [i \in 1 .. (IF Len(buffer) < MapCap THEN Len(buffer) ELSE MapCap) |->
     [kind |-> KindOf(buffer[i].type), size |-> buffer[i].size, at |-> i]]

Conventionals(map) == {i \in DOMAIN map : map[i].kind = "Conventional"}

(* Of several equally large regions the last.                              *)
largest_conventional(map) ==
  CHOOSE i \in Conventionals(map) :
    \A j \in Conventionals(map) : map[j].size < map[i].size \/ (map[j].size = map[i].size /\ j <= i)

(* ------------------------------ firmware tables ------------------------------ *)

(* An ACPI 2.0 entry whose RSDP has the signature and revision 2.          *)
find_acpi_rsdp(tables) == \E i \in DOMAIN tables : tables[i] = "acpi20 valid"

FirmwareMemory ==
  [a \in 1 .. 4 |-> IF a = 2 THEN SdtTable("APIC", 0, madt_entries(FirmwareSet))
                    ELSE SdtTable("GTDT", 0, << >>)]

QemuGic == [gicd |-> "qemu", gicr |-> "qemu", maint |-> 25]

discover_gic_addresses(rsdp, xsdt) ==
  LET pa == IF rsdp THEN acpi_find_table(xsdt, FirmwareMemory, "APIC") ELSE 0
      gic == discover_gic_from_madt(FirmwareMemory[pa])
  IN IF pa = 0 THEN QemuGic
     ELSE IF ~ GicFound(gic) THEN QemuGic
     ELSE [gicd |-> "madt", gicr |-> IF Believed(gic.gicr) THEN "madt" ELSE "qemu",
           maint |-> gic.maint]

(* ------------------------------ the launch state ------------------------------ *)

NewKernel == [phase |-> "Init", image_size |-> 0, dtb_size |-> 0]

(* Arm64ImageHeader::parse on the 128 bytes at the load address, which     *)
(* main gives and which is aligned or not.                                 *)
HeaderParses(image) == image.magic
KernelAligned(image) == image.load % KERNEL_LOAD_ALIGN = 0

validate_image(k, image) ==
  IF KernelAligned(image) /\ HeaderParses(image)
  THEN [k EXCEPT !.phase = "ImageValidated", !.image_size = image.size] ELSE k
place_dtb(k, size) ==
  IF k.phase = "ImageValidated" THEN [k EXCEPT !.phase = "DtbPlaced", !.dtb_size = size] ELSE k
verify_config(k, satisfied) ==
  IF k.phase = "DtbPlaced" /\ satisfied THEN [k EXCEPT !.phase = "ConfigVerified"] ELSE k
ready(k) == IF k.phase = "ConfigVerified" THEN [k EXCEPT !.phase = "ReadyToLaunch"] ELSE k

(* GKI_REQUIRED_OPTIONS and what prepare_linux_boot records: each option   *)
(* with the value it requires, so that none can be missing.                *)
GkiRequired == {"binder", "memfd", "selinux", "audit", "namespaces", "cgroups", "dmabuf",
                "filesystems", "verity", "smmu", "nvme", "usb hid", "gic", "timer", "pl011"}
GkiDisabled == {"big endian"}
record_gki(satisfied, name, enabled) ==
  IF (name \in GkiRequired /\ enabled) \/ (name \in GkiDisabled /\ ~ enabled)
  THEN satisfied \cup {name} ELSE satisfied
all_satisfied(satisfied) == satisfied = GkiRequired \cup GkiDisabled
GkiRecorded == UNION {record_gki({}, n, n \in GkiRequired) : n \in GkiRequired \cup GkiDisabled}

(* --------------------------------- the steps --------------------------------- *)

(* Everything the outside decides: the exception level the firmware left,  *)
(* its tables, the image at the load address and what the tree builds to.  *)
Boots == [el : {1, 2}, tables : RsdpTables, xsdt : Xsdts, image : KernelImages, dtb : DtbResults]

HostBootOf(b) ==
  /\ fw = [map |-> CHOOSE m \in FirmwareMaps : TRUE, key |-> 0, running |-> TRUE]
  /\ host = [at |-> "entry", el |-> b.el, tables |-> b.tables, xsdt |-> b.xsdt, image |-> b.image,
             dtb |-> b.dtb, rsdp |-> FALSE, buffer |-> << >>, key |-> 0, map |-> << >>, region |-> 0,
             pages |-> 0, mapped |-> {}, vectors |-> FALSE, stage2 |-> FALSE, gic |-> QemuGic,
             regs |-> NewGic, table |-> {}, called |-> {}, kernel |-> NewKernel]

HostBootInit == \E b \in Boots : HostBootOf(b)

firmware_map_changes ==
  /\ fw.running /\ fw.key < MaxMapChanges
  /\ \E m \in FirmwareMaps : fw' = [fw EXCEPT !.map = m, !.key = @ + 1]
  /\ UNCHANGED host

At(s) == host.at = s
Goes(next) == host' = next /\ UNCHANGED fw
HaltsHere == Goes([host EXCEPT !.at = "halted"])

(* The RSDP is looked for while boot services still run.                   *)
efi_main ==
  /\ At("entry")
  /\ IF host.el # 2 THEN HaltsHere
     ELSE Goes([host EXCEPT !.at = "get_map", !.rsdp = find_acpi_rsdp(host.tables)])

get_memory_map ==
  /\ At("get_map")
  /\ IF Len(fw.map) > BufferCap THEN HaltsHere
     ELSE Goes([host EXCEPT !.at = "exit", !.buffer = fw.map, !.key = fw.key])

(* A stale key is refused: the map is asked for again.                     *)
Retry == "get_map"
(* Mutant: a refused exit is taken for one that succeeded.                 *)
ExitsAnyway ==
  /\ At("exit")
  /\ fw' = [fw EXCEPT !.running = FALSE]
  /\ host' = [host EXCEPT !.at = "map", !.map = parse_memory_map(host.buffer)]

exit_boot_services ==
  /\ At("exit")
  /\ IF host.key = fw.key
     THEN /\ fw' = [fw EXCEPT !.running = FALSE]
          /\ host' = [host EXCEPT !.at = "map", !.map = parse_memory_map(host.buffer)]
     ELSE Goes([host EXCEPT !.at = Retry])

(* The firmware answers either call with an error that no retry cures.     *)
firmware_fails ==
  /\ At("get_map") \/ At("exit")
  /\ HaltsHere

choose_region ==
  /\ At("map")
  /\ IF Conventionals(host.map) = {} THEN HaltsHere
     ELSE Goes([host EXCEPT !.at = "root", !.region = largest_conventional(host.map)])

(* Pages come from the region's start and are never given back.            *)
Room(n) == host.pages + n <= host.map[host.region].size
MapsInto(what, pages, next) ==
  [host EXCEPT !.at = next, !.pages = @ + pages, !.mapped = @ \cup {what}]

stage2_root ==
  /\ At("root")
  /\ IF Room(TablePages.root) THEN Goes([host EXCEPT !.at = "ram", !.pages = @ + TablePages.root])
     ELSE HaltsHere

map_ram ==
  /\ At("ram")
  /\ IF Room(TablePages.ram) THEN Goes(MapsInto("ram", TablePages.ram, "gic_map")) ELSE HaltsHere

(* The results of these two are dropped.  The UART's page lies in the      *)
(* window already mapped for the GIC, so its own mapping is refused unless *)
(* that one failed.                                                        *)
map_devices ==
  /\ At("gic_map")
  /\ Goes(IF Room(TablePages.gic) THEN MapsInto("devices", TablePages.gic, "vectors")
          ELSE [host EXCEPT !.at = "vectors", !.pages = host.map[host.region].size])

install_vectors ==
  /\ At("vectors")
  /\ Goes([host EXCEPT !.at = "virt", !.vectors = TRUE])

(* Translation and the routing of interrupts to EL2 come on in one write,  *)
(* whose HCR_EL2 is read back; the virtual interface follows.              *)
configure_el2_virt ==
  /\ At("virt")
  /\ Goes([host EXCEPT !.at = "discover", !.stage2 = TRUE, !.regs.virtual = TRUE])

discover_gic ==
  /\ At("discover")
  /\ Goes([host EXCEPT !.at = "wake", !.gic = discover_gic_addresses(host.rsdp, host.xsdt)])

Core(done) == Cardinality(done) + 1
RegsGo(next, regs) == Goes([host EXCEPT !.at = next, !.regs = regs])

(* Every Redistributor first, then the boot core's own interface and the   *)
(* Distributor.                                                            *)
wake_redistributor ==
  /\ At("wake")
  /\ \E answers \in BOOLEAN :
       LET c == Core(host.regs.asked)
       IN RegsGo(IF c < BootCores THEN "wake" ELSE "icc", wake_gicr(host.regs, c, answers))

boot_cpu_interface == At("icc") /\ RegsGo("gicd off", init_icc(host.regs))
disable_distributor == At("gicd off") /\ RegsGo("gicd groups", gicd_off(host.regs))
group_shared == At("gicd groups") /\ RegsGo("gicd on", gicd_groups(host.regs))
enable_distributor == At("gicd on") /\ RegsGo("vgic", gicd_on(host.regs))

aether_vgic_init ==
  /\ At("vgic")
  /\ RegsGo("timers", vgic_init(host.regs, ListRegisters, host.gic.maint))

forward_timers ==
  /\ At("timers")
  /\ LET c == Core({i \in host.regs.enabled : i[2] = TIMER_VIRT_INTID})
     IN RegsGo(IF c < BootCores THEN "timers" ELSE "uart", enable_timers(host.regs, c))

forward_uart ==
  /\ At("uart")
  /\ RegsGo("register", enable_spi_in_gicd(host.regs, UART_SPI_INTID))

(* All cores enter the table before the first of them is called; what      *)
(* CPU_ON answers is printed and ignored.                                  *)
register_cores ==
  /\ At("register")
  /\ Goes([host EXCEPT !.at = "call", !.table = 1 .. BootCores, !.called = {1}])

call_secondary ==
  /\ At("call")
  /\ LET c == Core(host.called)
     IN Goes([host EXCEPT !.at = IF c < BootCores THEN "call" ELSE "prepare",
                          !.called = @ \cup {c}])

(* prepare_linux_boot: any error halts.                                    *)
Prepared ==
  ready(verify_config(place_dtb(validate_image(host.kernel, host.image), host.dtb),
                      all_satisfied(GkiRecorded)))
prepare_linux_boot ==
  /\ At("prepare")
  /\ IF ~ KernelAligned(host.image) \/ host.dtb = 0 \/ ~ HeaderParses(host.image) THEN HaltsHere
     ELSE Goes([host EXCEPT !.at = IF Prepared.phase = "ReadyToLaunch" THEN "launch" ELSE "halted",
                            !.kernel = Prepared])

eret_to_el1 ==
  /\ At("launch")
  /\ Goes([host EXCEPT !.at = "guest"])

HostBootNext ==
  \/ firmware_map_changes \/ firmware_fails \/ efi_main \/ get_memory_map \/ exit_boot_services
  \/ choose_region \/ stage2_root \/ map_ram \/ map_devices \/ install_vectors
  \/ configure_el2_virt \/ discover_gic \/ wake_redistributor \/ boot_cpu_interface
  \/ disable_distributor \/ group_shared \/ enable_distributor \/ aether_vgic_init
  \/ forward_timers \/ forward_uart \/ register_cores \/ call_secondary \/ prepare_linux_boot \/ eret_to_el1

HostBootSpec == HostBootInit /\ [][HostBootNext]_bootVars

-------------------------------------------------------------------------------

(* The map the hypervisor goes by is the firmware's at the moment boot     *)
(* services ended, however often it changed while they were leaving, and   *)
(* the memory the page tables come from is free in it: never the           *)
(* hypervisor's own image, a table, or a device.                           *)
TablesInFreeMemory ==
  host.map # << >> =>
    /\ ~ fw.running /\ host.map = parse_memory_map(fw.map)
    /\ host.region # 0 =>
         /\ fw.map[host.region].type \in {"Conventional", "BootServicesCode", "BootServicesData"}
         /\ host.pages <= fw.map[host.region].size
         /\ \A i \in DOMAIN host.map :
              host.map[i].kind = "Conventional" => host.map[i].size <= host.map[host.region].size

(* The guest's first instruction runs only on top of everything it needs:  *)
(* at EL2 with vectors and Stage 2 on, its RAM mapped with tables that fit *)
(* their region, its console's interrupt able to arrive and every core's   *)
(* timer forwarded, all cores called, an image with its magic at an        *)
(* aligned address, and a device tree in place.                            *)
LaunchPrepared ==
  host.at = "guest" =>
    /\ host.el = 2 /\ ~ fw.running
    /\ host.vectors /\ host.stage2 /\ "ram" \in host.mapped
    /\ host.called = host.table /\ <<0, UART_SPI_INTID>> \in Deliverable(host.regs)
    /\ \A c \in host.table : <<c, TIMER_VIRT_INTID>> \in host.regs.enabled
    /\ host.kernel.phase = "ReadyToLaunch" /\ host.kernel.dtb_size > 0
    /\ host.image.magic /\ host.image.load % KERNEL_LOAD_ALIGN = 0

(* The Distributor forwards nothing until every Redistributor in use has   *)
(* been told to wake up, and no core is called before.  What can reach the *)
(* boot processor finds the vectors, the routing to EL2 and the number of  *)
(* List Registers in place, or it would be dropped unseen; and every       *)
(* interrupt that was enabled has a group and, if shared, a priority.      *)
InterruptsPrepared ==
  LET g == host.regs
  IN /\ g.distributor = "on" => g.asked = 1 .. BootCores
     /\ host.called \subseteq host.table
     /\ host.called # {} => g.distributor = "on"
     /\ Deliverable(g) # {} => host.vectors /\ host.stage2 /\ g.virtual /\ g.lr_count > 0
     /\ \A i \in g.enabled : InGroup1(g, i) /\ (i[1] = 0 => i[2] \in g.priority)

(* A boot rests on what it checked and set up: the page tables lie in      *)
(* memory that was free when boot services ended, interrupts are enabled   *)
(* last, and the guest starts on everything it needs (the definitions      *)
(* above).                                                                 *)
BootPrepared == TablesInFreeMemory /\ InterruptsPrepared /\ LaunchPrepared
===============================================================================
