# AETHER: verification of the hypervisor's control logic

AETHER is a Rust hypervisor (`hypervisor/src`) that runs Android beside Windows
on one ARM64 laptop, plus tools that install it (`tools/`). This directory holds
TLA+ modules translated from that code, TLC configurations that model-check them
on small instances, and TLAPS proofs of the main results for every instance.

`PROJECT.json` maps every definition to the lines it stands for. Line numbers
below are of files in `hypervisor/src` unless a path says otherwise.

To repeat a check, in this directory: `tlc -config SmpSerial.cfg SmpBringup`,
`tlapm SmpBringupProofs.tla`.

## 1. Inventory

For each component: the state it keeps, its operations, who it talks to, what is
hard about it, and what makes it correct.

**Boot** (`main.rs`, `boot.rs`, `partition.rs`, `memory.rs`). The primary core
leaves UEFI, builds the Stage 2 tables, registers all cores, publishes the Stage 2
root, starts the secondaries with firmware PSCI, enables translation and enters
the guest. State: the core table, the root, the page tables. Everything runs on
one core until the secondaries start; from then on they read what the primary
stored. Correct when nothing is read before it is stored and when errors (several
are printed and ignored: `main.rs:193`, `main.rs:319`) leave a consistent state.

**CPU partitioning, PSCI and SMP bring-up** (`cpu.rs`, `smp.rs`, the HVC path of
`arm64/exception.rs`). State: one unlocked `CORE_TABLE`, one spin slot
`{entry_point, context_id}` per core, one global root. Operations: `register`,
`cpu_on`, `cpu_off`, `affinity_info`, `set_running`, the park loop with WFE/SEV.
Callers: guest cores by HVC, the primary, the secondaries at EL2. Hard: every core
touches the table and the slots concurrently, the slot is two words, and a lost
event parks a core for ever. Correct when a partition starts only its own cores, a
core enters a guest only under translation, with the entry point *and* context of
one call, and an armed core does start.

**GIC virtualisation** (`gic.rs`, the IRQ path of `arm64/exception.rs`). State:
List Registers and the Distributor's pending/active bits. Operations: `init`,
acknowledge, `inject`, priority drop, deactivate; the guest EOIs through a List
Register with HW=1. Hard: two agents retire one interrupt, a level may vanish
before acknowledgement, List Registers run out. Correct when an interrupt is never
in two registers, a valid register is backed by an active interrupt, nothing stays
active with nobody holding it, and a request that finds a register is not lost.

**Stage 2 tables** (`memory.rs`). State: an L1 root, L2/L3 tables, a bump
allocator that never frees. Operation: `map_range`, used for RAM, UART, device BARs
and configuration windows. Hard: mixed block and page granularity, errors in the
middle, a table linked before it is zeroed, overlapping calls. Correct when each
translation is one some call asked for, a call that returns Ok mapped everything,
and a live translation never changes (no TLB invalidation is done per call).

**Device assignment and SMMU** (`passthrough.rs`, `pcie_assignment.rs`,
`gpu_sriov.rs`, `network_passthrough.rs`, `usb_passthrough.rs`, with the
registries of `gpu.rs`, `network.rs`, `storage.rs`, `usb.rs`). State: who owns each
stream, the stream table, what each guest maps, one registry per kind of device.
Operations: four assignment pipelines at boot and the keyboard's input switch at
run time. Hard: a pipeline stops anywhere and undoes nothing; the pipelines share
the stream table but not a registry; the switch rewrites entries of a live SMMU
while drivers run. Correct when the records agree with the tables and a device
changes hands only after a reset.

**NVMe namespace setup, AVB boot, bootloader** (`nvme_namespace.rs`,
`avb_boot.rs`, `bootloader.rs`). State: admin and I/O rings shared with a
controller, phase bits, doorbells, data buffer, the boot phase. Operations: reset,
enable, three admin commands, hand-over, queue creation, sector reads, slot
selection, verification, rollback check, launch. Hard: completions are recognised
by a phase bit alone, a read that timed out may still write the buffer, the
hand-over assumes what it is not told, and the phase order is checked only in
debug builds. Correct when each completion answers the command last submitted,
what is parsed is the sector asked for, and nothing is launched unverified.

**Installer** (`tools/aether-install`). State outside the program: EFI boot
variables, `BootOrder`, binaries on the ESP, a state file. Operations: `install`,
`update`, `uninstall`. Hard: each is a series of persistent writes that may stop
at any point and is then run again, between boot entries that other systems add.
Correct when every boot entry of AETHER leads to whole binaries, other systems'
entries survive, the active slot is not overwritten and the record outlives what
it names.

**Guest exits, sensors and modem** (`arm64/exception.rs`, `arm64/vectors.rs`,
`paravirt.rs`, `virtual_sensors_modem.rs`). State: what trapped each core, the
modem's page shared with the guest, the sensor and the virtual modem. Operations:
dispatch of HVC, SMC, WFI and aborts, the vendor hypercalls, the AT commands. Hard:
the mailbox is looked at only when a core idles, its flags and buffers are written
by both sides, the vectors return to the guest whatever the handler decided, and
several idle cores may look at it at once. Correct when an answer is the answer to
the command that was sent and every command gets one.

**Phone bridge** (`phone_bridge.rs`). State: a receive buffer, a sample of the
phone, a sample of the model. Hard: USB transfers cut the stream anywhere, garbage
and overflow. Correct when exactly the frames of the stream are decoded.

**USB event ring and hot key** (`usb_passthrough.rs`, `usb.rs`). State: the
consumer's index and cycle bit, the ring, ERDP. Hard: the wrap. Correct when every
keyboard report is seen once, in order.

**FEX integration** (`fex_integration.rs`). State: two bump allocators, a table of
translated blocks with bounded probing, a spin lock, a monitor. Hard: a table read
without the lock, in the middle of an insertion, that evicts silently and that a reset
of the code cache does not touch. Correct when a lookup finds the newest translation and
memory handed out never overlaps.

**Boot monitors and gates** (`userspace_boot.rs`, `android_x86_userspace.rs`,
`adreno_render.rs`, `x86_hw_validation.rs`, `app_compat.rs`, and the gates of the
bridge, the sensors and FEX). State: phase and criteria. They read the guest's
console line by line. Correct when a gate passes on evidence, whatever the order.

**Boot from the firmware** (`boot.rs`, `main.rs`, `linux_boot.rs`, `kernel.rs`,
`gic.rs`, `irq_forward.rs`, `arm64/virt.rs`). State: the memory map and its key, the
page allocator, the interrupt controller's registers, the launch state. Hard: the
map changes between two firmware calls; the order of some twenty steps matters and
nothing in the code enforces it. Correct when the guest starts on what was checked.

**Device trees** (`kernel.rs`, `kernel_defconfig.rs`) and **ACPI tables** (`acpi.rs`
with the walks of `boot.rs` and `gic.rs`). Builders with fixed capacities, and
readers that must agree with them on offsets and lengths. Correct when what is
written can be read back.

**Intel VT-x and AMD-V tiers** (`vtx.rs`, `svm.rs`). State: the processor's mode, the
control structure, the gate. Hard: any instruction of a long initialisation may
fail. Correct when the gate passes only for a guest that ran under translation.

**Partition registries** (`network.rs`, `storage.rs`, `gpu.rs`, `windows.rs`,
`usb.rs`). Records of what belongs to which guest. Correct when what a record gives a
guest stays with it, whatever the calls and their failures.

**Installer front end and aether-compat** (`tools/`). Two programs, the second run as
a process by the first, that see different things of a machine on each system. Correct
when an install goes on only where it can work, in a GPU mode that fits.

**Everything else** keeps no state that changes over time or has no caller: build and
product definitions, kernel configuration lists, roadmap gates, performance
thresholds, fingerprint checks, the QEMU scripts. They are listed one by one in
`PROJECT.json` with the reason, and in section 7.

## 2. Modules and how they compose

| Module | Models | Used by |
|---|---|---|
| `CoreStart` | abstract specification: a core goes from down to requested to up, with one request | refined by `SmpBringup` |
| `SmpBringup` | boot of all cores, park loop, PSCI handlers; each access to shared memory is a step | `SmpBringupProofs`, `MCPlatform` |
| `Vgic` | interrupt forwarding on one core, the Distributor and devices around it | `VgicProofs`, `MCGuest` |
| `AddressSpace` | abstract specification: a partial map from pages to pages that only grows | refined by `Stage2` |
| `Stage2` | `map_range` with L1/L2/L3 tables and allocator, each descriptor write a step | `GuestMapProofs`, `MCPlatform` |
| `DeviceAssign` | the four assignment pipelines, registries and stream table at boot | `InputSwitch` |
| `InputSwitch` | extends it with the running guests' drivers and the input switch | `InputSwitchProofs`, `MCInputSwitch` |
| `NvmeQueue` | a submission/completion ring pair: operators on one pair as a record | `AvbBoot` |
| `AvbBoot` | namespace setup and the AVB pipeline on two pairs, with the controller as an actor | `AvbBootProofs` |
| `Installer` | install, update and uninstall over boot variables, ESP and state file | `InstallerProofs`, `MCInstaller` |
| `HostCheck` | command line, compatibility check as a second process, GPU plan, target disk | `InstallerProofs`, `MCPlatform` |
| `LogMonitor` | what all console monitors share: lines, phases, criteria | `BootMonitors`, `FexBoot`, `PlatformProofs` |
| `BootMonitors` | seven monitors with their configuration checks and gates | `PlatformProofs`, `MCPlatform` |
| `FexBoot` | FEX initialisation, ELF check, library queue, its monitor | `FexCache` |
| `FexCache` | allocators, block table and lock as translating cores use them | `PlatformProofs`, `MCPlatform` |
| `GuestIo` | exits of the guest's cores, hypercalls, the modem's mailbox polled by any core | `PlatformProofs`, `MCGuest` |
| `BridgeData` | frame parser, reassembly, the two samples | `PlatformProofs`, `MCPlatform` |
| `EventRing` | interrupter 0, the poll, the hot key | `PlatformProofs`, `MCPlatform` |
| `Dtb` | both device tree builders, call by call, and their validation | `GuestMapProofs`, `MCPlatform` |
| `AcpiTables` | table sizes, MADT entries, and the walks that read them | `GuestMapProofs`, `MCAcpi`, `HostBoot` |
| `GicBoot` | registers of the interrupt controller at boot: operators on one record | `HostBoot` |
| `HostBoot` | `efi_main` from the firmware to the guest's first instruction | `PlatformProofs`, `MCPlatform` |
| `X86Tier` | VT-x and SVM from detection to the guest's exits, and their gates | `PlatformProofs`, `MCPlatform` |
| `PartitionRegistries` | network, storage, GPU and Windows state under any calls | `InputSwitchProofs`, `MCPlatform` |
| `LeastNumber` | lemmas: least elements; functions by recursion on 0 .. n exist | four proof modules |
| `MCPlatform` | the components that share no state, one at a time (`subject`) | |
| `MCGuest` | what reaches the guest: `Vgic` and `GuestIo`, one at a time, with their fairness | |

### State and actions against the code

*SmpBringup.* `table` is `CORE_TABLE`, `ep`/`ctx` the slots, `s2root` the global
root, `vttbr[c]` what core `c` loaded, `event[c]` its WFE event register, `corePc[c]`
the next access. `CpuOn` is the read-and-check of `cpu_on`; the stores of context,
entry and state, and the SEV, are actions of their own, because another core may
come between any two. CPU numbers stand for MPIDRs; `Parked` is the zero entry.

*Vgic.* `lr` the List Registers, `pend`/`active` the Distributor, `wants` the
device's line or edge. `TakeIrq`, `Acknowledge`, `Inject`, `EndOfInterrupt`, `Deactivate`
follow `handle_physical_irq`; `GuestAck` and `GuestEoi` are the virtual CPU interface. `eoiMode` is
a boot-time choice, since the code never writes the register that selects it.

*Stage2.* Addresses are page numbers; `Fanout` entries per table replace 512 and
`L1Entries` the concatenated root. A call is `map_range`'s loop, one iteration per
few steps: allocate, zero, link, write the leaf. `MapKind` attributes are values.

*DeviceAssign / InputSwitch.* A pipeline is a sequence of step names
(`assign_xhci_controller == <<"map_bars", ...>>`) and there is one action per step;
boot is single-threaded and precedes the SMMU, so a step is atomic. `slots` is
`PassthroughRegistry`, `ste[s]` the two words of an entry that name a guest,
`region` what Stage 2 maps (none, part, whole: `map_range` refuses a region of
which anything is mapped), `assigned` the other registries. At run time `ste` is
rewritten one word at a time while `ProgramRings` and `SetRun` are the drivers of
guests whose tables map the BAR. `stale` is a history variable: the DMA state the
device held when the call or switch began is still there.

*NvmeQueue / AvbBoot.* A queue pair is a record of host indexes, expected phase,
ring contents and what the controller has fetched. The controller answers, stays
silent, or answers late. What a sector contains is chosen when it is parsed.

*Installer.* `bootVar`, `bootOrder`, `files`, `saved` are persistent; `state`,
`image`, `used`, `order` are what the running command knows. `CommandStops` may end
a command at any step (an error return or a crash).

*HostCheck.* `chk` is the two programs: the arguments left, the parsed ones, the
report, the plan. The host has what it has and lets a process see part of it
(Linux without product names, Windows without VF counts); `kind`, what a GPU really
is, is read by the properties only.

*LogMonitor / BootMonitors / FexBoot.* A console line is the set of signatures found
in it, so one line may carry several; `Sighted` is the history of lines. A monitor is
a record of phase, criteria and counters, its rules are tried in the code's order.

*FexCache.* `jit` and `arena` are the allocators, `blocks` the table; a core holds
`lock` from the allocation to the table entry. An insertion stores the fields of its
entry one by one in any order (`stored`), and `Entries` is what the dispatcher, which
takes no lock, finds in memory meanwhile; one lookup reads that memory at one instant.
`jit_reset` is `FexJitCache::reset`: it takes the allocator back and leaves the table.

*GuestIo.* There is one action per kind of exit; copying a command,
answering it and clearing the flags are steps, since the guest goes on meanwhile and
other cores may poll the same page. `overtaken` is a history variable: the radio
interface has gone on while some core was still in a poll.

*BridgeData.* `feed` is one transfer; `stream` is all there was, and the reference
definition `Scanned` parses it in one piece.

*EventRing.* The controller produces, the poll consumes; `polled` and `events` are the
histories that are compared.

*Dtb / AcpiTables.* One step per builder call or table. Property values are lengths,
and a cell's value where a reader looks at it; a MADT entry is its 32-bit words, so
that a wrong offset shows.

*HostBoot / GicBoot.* `fw` is the firmware, which may change its map at any time
before the exit; `host.at` is the next step of `efi_main`. `host.regs` is the record
`GicBoot` operates on: Redistributors asked, groups, priorities and enables per
word, the Distributor, the system registers, the List Register count. A poll of the
controller that ends without an answer goes on, as the code's does.

*X86Tier.* `x86cpu` is the processor (an instruction of `fails` fails), `x86` the
initialisation and its flags, `guestx` the guest and its exits.

*PartitionRegistries.* One variable per registry, one action per method; a refused
call keeps what its first half had done. An interface carries the PCIe address it was
given, which the code records and never compares.

## 3. Runs

| Run | Module, configuration | What it shows |
|---|---|---|
| `smp_serial` | `SmpBringup`, 3 Android cores, callers serialised | pairing, refinement of `CoreStart`, no lost wake-up |
| `smp_requested` | violation | a core the guest asks for is never started |
| `guest` | `MCGuest`: `Vgic` with one level, one edge line and one or two registers; `GuestIo` with two cores | which requests reach the guest and which are dropped; whose answer a command gets when two cores poll |
| `vgic_eoimode` | violation | with the reset value of EOImode the guest holds an interrupt that is no longer active |
| `avb_boot` | `AvbBoot`, rings of 4, stride 0 | the ring protocol, verified launch, termination |
| `platform` | `MCPlatform`, fourteen subjects | one property or more for each of them, listed below |
| `madt_range` | violation, `MCAcpi` | Redistributors that only a range entry names are looked for at the wrong offset |
| `avb_stride` | violation | the hand-over rings the wrong doorbell on a controller with a stride |
| `installer` | `MCInstaller`, both hosts, 2 images, 3 indexes | the persistent state after any history of interrupted commands |
| `installer_repeat` | violation | an install run again adds a second entry |
| `uninstall_others` | violation | an uninstall deletes the entry of another system that took over the recorded number |
| `uninstall_rerun` | violation | under Windows an uninstall run again fails on the variable it has deleted |

### The subjects of `platform` and `guest`

A behaviour moves one subject; the others rest in an initial state, because
components that cannot see each other would only multiply states. The states are
those of the subject alone. `platform` has 254 900 states and `guest` 78 899; the last two
rows are the subjects of `guest`.

| Subject | States | Property | Question |
|---|---|---|---|
| `memory` | 55 066 | `OnlyAsked`, `PagesAccounted`, `OkMeansMapped`, `ImplementsAddressSpace` | is what translates exactly what calls asked for, wherever they failed, and is `map_range` an `AddressSpace`? |
| `cores` | 18 141 | `NoCrossPartitionStart`, `GuestRunsUnderStage2` | do partition boundary and translation hold for every interleaving of unserialised PSCI handlers, with failing firmware? |
| `devices` | 30 205 | `GroupToOneGuest`, `CommittedStreams`, `OwnerHasStreams`, `HandedOverReset` | do owner records, stream table and resets agree, at boot and during two switches? |
| `fex_boot`, `fex_cache` | 60 565 | `BlocksLive` | is a block that is found the newest, also during an insertion, and its code in nobody else's memory? |
| `monitors` | 16 623 | `GateIsEvidence`, `PhasesAdvance` | does a gate pass on what was seen, in any order of lines? |
| `bridge` | 15 778 | `DecodedWhole` | does the cut of the stream into transfers matter? |
| `event_ring` | 4 426 | `ReportsInOrder` | is each report polled once, in order, across the wrap? |
| `dtb` | 3 219 | `DtbReadable` | is every tree that is built readable by its own cell counts? |
| `acpi` | 594 | `AcpiSetReads` | do the walks find what the builders wrote? |
| `host` | 26 304 | `BootPrepared` | does the guest start on what was checked, interrupts enabled last? |
| `x86` | 5 436 | `X86GateEarned` | is the gate earned, and is each handled instruction skipped once? |
| `check` | 5 715 | `PlanFitsHost` | does an install go on only where it can, in a mode that fits? |
| `registries` | 12 828 | `OwnersFinal` | does what a record gives a guest stay with it? |
| `interrupts` | 24 597 | `BackedByActive`, `NoStuckActive`, `RequestsKept`, `RequestsServed` | is a request kept until the guest takes it, and what exactly makes EL2 drop one? |
| `traps` | 54 302 | `AnswersOwnCommand`, `ModemAnswers` | is each command answered, with its own answer, when two cores poll? |

### Bounds

- *Cores.* Three cores make the smallest system with a caller, a target and a
  third core that interferes; two partitions split them. One payload value is
  enough, because requests are told apart by who made them.
- *Interrupts.* Two lines of different trigger and two registers; three raises per
  line let an interrupt be pending, active and held at once and then come back
  while both registers are in use.
- *Pages.* Blocks of two pages and two root entries give aligned and unaligned
  regions, a table shared by two calls, and, with three table pages, exhaustion
  between an L2 and an L3 table. Two calls show every overlap.
- *Devices.* Two functions in overlapping groups that either guest may be given, a
  group with an entry out of range, two network cards with one MAC address, and an
  input controller whose configuration window is another device's. Four calls
  reach a refused group, a failed mapping and a complete boot; two switches bring
  the controller back.
- *Rings.* Four entries is the code's own depth for the I/O queues; the phase bit wraps
  once in the admin ring. `MaxRuns = 2` repeats the namespace setup over the same
  static rings.
- *Installer.* Indexes 0 to 2 with one probed leave one that the probe sees, one
  it does not, and one of another system. Images are symmetric (only compared).

- *FEX.* Three blocks in two buckets, with two probes, collide, fill the window and
  evict; a cache of six units and an arena that overlaps it, is not aligned or lies apart
  both run out and are accepted or refused; a reset leaves entries that later ones meet.
- *Monitors.* Every kind of monitor, its configuration valid or not; lines of one
  signature (with `MonLine = 2`, lines of two, the properties hold as well over 61 977
  states of this subject; the run keeps to one for its time); counters and timeouts
  stop at two.
- *Guest I/O.* Two cores, which may both be in a poll of the same command; two commands,
  so that a late answer can meet a later command; an empty command; both sizes of
  operator name (one does not fit an answer).
- *Bridge.* Streams of up to 12 bytes in transfers of one to seven, which cut and join
  frames everywhere, with garbage, a frame too long and the overflow.
- *Event ring.* Three slots, six events: two wraps.
- *Device trees, ACPI.* The smallest and largest processor counts, command lines at
  the limit and over it, capacities that do and do not suffice; table sets with and
  without every optional part.
- *Boot.* Maps with equal, too small and no free regions, and more entries than fit;
  two changes of the map; two cores, because each has a Redistributor of its own and
  one of the two is the boot core's.
- *x86.* Every instruction that can fail, once; each kind of exit, four in a row.
- *Check.* A host per requirement that is missed by one, per GPU kind and system; the
  command lines exercise each flag, each missing value and each order of flags.
- *Registries.* Capacities of two or three so that each is full once; two PCIe addresses
  and two controllers, so that both guests can be given the same one.

`CHECK_DEADLOCK FALSE` appears where the system really stops: cores halt or park,
bounded devices raise no more, a bounded sequence of calls is over, a boot has ended.

### Fairness

- `SmpBringup!FairSpec`: weak fairness of the EL2 steps of each core. A core at EL2
  runs with interrupts masked, so it goes on until it parks; hardware wakes a WFE
  whose event register is set. Nothing is assumed about guests. `FairKernelSpec`
  (only for the violation) adds strong fairness of the guest kernel's `CPU_ON` for
  each core: it keeps asking, as the comment it refutes assumes.
- `Vgic!ForwardFairness`: weak fairness of the handler (EL2, masked) and of the guest's
  acknowledge and EOI (a kernel's interrupt entry).
- `GuestIo!GuestIoFairness`: weak fairness of the handlers (EL2), strong fairness of a core
  idling, of the poll that follows and of the radio interface taking its answer: an idle
  loop comes back for ever, but other traps come in between. Cores that all faulted or
  issued an SMC are excluded in the property: the vectors return them to the same
  instruction. That the modem is ever initialised is not assumed: no code of the
  repository does it, and `ModemAnswers` begins once it is.
- `AvbBoot`: weak fairness of the boot thread alone. It is never blocked, since
  every wait is a bounded poll; the controller may be silent for ever.

Safety runs assume no fairness.

## 4. What is proved

TLAPS checks these for every value of the constants, under the ASSUMEs of the
modules (which TLC evaluates on the instances).

**SMP bring-up** (`SmpBringupProofs`). `SafeInv` = types; who can be at which step
(`PcInv`); what travels from a call to the slot to the registers was issued in the
target's partition (`OwnerInv`); the root is published before anyone is woken
(`RootInv`). `NoCrossPartitionStart` is not inductive: a violation starts with a
call in flight, so `OwnerInv` follows the request at every stage. From it
`PartitionsStartTheirOwnCores`, `GuestsAreTranslated` and `TypeCorrect`, with no
assumption about guests. `PairedEntry` and `Refinement` (of `CoreStart`) hold when
the callers are serialised (`SerialisedCallers`), which is what a kernel's hotplug
lock does; `SerialInv` adds that at most one call is in flight, that it owns the
slot it writes, and what a core has loaded so far. TLC refutes the pairing without it.

**Interrupt forwarding** (`VgicProofs`). `VgicInv`: as long as EL2 has an
acknowledged interrupt in hand, or a register holds it, the Distributor keeps it
active, so it cannot be acknowledged again. It gives `BackedRegisters` (under EOImode 1,
with one register per interrupt at most), `NothingStuck` and `NothingElseDropped`: in either
mode and with any number of registers a request is kept until the guest acknowledges it or
the device withdraws it, and only an edge that finds every register taken is dropped. With
EOImode 1 that takes more interrupts than registers, by counting the registers (an
injection from interrupts to registers).

**Stage 2** (`GuestMapProofs`). One lemma, `WalkStep`: a step of `map_range` changes
no translation, except that the leaf write creates the one the current call asks
for. It needs that tables are linked zeroed and linked once (`TableInv`). It gives
`NothingUnasked` and `Refinement` (of `AddressSpace`, so no live translation ever
changes), under `Covered`: callers stay below the 1 TiB the root covers. `WrittenInv`
adds that every page a call has passed is mapped as it asked, which the later steps
leave alone; it gives `OkIsMapped`. `EveryPageAccounted` counts: the tables that are linked and the free pages are the
pool, after every failure too.

**ACPI tables** (`GuestMapProofs`, second section). `AcpiInv`: at each table, the offset is
the sum of the sizes before it, and what is in memory is what the builders make of the set.
Two sums run over the list of MADT entries, its length and its walk, so each has a lemma
that takes it apart by steps: the entries come to `madt_size` (`SizeOfMadt`), and the
walk reads any number of CPU interfaces before the three last entries (`AfterInterfaces`,
`MadtReads`). It gives `TablesRead`, for any addresses and sizes; that the
fields of a set are unsigned is its assumption. Redistributors that only the range entry
names are not claimed: there TLC finds the walk wrong (`madt_range`). Nor is which of two
redistributor addresses the walk returns (section 5).

**Device trees** (`GuestMapProofs`, last section). A reader goes through the blob with a
stack of open nodes. `Reads(calls, a, b)` says that it goes through `calls` from the stack
`a` to `b`, with every `reg` fitting where it stands; such pieces join (`ReadsJoined`), a
node whose properties keep the stack and whose children read leaves it as it was
(`NodeReads`), and so the whole tree does, for any number of processors (`TreeReads`). The
builder is the other half: `DtbInv` says that the calls left are the rest of the tree, and
that the tokens and strings written are a copy of its beginning, names found where their
tokens point (`HalfWritten`); an error leaves no blob. A copy of calls that read is a blob
that reads (`CopyReadable`). It gives `TreeReadable`, for any capacities, lengths
and output buffer; the assumption is that counts and lengths are unsigned. The length of a
property's name or value is left open: the provers know strings, not their lengths.

**Verified boot** (`AvbBootProofs`). `AvbInv`: the two queue pairs take turns, and the
one in use goes from quiet to pending to answered and back, so that there is never
more than one completion to mistake (`QueueInv`, `ControllerInv`); the I/O pair
goes round even after a failure, when nobody polls it any more; the buffer holds the
sector asked for from the completion until it is parsed (`SectorInv`); what has been
verified at which place of the boot (`StepInv`, `VerifiedInv`). It gives `CompletionsAnswer`,
`SectorsAreThoseAsked` and `LaunchIsVerified` for any slots, rollback indexes, number of
setups and stride, and `DoorbellsReachTheirQueue` when the stride is 0; with another one
it fails, which is `avb_stride`. The invariant was also checked with strides 0, 1 and 2
(633 314 states). That powers of two are positive naturals is an assumption
TLC evaluates, since the provers know no arithmetic of exponents.

**Device assignment and input switch** (`InputSwitchProofs`). `DeviceInv` holds at
every step of a call: the group that `check_group` accepted is still free for this
guest (`GroupInv`); a stream is ahead of its record only between the step that writes
its entry and the one that records it (`AgreeInv`); who maps a device's registers owns
its streams, is about to, or has stopped the boot (`MapInv`); a reset step that is
behind has left no DMA state (`ResetInv`); the words of the input controller's entries
are rewritten up to the place the switch has reached (`OwnerInv`). It gives
`GroupsAreWhole`, `StreamsAreCommitted`, `OwnersHaveTheirStreams` and
`HandedOverClean`, none of which is inductive, for any configurations that name
different devices (`InputAssumption`): virtual functions that are not assigned as
devices, no BAR or stream shared by two of them, a controller with a key of its own.

**Registries** (`InputSwitchProofs`, last section). `RegInv`: no two entries
share a MAC address or a GPU function, and of the entries with one namespace number only
the first is ever attached, through a controller its guest had by then. It gives `OwnersStay`,
which says of every step that no recorded owner changes, for registries of any capacity.
Whether two records name the same hardware is not part of it, since the code does not
compare that (section 5).

**Installer** (`InstallerProofs`). `InstallInvW`: which step belongs to which command,
what a command knows against what is on record, how far its copies are, and that an
uninstall reaches the binaries only when its entry is gone and the record only when
they are. It gives `EntriesLeadToBinaries`, `RecordIsDeletedLast` and
`ActiveSlotIsUntouched`, for any history of commands stopped anywhere. That an uninstall run
again comes to its end is not among them, and under Windows it does not (`uninstall_rerun`). `OrderInvW` adds that
a list a command has read is the list there is until it writes it, since other systems
write between commands only (`OrderInv`), and that an install probes for an index only when
it knows none of its own (`ProbeInv`). With four lemmas on `Without` (what it keeps is
injective if the list was; taking an entry out twice, or after it was put first, is taking
it out) they give `OrderStaysPermutation` and `OthersAreKept`, for boot orders of any
length. `OthersAreKept` has exceptions, which the property names: an entry that install's
probe could not see, a `BootOrder` it could not read, and the entry at the recorded index,
whoever owns it by now (`uninstall_others`). TLC checked both parts as invariants of the
`installer` run's instance (1 253 769 states).

**Host check** (`InstallerProofs`, last section). `CheckInv`: the report says what the
checks that have run found (`ReportInv`), and the plan is the table's for that report or
what the user made of it at the prompt (`PlanInv`). `Decided` says what the table
promises, whatever it is forced to. It gives `PlansFit`, for any host and command line.
The drive with the most room and the devices of a list in order are chosen by ranks;
`BestExists` and `OrderedNumbers` say so for lists of any length.

**FEX block cache** (`PlatformProofs`, as are the next six). `FexCacheInv`: an entry lies in the window of
its address behind valid entries of other addresses only (`PlaceInv`), so that an
insertion of the same address meets it first and there are never two; entries for
addresses translated since the last reset (`Current`), the block being emitted and the
scratch areas lie apart. An insertion that has stored some fields changes only the entry
at its own place (`StoredInv`, `SettledEntries`). It gives `TranslationsLive`, for any number
of cores, buckets, probes and lengths. Entries that a reset left are outside it: their
memory is given out again, and nothing removes them.

**Guest I/O.** `AnswersAreOwn`: for any number of cores that poll at the same time, the answer
taken from the shared page is the modem's to the command that was sent, as long as the
radio interface has not gone on during some core's poll (`overtaken`). `MailInv` says
that until then every core in a poll holds the command last sent (`PollInv`) and what is
written is its answer (`PortInv`), so that a second poll of the same command only repeats the first. After it,
nothing is claimed, and nothing in the code prevents it (section 5).

**Boot.** `HostInv` says, for each of the twenty-odd steps of `efi_main`, what the
earlier ones have established: which map is in force (`MapInv`), what of it is free
(`FreeInv`), what has been read of the tables (`StageInv`), the interrupt controller's
registers (`RegisterInv`, `EnabledInv`), which cores were called (`CallInv`) and
what the launch has checked (`KernelInv`). It gives `GuestStartsPrepared`, for any memory
map that may change between any two firmware calls, any number of cores (at least two)
and of interrupt lines.

**x86 tiers.** `X86Inv`: what has been written by which step (`X86StageInv`), what the
exits so far say of the gate (`X86ExitInv`), and that the guest's instruction pointer is
the entry plus the lengths of the instructions handled (`RipInv`), where a number of exits
is the cardinality of the set of places at which they occur. It gives `GatesEarned`.

**Event ring.** `RingInv`: the slots from the consumer's place on that carry the cycle bit
of its pass are exactly those the controller has written and nobody has taken
(`WaitingInv`); with those taken and not yet told to the controller they never fill the
ring. What is pending is defined from its end, so three lemmas say what a step does to
it: a poll takes the first (`PollTakesFirst`), the controller adds a last (`PushAddsLast`),
and the function exists at all (`DownRecursion`). It gives `ReportsAreTaken`, for rings of
any length and any number of events.

**Boot monitors.** A line goes through a list of rules, each of which may change the
phase and the criteria for the next. So the proof has two levels. What a line
does to any monitor is proved once, for rules of any form and number: a predicate that
every rule keeps is kept (`RulesKeep`), a criterion set afterwards was there or a rule
that sets it fired, and the other way round (`RulesGive`), and the phase does not fall
(`RulesClimb`). On top of it `MonInv` says for each kind how its phase, its criteria and
what has been seen belong together. The gate's condition alone is not inductive: x86
graphics takes Vulkan only in an earlier phase, so `AndroidX86Inv` says that the phase is
late exactly if Vulkan, the composer or the home screen was seen, and the order of first
sightings is well defined because they are disjoint (`SeenInv`); the bridge's gate has
a toggle that counts only off after on (`BridgeInv`); an x86 tier that has passed must have
booted (`X86HwInv`). It gives `GatesAreEvidence` and `PhasesOnlyAdvance`, for lines with any
number of signatures and any bound on the counters, timeouts and rate. The seven kinds are
the code's own (`MonitorAssumption`). TLC checked `MonInv` on all of them (lines of one
signature, 16 623 states) and on five (lines of three, 26 738 states).

**Phone bridge.** `DecodedWhole` compares the reader with a scan of the whole stream,
so the step that matters joins two streams: scanning `s` and then what it left together
with `t` gives the frames and the rest of `s \o t` (`ScansJoin`), and delivering frames
in two parts is delivering them in one (`ResultsJoin`). The first follows from one lemma:
where two streams agree, from any offset, the scan of the longer one finds the frames of
the shorter and goes on where that ended (`SameScan`). The scan jumps over a frame, so
that it exists is a recursion over all later places (`CourseOfValues`). An overflow and a
reset start the stream anew, and what is left fills the buffer only if its frame is
longer (`LeftShort`). It gives `StreamsAreDecoded`, for every magic and any lengths of
payload, buffer and transfer.

Several modules choose the least of a set of indexes (`FirstBad`, `PickFree`, the first
probe that stops, the first match in a list) or the largest of a set. `LeastNumber` proves
once, from the well-foundedness of < on the naturals, that there is a least one; the
others follow by a least counterexample, which also takes the place of induction on
numbers where a proof needs one. `UpRecursion` and `DownRecursion` say that a function
defined by recursion on 0 .. n, from its start or from its end, exists: `Without`, the
pending reports and a monitor along its rules are such functions. `CourseOfValues` says
it of a function given at each place by all the later ones.

A caution about the tool. For the SMT solver, tlapm 1.4.5 takes `DOMAIN f = 1 .. n` and
`Len(f) = n` to be the same for every function, not only for sequences; next to a function on
`0 .. n` that makes a hypothesis set contradictory. All proofs were therefore also run with
that axiom weakened to the direction that is true (a domain `1 .. n` gives the length), and
hold without the other one.

**Only model-checked**: liveness (`ArmedCoreStarts`, `RequestsServed`, `BootEnds`,
`ModemAnswers`), which is out of reach of the prover. Every invariant and every action
property that a passing run checks has a theorem.

## 5. Where the code and its words disagree

With a run that shows it:

- A secondary marks itself Running when it parks, so the guest's `CPU_ON` answers
  ALREADY_ON and never fills its slot (`smp.rs:13`; `smp_requested`).
- `gic.rs:494` describes EOImode 1; nothing selects it (`vgic_eoimode`).
- `avb_boot.rs:344` says the doorbell stride comes from CAP; it is always 0
  (`avb_stride`).
- `install.rs:20` says a step already done is skipped; an interrupted install
  repeats the boot entry, and uninstall never removes the first one
  (`installer_repeat`).
- `uninstall.rs:3` and `uninstall.rs:11` say other systems' entries are not touched; the
  variable at the recorded index is deleted unread, and after an uninstall that stopped
  half way the index may belong to another system (`uninstall_others`).
- `uefi_vars.rs:75` says removing a variable that does not exist is a success; under
  Windows the error for it is mapped to another one than `delete` forgives, so an
  uninstall run again never gets past its first step (`uninstall_rerun`).
- The MADT entry of a Redistributor range holds its base at offset 4 (`acpi.rs:503`);
  `gic.rs:180` reads it at offset 8 (`madt_range`).

Seen while modelling, visible in the models, without a run of their own:

*CPUs, interrupts, memory*

- `CPU_OFF` returns to its caller (`cpu.rs:298`), so a later `CPU_ON` arms a slot
  nobody reads; `AFFINITY_INFO` reports the primary as off (`cpu.rs:310`).
- Two unserialised `CPU_ON`s mix their entry and context (`smp.rs:129`).
- With all List Registers valid an edge is retired unseen (`gic.rs:947`).
- `init_gic_routing` (`cpu.rs:617`) has no caller, so no interrupt is routed; the
  maintenance interrupt is never enabled and its handler is unreachable; `ICH_HCR` is
  written before `ICC_SRE_EL2` enables the interface; interrupts the firmware left
  enabled stay so. A poll that gives up goes on, although `main.rs:264` says every
  Redistributor is awake before the Distributor is enabled.
- `map_range` aliases above 1 TiB and returns Ok (`memory.rs:351`).

- `gic.rs:187` says the MADT walk prefers the Redistributor range and falls back to the
  address of a CPU interface; the code takes whichever entry comes first, and `build_madt`
  writes the CPU interfaces first. `AcpiSetReads` therefore asks only for one of the two.

*Devices*

- `write_ste` rewrites a valid entry in place. At run time the SMMU may see
  one guest's VMID with the other's tables, while `usb.rs:69` says the old entry
  is cleared first. No invalidation command follows.
- The input switch never maps the controller's BAR into the new owner nor removes
  it from the old one, so the new owner cannot drive the controller, and the old
  one still programs it (`usb_passthrough.rs:821`); it also leaves EL2's own event
  ring unprogrammed after the reset.
- `poll_event_ring` advances past a failed transfer without writing ERDP
  (`usb_passthrough.rs:645`), unlike line 613 says. The EL2 polls have no caller.
- The GPU, network and USB pipelines do not consult `PassthroughRegistry`, although
  `passthrough.rs:417` states its invariant for every stream. A second device
  behind a configuration window that is already mapped always fails after its
  stream table entries are written. The network pipeline gives both virtual
  functions' streams Android's tables, the one kept for Windows included.
- Registries: the PCIe address of an adapter is recorded and never compared, so that one
  adapter can go to both guests under two MAC addresses, although `network.rs:192` and
  `network.rs:207` say "exclusively"; one NVMe controller can be recorded for both guests
  (`storage.rs:448`) although `storage.rs:282` says it is exclusively assigned.
  `OwnersFinal` is about what the code does compare.
- Registries: a virtual function of a MAC address that was refused stays in the
  network list; the number of functions is not compared with what the device offers;
  `create_ns` accepts an identifier twice; the Windows configuration, "set once at
  boot" (`windows.rs:493`), can be replaced while Windows runs.

*Boot*

- The stored AVB key is compared only where it lies in the first sector
  (`avb_boot.rs:882`); `tries_remaining` is never decremented; a namespace created
  before a failed attach is never deleted.
- The entry point assumes a text offset of zero that nothing checks; the device tree
  names default GIC addresses, not the discovered ones; the image's size may reach
  into the device tree; the UART is mapped in a window that is already mapped and the
  error dropped; the Stage 2 tables may lie in the guest's RAM (`main.rs:165`).
- Device trees: the UART's `interrupt-parent` is empty and nothing stands behind it
  (`kernel.rs:900`); the longest command line that is accepted does not fit the
  structure block, which one builder refuses only at the end; the production tree's
  strings lack their terminator; its interrupt number underflows below 32.

*Guests*

- The vectors ignore the handler's decision: a guest that is to halt runs on, at the
  same instruction. The same happens to an SMC, which `exception.rs:324` says guests
  can use transparently.
- The modem is polled by every idle core without a lock, although
  `virtual_sensors_modem.rs:282` calls the port single-threaded per core. Two cores both
  take one command and answer it twice. If the radio interface takes the first answer and
  goes on before the second core is done, that core clears `CMD_READY` of the next
  command, which is then never answered, or announces the old answer for it;
  `virtual_sensors_modem.rs:233` says the flag is cleared "so Android knows the command was
  consumed". `AnswersOwnCommand` and `ModemAnswers` end at this point (`overtaken`).
- An empty modem command is never answered. The modem's page is not mapped for the
  guest, and `main` never initialises the modem.
- A bridge frame of 193 to 255 payload bytes never completes until the buffer
  overflows.
- FEX: the block replaced in a full cluster is always the first, not the oldest
  (`fex_integration.rs:402`); a reset of the code cache leaves the table's entries, which
  then lead into memory given out again: a lookup of an address not translated since finds
  foreign code. The comment at `fex_integration.rs:356` restricts reset to AOT rebuilds, and
  nothing clears the table there either. `insert` stores an entry in place while the
  dispatcher may read it; the
  gate is evaluated only on the line of the first program.
- Monitors: a line of a `userdebug` build also counts as `user`
  (`userspace_boot.rs:701`, against "not userdebug or eng" at line 699); compatibility
  enters the phase GatePassed on one line of the harness, whatever its gate says, against
  `app_compat.rs:773`; the phases of several monitors go back (userspace to Zygote,
  bridge on a sensor line) or do not follow their gate (x86, application); an x86 run
  without any workaround counts as having all acknowledged.
- x86: the gate's `vmresume_succeeded` is set before any VMRESUME; an exit the
  handler does not know resumes at the same instruction; a failure after VMXON
  leaves the mode on; controls are written without `adjust_controls`.

*Installer and checks*

- Paths are joined with a backslash (`install.rs:156`), so on Linux the
  binaries are single files beside the mount point and never under `\EFI`; the
  properties about binaries are therefore stated for Windows hosts. An unreadable
  `BootOrder` counts as empty (`install.rs:229`), so that the install writes one with
  its own entry alone and the other systems' are no longer listed, against
  `boot_entry.rs:16`; install resets the active slot to A (`install.rs:283`).
- Flags before the subcommand are stepped over (`cli.rs:157`), so the examples of the
  help text that begin with `--apply` (`cli.rs:306`, `cli.rs:313`) are dry runs, and
  `--gpu sriov install` takes `sriov` for the subcommand.
- GPU plan: on Linux an integrated AMD GPU counts as discrete and is passed through,
  an Intel Arc counts as integrated; `--gpu sriov` is accepted without virtual
  functions. The storage check passes on the largest drive, the install goes to the
  first NVMe one, whose room is not checked (`install.rs:101`).

## 6. Plan

Done: the three components that run on every core (`SmpBringup`, `Vgic`, `Stage2`) with
their proofs; verified boot (`NvmeQueue`, `AvbBoot`); the installer with its proofs;
device assignment and the input switch with theirs; the way from the firmware to the
guest (`HostBoot`, `GicBoot`, `AcpiTables`, `Dtb`); the guest's exits, modem, bridge and
event ring; FEX with the proof of its block cache; the monitors and gates; the x86
tiers; the registries; the installer's front end and the compatibility check.

Left, modelling: `EventRing` composed with `InputSwitch`, when the code reprograms the ring after a switch;
arithmetic of virtual function addresses and of capability walks.

Done, proofs: an invariant for each of those parts (section 4).

Left, proofs: liveness, which stays with TLC.

## 7. Not modelled, and why

*Parts without behaviour in time or without a caller.* The build and product
definitions, kernel option and package tables, security and fingerprint predicates,
performance thresholds and roadmap milestones are constants, records set by hand and
conjunctions over them. They are a large share of the source, and so are tests,
comments, constant tables and structure definitions; a state machine would only
restate them. Timers are register reads. `status` reads what `Installer` writes. The
scripts start an emulator.

*Left out of what is modelled.* Register contents and bit layouts (checked by the
code's compile-time assertions), the console, formatting and reports: no property is
about them. Floating-point samples and their noise. The text of console lines: a
signature is a name. Encodings of boot entries and device paths.

*Environment.* Memory ordering is modelled as the barriers make it: stores become
visible in program order at the DSB, and each access is a step. The firmware, the NVMe
controller, the SMMU, guests and other operating systems appear as the environment
the code assumes, no stronger. `HostCheck` assumes of a host that its GPUs are what their manufacturer and
device id say (`NamedAsItIs`): a consumer NVIDIA card has an id of the consumer range. FEX and the Windows side exist in the repository
only as descriptors.

*Hazards without a property.* For these the code promises nothing, or the outcome is
plain from the model, so that a property would only record a choice. The first two
are listed in `PROJECT.json`; its list keeps to the forty that weigh most.

- `cpu.rs:301`: a core that was switched off is asked for again and nobody listens.
- `nvme_namespace.rs:767`: a namespace that was created and not attached stays.
- `gic.rs:1153`: a level dropped with full registers comes back at once.
- `memory.rs:351`: addresses above the root's reach alias low ones.
- `main.rs:165`, `main.rs:319`: tables inside guest RAM; an error that is printed and
  passed over.
- `avb_boot.rs:577`: a second pipeline would meet the completions of the first.
- `install.rs:229`, `install.rs:283`, `install.rs:395`: see section 5.
