-------------------------------- MODULE HostCheck --------------------------------
(***************************************************************************)
(* From the command line of aether-install to the plan an install goes by: *)
(* the argument parser (cli.rs, main.rs), aether-compat with its four      *)
(* checks (compat-check), which runs as a process of its own and hands its *)
(* report over as JSON, and the choice of GPU mode and target disk         *)
(* (gpu_config.rs, install.rs).  What the install then writes is in        *)
(* Installer.                                                              *)
(*                                                                         *)
(* The host is external: what is in it, and what each system lets a        *)
(* process see of it.  `kind` is what a GPU is; the programs never read    *)
(* it, they guess it from identifiers and names.                           *)
(***************************************************************************)
EXTENDS Integers, Sequences, SequencesExt, FiniteSets

CONSTANTS
  Hosts,          \* machines: see HostCheckInit
  CommandLines    \* arguments, each a sequence of words

ApuNames == {"ryzen", "apu", "vega", "integrated"}

(* What the identifiers and names of a GPU say of it.                      *)
NamedAsItIs(gpu) ==
  /\ gpu.vendor = "nvidia" => gpu.kind = IF gpu.id = "professional" THEN "professional" ELSE "consumer"
  /\ gpu.kind = "consumer" => gpu.vendor = "nvidia" /\ gpu.pci
  /\ gpu.vendor = "amd" /\ gpu.name \cap ApuNames = {} => gpu.kind \notin {"integrated", "unknown"}
  /\ gpu.vendor = "intel" /\ "arc" \in gpu.name => gpu.kind \notin {"integrated", "unknown"}

ASSUME HostCheckAssumption ==
  \A h \in Hosts :
    /\ h.memory \in Nat /\ h.hypervisor \in BOOLEAN
    /\ h.drives \in Seq([name : STRING, free : Nat, nvme : BOOLEAN])
    /\ h.gpus \in Seq([pci : BOOLEAN, vendor : STRING, kind : STRING, id : STRING,
                      name : SUBSET STRING, vfs : Int])
    /\ \A i \in DOMAIN h.gpus : NamedAsItIs(h.gpus[i])

VARIABLE chk

MINIMUM_GIB == 8
MINIMUM_FREE_GIB == 64

Switches == {"--apply", "--yes", "--json", "--quiet", "--no-gpu-prompt"}
Valued == {"--hypervisor", "--selector", "--android-image", "--target-disk", "--esp", "--gpu"}
Asking == {"--help", "--version"}
GpuModes == {"sriov", "passthrough", "software"}
Subcommands == {"check", "install", "uninstall", "update", "status"}

(* ------------------------------ the command line ------------------------------ *)

Dashed(word) == word \in Switches \cup Valued \cup Asking \cup {"--other"}
Usage == [sub |-> "usage", on |-> {}, gpu |-> "none", disk |-> "none"]

(* One word after the subcommand; `wants` is the flag whose value is next. *)
ArgumentRead(acc, word) ==
  CASE acc.done -> acc
    [] ~ acc.done /\ acc.wants = "--gpu" ->
         IF word \in GpuModes THEN [acc EXCEPT !.out.gpu = word, !.wants = "none"]
         ELSE [acc EXCEPT !.out = Usage, !.done = TRUE]
    [] ~ acc.done /\ acc.wants = "--target-disk" -> [acc EXCEPT !.out.disk = word, !.wants = "none"]
    [] ~ acc.done /\ acc.wants \in Valued \ {"--gpu", "--target-disk"} -> [acc EXCEPT !.wants = "none"]
    [] ~ acc.done /\ acc.wants = "none" ->
         CASE word \in Switches -> [acc EXCEPT !.out.on = @ \cup {word}]
           [] word \in Valued -> [acc EXCEPT !.wants = word]
           [] word = "--help" -> [acc EXCEPT !.out.sub = "help", !.done = TRUE]
           [] OTHER -> [acc EXCEPT !.out = Usage, !.done = TRUE]

(* Flags before the subcommand are stepped over, whatever they are, except *)
(* that the first of --help and --version decides.                         *)
parse_from(argv) ==
  LET at == SelectInSeq(argv, LAMBDA w : ~ Dashed(w))
      asks == SelectInSeq(argv, LAMBDA w : w \in Asking)
      read == FoldLeft(ArgumentRead, [out |-> [Usage EXCEPT !.sub = argv[at]], wants |-> "none", done |-> FALSE],
                       SubSeq(argv, at + 1, Len(argv)))
      asked == asks # 0 /\ (at = 0 \/ asks < at)
  IN IF asked THEN [Usage EXCEPT !.sub = IF argv[asks] = "--help" THEN "help" ELSE "version"]
     ELSE IF at = 0 \/ argv[at] \notin Subcommands \/ read.wants # "none" THEN Usage
     ELSE read.out

(* -------------------------------- the four checks -------------------------------- *)

(* Firmware that has the mode switched off, and a hypervisor around the    *)
(* program that hides it, look the same but for the hypervisor bit.        *)
cpu_check(h) ==
  IF h.arch = "arm64" THEN "Arm64"
  ELSE LET hidden == h.hypervisor /\ h.flags = {} IN
       CASE h.vendor = "intel" -> IF hidden \/ "vmx" \in h.flags THEN "X86Intel" ELSE "Unsupported"
         [] h.vendor = "amd" -> IF hidden \/ "svm" \in h.flags THEN "X86Amd" ELSE "Unsupported"
         [] OTHER -> "Unsupported"

memory_check(h) == h.memory >= MINIMUM_GIB

(* A finite set of indices in the order that Before gives.                 *)
Ordered(S, Before(_, _)) ==
  [k \in 1 .. Cardinality(S) |-> CHOOSE i \in S : Cardinality({j \in S : Before(j, i)}) = k - 1]

(* sort_by keeps drives of equal room in the order they were found.        *)
MoreFree(drives, i, k) ==
  drives[k].free < drives[i].free \/ (drives[k].free = drives[i].free /\ i < k)
storage_check(h) ==
  LET order == Ordered(DOMAIN h.drives, LAMBDA i, k : MoreFree(h.drives, i, k))
      drives == [k \in DOMAIN order |-> h.drives[order[k]]]
      largest == IF drives = << >> THEN 0 ELSE drives[1].free
  IN [drives |-> drives, pass |-> largest >= MINIMUM_FREE_GIB]

(* sysfs gives the identifiers of the PCI display devices and their VFs,   *)
(* and no name: resolve_gpu_name makes one of the vendor.  Windows gives   *)
(* the product's name and the identifiers of what is on PCI, and no VFs.   *)
resolve_gpu_name(vendor) == CASE vendor = "amd" -> {"radeon"} [] OTHER -> {}
Unknown == -1
LinuxDevice(i, g) ==
  [of |-> i, vendor |-> g.vendor, id |-> g.id, name |-> resolve_gpu_name(g.vendor), vfs |-> g.vfs]
WindowsDevice(i, g) ==
  [of |-> i, vendor |-> IF g.pci THEN g.vendor ELSE "unknown", id |-> g.id, name |-> g.name, vfs |-> Unknown]
EnumerationFailed == [of |-> 0, vendor |-> "unknown", id |-> "garbled", name |-> {}, vfs |-> Unknown]

PciDisplays(h) == Ordered({i \in DOMAIN h.gpus : h.gpus[i].pci}, LAMBDA i, k : i < k)
check_linux(h) ==
  IF ~ h.scans THEN << >>
  ELSE [k \in DOMAIN PciDisplays(h) |-> LinuxDevice(PciDisplays(h)[k], h.gpus[PciDisplays(h)[k]])]
check_windows(h) ==
  IF ~ h.scans \/ h.gpus = << >> THEN <<EnumerationFailed>>
  ELSE [i \in DOMAIN h.gpus |-> WindowsDevice(i, h.gpus[i])]
gpu_check(h) == IF h.os = "linux" THEN check_linux(h) ELSE check_windows(h)

build_result(devices) == \E i \in DOMAIN devices : devices[i].vfs > 0

(* Mutant: the disk is not looked at.                                      *)
NotTheDisk(r) == r.tier = "Unsupported" \/ ~ r.memory

(* A GPU without VFs is a warning, anything else that is missing a failure.*)
HardFail(r) == r.tier = "Unsupported" \/ ~ r.memory \/ ~ r.storage.pass
OverallOf(r) ==
  IF HardFail(r) THEN "Fail" ELSE IF build_result(r.gpus) THEN "Pass" ELSE "Warn"

(* ----------------------------------- the plan ----------------------------------- *)

(* The most VFs, unknown counting less than none, the first of equals;     *)
(* what has no vendor only if there is nothing else.                       *)
pick_primary_gpu(devices) ==
  LET known == {i \in DOMAIN devices : devices[i].vendor # "unknown"}
  IN IF known = {} THEN devices[1]
     ELSE devices[CHOOSE i \in known : \A j \in known :
                    devices[j].vfs < devices[i].vfs \/ (devices[j].vfs = devices[i].vfs /\ i <= j)]

classify_vendor(d) ==
  CASE d.vendor = "nvidia" -> IF d.id = "professional" THEN "NvidiaProfessional" ELSE "NvidiaConsumer"
    [] d.vendor = "amd" -> IF d.name \cap ApuNames # {} THEN "AmdIntegrated" ELSE "AmdDiscrete"
    [] d.vendor = "intel" -> IF "arc" \in d.name THEN "IntelDiscrete" ELSE "IntelIntegrated"
    [] OTHER -> "Unknown"

(* Mode, whether it needs no confirmation, and the warnings.  Whatever the *)
(* table says of a consumer card, it carries a warning about its reset.    *)
PlanWithoutVfs(class) ==
  CASE class = "NvidiaConsumer" -> <<"passthrough", FALSE, {"reset"}>>
    [] class = "AmdDiscrete" -> <<"passthrough", FALSE, {}>>
    [] class = "IntelDiscrete" -> <<"passthrough", FALSE, {"enable sriov"}>>
    [] class = "NvidiaProfessional" -> <<"passthrough", TRUE, {}>>
    [] OTHER -> <<"software", TRUE, {"fallback"}>>

Plan(mode, auto, warnings, of) == [mode |-> mode, auto |-> auto, warnings |-> warnings, of |-> of]

decide(devices, forced) ==
  IF devices = << >>
  THEN Plan("software", TRUE, {"no gpu"} \cup (IF forced = "none" THEN {} ELSE {"override"}), 0)
  ELSE LET gpu == pick_primary_gpu(devices)
           default == PlanWithoutVfs(classify_vendor(gpu))
           other == forced # "none" /\ forced # default[1]
       IN IF gpu.vfs > 0
          THEN IF forced \in {"none", "sriov"} THEN Plan("sriov", TRUE, {}, gpu.of)
               ELSE Plan(forced, FALSE, {}, gpu.of)
          ELSE Plan(IF other THEN forced ELSE default[1], IF other THEN TRUE ELSE default[2],
                    default[3] \cup (IF other THEN {"override"} ELSE {}), gpu.of)

(* The largest NVMe drive; none means the system's conventional name.      *)
TargetDisk(drives, given) ==
  LET at == SelectInSeq(drives, LAMBDA d : d.nvme)
  IN IF given # "none" THEN given ELSE IF at = 0 THEN "default" ELSE drives[at].name

(* ---------------------------------- the programs ---------------------------------- *)

NoReport == [tier |-> "none", memory |-> FALSE, storage |-> [drives |-> << >>, pass |-> FALSE],
             gpus |-> << >>, overall |-> "none"]
NoPlan == Plan("none", FALSE, {}, 0)

HostCheckOf(h, argv) ==
  chk = [host |-> h, argv |-> argv, args |-> Usage, at |-> "main", exit |-> 0, report |-> NoReport,
         plan |-> NoPlan, answer |-> "none", target |-> "none"]

HostCheckInit == \E h \in Hosts, argv \in CommandLines : HostCheckOf(h, argv)

ChkAt(s) == chk.at = s
Exits(code) == chk' = [chk EXCEPT !.at = "exited", !.exit = code]

(* Uninstall, update and status never run the check.                       *)
dispatch ==
  /\ ChkAt("main")
  /\ LET args == parse_from(chk.argv) IN
     \/ args.sub = "usage" /\ Exits(64)
     \/ args.sub \in {"help", "version"} /\ Exits(0)
     \/ args.sub \in {"uninstall", "update", "status"} /\ chk' = [chk EXCEPT !.at = "elsewhere", !.args = args]
     \/ args.sub \in {"check", "install"} /\ chk' = [chk EXCEPT !.at = "cpu", !.args = args]

(* No binary, no process, a signal, or output that is not a report.        *)
run_compat_check_fails ==
  /\ chk.at \in {"cpu", "memory", "storage", "gpu", "build"}
  /\ Exits(4)

check_cpu == ChkAt("cpu") /\ chk' = [chk EXCEPT !.at = "memory", !.report.tier = cpu_check(chk.host)]
check_memory == ChkAt("memory") /\ chk' = [chk EXCEPT !.at = "storage", !.report.memory = memory_check(chk.host)]
check_storage == ChkAt("storage") /\ chk' = [chk EXCEPT !.at = "gpu", !.report.storage = storage_check(chk.host)]
check_gpu == ChkAt("gpu") /\ chk' = [chk EXCEPT !.at = "build", !.report.gpus = gpu_check(chk.host)]
build_report ==
  /\ ChkAt("build")
  /\ chk' = [chk EXCEPT !.at = chk.args.sub, !.report.overall = OverallOf(chk.report)]

(* aether-install check: the exit codes of aether-compat.                  *)
check_run ==
  /\ ChkAt("check")
  /\ Exits(CASE chk.report.overall = "Pass" -> 0 [] chk.report.overall = "Warn" -> 1 [] OTHER -> 2)

install_checks ==
  /\ ChkAt("install")
  /\ IF chk.report.overall = "Fail" THEN Exits(2)
     ELSE chk' = [chk EXCEPT !.at = "resolve", !.plan = decide(chk.report.gpus, chk.args.gpu)]

Unprompted == chk.plan.auto \/ "--no-gpu-prompt" \in chk.args.on \/ "--yes" \in chk.args.on

resolve_gpu_plan ==
  /\ ChkAt("resolve") /\ Unprompted
  /\ chk' = [chk EXCEPT !.at = "target"]

(* The menu has two lines whatever the GPU; return takes the default.      *)
prompt_gpu(answer) ==
  /\ ChkAt("resolve") /\ ~ Unprompted
  /\ CASE answer = "unreadable" -> Exits(11)
       [] answer = "other" -> Exits(12)
       [] OTHER ->
            chk' = [chk EXCEPT !.at = "target", !.answer = answer, !.plan.auto = TRUE,
                               !.plan.mode = CASE answer = "1" -> "software" [] answer = "2" -> "passthrough"
                                               [] OTHER -> @]

choose_target ==
  /\ ChkAt("target")
  /\ chk' = [chk EXCEPT !.at = "planned", !.target = TargetDisk(chk.report.storage.drives, chk.args.disk)]

HostCheckNext ==
  \/ dispatch \/ run_compat_check_fails \/ check_cpu \/ check_memory \/ check_storage \/ check_gpu
  \/ build_report \/ check_run \/ install_checks \/ resolve_gpu_plan \/ choose_target
  \/ \E answer \in {"1", "2", "", "other", "unreadable"} : prompt_gpu(answer)

HostCheckSpec == HostCheckInit /\ [][HostCheckNext]_<<chk>>

-------------------------------------------------------------------------------

Asked(mode) == chk.args.gpu = mode
Gpu == chk.host.gpus[chk.plan.of]

(* A host that can run the hypervisor: what the checks are there to find   *)
(* out, said of the machine and not of the report.                         *)
HostWillDo ==
  /\ chk.host.memory >= MINIMUM_GIB
  /\ \E i \in DOMAIN chk.host.drives : chk.host.drives[i].free >= MINIMUM_FREE_GIB
  /\ \/ chk.host.arch = "arm64"
     \/ chk.host.vendor = "intel" /\ "vmx" \in chk.host.flags
     \/ chk.host.vendor = "amd" /\ "svm" \in chk.host.flags
     \/ chk.host.hypervisor /\ chk.host.flags = {} /\ chk.host.vendor \in {"intel", "amd"}

(* The GPU leaves the host only on somebody's word, and one the firmware   *)
(* shows its display on only on the word of the user: an AMD APU under     *)
(* Linux is the exception, because the report then carries no product name *)
(* (README, divergences).                                                  *)
PassedThroughKnowingly ==
  chk.plan.mode = "passthrough" =>
    /\ chk.plan.of # 0 \/ Asked("passthrough")
    /\ \/ Asked("passthrough") \/ chk.answer \in {"", "2"}
       \/ chk.args.on \cap {"--yes", "--no-gpu-prompt"} # {}
       \/ Gpu.kind = "professional"
    /\ chk.plan.of # 0 =>
         /\ Gpu.kind \in {"integrated", "unknown"} =>
              \/ Asked("passthrough") \/ chk.answer = "2"
              \/ chk.host.os = "linux" /\ Gpu.vendor = "amd"
         /\ Gpu.kind = "consumer" /\ ~ Gpu.vfs > 0 => "reset" \in chk.plan.warnings

(* An install that gets past its first three steps is on a host that meets *)
(* the requirements, with a GPU mode the machine can provide, chosen as    *)
(* PassedThroughKnowingly says, through two programs that see different    *)
(* things of it on each system.  (SR-IOV without VFs: only as an override, *)
(* which is not checked.)                                                  *)
PlanFitsHost ==
  chk.at = "planned" =>
    /\ HostWillDo
    /\ PassedThroughKnowingly
    /\ chk.plan.mode = "sriov" => Asked("sriov") \/ (chk.plan.of # 0 /\ Gpu.vfs > 0)
===============================================================================
