----------------------------- MODULE BootMonitors ------------------------------
(***************************************************************************)
(* The monitors that decide, from the guest's console, whether a chapter   *)
(* of the boot has succeeded: Android's userspace, the x86 graphics stack, *)
(* the Adreno pipeline, the phone bridge, sensors and modem, validation on *)
(* x86 hardware and application compatibility.  Each has an init function  *)
(* that checks its configuration, a process_line, and a gate.  They share  *)
(* nothing; a behaviour follows one of them.                               *)
(*                                                                         *)
(* A signature stands for the text or texts the code searches for; the     *)
(* signature user is also found in a userdebug build's property line.      *)
(***************************************************************************)
EXTENDS LogMonitor

CONSTANTS
  MonitorKinds, \* the monitors followed
  MonLine,      \* most signatures in one line
  MonCount,     \* bound on every counter of a monitor
  MonTimeouts,  \* max_consecutive_timeouts of app_compat
  PassRate      \* required_pass_rate_tenths: 1 .. 1000

ASSUME MonitorAssumption ==
  /\ MonitorKinds \subseteq {"userspace", "android_x86", "adreno", "bridge", "sensors",
                             "x86_hw", "compat"}
  /\ MonLine \in Nat /\ MonCount \in Nat /\ MonTimeouts \in Nat
  /\ PassRate \in 1 .. 1000

VARIABLES
  mon,  \* the monitor: kind, phase, bits, failure, counters n
  seen  \* history: the signatures seen; for the two gates that look at
        \* the order of lines, those first seen together, in order

monVars == <<mon, seen>>

Sighted == UNION {seen[i] : i \in DOMAIN seen}
Sighting(sig) == CHOOSE i \in DOMAIN seen : sig \in seen[i]

NoCounts == [restarts |-> 0, denials |-> 0, changes |-> 0, acks |-> 0,
             changes2 |-> 0, acks2 |-> 0, passing |-> 0, failing |-> 0,
             attestation |-> 0, timeouts |-> 0]
Bump(m, counter) == [m EXCEPT !.n[counter] = @ + 1]
BumpIf(cond, m, counter) == IF cond THEN Bump(m, counter) ELSE m

New(kind, phase, bits) ==
  [kind |-> kind, phase |-> phase, bits |-> bits, failure |-> "none", n |-> NoCounts]

(* ------------------------------ userspace boot ------------------------------ *)

UserspacePhases == <<"KernelHandoff", "FirstStageInit", "SecondStageInit",
  "SystemDaemonsStarted", "HalsRegistered", "ZygoteReady", "HomeScreenRendered">>

UserspaceRules == <<
  Enters("zygote", "ZygoteReady", {}),
  Enters("home", "HomeScreenRendered", {"home"}),
  Sees("settings", {"settings"}),
  Sees("user", {"user"}),
  Reports("first_stage", "FirstStageInit", {}),
  Reports("second_stage", "SecondStageInit", {}),
  Reports("servicemanager", "SystemDaemonsStarted", {}),
  Reports("hals", "HalsRegistered", {}) >>

(* What a line says went wrong; the first of these that it contains.       *)
scan_uart_line(line) ==
  FirstIn(<<"mount_failed", "no_init", "no_policy", "smmu_fault", "avc_denied",
            "hal_failed">>, line, "none")

UserspaceProcess(m, line) ==
  LET a == BumpIf("zygote_killed" \in line,
                  Processed(UserspacePhases, UserspaceRules, m, line), "restarts")
      b == BumpIf(scan_uart_line(line) = "avc_denied", a, "denials")
  IN IF scan_uart_line(line) = "none" THEN b
     ELSE [b EXCEPT !.failure = scan_uart_line(line)]

UserspacePasses(m) == {"home", "settings", "user"} \subseteq m.bits

(* ------------------------------ x86 graphics ------------------------------ *)

AndroidX86Phases == <<"NotStarted", "GpuVendorDetected", "KernelModulesLoaded",
  "DrmDeviceVisible", "IcdSelected", "VulkanInitialized", "DrmHwcLaunched",
  "HomeScreenRendered", "GatePassed">>

(* GpuDetectionResult: the vendor a function's ids are classified as.      *)
classify(gpu) ==
  CASE gpu.display /\ gpu.id \in {"nvidia", "amd"} -> gpu.id
    [] gpu.display /\ gpu.id = "intel" /\ gpu.subclass # "vga" -> "intel_arc"
    [] OTHER -> "unsupported"

(* The configuration is accepted as a whole; the GPU then decides.  Every  *)
(* supported vendor has its driver and its Vulkan library.                 *)
AndroidX86Start(valid, gpu) ==
  IF ~ valid THEN "InvalidConfig"
  ELSE IF ~ gpu.display THEN "NoDisplayController"
  ELSE IF classify(gpu) # "unsupported" THEN "Ok"
  ELSE IF gpu.id = "intel" /\ gpu.subclass = "vga" THEN "IntegratedIntelNotSupported"
  ELSE "UnknownGpuVendor"

AndroidX86Rules == <<
  First("vulkan", "VulkanInitialized", {"vulkan"}),
  First("hwc", "DrmHwcLaunched", {}),
  Reports("home", "HomeScreenRendered", {"home"}),
  Sees("glmark2", {"glmark2"}),
  Sees("nproc", {"nproc"}),
  Sees("user", {"user"}) >>

AndroidX86Passes(m) ==
  {"home", "glmark2", "vulkan", "nproc", "user", "no_software"} \subseteq m.bits

AndroidX86Process(m, line) ==
  LET a == BumpIf("avc_denied1" \in line,
                  Processed(AndroidX86Phases, AndroidX86Rules, m, line), "denials")
  IN IF AndroidX86Passes(a) THEN [a EXCEPT !.phase = "GatePassed"] ELSE a

(* ------------------------------ Adreno pipeline ------------------------------ *)

AdrenoPhases == <<"NotStarted", "DrmDriverBound", "GrallocReady", "HwcReady",
  "VulkanReady", "RenderingActive", "GatePassed">>

AdrenoRules == <<
  First("drm", "DrmDriverBound", {}),
  First("gralloc", "GrallocReady", {}),
  First("hwc", "HwcReady", {}),
  Reports("vulkan", "VulkanReady", {"vulkan"}),
  First("compositing", "RenderingActive", {}) >>

AdrenoPasses(m) == {"vulkan", "glmark2", "youtube"} \subseteq m.bits

AdrenoProcess(m, line) ==
  LET a == Processed(AdrenoPhases, AdrenoRules, m, line)
  IN IF AdrenoPasses(a) THEN Advance(AdrenoPhases, a, "GatePassed") ELSE a

(* ------------------------------ the phone bridge ------------------------------ *)

BridgePhases == <<"NotStarted", "UsbReady", "AdbConnected", "SensorStreamActive",
  "IdentityLoaded", "GatePassed">>

BridgePasses(m) == {"source_changes", "no_gap", "identity"} \subseteq m.bits

BridgeLine(m, line) ==
  LET a == IF "handshake" \in line /\ m.phase \in {"UsbReady", "NotStarted"}
           THEN [m EXCEPT !.phase = "AdbConnected"] ELSE m
      b == IF "sensor" \in line THEN [a EXCEPT !.phase = "SensorStreamActive"] ELSE a
      c == IF "identity" \notin line THEN b
           ELSE Grant([b EXCEPT !.phase = IF @ = "SensorStreamActive"
                                          THEN "IdentityLoaded" ELSE @], "identity")
  IN c

(* The toggle counts once it has been seen on and, then or later, off.     *)
BridgeToggled(m, line) ==
  LET a == IF "toggled_on" \in line THEN Grant(m, "on") ELSE m
      b == IF "toggled_off" \in line /\ "on" \in a.bits THEN Grant(a, "off") ELSE a
  IN IF {"on", "off"} \subseteq b.bits THEN Grant(b, "source_changes") ELSE b

BridgeProcess(m, line) ==
  LET a == BridgeToggled(BridgeLine(m, line), line)
      b == IF "gap_free" \in line THEN Grant(a, "no_gap") ELSE a
  IN IF BridgePasses(b) THEN [b EXCEPT !.phase = "GatePassed"] ELSE b

(* ------------------------------ sensors and modem ------------------------------ *)

SensorPhases == <<"NotStarted", "HvcRegistered", "SensorHalStarted",
  "ModemAttached", "GatePassed">>
SensorBits == {"accel", "gyro", "mag"}
SensorRules == <<Sees("accel", {"accel"}), Sees("gyro", {"gyro"}),
  Sees("mag", {"mag"}), Sees("no_sim", {"no_sim"})>>

SensorProcess(m, line) ==
  LET a == Processed(SensorPhases, SensorRules, m, line) IN
  [a EXCEPT !.phase =
     CASE SensorBits \cup {"no_sim"} \subseteq a.bits -> "GatePassed"
       [] "no_sim" \in a.bits /\ ~ SensorBits \subseteq a.bits -> "ModemAttached"
       [] SensorBits \subseteq a.bits /\ "no_sim" \notin a.bits -> "SensorHalStarted"
       [] OTHER -> @]

(* --------------------------- validation on hardware --------------------------- *)

X86HwPhases == <<"NotStarted", "IntelVtxVerified", "AmdSvmVerified",
  "BothVendorsVerified", "FexModeConfirmed", "EptNptInvalidationsVerified",
  "IntelAndroidBooted", "AmdAndroidBooted", "GatePassed">>

(* What a valid configuration already vouches for.                         *)
X86HwStart == {"intel", "amd", "fex", "fex_confirmed", "no_workaround",
               "none_accepted", "user"}

X86HwRules1 == <<Reports("intel_vtx", "IntelVtxVerified", {"intel"}),
                 Reports("amd_svm", "AmdSvmVerified", {"amd"})>>
X86HwRules2 == <<Reports("fex", "FexModeConfirmed", {"fex", "fex_confirmed"})>>
X86HwRules3 == <<Reports("boot_intel", "IntelAndroidBooted", {"boot_intel"}),
                 Reports("boot_amd", "AmdAndroidBooted", {"boot_amd"}),
                 Sees("user", {"user"})>>

Acked(m) == m.n.changes = m.n.acks
Acked2(m) == m.n.changes2 = m.n.acks2
IntelValid(m) == {"intel", "boot_intel", "fex_confirmed", "no_workaround"} \subseteq m.bits /\ Acked(m)
AmdValid(m) == {"amd", "boot_amd", "fex_confirmed", "no_workaround"} \subseteq m.bits /\ Acked2(m)
X86HwPasses(m) ==
  {"intel_passed", "amd_passed", "fex", "none_accepted", "user"} \subseteq m.bits

(* A summary line stands for one change and its acknowledgement, if none   *)
(* was recorded.                                                           *)
Summaries(m, line) ==
  LET a == IF "ept_done" \in line /\ m.n.changes = 0
           THEN [m EXCEPT !.n.changes = 1, !.n.acks = 1] ELSE m
  IN IF "npt_done" \in line /\ a.n.changes2 = 0
     THEN [a EXCEPT !.n.changes2 = 1, !.n.acks2 = 1] ELSE a

PairsJudged(m) ==
  [m EXCEPT !.bits = @ \cup (IF IntelValid(m) THEN {"intel_passed"} ELSE {})
                       \cup (IF AmdValid(m) THEN {"amd_passed"} ELSE {})]

X86HwProcess(m, line) ==
  LET a == Processed(X86HwPhases, X86HwRules1, m, line)
      b == IF {"intel", "amd"} \subseteq a.bits
           THEN Advance(X86HwPhases, a, "BothVendorsVerified") ELSE a
      c == Summaries(Processed(X86HwPhases, X86HwRules2, b, line), line)
      d == IF Acked(c) /\ Acked2(c)
           THEN Advance(X86HwPhases, c, "EptNptInvalidationsVerified") ELSE c
      e == PairsJudged(Processed(X86HwPhases, X86HwRules3, d, line))
  IN IF "workaround" \in line THEN Revoke(m, "none_accepted")
     ELSE IF X86HwPasses(e) THEN [e EXCEPT !.phase = "GatePassed"] ELSE e

(* --------------------------- application compatibility --------------------------- *)

CompatPhases == <<"NotStarted", "HarnessReady", "ApksInstalled",
  "SmokeTestsRunning", "BugsTriaged", "GatePassed">>

(* Only the first of these in a line counts.                               *)
CompatOrder == <<"installed", "pass", "attest", "fail", "crashed", "bugs_resolved",
                 "complete", "gate_pass">>

Tested(m, counter) == Advance(CompatPhases, Bump(m, counter), "SmokeTestsRunning")
NoTimeouts(m) == [m EXCEPT !.n.timeouts = 0]

CompatResult(m, sig) ==
  CASE sig = "installed" ->
         IF Earlier(CompatPhases, m.phase, "ApksInstalled")
         THEN NoTimeouts([m EXCEPT !.phase = "ApksInstalled"]) ELSE m
    [] sig = "pass" -> NoTimeouts(Tested(m, "passing"))
    [] sig = "attest" -> NoTimeouts(Tested(m, "attestation"))
    [] sig = "fail" -> Tested(m, "failing")
    [] sig = "crashed" -> Bump(m, "timeouts")
    [] sig = "bugs_resolved" ->
         Advance(CompatPhases, Grant(m, "bugs_resolved"), "BugsTriaged")
    [] sig = "complete" -> Advance(CompatPhases, m, "BugsTriaged")
    [] sig = "gate_pass" -> [Grant(m, "gate_passed") EXCEPT !.phase = "GatePassed"]
    [] OTHER -> m

CompatProcess(m, line) ==
  LET sig == FirstIn(CompatOrder, line, "none")
      a == IF "user" \in line /\ sig # "installed" THEN Grant(m, "user") ELSE m
  IN CompatResult(a, sig)

(* The pass rate leaves out what only attestation keeps from running.      *)
ObservedRate(m) ==
  LET judged == m.n.passing + m.n.failing IN
  IF judged = 0 THEN 0 ELSE (m.n.passing * 1000) \div judged

CompatPasses(m) ==
  ObservedRate(m) >= PassRate /\ {"bugs_resolved", "user"} \subseteq m.bits
should_abort(m) == m.n.timeouts >= MonTimeouts

(* --------------------------------- steps --------------------------------- *)

Signatures(kind) ==
  CASE kind = "userspace" ->
         {"zygote", "home", "settings", "user", "hals", "zygote_killed", "avc_denied",
          "smmu_fault"}
    [] kind = "android_x86" -> {"vulkan", "hwc", "home", "glmark2", "nproc", "avc_denied1"}
    [] kind = "adreno" -> {"drm", "gralloc", "hwc", "vulkan", "compositing"}
    [] kind = "bridge" ->
         {"handshake", "sensor", "identity", "toggled_on", "toggled_off", "gap_free"}
    [] kind = "sensors" -> {"accel", "gyro", "mag", "no_sim"}
    [] kind = "x86_hw" ->
         {"intel_vtx", "ept_done", "npt_done", "boot_intel", "boot_amd", "workaround"}
    [] kind = "compat" -> {CompatOrder[i] : i \in DOMAIN CompatOrder} \cup {"user"}

Gpus == [id : {"nvidia", "amd", "intel", "other"}, display : BOOLEAN,
         subclass : {"vga", "3d", "other"}]

MonOf(k) ==
  /\ mon = New(k, "NotStarted", {})
  /\ seen = << >>
MonInit == \E k \in MonitorKinds : MonOf(k)

Unstarted == mon.bits = {} /\ mon.phase = "NotStarted" /\ mon.failure = "none"
Start(phase, bits) == mon' = [mon EXCEPT !.phase = phase, !.bits = bits]
Refused(why) == mon' = [mon EXCEPT !.failure = why]

(* A configuration is valid or names one thing that is wrong; a refused    *)
(* one leaves no monitor.                                                  *)
init_userspace_boot_diagnostics(valid) ==
  /\ mon.kind = "userspace"
  /\ IF valid THEN Start("KernelHandoff", {}) ELSE Refused("config")

init_android_x86_userspace(valid, gpu) ==
  /\ mon.kind = "android_x86"
  /\ LET result == AndroidX86Start(valid, gpu) IN
       IF result = "Ok" THEN Start("IcdSelected", {"no_software", "user"})
       ELSE Refused(result)

init_adreno_render_pipeline(valid) ==
  /\ mon.kind = "adreno"
  /\ IF valid THEN Start("NotStarted", {"started"}) ELSE Refused("config")

init_phone_bridge(valid) ==
  /\ mon.kind = "bridge"
  /\ IF valid THEN Start("UsbReady", {}) ELSE Refused("config")

init_virtual_sensors_and_modem(valid) ==
  /\ mon.kind = "sensors"
  /\ IF valid THEN Start("HvcRegistered", {}) ELSE Refused("config")

init_x86_hw_validation(valid) ==
  /\ mon.kind = "x86_hw"
  /\ IF valid THEN Start("FexModeConfirmed", X86HwStart) ELSE Refused("config")

init_app_compat_validation(valid) ==
  /\ mon.kind = "compat"
  /\ IF valid THEN Start("NotStarted", {"started"}) ELSE Refused("config")

Process(m, line) ==
  CASE m.kind = "userspace" -> UserspaceProcess(m, line)
    [] m.kind = "android_x86" -> AndroidX86Process(m, line)
    [] m.kind = "adreno" -> AdrenoProcess(m, line)
    [] m.kind = "bridge" -> BridgeProcess(m, line)
    [] m.kind = "sensors" -> SensorProcess(m, line)
    [] m.kind = "x86_hw" -> X86HwProcess(m, line)
    [] m.kind = "compat" -> CompatProcess(m, line)

Started == mon.phase # "NotStarted" \/ mon.bits # {}
Bounded == \A c \in DOMAIN NoCounts : mon'.n[c] <= MonCount

process_line(line) ==
  /\ mon' = Process(mon, line)
  /\ seen' = LET new == line \ Sighted IN
              CASE new = {} -> seen
                [] new # {} /\ mon.kind \in {"android_x86", "bridge"} -> Append(seen, new)
                [] OTHER -> <<Sighted \cup new>>

(* Calls of the monitor's owner: the benchmark and the video of Adreno's   *)
(* gate, the compatibility harness, a mapping change of the x86 tiers.     *)
SetBit(bit) ==
  /\ mon.kind = "adreno"
  /\ mon' = Grant(mon, bit)
  /\ seen' = seen

mark_harness_ready ==
  /\ mon.kind = "compat" /\ mon.phase = "NotStarted"
  /\ mon' = [mon EXCEPT !.phase = "HarnessReady"]
  /\ seen' = seen

record(counter) ==
  /\ mon.kind = "x86_hw"
  /\ counter = "acks" => mon.n.acks < mon.n.changes
  /\ counter = "acks2" => mon.n.acks2 < mon.n.changes2
  /\ mon' = Bump(mon, counter)
  /\ seen' = seen

MonStart(valid) ==
  \/ init_userspace_boot_diagnostics(valid)
  \/ \E gpu \in Gpus : init_android_x86_userspace(valid, gpu)
  \/ init_adreno_render_pipeline(valid)
  \/ init_phone_bridge(valid)
  \/ init_virtual_sensors_and_modem(valid)
  \/ init_x86_hw_validation(valid)
  \/ init_app_compat_validation(valid)

MonNext ==
  \/ Unstarted /\ seen' = seen /\ \E valid \in BOOLEAN : MonStart(valid)
  \/ /\ Started
     /\ \/ \E line \in LinesOf(Signatures(mon.kind), MonLine) : process_line(line)
        \/ \E bit \in {"glmark2", "youtube"} : SetBit(bit)
        \/ mark_harness_ready
        \/ \E c \in {"changes", "acks", "changes2", "acks2"} : record(c)
     /\ Bounded

MonSpec == MonInit /\ [][MonNext]_monVars

-------------------------------------------------------------------------------

(* No gate passes without its lines on the console, and a gate that has    *)
(* had its lines passes, in whatever order they came; the exceptions are   *)
(* the code's own.  x86 graphics counts Vulkan only if it appears no later *)
(* than the composer and the home screen, and the bridge wants its toggle  *)
(* off after on.  Validation on hardware fails for good once a workaround  *)
(* was accepted, and must pass only when no mapping change was recorded    *)
(* that could still wait for its acknowledgement.  Compatibility is stated *)
(* one way: its gate also needs a pass rate.                               *)
(* The phase GatePassed is the gate's for x86 graphics, bridge and sensors.*)
(* It is kept on hardware by a workaround line that takes the gate back,   *)
(* and for compatibility it only repeats a line of the harness: a monitor  *)
(* whose gate fails can be in it, against app_compat.rs:773.  The line     *)
(* user may be that of a userdebug build, against userspace_boot.rs:699.   *)
NotAfter(first, sigs) == \A s \in sigs \cap Sighted : Sighting(first) <= Sighting(s)

GateIsEvidence ==
  CASE mon.kind = "userspace" ->
         UserspacePasses(mon) <=> {"home", "settings", "user"} \subseteq Sighted
    [] mon.kind = "android_x86" /\ Started ->
         /\ AndroidX86Passes(mon) <=>
              /\ {"home", "glmark2", "nproc", "vulkan"} \subseteq Sighted
              /\ NotAfter("vulkan", {"hwc", "home"})
         /\ mon.phase = "GatePassed" <=> AndroidX86Passes(mon)
    [] mon.kind = "adreno" ->
         /\ "vulkan" \in mon.bits <=> "vulkan" \in Sighted
         /\ mon.phase = "GatePassed" => AdrenoPasses(mon)
    [] mon.kind = "bridge" ->
         LET lines == {"toggled_on", "toggled_off", "gap_free", "identity"} IN
         /\ BridgePasses(mon) => lines \subseteq Sighted
         /\ lines \subseteq Sighted /\ NotAfter("toggled_on", {"toggled_off"}) => BridgePasses(mon)
         /\ mon.phase = "GatePassed" <=> BridgePasses(mon)
    [] mon.kind = "sensors" ->
         mon.phase = "GatePassed" <=> SensorBits \cup {"no_sim"} \subseteq Sighted
    [] mon.kind = "x86_hw" /\ Started ->
         LET shown == /\ {"boot_intel", "boot_amd"} \subseteq Sighted
                      /\ "workaround" \notin Sighted IN
         /\ X86HwPasses(mon) => shown /\ mon.phase = "GatePassed"
         /\ shown /\ mon.n.changes = 0 /\ mon.n.changes2 = 0 => X86HwPasses(mon)
         /\ mon.phase = "GatePassed" => X86HwPasses(mon) \/ "workaround" \in Sighted
    [] mon.kind = "compat" ->
         /\ CompatPasses(mon) => {"pass", "bugs_resolved", "user"} \subseteq Sighted
         /\ mon.phase = "GatePassed" => "gate_pass" \in Sighted
    [] OTHER -> TRUE

(* The phases that are documented to advance only do so.  The other two    *)
(* fall back within bounds: a restarted Zygote takes the home screen's     *)
(* phase back no further than ZygoteReady, and the bridge never leaves     *)
(* GatePassed.                                                             *)
PhasesOf(kind) ==
  CASE kind = "userspace" -> UserspacePhases
    [] kind = "android_x86" -> AndroidX86Phases
    [] kind = "adreno" -> AdrenoPhases
    [] kind = "bridge" -> BridgePhases
    [] kind = "sensors" -> SensorPhases
    [] kind = "x86_hw" -> X86HwPhases
    [] kind = "compat" -> CompatPhases

FallsBackTo(kind) ==
  CASE kind = "userspace" -> "ZygoteReady" [] kind = "bridge" -> "SensorStreamActive"

PhaseKept ==
  LET phases == PhasesOf(mon.kind) IN
  Earlier(phases, mon'.phase, mon.phase) =>
    /\ mon.kind \in {"userspace", "bridge"} /\ mon.phase # "GatePassed"
    /\ ~ Earlier(phases, mon'.phase, FallsBackTo(mon.kind))

PhasesAdvance == [][Started => PhaseKept]_monVars
===============================================================================
