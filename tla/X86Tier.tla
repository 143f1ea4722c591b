--------------------------------- MODULE X86Tier ---------------------------------
(***************************************************************************)
(* The x86-64 tier: VT-x (vtx.rs) and SVM (svm.rs) from detection to the   *)
(* exits of the first guest.  Both are the same life: detect, switch the   *)
(* mode on, fill the control structure, activate the second-stage tables,  *)
(* then handle exits.  The processor is external: an instruction of the    *)
(* mode can fail, firmware can have locked it, and a guest instruction     *)
(* that is intercepted leaves the guest at that instruction.               *)
(***************************************************************************)
EXTENDS Naturals, Sequences, FiniteSets

CONSTANTS
  X86Processors,  \* see Processors
  X86Configs,     \* addresses are kept as their offset in a page
  MaxExits        \* bound on the exits of a run

(* A processor: which tier, what detection finds, the lock the firmware    *)
(* left, the instructions of the mode that fail on it.                     *)
Processors ==
  [flavor : {"vtx", "svm"}, vendor : {"intel", "amd", "other"}, supported : BOOLEAN, npt : BOOLEAN,
   asids : Nat, lock : {"open", "locked on", "locked off"}, on : BOOLEAN, current : BOOLEAN,
   fails : SUBSET STRING]

ASSUME X86Assumption ==
  /\ X86Processors \subseteq Processors
  /\ \A c \in X86Configs : c.entry \in Nat

VARIABLES
  x86cpu,   \* processor: mode on, current structure, translation cached
  x86,      \* VtxFoundationState or SvmFoundationState, with the step of init
  guestx    \* the guest: RIP, the instruction it is at, its exits

x86vars == <<x86cpu, x86, guestx>>

X86Gate == {"hlt_handled", "entry_succeeded", "mode_on", "second_stage"}

(* ------------------------------- configuration ------------------------------- *)

(* VmxonRegion, VmcsRegion and tables, or VMCB, host save area and tables. *)
x86_validate(c) == c.region % 4096 = 0 /\ c.control % 4096 = 0 /\ c.tables % 4096 = 0 /\ c.ram > 0

(* The address of the tables with what the processor needs beside it: for  *)
(* EPT the memory type 6 and the walk length 3, shifted.                   *)
Eptp(tables) == (tables - (tables % 4096)) + 6 + 8 * 3
MappedLeaf(pa, device) == [pa |-> pa - (pa % 4096), rights |-> "RWX", type |-> IF device THEN "UC" ELSE "WB"]

(* The state of the guest that the structure is filled with.               *)
LongMode(entry) == [paging |-> TRUE, longmode |-> TRUE, cs |-> 8, csBase |-> 0, ds |-> 16, rip |-> entry]
RealMode(entry) ==
  LET cs == (entry \div 16) % 65536
  IN [paging |-> FALSE, longmode |-> FALSE, cs |-> cs, csBase |-> cs * 16, ds |-> 0, rip |-> entry]
GuestState(c) == IF c.guest64 THEN LongMode(c.entry) ELSE RealMode(c.entry)

(* What makes the guest exit; NMIs on VT-x besides.                        *)
vtx_exec_controls == {"hlt", "rdmsr", "cpuid"}   \* CPUID exits whatever is written
svm_intercepts == {"hlt", "cpuid", "vmmcall", "shutdown"}

(* -------------------------------- bringing it up -------------------------------- *)

X86Of(p, c) ==
  /\ x86cpu = [p EXCEPT !.on = FALSE]
  /\ x86 = [cfg |-> c, at |-> "validate", err |-> "none", phase |-> "NotStarted", gate |-> {},
            fault |-> FALSE, written |-> {}, guest |-> << >>, eptp |-> 0, flushed |-> FALSE]
  /\ guestx = [rip |-> c.entry, insn |-> "none", exits |-> << >>]

X86Init == \E p \in X86Processors, c \in X86Configs : X86Of(p, c)

X86At(s) == x86.at = s
Vtx == x86cpu.flavor = "vtx"
Instruction(i) == i \notin x86cpu.fails
X86Fails(e) == x86' = [x86 EXCEPT !.at = "failed", !.err = e] /\ UNCHANGED <<x86cpu, guestx>>
X86Goes(next) == x86' = next /\ UNCHANGED <<x86cpu, guestx>>

x86_detect ==
  /\ X86At("validate")
  /\ CASE ~ x86_validate(x86.cfg) -> X86Fails("Invalid")
       [] x86_validate(x86.cfg) /\ ~ Vtx /\ x86cpu.vendor # "amd" -> X86Fails("NotAmdVendor")
       [] x86_validate(x86.cfg) /\ (Vtx \/ x86cpu.vendor = "amd") /\ ~ x86cpu.supported ->
            X86Fails("NotSupported")
       [] x86_validate(x86.cfg) /\ ~ Vtx /\ x86cpu.vendor = "amd" /\ x86cpu.supported
            /\ (~ x86cpu.npt \/ x86cpu.asids < 2) -> X86Fails("NptNotSupported")
       [] OTHER -> X86Goes([x86 EXCEPT !.at = "enable", !.phase = "Detected"])

(* IA32_FEATURE_CONTROL: locked without the right bit it cannot be set any *)
(* more; otherwise both bits end up set.  VM_CR.SVMDIS for SVM.            *)
enable_and_lock ==
  /\ X86At("enable")
  /\ IF x86cpu.lock = "locked off" THEN X86Fails("Locked")
     ELSE /\ x86' = [x86 EXCEPT !.at = "on", !.phase = IF Vtx THEN "FeatureControlSet" ELSE @]
          /\ x86cpu' = [x86cpu EXCEPT !.lock = IF Vtx THEN "locked on" ELSE @]
          /\ UNCHANGED guestx

(* CR4.VMXE and VMXON; EFER.SVME and the host save area.                   *)
mode_on ==
  /\ X86At("on")
  /\ IF Vtx /\ ~ Instruction("vmxon") THEN X86Fails("VmxonFailed")
     ELSE /\ x86' = [x86 EXCEPT !.at = "load", !.gate = @ \cup {"mode_on"},
                                !.phase = IF Vtx THEN "VmxonComplete" ELSE "HsaveConfigured"]
          /\ x86cpu' = [x86cpu EXCEPT !.on = TRUE]
          /\ UNCHANGED guestx

(* VMCLEAR and VMPTRLD: the writes go to the current structure.  The VMCB  *)
(* is memory and needs neither.                                            *)
load_vmcs ==
  /\ X86At("load")
  /\ CASE Vtx /\ ~ Instruction("vmclear") -> X86Fails("VmclearFailed")
       [] Vtx /\ Instruction("vmclear") /\ ~ Instruction("vmptrld") -> X86Fails("VmptrldFailed")
       [] OTHER -> /\ x86' = [x86 EXCEPT !.at = "host", !.phase = IF Vtx THEN "VmcsInitialized" ELSE @,
                                         !.eptp = IF Vtx THEN Eptp(x86.cfg.tables) ELSE x86.cfg.tables]
                   /\ x86cpu' = [x86cpu EXCEPT !.current = TRUE]
                   /\ UNCHANGED guestx

(* Every VMWRITE of a group is made and their results are and-ed.          *)
write_host_state ==
  /\ X86At("host")
  /\ IF Vtx /\ ~ Instruction("vmwrite host") THEN X86Fails("VmwriteHostStateFailed")
     ELSE X86Goes([x86 EXCEPT !.at = "guest", !.written = @ \cup {"host"}])

write_guest_state ==
  /\ X86At("guest")
  /\ IF Vtx /\ ~ Instruction("vmwrite guest") THEN X86Fails("VmwriteGuestStateFailed")
     ELSE X86Goes([x86 EXCEPT !.at = "controls", !.written = @ \cup {"guest"},
                              !.guest = <<GuestState(x86.cfg)>>])

write_exec_controls ==
  /\ X86At("controls")
  /\ IF Vtx /\ ~ Instruction("vmwrite controls") THEN X86Fails("VmwriteControlsFailed")
     ELSE X86Goes([x86 EXCEPT !.at = "flush", !.written = @ \cup {"controls"},
                              !.phase = IF Vtx THEN @ ELSE "VmcbInitialized"])

(* INVEPT; for the VMCB, nested paging on, ASID 1, everything dirty and a  *)
(* flush before the first entry.                                           *)
second_stage_active ==
  /\ X86At("flush")
  /\ X86Goes([x86 EXCEPT !.at = "ready", !.flushed = TRUE, !.gate = @ \cup {"second_stage"},
                         !.phase = IF Vtx THEN "EptActive" ELSE "NptActive"])

(* --------------------------------- the guest --------------------------------- *)

InsnLen == [hlt |-> 1, cpuid |-> 2, vmmcall |-> 3, rdmsr |-> 2, shutdown |-> 0, fault |-> 0, invalid |-> 0]
Intercepted == {"fault"} \cup (IF Vtx THEN vtx_exec_controls ELSE svm_intercepts \cup {"invalid"})

(* VMLAUNCH, VMRESUME or VMRUN, until an exit.  A guest that was left at   *)
(* an instruction executes it again.                                       *)
guest_exits(insn) ==
  /\ X86At("ready") /\ Len(guestx.exits) < MaxExits /\ insn \in Intercepted
  /\ guestx.insn \in {"none", insn}
  /\ guestx' = [guestx EXCEPT !.insn = insn, !.exits = Append(@, insn)]
  /\ x86' = [x86 EXCEPT !.at = "exit"]
  /\ UNCHANGED x86cpu

(* Mutant: every instruction is taken to be two bytes long.                *)
SkipsTwo(insn) == [guestx EXCEPT !.rip = @ + 2, !.insn = "none"]

(* The RIP after an instruction: the one the processor saved, if it saves  *)
(* it, or the length of the plain encoding.                                *)
Skipped(insn) == [guestx EXCEPT !.rip = @ + InsnLen[insn], !.insn = "none"]

(* handle_vm_exit.  Instructions it does not know are left where they are. *)
Handled(insn) ==
  IF Vtx THEN insn \in {"hlt", "cpuid"} ELSE insn \in {"hlt", "cpuid", "vmmcall"}
handle_vm_exit ==
  /\ X86At("exit")
  /\ LET insn == guestx.insn IN
     CASE Vtx /\ ~ Instruction("vmread") ->
            X86Goes([x86 EXCEPT !.at = "terminated"])
       [] (~ Vtx \/ Instruction("vmread")) /\ Handled(insn) ->
            /\ guestx' = Skipped(insn)
            /\ x86' = [x86 EXCEPT !.at = "ready",
                         !.gate = IF insn = "hlt" THEN @ \cup {"hlt_handled", "entry_succeeded"} ELSE @]
            /\ UNCHANGED x86cpu
       [] (~ Vtx \/ Instruction("vmread")) /\ insn = "fault" ->
            X86Goes([x86 EXCEPT !.at = "terminated", !.fault = TRUE])
       [] ~ Vtx /\ insn = "invalid" -> X86Goes([x86 EXCEPT !.at = "terminated"])
       [] OTHER -> X86Goes([x86 EXCEPT !.at = "ready"])

gate_passes == X86Gate \subseteq x86.gate /\ ~ x86.fault

X86Next ==
  \/ x86_detect \/ enable_and_lock \/ mode_on \/ load_vmcs
  \/ write_host_state \/ write_guest_state \/ write_exec_controls \/ second_stage_active
  \/ \E insn \in DOMAIN InsnLen : guest_exits(insn)
  \/ handle_vm_exit

X86Spec == X86Init /\ [][X86Next]_x86vars

-------------------------------------------------------------------------------

(* What the instructions that were handled take up between them.           *)
Times(exits, insn) == Cardinality({i \in DOMAIN exits : exits[i] = insn})
AdvancedBy(exits) ==
  LET Of(insn) == IF Handled(insn) THEN InsnLen[insn] * Times(exits, insn) ELSE 0
  IN Of("hlt") + Of("cpuid") + Of("vmmcall")

(* The gate is earned and can be lost: it passes only when the guest ran   *)
(* under second-stage translation, in the mode, out of a structure written *)
(* in full while it was current, halted at least once and never faulted in *)
(* that translation.  And the guest is where its exits have brought it:    *)
(* each instruction that was handled was skipped once, in full.            *)
X86GateEarned ==
  LET seen == {guestx.exits[i] : i \in DOMAIN guestx.exits}
      done == IF X86At("exit") \/ X86At("terminated") THEN SubSeq(guestx.exits, 1, Len(guestx.exits) - 1)
              ELSE guestx.exits
  IN /\ gate_passes =>
          /\ x86cpu.on /\ x86cpu.current /\ x86.flushed
          /\ x86.written = {"host", "guest", "controls"}
          /\ "hlt" \in seen /\ (x86.at # "exit" => "fault" \notin seen)
     /\ guestx.exits # << >> => x86.flushed /\ x86.guest = <<GuestState(x86.cfg)>>
     /\ guestx.rip = x86.cfg.entry + AdvancedBy(done)
===============================================================================
