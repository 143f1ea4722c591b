------------------------------ MODULE SmpBringup ------------------------------
(***************************************************************************)
(* Static CPU partitioning and multi-core bring-up (cpu.rs, smp.rs and the *)
(* SMP section of main.rs).  The primary core registers every core, wakes  *)
(* the secondaries into EL2 and ERETs to the guest kernel.  A secondary    *)
(* configures itself, marks itself Running and parks on its spin-table     *)
(* slot.  A guest core that issues PSCI CPU_ON by HVC or SMC runs the      *)
(* handler on the core it is on, concurrently with every other core: the   *)
(* partition table is a static mut without a lock, so each access is a     *)
(* step of its own.                                                        *)
(*                                                                         *)
(* Cores are numbered by their MPIDR.Aff0, which is the order in which     *)
(* main.rs registers them.                                                 *)
(***************************************************************************)
EXTENDS Integers

CONSTANTS
  NumCores,           \* SMP_CORE_COUNT
  AndroidCoreCount,   \* the first cores registered belong to Android
  MaxSecondaryCores,  \* slots in SPIN_TABLE
  Payloads,           \* what distinguishes two CPU_ON calls of one core
  GuestCalls,         \* the PSCI functions the guest kernel uses
  SerialisedCallers,  \* TRUE: the guest issues one CPU_ON at a time
  FirmwareMayFail,    \* TRUE: the physical CPU_ON of a core may fail
  Parked              \* entry_point = 0

Cores == 0 .. NumCores - 1
Primary == 0
Secondaries == 1 .. NumCores - 1
StartRequests == [by : Cores, n : Payloads]
SlotWords == StartRequests \cup {Parked}

ASSUME CoreAssumption ==
  /\ NumCores \in Nat \ {0}
  /\ AndroidCoreCount \in Nat \ {0}
  /\ MaxSecondaryCores \in Nat
  /\ SerialisedCallers \in BOOLEAN
  /\ FirmwareMayFail \in BOOLEAN
  /\ Parked \notin StartRequests

VARIABLES
  table,    \* CorePartition.cores[c].state
  next,     \* the next core main.rs wakes
  s2root,   \* S2_ROOT_PA: "zero" until set_s2_root_pa
  vttbr,    \* VTTBR_EL2 of each core
  corePc,       \* what each core executes
  event,    \* the WFE event register of each core
  ep, ctx,  \* SPIN_TABLE[c - 1].entry_point and .context_id
  psciCall,     \* the arguments of the CPU_ON being handled on each core
  reg       \* ELR_EL2 and x0 a secondary has loaded from its slot

smpVars == <<table, next, s2root, vttbr, corePc, event, ep, ctx, psciCall, reg>>

(* register_core: the first ANDROID_CORE_COUNT cores belong to Android.    *)
GuestOf(c) == IF c < AndroidCoreCount THEN "Android" ELSE "Windows"
SameGuest(c, d) == GuestOf(c) = GuestOf(d)

(* wake_secondary_core and aether_secondary_core_main both refuse a core   *)
(* without a slot.                                                         *)
HasSlot(c) == c \in 1 .. MaxSecondaryCores

BootPcs == {"register", "publish", "wake"}
ParkPcs == {"off", "init", "mark", "load", "wfe", "loadctx", "stuck"}
HandlerPcs == {"on_write", "on_ctx", "on_ep", "on_sev"}
Pcs == BootPcs \cup ParkPcs \cup HandlerPcs \cup {"el1", "halted"}

States == {"Unknown", "Off", "Running", "Pending"}

NotCalled == [target |-> Primary, entry |-> Parked, context |-> Parked]

SmpInit ==
  /\ table = [c \in Cores |-> "Unknown"]
  /\ next = 1
  /\ s2root = "zero"
  /\ vttbr = [c \in Cores |-> IF c = Primary THEN "root" ELSE "zero"]
  /\ corePc = [c \in Cores |-> IF c = Primary THEN "register" ELSE "off"]
  /\ event = [c \in Cores |-> FALSE]
  /\ ep = [c \in Cores |-> Parked]
  /\ ctx = [c \in Cores |-> Parked]
  /\ psciCall = [c \in Cores |-> NotCalled]
  /\ reg = [c \in Cores |-> [elr |-> Parked, x0 |-> Parked]]

Goto(c, from, to) == corePc[c] = from /\ corePc' = [corePc EXCEPT ![c] = to]

------------------------------------------------------------------------------
(* The primary core: main.rs after configure_el2_virt.                     *)

(* Mutant: the Stage 2 root is not published before the secondaries wake.  *)
WakeBeforePublish ==
  /\ Goto(Primary, "register", "wake")
  /\ table' = [c \in Cores |-> "Off"]
  /\ UNCHANGED <<next, s2root, vttbr, event, ep, ctx, psciCall, reg>>

RegisterCores ==
  /\ Goto(Primary, "register", "publish")
  /\ table' = [c \in Cores |-> "Off"]
  /\ UNCHANGED <<next, s2root, vttbr, event, ep, ctx, psciCall, reg>>

Publish ==
  /\ Goto(Primary, "publish", "wake")
  /\ s2root' = "root"
  /\ UNCHANGED <<table, next, vttbr, event, ep, ctx, psciCall, reg>>

(* psci_cpu_on_hvc: the return code is printed and otherwise ignored.      *)
WakeSecondary ==
  /\ corePc[Primary] = "wake"
  /\ next < NumCores
  /\ next' = next + 1
  /\ \/ corePc' = [corePc EXCEPT ![next] = "init"]
     \/ FirmwareMayFail /\ UNCHANGED corePc
  /\ UNCHANGED <<table, s2root, vttbr, event, ep, ctx, psciCall, reg>>

LaunchGuest ==
  /\ next = NumCores
  /\ Goto(Primary, "wake", "el1")
  /\ UNCHANGED <<table, next, s2root, vttbr, event, ep, ctx, psciCall, reg>>

------------------------------------------------------------------------------
(* A secondary core: aether_secondary_core_main.                           *)

ConfigureEl2(c) ==
  /\ Goto(c, "init", "mark")
  /\ vttbr' = [vttbr EXCEPT ![c] = s2root]
  /\ UNCHANGED <<table, next, s2root, event, ep, ctx, psciCall, reg>>

SetRunning(c) ==
  /\ Goto(c, "mark", IF HasSlot(c) THEN "load" ELSE "stuck")
  /\ table' = [table EXCEPT ![c] = "Running"]
  /\ UNCHANGED <<next, s2root, vttbr, event, ep, ctx, psciCall, reg>>

LoadEntry(c) ==
  /\ Goto(c, "load", IF ep[c] = Parked THEN "wfe" ELSE "loadctx")
  /\ reg' = [reg EXCEPT ![c].elr = ep[c]]
  /\ UNCHANGED <<table, next, s2root, vttbr, event, ep, ctx, psciCall>>

LoadContext(c) ==
  /\ Goto(c, "loadctx", "el1")
  /\ reg' = [reg EXCEPT ![c].x0 = ctx[c]]
  /\ UNCHANGED <<table, next, s2root, vttbr, event, ep, ctx, psciCall>>

(* WFE returns at once, and clears the event register, if it is set.       *)
WaitForEvent(c) ==
  /\ Goto(c, "wfe", "load")
  /\ event[c]
  /\ event' = [event EXCEPT ![c] = FALSE]
  /\ UNCHANGED <<table, next, s2root, vttbr, ep, ctx, psciCall, reg>>

------------------------------------------------------------------------------
(* PSCI calls of a guest core: handle_hvc and handle_smc lead to           *)
(* handle_psci_call, and the vector epilogue ERETs to the caller.          *)

(* Mutant: cpu_on without the ownership check.                             *)
AnswerAnyGuest(c, t) ==
  CASE t \notin Cores -> "INVALID_PARAMETERS"
    [] t \in Cores /\ table[t] = "Running" -> "ALREADY_ON"
    [] t \in Cores /\ table[t] = "Pending" -> "ON_PENDING"
    [] OTHER -> "SUCCESS"

(* Mutant: cpu_on accepts a core whose start is pending.                   *)
AnswerPendingAgain(c, t) ==
  CASE t \notin Cores -> "INVALID_PARAMETERS"
    [] t \in Cores /\ ~SameGuest(c, t) -> "DENIED"
    [] t \in Cores /\ SameGuest(c, t) /\ table[t] = "Running" -> "ALREADY_ON"
    [] OTHER -> "SUCCESS"

(* CorePartition::cpu_on up to the match on target.state.                  *)
CpuOnAnswer(c, t) ==
  CASE t \notin Cores -> "INVALID_PARAMETERS"
    [] t \in Cores /\ ~SameGuest(c, t) -> "DENIED"
    [] t \in Cores /\ SameGuest(c, t) /\ table[t] = "Running" -> "ALREADY_ON"
    [] t \in Cores /\ SameGuest(c, t) /\ table[t] = "Pending" -> "ON_PENDING"
    [] OTHER -> "SUCCESS"

(* The guest passes an entry point (0 is a legal address) and a context.   *)
(* A refused call answers in x0 and changes nothing.                       *)
CpuOn(c, t, r, entry) ==
  /\ "CPU_ON" \in GuestCalls
  /\ SerialisedCallers => \A d \in Cores : corePc[d] \notin HandlerPcs
  /\ Goto(c, "el1", "on_write")
  /\ CpuOnAnswer(c, t) = "SUCCESS"
  /\ r.by = c
  /\ entry \in {r, Parked}
  /\ psciCall' = [psciCall EXCEPT ![c] = [target |-> t, entry |-> entry, context |-> r]]
  /\ UNCHANGED <<table, next, s2root, vttbr, event, ep, ctx, reg>>

(* Mutant: the target is not marked as pending.                            *)
AcceptUnmarked(c) ==
  /\ Goto(c, "on_write", IF HasSlot(psciCall[c].target) THEN "on_ctx" ELSE "el1")
  /\ psciCall' = IF HasSlot(psciCall[c].target) THEN psciCall ELSE [psciCall EXCEPT ![c] = NotCalled]
  /\ UNCHANGED <<table, next, s2root, vttbr, event, ep, ctx, reg>>

(* target.state = PendingStartup; a target without a slot is not woken.    *)
AcceptCpuOn(c) ==
  /\ Goto(c, "on_write", IF HasSlot(psciCall[c].target) THEN "on_ctx" ELSE "el1")
  /\ table' = [table EXCEPT ![psciCall[c].target] = "Pending"]
  /\ psciCall' = IF HasSlot(psciCall[c].target) THEN psciCall ELSE [psciCall EXCEPT ![c] = NotCalled]
  /\ UNCHANGED <<next, s2root, vttbr, event, ep, ctx, reg>>

StoreContext(c) ==
  /\ Goto(c, "on_ctx", "on_ep")
  /\ ctx' = [ctx EXCEPT ![psciCall[c].target] = psciCall[c].context]
  /\ UNCHANGED <<table, next, s2root, vttbr, event, ep, psciCall, reg>>

StoreEntry(c) ==
  /\ Goto(c, "on_ep", "on_sev")
  /\ ep' = [ep EXCEPT ![psciCall[c].target] = psciCall[c].entry]
  /\ UNCHANGED <<table, next, s2root, vttbr, event, ctx, psciCall, reg>>

(* Mutant: the handler returns without the SEV.                            *)
SkipEvent(c) ==
  /\ Goto(c, "on_sev", "el1")
  /\ psciCall' = [psciCall EXCEPT ![c] = NotCalled]
  /\ UNCHANGED <<table, next, s2root, vttbr, event, ep, ctx, reg>>

SendEvent(c) ==
  /\ Goto(c, "on_sev", "el1")
  /\ event' = [d \in Cores |-> TRUE]
  /\ psciCall' = [psciCall EXCEPT ![c] = NotCalled]
  /\ UNCHANGED <<table, next, s2root, vttbr, ep, ctx, reg>>

(* The epilogue of the vector table returns to the guest after CPU_OFF too.*)
CpuOff(c) ==
  /\ "CPU_OFF" \in GuestCalls
  /\ corePc[c] = "el1"
  /\ table' = [table EXCEPT ![c] = "Off"]
  /\ UNCHANGED <<next, s2root, vttbr, corePc, event, ep, ctx, psciCall, reg>>

(* AFFINITY_INFO reads the table and changes nothing.                     *)
AffinityInfoAnswer(t) ==
  CASE t \notin Cores -> "INVALID_PARAMETERS"
    [] t \in Cores /\ table[t] = "Running" -> "ON"
    [] t \in Cores /\ table[t] = "Pending" -> "ON_PENDING"
    [] OTHER -> "OFF"

(* SYSTEM_OFF and SYSTEM_RESET: loop {} on the calling core.               *)
SystemOff(c) ==
  /\ "SYSTEM_OFF" \in GuestCalls
  /\ Goto(c, "el1", "halted")
  /\ UNCHANGED <<table, next, s2root, vttbr, event, ep, ctx, psciCall, reg>>

------------------------------------------------------------------------------
BringUp == RegisterCores \/ Publish \/ WakeSecondary \/ LaunchGuest

Secondary(c) ==
  \/ ConfigureEl2(c)
  \/ SetRunning(c)
  \/ LoadEntry(c)
  \/ LoadContext(c)
  \/ WaitForEvent(c)

Handler(c) ==
  \/ AcceptCpuOn(c)
  \/ StoreContext(c)
  \/ StoreEntry(c)
  \/ SendEvent(c)

(* NumCores stands for an affinity that no core has.                       *)
GuestCall(c) ==
  \/ \E t \in 0 .. NumCores, r \in StartRequests, e \in SlotWords : CpuOn(c, t, r, e)
  \/ CpuOff(c)
  \/ SystemOff(c)

SmpNext ==
  \/ BringUp
  \/ \E c \in Cores : Secondary(c) \/ Handler(c) \/ GuestCall(c)

SmpSpec == SmpInit /\ [][SmpNext]_smpVars

(* EL2 code runs to completion on every core; the guest owes nothing.      *)
El2Fairness ==
  /\ WF_smpVars(BringUp)
  /\ \A c \in Cores : WF_smpVars(Secondary(c)) /\ WF_smpVars(Handler(c))

(* The kernel keeps asking for each of its cores, as smp bring-up does.    *)
KernelFairness ==
  \A t \in Secondaries :
    SF_smpVars(\E r \in StartRequests : CpuOn(Primary, t, r, r))

FairSpec == SmpSpec /\ El2Fairness
FairKernelSpec == SmpSpec /\ El2Fairness /\ KernelFairness

------------------------------------------------------------------------------
SmpTypes ==
  /\ table \in [Cores -> States]
  /\ next \in 1 .. NumCores
  /\ s2root \in {"zero", "root"}
  /\ vttbr \in [Cores -> {"zero", "root"}]
  /\ corePc \in [Cores -> Pcs]
  /\ event \in [Cores -> BOOLEAN]
  /\ ep \in [Cores -> SlotWords]
  /\ ctx \in [Cores -> SlotWords]
  /\ psciCall \in [Cores -> [target : Cores, entry : SlotWords, context : SlotWords]]
  /\ reg \in [Cores -> [elr : SlotWords, x0 : SlotWords]]

InGuest(c) == corePc[c] \in HandlerPcs \cup {"el1", "halted"}

(* A secondary that executes guest code was started by a CPU_ON of a core  *)
(* of the partition that owns it, whatever the other partition calls: the  *)
(* ownership check of cpu_on holds through the spin table to the ERET.     *)
NoCrossPartitionStart ==
  \A c \in Secondaries : InGuest(c) =>
    /\ reg[c].elr \in StartRequests
    /\ SameGuest(reg[c].elr.by, c)

(* No core reaches EL1 before it has loaded the Stage 2 root, although the *)
(* secondaries read it from a global the primary stores while they boot.   *)
GuestRunsUnderStage2 == \A c \in Cores : InGuest(c) => vttbr[c] = "root"

(* A secondary enters the guest with the entry point and the context id of *)
(* one and the same CPU_ON call (memory ordering protocol, smp.rs).        *)
EntryContextPaired ==
  \A c \in Secondaries : InGuest(c) => reg[c].x0 = reg[c].elr

(* A published entry point is never missed: the store-DSB-SEV sequence and *)
(* the load-WFE loop leave no window in which the core sleeps forever.     *)
ArmedCoreStarts ==
  \A c \in Secondaries :
    (ep[c] # Parked /\ corePc[c] \in {"init", "mark", "load", "wfe"}) ~> InGuest(c)

(* The start of a core, seen through its slot and its registers.           *)
startView ==
  [c \in Secondaries |->
     IF InGuest(c)
       THEN [phase |-> "up", req |-> reg[c].elr]
       ELSE IF ep[c] # Parked
              THEN [phase |-> "requested", req |-> ep[c]]
              ELSE [phase |-> "down"]]

Starting == INSTANCE CoreStart WITH start <- startView, Requests <- StartRequests

(* With serialised callers the spin table implements CoreStart: a request  *)
(* once recorded is the one the core starts with.                          *)
ImplementsCoreStart == Starting!Spec

------------------------------------------------------------------------------
(* What a comment of the source says and the code does not do.             *)

(* "When Android's kernel issues PSCI CPU_ON via HVC ... the parked        *)
(* secondary core wakes, reads the entry point, and ERets to EL1"          *)
RequestedCoreStarts == \A c \in Secondaries : <>InGuest(c)
==============================================================================
