---------------------------- MODULE DeviceAssign ----------------------------
(***************************************************************************)
(* Giving PCIe devices to guests during boot: assign_device_with_ecam      *)
(* (passthrough.rs, pcie_assignment.rs), assign_gpu_vfs (gpu_sriov.rs),    *)
(* assign_nic_vf (network_passthrough.rs) and assign_xhci_controller       *)
(* (usb_passthrough.rs).  Each is a sequence of steps that stops at its    *)
(* first error; nothing is undone.  They run one at a time on one core,    *)
(* before the SMMU is enabled, so a step is atomic.                        *)
(*                                                                         *)
(* The four pipelines write one SMMU stream table and the guests' Stage 2  *)
(* tables, but only the first consults PassthroughRegistry; the others     *)
(* record the owner in registries of their own, always Android.            *)
(***************************************************************************)
EXTENDS Integers, Sequences, FiniteSets, SequencesExt

CONSTANTS
  Requests,          \* the calls the boot sequence may make
  SMMU_MAX_STREAMS,  \* entries in the stream table
  RegistryCapacity,  \* bound: entries in a partition registry
  MaxPipelines       \* bound: calls made

GuestId == {"Android", "Windows"}
Unassigned == "unassigned"

StreamIDs == 0 .. SMMU_MAX_STREAMS - 1

(* The configuration of one call.  bars are the BARs scan_bars finds on    *)
(* the functions, in order; keys is what the registry compares: the PCI    *)
(* address, for a network card the MAC address.                            *)
Request ==
  [kind : {"device", "gpu", "nic", "usb"}, guest : GuestId,
   fns : Seq(STRING), bars : Seq(STRING), streams : Seq(Nat),
   window : STRING, keys : Seq(STRING)]

(* The kinds without a guest parameter are for Android; validate of        *)
(* UsbPassthroughConfig is the only one that looks at the stream ids.      *)
ASSUME RequestsAssumption ==
  /\ Requests \subseteq Request
  /\ \A r \in Requests : r.kind # "device" => r.guest = "Android"
  /\ \A r \in Requests : r.kind = "usb" => ToSet(r.streams) \subseteq StreamIDs
  /\ SMMU_MAX_STREAMS \in Nat /\ RegistryCapacity \in Nat /\ MaxPipelines \in Nat

Functions == UNION {ToSet(r.fns) : r \in Requests}
Windows   == {r.window : r \in Requests}
Regions   == Windows \cup UNION {ToSet(r.bars) : r \in Requests}
Keys      == UNION {ToSet(r.keys) : r \in Requests}

VARIABLES
  call,      \* the request in progress, NoCall between calls
  at,        \* its next step
  calls,     \* calls begun
  fatal,     \* the boot sequence has stopped: see Fatal
  slots,     \* PassthroughRegistry: the owner of each stream
  ste,       \* the stream table: the guest each word of an entry names
  region,    \* how much of each region a guest's Stage 2 table maps
  bme,       \* functions whose Bus Master bit these pipelines set
  ring,      \* who programmed the DMA state a function holds
  running,   \* controllers whose Run bit is set
  stale,     \* the DMA state of the function at hand predates this call
  assigned   \* owner records of the GPU, network and USB registries

bootvars == <<call, at, calls, fatal>>
vars == <<bootvars, slots, ste, region, bme, ring, running, stale, assigned>>

NoCall == [kind |-> "none"]

(* An all-zero entry aborts.  Of the eight words only word 2 (the VMID)    *)
(* and word 3 (the Stage 2 root) depend on the guest.                      *)
Abort == [vmid |-> Unassigned, s2ttb |-> Unassigned]
stage2_only(g) == [vmid |-> g, s2ttb |-> g]

Init ==
  /\ call = NoCall /\ at = 0 /\ calls = 0 /\ fatal = FALSE
  /\ slots = [s \in StreamIDs |-> Unassigned]
  /\ ste = [s \in StreamIDs |-> Abort]
  /\ region = [c \in GuestId \X Regions |-> "none"]
  /\ bme = {}
  /\ ring = [f \in Functions |->
               IF \E r \in Requests : r.kind \in {"device", "usb"} /\ f \in ToSet(r.fns)
               THEN "firmware" ELSE "none"]
  /\ running = {f \in Functions : \E r \in Requests : r.kind = "usb" /\ f \in ToSet(r.fns)}
  /\ stale = FALSE
  /\ assigned = [k \in Keys |-> Unassigned]

------------------------------------------------------------------------------
(* The order of the steps in each pipeline, once its configuration is      *)
(* validated.                                                              *)
assign_device_with_ecam ==
  <<"check_group", "trigger_flr", "map_bars", "write_stes", "commit_group",
    "map_ecam_window", "enable_bus_master">>

assign_gpu_vfs == <<"enable_vfs", "map_bars", "write_stes", "map_ecam_window", "register">>

assign_nic_vf ==
  <<"enable_vfs", "map_bars", "write_stes", "map_ecam_window", "enable_bus_master",
    "register">>

assign_xhci_controller ==
  <<"map_bars", "write_stes", "map_ecam_window", "enable_bus_master", "xhci_halt",
    "xhci_hcrst", "register">>

Steps ==
  [device |-> assign_device_with_ecam, gpu |-> assign_gpu_vfs,
   nic |-> assign_nic_vf, usb |-> assign_xhci_controller]

Idle == call = NoCall

Doing(step) ==
  /\ ~Idle
  /\ Steps[call.kind][at] = step

(* Mutant: the next call would begin in the middle.                        *)
ReturnMidway == call' = NoCall /\ UNCHANGED at

Return == call' = NoCall /\ at' = 0

Ok ==
  /\ IF at = Len(Steps[call.kind]) THEN Return ELSE at' = at + 1 /\ UNCHANGED call
  /\ UNCHANGED <<calls, fatal>>

(* The documentation of the pipelines tells the boot sequence to stop when *)
(* a mapping fails, and at any error of the GPU and network ones.          *)
Fatal(e) == e = "MapFailed" \/ call.kind \in {"gpu", "nic"}

Err(e) ==
  /\ Return
  /\ fatal' = Fatal(e)
  /\ UNCHANGED calls

Begin(r) ==
  /\ Idle /\ ~fatal
  /\ calls < MaxPipelines
  /\ call' = r /\ at' = 1 /\ calls' = calls + 1
  /\ stale' = (\E f \in ToSet(r.fns) : ring[f] # "none")
  /\ UNCHANGED <<fatal, slots, ste, region, bme, ring, running, assigned>>

(* Mutant: only the first stream of the group is looked at.                *)
FirstMemberConflicts ==
  call.streams # <<>> /\ call.streams[1] \in StreamIDs
    /\ slots[call.streams[1]] \notin {Unassigned, call.guest}

Conflicts ==
  \E s \in ToSet(call.streams) \cap StreamIDs : slots[s] \notin {Unassigned, call.guest}

OutOfRange(s) == s \notin StreamIDs

check_group ==
  /\ Doing("check_group")
  /\ IF Conflicts \/ \E s \in ToSet(call.streams) : OutOfRange(s)
     THEN Err("IommuGroupConflict") ELSE Ok
  /\ UNCHANGED <<slots, ste, region, bme, ring, running, stale, assigned>>

(* A reset clears the Command register as well.  When the capability is    *)
(* missing nothing is written; when the poll runs out the reset may or may *)
(* not have happened.                                                      *)
trigger_flr ==
  /\ Doing("trigger_flr")
  /\ \/ Ok /\ ring' = [ring EXCEPT ![call.fns[1]] = "none"]
     \/ Err("FlrTimeout")
        /\ \E v \in {ring[call.fns[1]], "none"} : ring' = [ring EXCEPT ![call.fns[1]] = v]
  /\ bme' = IF ring'[call.fns[1]] = "none" THEN bme \ {call.fns[1]} ELSE bme
  /\ stale' = (ring'[call.fns[1]] # "none")
  /\ UNCHANGED <<slots, ste, region, running, assigned>>

(* Virtual functions come up with no DMA state of their own.  The          *)
(* capability may be missing or offer too few of them.                     *)
enable_vfs ==
  /\ Doing("enable_vfs")
  /\ Ok \/ Err("InsufficientVfs")
  /\ UNCHANGED <<slots, ste, region, bme, ring, running, stale, assigned>>

Before(q, n) == {q[i] : i \in 1 .. n - 1}

Mapping(X) ==
  [c \in GuestId \X Regions |->
     IF c[1] = call.guest /\ c[2] \in X THEN "whole" ELSE region[c]]

Mapped(X) == region' = Mapping(X)

(* map_range refuses a region of which anything is mapped, and may run out *)
(* of table pages anywhere inside it.                                      *)
CanMap(x) == region[call.guest, x] = "none"

NeedsBar == call.kind \in {"nic", "usb"}

AfterFailure(x) == IF CanMap(x) THEN {"none", "part"} ELSE {region[call.guest, x]}

map_bars ==
  /\ Doing("map_bars")
  /\ \/ /\ \A x \in ToSet(call.bars) : CanMap(x)
        /\ Mapped(ToSet(call.bars))
        /\ IF call.bars = <<>> /\ NeedsBar THEN Err("BarNotFound") ELSE Ok
     \/ \E n \in 1 .. Len(call.bars) : \E v \in AfterFailure(call.bars[n]) :
          /\ \A x \in Before(call.bars, n) : CanMap(x)
          /\ region' = [Mapping(Before(call.bars, n)) EXCEPT ![<<call.guest, call.bars[n]>>] = v]
          /\ Err("MapFailed")
  /\ UNCHANGED <<slots, ste, bme, ring, running, stale, assigned>>

(* The entries are written one after the other; the SR-IOV pipelines meet  *)
(* a stream id that is out of range only when its turn comes.              *)
FirstBad == SelectInSeq(call.streams, OutOfRange)

write_stes ==
  /\ Doing("write_stes")
  /\ LET written == IF FirstBad = 0 THEN ToSet(call.streams)
                    ELSE Before(call.streams, FirstBad) IN
       ste' = [s \in StreamIDs |->
                 IF s \in written THEN stage2_only(call.guest) ELSE ste[s]]
  /\ IF FirstBad = 0 THEN Ok ELSE Err("StreamIdOutOfRange")
  /\ UNCHANGED <<slots, region, bme, ring, running, stale, assigned>>

(* Mutant: the last member of the group is not recorded.                   *)
HalfRecorded == ToSet(Front(call.streams))

Recorded == ToSet(call.streams)

commit_group ==
  /\ Doing("commit_group")
  /\ slots' = [s \in StreamIDs |-> IF s \in Recorded THEN call.guest ELSE slots[s]]
  /\ Ok
  /\ UNCHANGED <<ste, region, bme, ring, running, stale, assigned>>

map_ecam_window ==
  /\ Doing("map_ecam_window")
  /\ \/ CanMap(call.window) /\ Mapped({call.window}) /\ Ok
     \/ /\ \E v \in AfterFailure(call.window) :
             region' = [region EXCEPT ![<<call.guest, call.window>>] = v]
        /\ Err("MapFailed")
  /\ UNCHANGED <<slots, ste, bme, ring, running, stale, assigned>>

(* On the assigned function; for a network card the first virtual one.     *)
enable_bus_master ==
  /\ Doing("enable_bus_master")
  /\ bme' = bme \cup {call.fns[1]}
  /\ Ok
  /\ UNCHANGED <<slots, ste, region, ring, running, stale, assigned>>

(* Clearing the Run bit may have its effect after the poll has given up.   *)
Halt(f) ==
  \/ Ok /\ running' = running \ {f}
  \/ Err("HaltTimeout") /\ f \in running /\ running' \in {running, running \ {f}}

xhci_halt ==
  /\ Doing("xhci_halt")
  /\ Halt(call.fns[1])
  /\ UNCHANGED <<slots, ste, region, bme, ring, stale, assigned>>

Cleared(f, outcomes) == \E v \in outcomes : ring' = [ring EXCEPT ![f] = v]

xhci_hcrst ==
  /\ Doing("xhci_hcrst")
  /\ \/ Ok /\ Cleared(call.fns[1], {"none"})
     \/ Err("HcrstTimeout") /\ Cleared(call.fns[1], {ring[call.fns[1]], "none"})
  /\ stale' = (ring'[call.fns[1]] # "none")
  /\ UNCHANGED <<slots, ste, region, bme, running, assigned>>

(* Keys are registered one after the other, each refused when the registry *)
(* is full or has it already.                                              *)
Registered(kind) ==
  {k \in Keys : assigned[k] # Unassigned
                /\ \E r \in Requests : r.kind = kind /\ k \in ToSet(r.keys)}

register ==
  /\ Doing("register")
  /\ LET taken == Registered(call.kind)
         fits(n) == /\ n + Cardinality(taken) <= RegistryCapacity
                    /\ \A i \in 1 .. n : call.keys[i] \notin taken
     IN \E n \in 0 .. Len(call.keys) :
          /\ fits(n) /\ (n < Len(call.keys) => ~fits(n + 1))
          /\ assigned' = [k \in Keys |->
                            IF \E i \in 1 .. n : k = call.keys[i] THEN "Android" ELSE assigned[k]]
          /\ IF n = Len(call.keys) THEN Ok ELSE Err("RegistryFull")
  /\ UNCHANGED <<slots, ste, region, bme, ring, running, stale>>

Boot ==
  \/ \E r \in Requests : Begin(r)
  \/ check_group \/ trigger_flr \/ enable_vfs \/ map_bars \/ write_stes
  \/ commit_group \/ map_ecam_window \/ enable_bus_master
  \/ xhci_halt \/ xhci_hcrst \/ register
=============================================================================
