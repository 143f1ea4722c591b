---------------------------- MODULE InputSwitchProofs ----------------------------
(***************************************************************************)
(* Proofs that the records of who owns a device agree with the stream      *)
(* table and with the guests' tables, for any configurations of different  *)
(* devices, any failures at boot and any number of switches; and that what *)
(* the other registries give a guest stays with it.                        *)
(***************************************************************************)
EXTENDS InputSwitch, PartitionRegistries, LeastNumber, TLAPS

Owner == GuestId \cup {Unassigned}

Types ==
  /\ call \in Requests \cup {NoCall}
  /\ call # NoCall => at \in 1 .. Len(Steps[call.kind])
  /\ fatal \in BOOLEAN /\ stale \in BOOLEAN
  /\ slots \in [StreamIDs -> Owner]
  /\ ste \in [StreamIDs -> [vmid : Owner, s2ttb : Owner]]
  /\ region \in [GuestId \X Regions -> {"none", "part", "whole"}]
  /\ ring \in [Functions -> GuestId \cup {"none", "firmware"}]
  /\ assigned \in [Keys -> Owner]
  /\ current_owner \in Owner
  /\ word \in Nat

(* The pipelines are over when the guests run, and only then is there a    *)
(* switch.                                                                 *)
RunInv ==
  /\ GuestsRun => Idle
  /\ sw \in {"rest", "halt", "hcrst", "rewrite_ste", "execute_switch", "mark_reset_clean"}
  /\ sw # "rest" => GuestsRun
  /\ sw # "rewrite_ste" => word = 0

(* Virtual functions hold no DMA state, and what a call or a switch found  *)
(* in the device is gone once its reset step is behind it.                 *)
ResetInv ==
  /\ \A r \in Requests : r.kind \in {"gpu", "nic"} => \A f \in ToSet(r.fns) : ring[f] = "none"
  /\ \/ call.kind \in {"gpu", "nic"}
     \/ call.kind = "device" /\ at >= 3
     \/ call.kind = "usb" /\ at >= 7
     \/ sw \in {"rewrite_ste", "execute_switch"}
     => ~ stale

(* The group that check_group accepted is still free for this guest.       *)
GroupInv ==
  call.kind = "device" /\ at \in 2 .. 5 =>
    \A s \in ToSet(call.streams) : s \in StreamIDs /\ slots[s] \in {Unassigned, call.guest}

(* A stream of a device group is ahead of its record only while the call   *)
(* that wrote it is about to record it.                                    *)
AgreeInv ==
  \A r \in DeviceRequests : \A s \in ToSet(r.streams) \cap StreamIDs :
    IF call.kind = "device" /\ at = 5 /\ s \in ToSet(call.streams)
    THEN ste[s] = stage2_only(call.guest)
    ELSE ste[s] = stage2_only(slots[s])

(* What maps a device's registers owns its streams, is about to, or has    *)
(* stopped the boot.                                                       *)
AboutToOwn(g, streams) ==
  call.kind = "device" /\ at \in {4, 5} /\ call.guest = g /\ ToSet(call.streams) = streams

MapInv ==
  \A r \in DeviceRequests : \A g \in GuestId : \A b \in ToSet(r.bars) :
    region[<<g, b>>] # "none" =>
      \A s \in ToSet(r.streams) \cap StreamIDs :
        \/ slots[s] = g
        \/ slots[s] = Unassigned /\ (fatal \/ AboutToOwn(g, ToSet(r.streams)))

FatalInv == fatal => Idle

InputEntries(g) == \A s \in ToSet(Input.streams) : ste[s] = stage2_only(g)

(* The first words of the input controller's entries, those that the       *)
(* switch has rewritten.                                                   *)
Rewritten(n) ==
  \A i \in 1 .. Len(Input.streams) :
    /\ 2 * i - 2 < n => ste[Input.streams[i]].vmid = next_owner
    /\ 2 * i - 1 < n => ste[Input.streams[i]].s2ttb = next_owner

OwnerInv ==
  /\ call = Input /\ at >= 3 => InputEntries("Android")
  /\ ~ GuestsRun /\ assigned[Key] # Unassigned
       => assigned[Key] = "Android" /\ reset_state = "Clean" /\ InputEntries("Android")
  /\ GuestsRun => assigned[Key] = current_owner
  /\ GuestsRun /\ sw # "mark_reset_clean" => reset_state = "Clean"
  /\ GuestsRun /\ sw \in {"rest", "halt", "hcrst", "mark_reset_clean"} => InputEntries(current_owner)
  /\ sw = "rewrite_ste" => Rewritten(word) /\ word < WordsToWrite
  /\ sw = "execute_switch" => InputEntries(next_owner)

DeviceInv ==
  Types /\ RunInv /\ ResetInv /\ GroupInv /\ AgreeInv /\ MapInv /\ FatalInv /\ OwnerInv

-------------------------------------------------------------------------------
(* The configurations.                                                     *)

LEMMA RequestFacts ==
  ASSUME NEW r \in Requests
  PROVE  /\ r.kind \in {"device", "gpu", "nic", "usb"} /\ r.guest \in GuestId
         /\ r.kind # "device" => r.guest = "Android"
         /\ r.fns \in Seq(STRING) /\ r.bars \in Seq(STRING) /\ r.streams \in Seq(Nat)
         /\ r.keys \in Seq(STRING)
         /\ r # NoCall
         /\ r.fns[1] \in ToSet(r.fns) /\ ToSet(r.fns) \subseteq Functions
         /\ ToSet(r.bars) \subseteq Regions /\ r.window \in Regions
         /\ r.kind = "usb" => ToSet(r.streams) \subseteq StreamIDs
<1>1. r \in Request /\ r.fns # <<>>
  BY RequestsAssumption, InputAssumption
<1>2. r.fns \in Seq(STRING) /\ 1 \in DOMAIN r.fns
  BY <1>1 DEF Request
<1>3. r # NoCall
  BY <1>1 DEF Request, NoCall
<1>4. /\ r.kind \in {"device", "gpu", "nic", "usb"} /\ r.guest \in GuestId
      /\ r.fns \in Seq(STRING) /\ r.bars \in Seq(STRING) /\ r.streams \in Seq(Nat)
      /\ r.keys \in Seq(STRING)
  BY <1>1 DEF Request
<1>5. r.kind # "device" => r.guest = "Android"
  BY RequestsAssumption
<1>6. r.kind = "usb" => ToSet(r.streams) \subseteq StreamIDs
  BY RequestsAssumption
<1>7. r.fns[1] \in ToSet(r.fns)
  BY <1>2 DEF ToSet
<1>8. ToSet(r.fns) \subseteq Functions
  BY DEF Functions
<1>9. ToSet(r.bars) \subseteq Regions /\ r.window \in Regions
  BY DEF Regions, Windows
<1> QED BY <1>3, <1>4, <1>5, <1>6, <1>7, <1>8, <1>9

LEMMA InputFacts ==
  /\ Input \in Requests /\ Input.kind = "usb"
  /\ Input.streams \in Seq(Nat) /\ Len(Input.streams) \in Nat \ {0}
  /\ ToSet(Input.streams) = {Input.streams[i] : i \in 1 .. Len(Input.streams)}
  /\ ToSet(Input.streams) \subseteq StreamIDs
  /\ Controller \in ToSet(Input.fns) /\ Key \in ToSet(Input.keys) /\ Key \in Keys
  /\ WordsToWrite \in Nat \ {0}
<1>1. Input \in Requests /\ Input.kind = "usb"
  BY InputAssumption DEF Input
<1>2. Input.streams \in Seq(Nat) /\ Input.streams # <<>>
  BY <1>1, RequestFacts, InputAssumption
<1>3. Input.keys \in Seq(STRING) /\ 1 \in DOMAIN Input.keys
  BY <1>1, RequestFacts, InputAssumption
<1> HIDE DEF Input
<1>4. ToSet(Input.streams) \subseteq StreamIDs /\ Controller \in ToSet(Input.fns)
  BY <1>1, RequestFacts DEF Controller
<1>5. Key \in ToSet(Input.keys)
  BY <1>3 DEF Key, ToSet
<1>6. Key \in Keys
  BY <1>1, <1>5 DEF Keys
<1>7. Len(Input.streams) \in Nat \ {0}
  BY <1>2
<1>8. ToSet(Input.streams) = {Input.streams[i] : i \in 1 .. Len(Input.streams)}
  BY <1>2 DEF ToSet
<1> QED
  BY <1>1, <1>2, <1>4, <1>5, <1>6, <1>7, <1>8 DEF WordsToWrite

LEMMA KindOfNoCall == NoCall.kind = "none"
BY DEF NoCall

(* Where each step is in the pipelines.                                    *)
LEMMA StepPlaces ==
  ASSUME Types, ~ Idle
  PROVE  /\ Doing("check_group") => call.kind = "device" /\ at = 1
         /\ Doing("trigger_flr") => call.kind = "device" /\ at = 2
         /\ Doing("enable_vfs") => call.kind \in {"gpu", "nic"}
         /\ Doing("map_bars") => \/ call.kind = "device" /\ at = 3
                                 \/ call.kind \in {"gpu", "nic"}
                                 \/ call.kind = "usb" /\ at = 1
         /\ Doing("write_stes") => \/ call.kind = "device" /\ at = 4
                                   \/ call.kind \in {"gpu", "nic"}
                                   \/ call.kind = "usb" /\ at = 2
         /\ Doing("commit_group") => call.kind = "device" /\ at = 5
         /\ Doing("map_ecam_window") => \/ call.kind = "device" /\ at = 6
                                        \/ call.kind \in {"gpu", "nic"}
                                        \/ call.kind = "usb" /\ at = 3
         /\ Doing("enable_bus_master") => \/ call.kind = "device" /\ at = 7
                                          \/ call.kind = "nic"
                                          \/ call.kind = "usb" /\ at = 4
         /\ Doing("xhci_halt") => call.kind = "usb" /\ at = 5
         /\ Doing("xhci_hcrst") => call.kind = "usb" /\ at = 6
         /\ Doing("register") => \/ call.kind \in {"gpu", "nic"}
                                 \/ call.kind = "usb" /\ at = 7
         /\ call \in Requests /\ at \in Nat
<1>1. call \in Requests /\ call.kind \in {"device", "gpu", "nic", "usb"}
  BY RequestFacts DEF Types, Idle
<1>2. CASE call.kind = "device"
  <2>1. Steps[call.kind] = assign_device_with_ecam
    BY <1>2 DEF Steps
  <2>2. at \in 1 .. 7
    BY <2>1, <1>1 DEF Types, Idle, assign_device_with_ecam
  <2> QED BY <1>1, <1>2, <2>1, <2>2 DEF Doing, assign_device_with_ecam
<1>3. CASE call.kind = "usb"
  <2>1. Steps[call.kind] = assign_xhci_controller
    BY <1>3 DEF Steps
  <2>2. at \in 1 .. 7
    BY <2>1, <1>1 DEF Types, Idle, assign_xhci_controller
  <2> QED BY <1>1, <1>3, <2>1, <2>2 DEF Doing, assign_xhci_controller
<1>4. CASE call.kind = "gpu"
  <2>1. Steps[call.kind] = assign_gpu_vfs
    BY <1>4 DEF Steps
  <2>2. at \in 1 .. 5
    BY <2>1, <1>1 DEF Types, Idle, assign_gpu_vfs
  <2> QED BY <1>1, <1>4, <2>1, <2>2 DEF Doing, assign_gpu_vfs
<1>5. CASE call.kind = "nic"
  <2>1. Steps[call.kind] = assign_nic_vf
    BY <1>5 DEF Steps
  <2>2. at \in 1 .. 6
    BY <2>1, <1>1 DEF Types, Idle, assign_nic_vf
  <2> QED BY <1>1, <1>5, <2>1, <2>2 DEF Doing, assign_nic_vf
<1> QED BY <1>1, <1>2, <1>3, <1>4, <1>5

LEMMA StepCounts ==
  ASSUME NEW k \in {"device", "gpu", "nic", "usb"}
  PROVE  Len(Steps[k]) \in Nat /\ 1 \in 1 .. Len(Steps[k])
<1>1. CASE k = "device"
  <2>1. Steps[k] = assign_device_with_ecam
    BY <1>1 DEF Steps
  <2>2. Len(assign_device_with_ecam) = 7
    BY DEF assign_device_with_ecam
  <2> QED BY <2>1, <2>2
<1>2. CASE k = "gpu"
  <2>1. Steps[k] = assign_gpu_vfs
    BY <1>2 DEF Steps
  <2>2. Len(assign_gpu_vfs) = 5
    BY DEF assign_gpu_vfs
  <2> QED BY <2>1, <2>2
<1>3. CASE k = "nic"
  <2>1. Steps[k] = assign_nic_vf
    BY <1>3 DEF Steps
  <2>2. Len(assign_nic_vf) = 6
    BY DEF assign_nic_vf
  <2> QED BY <2>1, <2>2
<1>4. CASE k = "usb"
  <2>1. Steps[k] = assign_xhci_controller
    BY <1>4 DEF Steps
  <2>2. Len(assign_xhci_controller) = 7
    BY DEF assign_xhci_controller
  <2> QED BY <2>1, <2>2
<1> QED BY <1>1, <1>2, <1>3, <1>4

(* A call moves on or ends; it goes on to its next step or to none.        *)
Moves ==
  \/ /\ call' = call /\ at' = at + 1 /\ fatal' = fatal
     /\ at' \in 1 .. Len(Steps[call.kind])
  \/ call' = NoCall /\ fatal' = fatal
  \/ call' = NoCall /\ fatal' \in BOOLEAN

LEMMA CallMoves ==
  ASSUME Types, ~ Idle, Ok \/ (Return /\ fatal' \in BOOLEAN)
  PROVE  Moves
<1>1. at \in 1 .. Len(Steps[call.kind]) /\ Len(Steps[call.kind]) \in Nat
  <2>1. call.kind \in {"device", "gpu", "nic", "usb"}
    BY RequestFacts DEF Types, Idle
  <2>2. Len(Steps[call.kind]) \in Nat
    BY <2>1, StepCounts
  <2> QED BY <2>2 DEF Types, Idle
<1> DEFINE n == Len(Steps[call.kind])
<1>2. CASE Ok /\ at = n
  BY <1>2 DEF Moves, Ok, Return
<1>3. CASE Ok /\ at # n
  <2>1. call' = call /\ at' = at + 1 /\ fatal' = fatal
    BY <1>3 DEF Ok
  <2>2. at + 1 \in 1 .. n
    <3> HIDE DEF n
    <3>1. at \in 1 .. n /\ n \in Nat /\ at # n
      BY <1>1, <1>3 DEF n
    <3> QED BY <3>1
  <2> QED BY <2>1, <2>2 DEF Moves
<1>4. CASE Return /\ fatal' \in BOOLEAN
  BY <1>4 DEF Moves, Return
<1> QED BY <1>2, <1>3, <1>4

-------------------------------------------------------------------------------
(* The pipelines, step by step.                                            *)

BootFrame ==
  /\ ~ GuestsRun
  /\ reset_state' = IF assigned[Key] # assigned'[Key] THEN "Clean" ELSE reset_state
  /\ UNCHANGED <<current_owner, sw, word, switch_count>>

(* What is left to show for OwnerInv while no guest runs.                  *)
BootOwner ==
  /\ call = Input /\ at >= 3 => InputEntries("Android")
  /\ assigned[Key] # Unassigned
       => assigned[Key] = "Android" /\ reset_state = "Clean" /\ InputEntries("Android")

LEMMA AtBoot ==
  ASSUME DeviceInv, BootFrame
  PROVE  RunInv' /\ BootOwner /\ (BootOwner' => OwnerInv') /\ sw' = "rest"
BY DEF DeviceInv, RunInv, OwnerInv, BootFrame, GuestsRun, BootOwner, Idle

LEMMA BeginStep ==
  ASSUME DeviceInv, BootFrame, NEW r \in Requests, Begin(r)
  PROVE  DeviceInv'
<1> USE DEF DeviceInv
<1>1. /\ Idle /\ ~ fatal /\ call' = r /\ at' = 1 /\ r # NoCall /\ ~ Idle'
      /\ UNCHANGED <<fatal, slots, ste, region, bme, ring, running, assigned>>
      /\ call.kind = "none"
  BY RequestFacts, KindOfNoCall DEF Begin, Idle
<1>2. stale' = (\E f \in ToSet(r.fns) : ring[f] # "none") /\ stale' \in BOOLEAN
  BY DEF Begin
<1>3. 1 \in 1 .. Len(Steps[r.kind])
  <2>1. r.kind \in {"device", "gpu", "nic", "usb"}
    BY RequestFacts
  <2> QED BY <2>1, StepCounts
<1>4. Types'
  BY <1>1, <1>2, <1>3 DEF Types, BootFrame
<1>5. ResetInv'
  <2>1. r.kind \in {"gpu", "nic"} => ~ stale'
    BY <1>2 DEF ResetInv
  <2>2. sw' = "rest"
    BY AtBoot
  <2> QED BY <1>1, <2>1, <2>2 DEF ResetInv
<1>6. GroupInv' /\ AgreeInv' /\ FatalInv'
  BY <1>1 DEF GroupInv, AgreeInv, FatalInv, stage2_only
<1>7. MapInv'
  BY <1>1 DEF MapInv, AboutToOwn
<1>8. BootOwner'
  BY <1>1, AtBoot DEF BootOwner, InputEntries, BootFrame, stage2_only
<1> QED BY <1>4, <1>5, <1>6, <1>7, <1>8, AtBoot

(* Steps that write no more than the devices' own registers.               *)
LEMMA RegisterStep ==
  ASSUME DeviceInv, BootFrame, check_group \/ enable_vfs \/ enable_bus_master \/ xhci_halt
  PROVE  DeviceInv'
<1> USE DEF DeviceInv
<1>1. UNCHANGED <<slots, ste, region, ring, stale, assigned>> /\ ~ Idle
  BY DEF check_group, enable_vfs, enable_bus_master, xhci_halt, Doing
<1>2. Moves
  <2>1. Ok \/ (Return /\ fatal' \in BOOLEAN)
    BY DEF check_group, enable_vfs, enable_bus_master, xhci_halt, Halt, Err, Fatal
  <2> QED BY <1>1, <2>1, CallMoves
<1>3. call \in Requests /\ at \in Nat /\ call.kind \in {"device", "gpu", "nic", "usb"} /\ ~ fatal
  BY <1>1, StepPlaces, RequestFacts DEF FatalInv
<1>4. Types'
  BY <1>1, <1>2 DEF Types, BootFrame, Moves
<1>5. \/ call.kind \in {"gpu", "nic"}
      \/ /\ call.kind = "device" /\ at = 1
         /\ call' = call => ~ Conflicts /\ \A s \in ToSet(call.streams) : ~ OutOfRange(s)
      \/ call.kind = "device" /\ at = 7
      \/ call.kind = "usb" /\ at \in {4, 5}
  BY <1>1, <1>3, StepPlaces DEF check_group, enable_vfs, enable_bus_master, xhci_halt, Err, Return, Idle
<1>6. ResetInv'
  BY <1>1, <1>2, <1>3, <1>5, AtBoot, KindOfNoCall DEF ResetInv, Moves
<1>7. GroupInv'
  BY <1>1, <1>2, <1>3, <1>5, KindOfNoCall DEF GroupInv, Moves, Conflicts, OutOfRange
<1>8. AgreeInv'
  BY <1>1, <1>2, <1>3, <1>5, KindOfNoCall DEF AgreeInv, Moves, stage2_only
<1>9. FatalInv'
  BY <1>2, <1>3 DEF FatalInv, Moves, Idle
<1>10. MapInv'
  <2>1. \A g \in GuestId : \A q : ~ AboutToOwn(g, q)
    BY <1>5 DEF AboutToOwn
  <2>2. \A r \in DeviceRequests : \A g \in GuestId : \A b \in ToSet(r.bars) :
          region[<<g, b>>] # "none" => \A s \in ToSet(r.streams) \cap StreamIDs : slots[s] = g
    BY <1>3, <2>1 DEF MapInv
  <2> QED BY <1>1, <2>2 DEF MapInv
<1>11. BootOwner'
  <2>1. call' = Input => call = Input /\ at >= 3
    BY <1>2, <1>3, <1>5, InputFacts, RequestFacts DEF Moves
  <2> QED BY <1>1, <2>1, AtBoot DEF BootOwner, InputEntries, BootFrame, stage2_only
<1> QED BY <1>4, <1>6, <1>7, <1>8, <1>9, <1>10, <1>11, AtBoot

(* A reset leaves a function without DMA state, unless it times out.       *)
LEMMA ResetStep ==
  ASSUME DeviceInv, BootFrame, trigger_flr \/ xhci_hcrst
  PROVE  DeviceInv'
<1> USE DEF DeviceInv
<1>1. UNCHANGED <<slots, ste, region, assigned>> /\ ~ Idle
  BY DEF trigger_flr, xhci_hcrst, Doing
<1>2. /\ call \in Requests /\ at \in Nat /\ ~ fatal
      /\ \/ call.kind = "device" /\ at = 2
         \/ call.kind = "usb" /\ at = 6
  BY <1>1, StepPlaces DEF FatalInv, trigger_flr, xhci_hcrst
<1>3. Moves
  <2>1. Ok \/ (Return /\ fatal' \in BOOLEAN)
    BY DEF trigger_flr, xhci_hcrst, Err, Fatal
  <2> QED BY <1>1, <2>1, CallMoves
<1>4. PICK v \in {ring[call.fns[1]], "none"} :
        /\ ring' = [ring EXCEPT ![call.fns[1]] = v]
        /\ call' = call => v = "none"
  BY <1>1, <1>2, RequestFacts DEF trigger_flr, xhci_hcrst, Cleared, Err, Return, Idle
<1>5. call.fns[1] \in Functions
  BY <1>2, RequestFacts
<1>6. stale' = (ring'[call.fns[1]] # "none") /\ stale' \in BOOLEAN
  BY DEF trigger_flr, xhci_hcrst
<1>7. Types'
  BY <1>1, <1>3, <1>4, <1>5, <1>6 DEF Types, BootFrame, Moves
<1>8. ResetInv'
  <2>1. \A f \in Functions : ring[f] = "none" => ring'[f] = "none"
    BY <1>4, <1>5 DEF Types
  <2>2. call' = call => ~ stale'
    BY <1>4, <1>5, <1>6 DEF Types
  <2> QED BY <1>3, <2>1, <2>2, AtBoot, KindOfNoCall, RequestFacts DEF ResetInv, Moves
<1>9. GroupInv' /\ AgreeInv'
  BY <1>1, <1>2, <1>3, KindOfNoCall DEF GroupInv, AgreeInv, Moves, stage2_only
<1>10. FatalInv'
  BY <1>2, <1>3 DEF FatalInv, Moves, Idle
<1>11. MapInv'
  <2>1. \A g \in GuestId : \A q : ~ AboutToOwn(g, q)
    BY <1>2 DEF AboutToOwn
  <2>2. \A r \in DeviceRequests : \A g \in GuestId : \A b \in ToSet(r.bars) :
          region[<<g, b>>] # "none" => \A s \in ToSet(r.streams) \cap StreamIDs : slots[s] = g
    BY <1>2, <2>1 DEF MapInv
  <2> QED BY <1>1, <2>2 DEF MapInv
<1>12. BootOwner'
  <2>1. call' = Input => call = Input /\ at >= 3
    BY <1>2, <1>3, InputFacts, RequestFacts DEF Moves
  <2> QED BY <1>1, <2>1, AtBoot DEF BootOwner, InputEntries, BootFrame, stage2_only
<1> QED BY <1>7, <1>8, <1>9, <1>10, <1>11, <1>12, AtBoot

(* A mapping only adds to what the guest's table maps, and only regions of *)
(* this call.                                                              *)
LEMMA Maps ==
  ASSUME Types, call \in Requests, NEW X \in SUBSET Regions
  PROVE  /\ Mapping(X) \in [GuestId \X Regions -> {"none", "part", "whole"}]
         /\ \A g \in GuestId, x \in Regions :
              Mapping(X)[<<g, x>>] # region[<<g, x>>] => g = call.guest /\ x \in X
BY DEF Mapping, Types

LEMMA MapStep ==
  ASSUME DeviceInv, BootFrame, map_bars \/ map_ecam_window
  PROVE  DeviceInv'
<1> USE DEF DeviceInv
<1>1. UNCHANGED <<slots, ste, ring, stale, assigned>> /\ ~ Idle
  BY DEF map_bars, map_ecam_window, Doing
<1>2. /\ call \in Requests /\ at \in Nat /\ ~ fatal /\ call.guest \in GuestId
      /\ call.kind \in {"device", "gpu", "nic", "usb"}
      /\ map_bars => \/ call.kind = "device" /\ at = 3
                     \/ call.kind \in {"gpu", "nic"}
                     \/ call.kind = "usb" /\ at = 1
      /\ map_ecam_window => \/ call.kind = "device" /\ at = 6
                            \/ call.kind \in {"gpu", "nic"}
                            \/ call.kind = "usb" /\ at = 3
  BY <1>1, StepPlaces, RequestFacts DEF FatalInv, map_bars, map_ecam_window
<1>3. Moves
  <2>1. Ok \/ (Return /\ fatal' \in BOOLEAN)
    BY DEF map_bars, map_ecam_window, Err, Fatal
  <2> QED BY <1>1, <2>1, CallMoves
<1> DEFINE X == IF map_bars THEN ToSet(call.bars) ELSE {call.window}
       AddedOnly ==
         /\ region' \in [GuestId \X Regions -> {"none", "part", "whole"}]
         /\ \A g \in GuestId, x \in Regions :
              region'[<<g, x>>] # region[<<g, x>>] => g = call.guest /\ x \in X
<1>4. AddedOnly
  <2>1. CASE map_bars
    <3>1. ToSet(call.bars) \subseteq Regions /\ X = ToSet(call.bars)
      BY <1>2, <2>1, RequestFacts
    <3>2. CASE region' = Mapping(ToSet(call.bars))
      BY <1>2, <3>1, <3>2, Maps
    <3>3. ASSUME NEW n \in 1 .. Len(call.bars), NEW v \in AfterFailure(call.bars[n]),
                 region' = [Mapping(Before(call.bars, n)) EXCEPT ![<<call.guest, call.bars[n]>>] = v]
          PROVE  AddedOnly
      <4>1. call.bars[n] \in ToSet(call.bars) /\ Before(call.bars, n) \subseteq ToSet(call.bars)
        BY <1>2, <3>3, RequestFacts DEF Before, ToSet
      <4>2. v \in {"none", "part", "whole"}
        BY <1>2, <3>1, <3>3, <4>1 DEF AfterFailure, Types
      <4>3. /\ Mapping(Before(call.bars, n)) \in [GuestId \X Regions -> {"none", "part", "whole"}]
            /\ \A g \in GuestId, x \in Regions :
                 Mapping(Before(call.bars, n))[<<g, x>>] # region[<<g, x>>]
                   => g = call.guest /\ x \in Before(call.bars, n)
        BY <1>2, <3>1, <4>1, Maps
      <4>4. PICK m : m = Mapping(Before(call.bars, n))
        OBVIOUS
      <4> QED BY <1>2, <3>1, <3>3, <4>1, <4>2, <4>3, <4>4
    <3>4. CASE ~ region' = Mapping(ToSet(call.bars))
      <4>1. PICK n \in 1 .. Len(call.bars) : \E v \in AfterFailure(call.bars[n]) :
              region' = [Mapping(Before(call.bars, n)) EXCEPT ![<<call.guest, call.bars[n]>>] = v]
        BY <2>1, <3>4 DEF map_bars, Mapped
      <4>2. PICK v \in AfterFailure(call.bars[n]) :
              region' = [Mapping(Before(call.bars, n)) EXCEPT ![<<call.guest, call.bars[n]>>] = v]
        BY <4>1
      <4> HIDE DEF AddedOnly
      <4> QED BY <3>3, <4>2
    <3> QED BY <3>2, <3>4
  <2>2. CASE map_ecam_window /\ ~ map_bars
    <3>1. call.window \in Regions /\ X = {call.window}
      BY <1>2, <2>2, RequestFacts
    <3>2. CASE region' = Mapping({call.window})
      <4>1. {call.window} \in SUBSET Regions
        BY <3>1
      <4>2. /\ Mapping({call.window}) \in [GuestId \X Regions -> {"none", "part", "whole"}]
            /\ \A g \in GuestId, x \in Regions :
                 Mapping({call.window})[<<g, x>>] # region[<<g, x>>]
                   => g = call.guest /\ x \in {call.window}
        BY <1>2, <4>1, Maps
      <4> QED BY <3>1, <3>2, <4>2
    <3>3. ASSUME NEW v \in AfterFailure(call.window),
                 region' = [region EXCEPT ![<<call.guest, call.window>>] = v]
          PROVE  AddedOnly
      <4>1. v \in {"none", "part", "whole"}
        BY <1>2, <3>1, <3>3 DEF AfterFailure, Types
      <4> QED BY <1>2, <3>1, <3>3, <4>1 DEF Types
    <3> QED BY <2>2, <3>2, <3>3 DEF map_ecam_window, Mapped
  <2> QED BY <2>1, <2>2
<1>5. Types'
  BY <1>1, <1>3, <1>4 DEF Types, BootFrame, Moves
<1>6. ResetInv'
  BY <1>1, <1>2, <1>3, AtBoot, KindOfNoCall DEF ResetInv, Moves
<1>7. GroupInv' /\ AgreeInv'
  BY <1>1, <1>2, <1>3, KindOfNoCall DEF GroupInv, AgreeInv, Moves, stage2_only
<1>8. FatalInv'
  BY <1>2, <1>3 DEF FatalInv, Moves, Idle
<1>9. MapInv'
  <2> SUFFICES ASSUME NEW r \in DeviceRequests, NEW g \in GuestId, NEW b \in ToSet(r.bars),
                      region'[<<g, b>>] # "none", NEW s \in ToSet(r.streams) \cap StreamIDs
               PROVE  \/ slots[s] = g
                      \/ slots[s] = Unassigned /\ (fatal' \/ AboutToOwn(g, ToSet(r.streams))')
    BY <1>1 DEF MapInv
  <2>1. b \in Regions /\ r \in Requests
    BY RequestFacts DEF DeviceRequests
  <2>2. CASE region[<<g, b>>] # "none"
    <3>1. ~ AboutToOwn(g, ToSet(r.streams))
      BY <1>2 DEF AboutToOwn
    <3> QED BY <1>2, <2>2, <3>1 DEF MapInv
  <2>3. CASE region[<<g, b>>] = "none"
    <3>1. g = call.guest /\ b \in X
      BY <1>4, <2>1, <2>3
    <3>2. map_bars
      BY <1>2, <2>1, <3>1, InputAssumption
    <3>3. call.kind = "device" /\ at = 3 /\ ToSet(call.streams) = ToSet(r.streams)
      <4>1. ToSet(r.bars) \cap ToSet(call.bars) # {}
        BY <3>1, <3>2
      <4> QED BY <1>2, <3>2, <4>1, InputAssumption
    <3>4. slots[s] \in {Unassigned, g}
      BY <1>2, <3>1, <3>3 DEF GroupInv
    <3>5. fatal' \/ (call' = call /\ at' = 4)
      <4>1. Ok \/ Err("MapFailed")
        BY <3>2, <3>3 DEF map_bars, NeedsBar
      <4>2. Err("MapFailed") => fatal'
        BY DEF Err, Fatal
      <4>3. Len(Steps[call.kind]) = 7
        BY <3>3 DEF Steps, assign_device_with_ecam
      <4> QED BY <3>3, <4>1, <4>2, <4>3 DEF Ok
    <3> QED BY <3>1, <3>3, <3>4, <3>5 DEF AboutToOwn
  <2> QED BY <2>2, <2>3
<1>10. BootOwner'
  <2>1. call' = Input /\ at' >= 3 => call = Input /\ at >= 3
    BY <1>2, <1>3, InputFacts, RequestFacts DEF Moves
  <2> QED BY <1>1, <2>1, AtBoot DEF BootOwner, InputEntries, BootFrame, stage2_only
<1> QED BY <1>5, <1>6, <1>7, <1>8, <1>9, <1>10, AtBoot

(* The stream whose turn it is when the writing of entries stops.          *)
LEMMA FirstBadFacts ==
  ASSUME call \in Requests
  PROVE  \/ FirstBad = 0 /\ \A s \in ToSet(call.streams) : s \in StreamIDs
         \/ /\ FirstBad \in 1 .. Len(call.streams)
            /\ call.streams[FirstBad] \notin StreamIDs
<1>1. call.streams \in Seq(Nat) /\ Len(call.streams) \in Nat
  BY RequestFacts
<1>2. ToSet(call.streams) = {call.streams[i] : i \in 1 .. Len(call.streams)}
  BY <1>1 DEF ToSet
<1> DEFINE I == {i \in 1 .. Len(call.streams) : OutOfRange(call.streams[i])}
<1>3. FirstBad = IF I # {} THEN Min(I) ELSE 0
  BY DEF FirstBad, SelectInSeq
<1>4. CASE I = {}
  BY <1>2, <1>3, <1>4 DEF OutOfRange
<1>5. CASE I # {}
  <2>1. I \subseteq Nat
    BY <1>1
  <2>2. PICK i \in I : \A j \in I : i <= j
    BY <1>5, <2>1, LeastOf
  <2>3. Min(I) \in I
    BY <2>2 DEF Min
  <2> QED BY <1>3, <1>5, <2>3 DEF OutOfRange
<1> QED BY <1>4, <1>5

LEMMA WriteStep ==
  ASSUME DeviceInv, BootFrame, write_stes
  PROVE  DeviceInv'
<1> USE DEF DeviceInv
<1>1. UNCHANGED <<slots, region, ring, stale, assigned>> /\ ~ Idle
  BY DEF write_stes, Doing
<1>2. /\ call \in Requests /\ at \in Nat /\ ~ fatal /\ call.guest \in GuestId
      /\ \/ call.kind = "device" /\ at = 4
         \/ call.kind \in {"gpu", "nic"}
         \/ call.kind = "usb" /\ at = 2
  BY <1>1, StepPlaces, RequestFacts DEF FatalInv, write_stes
<1>3. Moves
  <2>1. Ok \/ (Return /\ fatal' \in BOOLEAN)
    BY DEF write_stes, Err, Fatal
  <2> QED BY <1>1, <2>1, CallMoves
<1>4. PICK written \in SUBSET ToSet(call.streams) :
        /\ ste' = [s \in StreamIDs |->
                     IF s \in written THEN stage2_only(call.guest) ELSE ste[s]]
        /\ FirstBad = 0 => written = ToSet(call.streams)
  <2>1. Before(call.streams, FirstBad) \subseteq ToSet(call.streams) \/ FirstBad = 0
    BY <1>2, FirstBadFacts, RequestFacts DEF Before, ToSet
  <2> QED BY <2>1 DEF write_stes
<1>5. call' = call => FirstBad = 0
  BY <1>1 DEF write_stes, Err, Return, Idle
<1>6. call.kind = "device" => FirstBad = 0 /\ call' = call /\ at' = 5
  <2>1. ASSUME call.kind = "device" PROVE FirstBad = 0
    <3>1. \A s \in ToSet(call.streams) : s \in StreamIDs
      BY <1>2, <2>1 DEF GroupInv
    <3> QED BY <1>2, <3>1, FirstBadFacts, RequestFacts DEF ToSet
  <2>2. ASSUME call.kind = "device" PROVE call' = call /\ at' = 5
    <3>1. Len(Steps[call.kind]) = 7
      BY <2>2 DEF Steps, assign_device_with_ecam
    <3> QED BY <1>2, <2>1, <2>2, <3>1 DEF write_stes, Ok
  <2> QED BY <2>1, <2>2
<1>7. Types'
  <2>1. ste' \in [StreamIDs -> [vmid : Owner, s2ttb : Owner]]
    BY <1>2, <1>4 DEF Types, stage2_only, Owner
  <2> QED BY <1>1, <1>3, <2>1 DEF Types, BootFrame, Moves
<1>8. ResetInv'
  BY <1>1, <1>2, <1>3, AtBoot, KindOfNoCall DEF ResetInv, Moves
<1>9. GroupInv' /\ FatalInv'
  BY <1>1, <1>2, <1>3, KindOfNoCall DEF GroupInv, FatalInv, Moves, Idle
<1>10. AgreeInv'
  <2> SUFFICES ASSUME NEW r \in DeviceRequests, NEW s \in ToSet(r.streams) \cap StreamIDs
               PROVE  IF call'.kind = "device" /\ at' = 5 /\ s \in ToSet(call'.streams)
                      THEN ste'[s] = stage2_only(call'.guest)
                      ELSE ste'[s] = stage2_only(slots[s])
    BY <1>1 DEF AgreeInv, stage2_only
  <2>1. ste[s] = stage2_only(slots[s])
    BY <1>2 DEF AgreeInv
  <2>2. CASE call.kind = "device"
    BY <1>2, <1>3, <1>4, <1>6, <2>1, <2>2 DEF Moves
  <2>3. CASE call.kind # "device"
    <3>1. s \notin ToSet(call.streams)
      BY <1>2, <2>3, InputAssumption
    <3> QED BY <1>3, <1>4, <2>1, <2>3, <3>1, KindOfNoCall DEF Moves
  <2> QED BY <2>2, <2>3
<1>11. MapInv'
  <2>1. \A g \in GuestId : \A q : AboutToOwn(g, q) => AboutToOwn(g, q)'
    BY <1>2, <1>3, <1>6 DEF AboutToOwn, Moves
  <2> QED BY <1>1, <1>2, <2>1 DEF MapInv
<1>12. BootOwner'
  <2>1. CASE call = Input
    <3>1. call.kind = "usb" /\ call.guest = "Android"
      BY <2>1, InputFacts, RequestFacts
    <3>2. at' >= 3 /\ call' = Input => InputEntries("Android")'
      BY <1>4, <1>5, <2>1, <3>1, InputFacts DEF InputEntries, stage2_only
    <3>3. InputEntries("Android") => InputEntries("Android")'
      BY <1>4, <2>1, <3>1, InputFacts DEF InputEntries, stage2_only
    <3> QED BY <1>1, <3>2, <3>3, AtBoot DEF BootOwner, BootFrame
  <2>2. CASE call # Input
    <3>1. call' # Input
      BY <1>3, <2>2, InputFacts, RequestFacts DEF Moves
    <3>2. ToSet(call.streams) \cap ToSet(Input.streams) = {}
      BY <1>2, <2>2, InputAssumption
    <3>3. InputEntries("Android") => InputEntries("Android")'
      BY <1>4, <3>2, InputFacts DEF InputEntries, stage2_only
    <3> QED BY <1>1, <3>1, <3>3, AtBoot DEF BootOwner, BootFrame
  <2> QED BY <2>1, <2>2
<1> QED BY <1>7, <1>8, <1>9, <1>10, <1>11, <1>12, AtBoot

LEMMA CommitStep ==
  ASSUME DeviceInv, BootFrame, commit_group
  PROVE  DeviceInv'
<1> USE DEF DeviceInv
<1>1. UNCHANGED <<ste, region, ring, stale, assigned>> /\ ~ Idle
  BY DEF commit_group, Doing
<1>2. /\ call \in Requests /\ ~ fatal /\ call.guest \in GuestId
      /\ call.kind = "device" /\ at = 5
  BY <1>1, StepPlaces, RequestFacts DEF FatalInv, commit_group
<1>3. call' = call /\ at' = 6 /\ fatal' = fatal /\ Len(Steps[call.kind]) = 7
  <2>1. Len(Steps[call.kind]) = 7
    BY <1>2 DEF Steps, assign_device_with_ecam
  <2> QED BY <1>2, <2>1 DEF commit_group, Ok
<1>4. slots' = [s \in StreamIDs |-> IF s \in ToSet(call.streams) THEN call.guest ELSE slots[s]]
  BY DEF commit_group, Recorded
<1>5. Types'
  <2>1. slots' \in [StreamIDs -> Owner]
    BY <1>2, <1>4 DEF Types, Owner
  <2>2. call' = call /\ at' \in 1 .. Len(Steps[call'.kind])
    BY <1>3
  <2>3. UNCHANGED <<call, fatal, stale, ste, region, ring, assigned, current_owner, word>>
    BY <1>1, <1>3 DEF BootFrame
  <2> QED BY <2>1, <2>2, <2>3 DEF Types
<1>6. ResetInv' /\ GroupInv' /\ FatalInv'
  BY <1>1, <1>2, <1>3, AtBoot DEF ResetInv, GroupInv, FatalInv
<1>7. AgreeInv'
  BY <1>1, <1>2, <1>3, <1>4 DEF AgreeInv, stage2_only
<1>8. MapInv'
  <2> SUFFICES ASSUME NEW r \in DeviceRequests, NEW g \in GuestId, NEW b \in ToSet(r.bars),
                      region[<<g, b>>] # "none", NEW s \in ToSet(r.streams) \cap StreamIDs
               PROVE  slots'[s] = g
    BY <1>1 DEF MapInv
  <2>1. slots[s] = g \/ (slots[s] = Unassigned /\ AboutToOwn(g, ToSet(r.streams)))
    BY <1>2 DEF MapInv
  <2>2. g # Unassigned
    BY DEF GuestId, Unassigned
  <2>3. CASE s \in ToSet(call.streams)
    BY <1>2, <1>4, <2>1, <2>2, <2>3 DEF GroupInv, AboutToOwn
  <2>4. CASE s \notin ToSet(call.streams)
    BY <1>4, <2>1, <2>4 DEF AboutToOwn
  <2> QED BY <2>3, <2>4
<1>9. BootOwner'
  BY <1>1, <1>2, <1>3, AtBoot, InputFacts DEF BootOwner, InputEntries, BootFrame, stage2_only
<1> QED BY <1>5, <1>6, <1>7, <1>8, <1>9, AtBoot

LEMMA RegistryStep ==
  ASSUME DeviceInv, BootFrame, register
  PROVE  DeviceInv'
<1> USE DEF DeviceInv
<1>1. UNCHANGED <<slots, ste, region, ring, stale>> /\ ~ Idle
  BY DEF register, Doing
<1>2. /\ call \in Requests /\ at \in Nat /\ ~ fatal
      /\ \/ call.kind \in {"gpu", "nic"}
         \/ call.kind = "usb" /\ at = 7
  BY <1>1, StepPlaces, RequestFacts DEF FatalInv, register
<1>3. Moves
  <2>1. Ok \/ (Return /\ fatal' \in BOOLEAN)
    BY DEF register, Err, Fatal
  <2> QED BY <1>1, <2>1, CallMoves
<1>4. PICK n \in 0 .. Len(call.keys) :
        assigned' = [k \in Keys |->
                       IF \E i \in 1 .. n : k = call.keys[i] THEN "Android" ELSE assigned[k]]
  BY DEF register
<1>5. \A i \in 1 .. n : call.keys[i] \in ToSet(call.keys)
  BY <1>2, RequestFacts DEF ToSet
<1>6. Types'
  <2>1. assigned' \in [Keys -> Owner]
    BY <1>4 DEF Types, Owner, GuestId
  <2> QED BY <1>1, <1>3, <2>1 DEF Types, BootFrame, Moves
<1>7. ResetInv'
  BY <1>1, <1>2, <1>3, AtBoot, KindOfNoCall DEF ResetInv, Moves
<1>8. GroupInv' /\ AgreeInv' /\ FatalInv'
  BY <1>1, <1>2, <1>3, KindOfNoCall DEF GroupInv, AgreeInv, FatalInv, Moves, stage2_only, Idle
<1>9. MapInv'
  <2>1. \A g \in GuestId : \A q : ~ AboutToOwn(g, q)
    BY <1>2 DEF AboutToOwn
  <2>2. \A r \in DeviceRequests : \A g \in GuestId : \A b \in ToSet(r.bars) :
          region[<<g, b>>] # "none" => \A s \in ToSet(r.streams) \cap StreamIDs : slots[s] = g
    BY <1>2, <2>1 DEF MapInv
  <2> QED BY <1>1, <2>2 DEF MapInv
<1>10. BootOwner'
  <2>1. call' = Input /\ at' >= 3 => call = Input /\ at >= 3
    BY <1>2, <1>3, InputFacts, RequestFacts DEF Moves
  <2>2. InputEntries("Android") => InputEntries("Android")'
    BY <1>1 DEF InputEntries, stage2_only
  <2>3. CASE call = Input
    <3>1. InputEntries("Android")
      BY <1>2, <2>3, AtBoot, InputFacts DEF BootOwner
    <3>2. assigned'[Key] \in {"Android", assigned[Key]}
      BY <1>4, InputFacts
    <3> QED BY <2>2, <3>1, <3>2, AtBoot DEF BootOwner, BootFrame
  <2>4. CASE call # Input
    <3>1. Key \notin ToSet(call.keys)
      BY <1>2, <2>4, InputAssumption
    <3>2. assigned'[Key] = assigned[Key]
      BY <1>4, <1>5, <3>1, InputFacts
    <3> QED BY <2>1, <2>2, <3>2, AtBoot DEF BootOwner, BootFrame
  <2> QED BY <2>3, <2>4
<1> QED BY <1>6, <1>7, <1>8, <1>9, <1>10, AtBoot

LEMMA BootPreserves ==
  ASSUME DeviceInv, BootStep
  PROVE  DeviceInv'
<1>1. BootFrame
  BY DEF BootStep, BootFrame
<1> QED
  BY <1>1, BeginStep, RegisterStep, ResetStep, MapStep, WriteStep, CommitStep, RegistryStep
     DEF BootStep, Boot

-------------------------------------------------------------------------------
(* The guests' drivers and the switch.                                     *)

LEMMA RunPreserves ==
  ASSUME DeviceInv, UNCHANGED <<bootvars, slots, region>>, Types', RunInv', OwnerInv',
         \A r \in Requests : r.kind \in {"gpu", "nic"} => \A f \in ToSet(r.fns) : ring'[f] = "none",
         \A r \in DeviceRequests : \A s \in ToSet(r.streams) \cap StreamIDs : ste'[s] = ste[s],
         Idle, sw' \in {"rewrite_ste", "execute_switch"} => ~ stale'
  PROVE  DeviceInv'
<1> USE DEF DeviceInv
<1>1. call' = call /\ at' = at /\ fatal' = fatal /\ call.kind = "none"
  BY KindOfNoCall DEF bootvars, Idle
<1>2. ResetInv' /\ GroupInv' /\ FatalInv'
  BY <1>1 DEF ResetInv, GroupInv, FatalInv, Idle
<1>3. AgreeInv'
  BY <1>1 DEF AgreeInv, stage2_only
<1>4. MapInv'
  BY <1>1 DEF MapInv, AboutToOwn
<1> QED BY <1>2, <1>3, <1>4

LEMMA GuestStep ==
  ASSUME DeviceInv, NEW g \in GuestId, ProgramRings(g) \/ SetRun(g)
  PROVE  DeviceInv'
<1> USE DEF DeviceInv
<1>1. /\ GuestsRun /\ Idle
      /\ UNCHANGED <<bootvars, slots, ste, region, assigned, current_owner, reset_state, sw, word>>
  BY DEF ProgramRings, SetRun, RunInv, switchvars
<1>2. \/ UNCHANGED <<ring, stale>>
      \/ ring' = [ring EXCEPT ![Controller] = g] /\ stale' = FALSE
  BY DEF ProgramRings, SetRun
<1>3. Controller \in Functions
  BY InputFacts, RequestFacts
<1>4. Types'
  <2>1. ring' \in [Functions -> GuestId \cup {"none", "firmware"}] /\ stale' \in BOOLEAN
    BY <1>2, <1>3 DEF Types
  <2> QED BY <1>1, <2>1 DEF Types, bootvars
<1>5. RunInv'
  BY <1>1 DEF RunInv, GuestsRun, Idle, bootvars
<1>6. OwnerInv'
  BY <1>1 DEF OwnerInv, GuestsRun, InputEntries, stage2_only, Rewritten, next_owner, bootvars
<1>7. ASSUME NEW r \in Requests, r.kind \in {"gpu", "nic"}, NEW f \in ToSet(r.fns)
      PROVE  ring'[f] = "none"
  <2>1. ToSet(r.fns) \cap ToSet(Input.fns) = {}
    <3>1. Input \in Requests /\ Input.kind \in {"device", "usb"}
      BY InputFacts
    <3> HIDE DEF Input
    <3> QED BY <1>7, <3>1, InputAssumption
  <2>2. f # Controller /\ f \in Functions
    BY <2>1, InputFacts, RequestFacts
  <2> QED BY <1>2, <1>7, <2>2 DEF Types, ResetInv
<1>8. sw' \in {"rewrite_ste", "execute_switch"} => ~ stale'
  BY <1>1, <1>2 DEF ResetInv
<1> QED BY <1>1, <1>4, <1>5, <1>6, <1>7, <1>8, RunPreserves

LEMMA ConfigureStep ==
  ASSUME DeviceInv, configure_input_switch \/ Switch \/ HaltController \/ mark_reset_clean
  PROVE  DeviceInv'
<1> USE DEF DeviceInv
<1>1. UNCHANGED <<bootvars, slots, ste, region, ring, assigned, word>> /\ Idle
  BY DEF configure_input_switch, Switch, HaltController, mark_reset_clean, RunInv, vars
<1>2. /\ current_owner' \in Owner /\ GuestsRun'
      /\ stale' \in BOOLEAN /\ sw' \in {"rest", "halt", "hcrst"} /\ sw # "rewrite_ste"
  BY DEF configure_input_switch, Switch, HaltController, mark_reset_clean, vars, GuestsRun, Types,
         Owner, GuestId, Unassigned, RunInv
<1>3. Types'
  BY <1>1, <1>2 DEF Types, bootvars
<1>4. RunInv'
  BY <1>1, <1>2 DEF RunInv, Idle, bootvars
<1>5. OwnerInv'
  <2>1. assigned[Key] = current_owner' /\ InputEntries(current_owner') /\ reset_state' = "Clean"
    <3>1. CASE configure_input_switch
      BY <3>1, KindOfNoCall DEF configure_input_switch, OwnerInv
    <3>2. CASE Switch \/ HaltController \/ mark_reset_clean
      BY <3>2 DEF Switch, HaltController, mark_reset_clean, OwnerInv, RunInv
    <3> QED BY <3>1, <3>2
  <2>2. call' # Input
    BY <1>1, InputFacts, RequestFacts DEF Idle, bootvars
  <2> QED BY <1>1, <1>2, <2>1, <2>2 DEF OwnerInv, InputEntries, stage2_only
<1> QED BY <1>1, <1>2, <1>3, <1>4, <1>5, RunPreserves DEF ResetInv

LEMMA ResetControllerStep ==
  ASSUME DeviceInv, ResetController
  PROVE  DeviceInv'
<1> USE DEF DeviceInv
<1>1. /\ UNCHANGED <<bootvars, slots, ste, region, assigned, word, current_owner, reset_state>>
      /\ sw = "hcrst" /\ GuestsRun /\ Idle /\ word = 0
  BY DEF ResetController, RunInv
<1>2. /\ sw' \in {"rest", "rewrite_ste"}
      /\ sw' = "rewrite_ste" => stale' = FALSE
      /\ \/ UNCHANGED <<ring, stale>>
         \/ ring' = [ring EXCEPT ![Controller] = "none"] /\ stale' = FALSE
  BY DEF ResetController, GoesOn
<1>3. Types'
  <2>1. ring' \in [Functions -> GuestId \cup {"none", "firmware"}] /\ stale' \in BOOLEAN
    BY <1>2 DEF Types
  <2> QED BY <1>1, <2>1 DEF Types, bootvars
<1>4. RunInv'
  BY <1>1, <1>2 DEF RunInv, GuestsRun, Idle, bootvars
<1>5. OwnerInv'
  <2>1. Rewritten(0)' /\ 0 < WordsToWrite
    BY InputFacts DEF Rewritten
  <2> QED
    BY <1>1, <1>2, <2>1 DEF OwnerInv, GuestsRun, InputEntries, stage2_only, bootvars
<1>6. ASSUME NEW r \in Requests, r.kind \in {"gpu", "nic"}, NEW f \in ToSet(r.fns)
      PROVE  ring'[f] = "none"
  <2>1. f \in Functions
    BY RequestFacts
  <2> QED BY <1>2, <1>6, <2>1 DEF Types, ResetInv
<1> QED BY <1>1, <1>2, <1>3, <1>4, <1>5, <1>6, RunPreserves

(* The switch writes the entries of the input controller and no other.     *)
LEMMA RewriteStep ==
  ASSUME DeviceInv, rewrite_ste
  PROVE  DeviceInv'
<1> USE DEF DeviceInv
<1>1. /\ UNCHANGED <<bootvars, slots, region, ring, stale, assigned, current_owner, reset_state>>
      /\ sw = "rewrite_ste" /\ GuestsRun /\ Idle /\ word \in Nat /\ word < WordsToWrite
      /\ Rewritten(word) /\ current_owner \in GuestId /\ next_owner \in GuestId
  BY DEF rewrite_ste, RunInv, OwnerInv, Types, GuestsRun, Owner, next_owner, GuestId
<1> DEFINE k == word \div 2 + 1
           s == Input.streams[k]
<1>2. /\ k \in 1 .. Len(Input.streams)
      /\ \/ word % 2 = 0 /\ word = 2 * k - 2
         \/ word % 2 # 0 /\ word = 2 * k - 1
  BY <1>1, InputFacts DEF WordsToWrite
<1>3. s \in ToSet(Input.streams) /\ s \in StreamIDs
  BY <1>2, InputFacts
<1>4. ste' = IF word % 2 = 0 THEN [ste EXCEPT ![s].vmid = next_owner]
                             ELSE [ste EXCEPT ![s].s2ttb = next_owner]
  BY DEF rewrite_ste
<1> HIDE DEF k, s
<1>5. ste' \in [StreamIDs -> [vmid : Owner, s2ttb : Owner]]
  BY <1>1, <1>3, <1>4 DEF Types, Owner
<1>0. PICK n : n = word + 1
  OBVIOUS
<1>6. Rewritten(n)'
  <2> SUFFICES ASSUME NEW i \in 1 .. Len(Input.streams)
               PROVE  /\ 2 * i - 2 < n => ste'[Input.streams[i]].vmid = next_owner
                      /\ 2 * i - 1 < n => ste'[Input.streams[i]].s2ttb = next_owner
    BY <1>1 DEF Rewritten, next_owner
  <2>1. /\ 2 * i - 2 < word => ste[Input.streams[i]].vmid = next_owner
        /\ 2 * i - 1 < word => ste[Input.streams[i]].s2ttb = next_owner
    BY <1>1 DEF Rewritten
  <2>2. Input.streams[i] \in StreamIDs
    BY InputFacts
  <2>3. i \in Nat /\ k \in Nat /\ (i = k => Input.streams[i] = s)
    BY <1>2, InputFacts DEF s
  <2>4. CASE word % 2 = 0
    <3>1. \A x \in StreamIDs : /\ ste'[x].vmid = IF x = s THEN next_owner ELSE ste[x].vmid
                               /\ ste'[x].s2ttb = ste[x].s2ttb
      BY <1>3, <1>4, <2>4 DEF Types
    <3>2. 2 * i - 2 < n => i = k \/ 2 * i - 2 < word
      BY <1>0, <1>1, <1>2, <2>3, <2>4
    <3>3. 2 * i - 1 < n => 2 * i - 1 < word
      BY <1>0, <1>1, <1>2, <2>3, <2>4
    <3> QED BY <2>1, <2>2, <2>3, <3>1, <3>2, <3>3
  <2>5. CASE word % 2 # 0
    <3>1. \A x \in StreamIDs : /\ ste'[x].s2ttb = IF x = s THEN next_owner ELSE ste[x].s2ttb
                               /\ ste'[x].vmid = ste[x].vmid
      BY <1>3, <1>4, <2>5 DEF Types
    <3>2. 2 * i - 1 < n => i = k \/ 2 * i - 1 < word
      BY <1>0, <1>1, <1>2, <2>3, <2>5
    <3>3. 2 * i - 2 < n => 2 * i - 2 < word
      BY <1>0, <1>1, <1>2, <2>3, <2>5
    <3> QED BY <2>1, <2>2, <2>3, <3>1, <3>2, <3>3
  <2> QED BY <2>4, <2>5
<1>7. \/ word + 1 = WordsToWrite /\ sw' = "execute_switch" /\ word' = 0
      \/ word + 1 # WordsToWrite /\ sw' = "rewrite_ste" /\ word' = word + 1
  BY <1>1 DEF rewrite_ste
<1>8. sw' = "execute_switch" => InputEntries(next_owner)'
  <2> SUFFICES ASSUME word + 1 = WordsToWrite, NEW x \in ToSet(Input.streams)
               PROVE  ste'[x] = stage2_only(next_owner)
    BY <1>1, <1>7 DEF InputEntries, next_owner, stage2_only
  <2>1. PICK i \in 1 .. Len(Input.streams) : x = Input.streams[i]
    BY InputFacts
  <2>2. 2 * i - 1 < n /\ 2 * i - 2 < n
    BY <1>0, <1>1, InputFacts DEF WordsToWrite
  <2>3. ste'[x].vmid = next_owner /\ ste'[x].s2ttb = next_owner
    BY <1>1, <1>6, <2>1, <2>2 DEF Rewritten, next_owner
  <2>4. ste'[x] \in [vmid : Owner, s2ttb : Owner]
    BY <1>5, InputFacts
  <2> QED BY <2>3, <2>4 DEF stage2_only
<1>9. Types'
  BY <1>1, <1>5, <1>7 DEF Types, bootvars
<1>10. RunInv'
  BY <1>1, <1>7 DEF RunInv, GuestsRun, Idle, bootvars
<1>11. OwnerInv'
  <2>1. call' # Input
    BY <1>1, InputFacts, RequestFacts DEF Idle, bootvars
  <2>2. GuestsRun' /\ assigned'[Key] = current_owner' /\ reset_state' = "Clean"
    BY <1>1 DEF OwnerInv, GuestsRun
  <2>3. WordsToWrite' = WordsToWrite /\ WordsToWrite \in Nat
    BY InputFacts DEF WordsToWrite
  <2>4. sw' = "rewrite_ste" => Rewritten(word)' /\ word' < WordsToWrite
    BY <1>0, <1>1, <1>6, <1>7, <2>3 DEF Rewritten
  <2> QED BY <1>7, <1>8, <2>1, <2>2, <2>3, <2>4 DEF OwnerInv
<1>12. \A r \in DeviceRequests : \A x \in ToSet(r.streams) \cap StreamIDs : ste'[x] = ste[x]
  <2>1. \A r \in DeviceRequests : s \notin ToSet(r.streams)
    BY <1>3, InputFacts, InputAssumption DEF DeviceRequests
  <2> QED BY <1>3, <1>4, <2>1 DEF Types
<1> QED BY <1>1, <1>9, <1>10, <1>11, <1>12, RunPreserves DEF ResetInv

LEMMA ExecuteStep ==
  ASSUME DeviceInv, execute_switch
  PROVE  DeviceInv'
<1> USE DEF DeviceInv
<1>1. /\ UNCHANGED <<bootvars, slots, ste, region, ring, stale, word>>
      /\ sw = "execute_switch" /\ sw' = "mark_reset_clean" /\ GuestsRun /\ Idle
      /\ current_owner' = next_owner /\ next_owner \in GuestId /\ InputEntries(next_owner)
  BY DEF execute_switch, RunInv, OwnerInv, next_owner, GuestId
<1>2. assigned' = [assigned EXCEPT ![Key] = next_owner]
  BY DEF execute_switch, Transferred
<1>3. Types'
  BY <1>1, <1>2 DEF Types, bootvars, Owner
<1>4. GuestsRun'
  BY <1>1 DEF GuestsRun, GuestId, Unassigned
<1>5. RunInv'
  BY <1>1, <1>4 DEF RunInv, Idle, bootvars
<1>6. OwnerInv'
  <2>1. call' # Input
    BY <1>1, InputFacts, RequestFacts DEF Idle, bootvars
  <2>2. assigned'[Key] = current_owner'
    BY <1>1, <1>2, InputFacts DEF Types
  <2> QED BY <1>1, <1>4, <2>1, <2>2 DEF OwnerInv, InputEntries, stage2_only
<1> QED BY <1>1, <1>3, <1>5, <1>6, RunPreserves DEF ResetInv

LEMMA DevicesAtBoot == InitSwitch => DeviceInv
<1> SUFFICES ASSUME InitSwitch PROVE DeviceInv
  OBVIOUS
<1> USE DEF InitSwitch, Init
<1>1. Types
  BY DEF Types, Owner, Abort
<1>2. RunInv /\ GroupInv /\ FatalInv
  BY KindOfNoCall DEF RunInv, GroupInv, FatalInv, GuestsRun, Idle
<1>3. ResetInv
  <2>1. ASSUME NEW r \in Requests, r.kind \in {"gpu", "nic"}, NEW f \in ToSet(r.fns)
        PROVE  ring[f] = "none"
    <3>1. f \in Functions
      BY RequestFacts
    <3>2. ~ \E q \in Requests : q.kind \in {"device", "usb"} /\ f \in ToSet(q.fns)
      BY <2>1, InputAssumption
    <3> QED BY <3>1, <3>2
  <2> QED BY <2>1, KindOfNoCall DEF ResetInv
<1>4. AgreeInv
  BY KindOfNoCall DEF AgreeInv, stage2_only, Abort
<1>5. MapInv
  <2>1. \A r \in DeviceRequests : ToSet(r.bars) \subseteq Regions
    BY RequestFacts DEF DeviceRequests
  <2> QED BY <2>1 DEF MapInv
<1>6. OwnerInv
  BY KindOfNoCall, InputFacts, RequestFacts DEF OwnerInv, GuestsRun
<1> QED BY <1>1, <1>2, <1>3, <1>4, <1>5, <1>6 DEF DeviceInv

LEMMA Unmoved ==
  ASSUME DeviceInv, UNCHANGED allvars
  PROVE  DeviceInv'
BY DEF DeviceInv, allvars, vars, bootvars, switchvars, Types, RunInv, ResetInv, GroupInv, AgreeInv,
       MapInv, AboutToOwn, FatalInv, OwnerInv, InputEntries, Rewritten, next_owner, GuestsRun, Idle,
       stage2_only

LEMMA DevicesAgree == Spec => []DeviceInv
<1>1. ASSUME DeviceInv, [Next]_allvars PROVE DeviceInv'
  BY <1>1, BootPreserves, GuestStep, ConfigureStep, ResetControllerStep, RewriteStep, ExecuteStep,
     Unmoved DEF Next
<1> QED BY <1>1, DevicesAtBoot, PTL DEF Spec

-------------------------------------------------------------------------------

(* The functions behind a stream go to one guest: whoever maps a part of   *)
(* a device's registers is the only one that may own a stream of its       *)
(* group, whichever configurations there are and wherever a call stops.    *)
THEOREM GroupsAreWhole == Spec => []GroupToOneGuest
<1>1. DeviceInv => GroupToOneGuest
  BY DEF DeviceInv, MapInv, GroupToOneGuest
<1> QED BY <1>1, DevicesAgree, PTL

(* Between two calls the registry of assign_device_group and the stream    *)
(* table say the same of every stream it handles.                          *)
THEOREM StreamsAreCommitted == Spec => []CommittedStreams
<1>1. DeviceInv => CommittedStreams
  BY KindOfNoCall DEF DeviceInv, AgreeInv, CommittedStreams, Idle
<1> QED BY <1>1, DevicesAgree, PTL

(* Between two switches all records of the input controller's owner agree. *)
THEOREM OwnersHaveTheirStreams == Spec => []OwnerHasStreams
<1>1. DeviceInv => OwnerHasStreams
  BY DEF DeviceInv, OwnerInv, OwnerHasStreams, InputEntries
<1> QED BY <1>1, DevicesAgree, PTL

(* A device changes hands, at boot or in a switch, only without the DMA    *)
(* state it had before.                                                    *)
THEOREM HandedOverClean == Spec => HandedOverReset
<1> DEFINE Action == (slots' # slots \/ assigned' # assigned) => ~ stale
<1>1. ASSUME DeviceInv, Next PROVE Action
  <2> USE DEF DeviceInv
  <2>1. CASE commit_group \/ register
    <3>1. ~ Idle
      BY <2>1 DEF commit_group, register, Doing
    <3> QED BY <1>1, <2>1, <3>1, StepPlaces DEF commit_group, register, ResetInv
  <2>2. CASE execute_switch
    BY <1>1, <2>2 DEF execute_switch, ResetInv
  <2>3. CASE UNCHANGED <<slots, assigned>>
    BY <2>3
  <2>4. UNCHANGED <<slots, assigned>> \/ commit_group \/ register \/ execute_switch
    BY <1>1 DEF Next, BootStep, Boot, Begin, check_group, trigger_flr, enable_vfs, map_bars,
                write_stes, map_ecam_window, enable_bus_master, xhci_halt, xhci_hcrst,
                configure_input_switch, ProgramRings, SetRun, Switch, HaltController,
                ResetController, rewrite_ste, mark_reset_clean, vars
  <2> QED BY <2>1, <2>2, <2>3, <2>4
<1>2. DeviceInv /\ [Next]_allvars => [Action]_allvars
  BY <1>1
<1> QED BY <1>2, DevicesAgree, PTL DEF Spec, HandedOverReset

-------------------------------------------------------------------------------

(***************************************************************************)
(* The registries of owners.                                               *)
(***************************************************************************)

Interfaces ==
  [kind : {"vf", "physical", "tunnel"}, addr : NicAddrs \cup {Nobody}, mac : Macs, guest : Guests]
Namespaces ==
  [nsid : Nsids \cup {InvalidNsid}, guest : Guests \cup {Nobody}, controller : Controllers \cup {Nobody}]
NvmeVfs == [controller : Controllers, guest : Guests]
GpuVfs == [vf : Vfs, guest : Guests]

KindsOf(mode) ==
  CASE mode = "none" -> {} [] mode = "SrIov" -> {"vf"}
    [] mode = "DedicatedAdapter" -> {"physical"} [] OTHER -> {"physical", "tunnel"}

(* The list of interfaces holds what the mode allows, each address once.   *)
NicInv ==
  /\ nic \in [mode : {"none", "SrIov", "DedicatedAdapter", "ParavirtBridge"}, probed : BOOLEAN,
              vfs : Seq(Interfaces), bridge : Seq(Bridges), ifs : Seq(Interfaces)]
  /\ \A i, k \in DOMAIN nic.ifs : nic.ifs[i].mac = nic.ifs[k].mac => i = k
  /\ \A i \in DOMAIN nic.ifs : nic.ifs[i].kind \in KindsOf(nic.mode)
  /\ nic.bridge # << >> =>
       /\ nic.mode = "ParavirtBridge" /\ Len(nic.ifs) = 2
       /\ nic.ifs[1].kind = "physical" /\ nic.ifs[2].kind = "tunnel"
       /\ nic.ifs[1].guest # nic.ifs[2].guest

(* Of the entries of one namespace number only the first is ever attached, *)
(* through a controller its guest had by then.                             *)
NvmeInv ==
  /\ storage \in [caps : {"none", "bare", "management", "sriov"}, sriov : BOOLEAN,
                  vfs : Seq(NvmeVfs), ns : Seq(Namespaces)]
  /\ \A i \in DOMAIN storage.ns : storage.ns[i].guest # Nobody =>
       \A k \in DOMAIN storage.ns : k < i => storage.ns[k].nsid # storage.ns[i].nsid
  /\ \A i \in DOMAIN storage.ns : storage.ns[i].controller # Nobody =>
       \E k \in DOMAIN storage.vfs : storage.vfs[k].guest = storage.ns[i].guest
                                    /\ storage.vfs[k].controller = storage.ns[i].controller

GpuInv ==
  /\ gpu \in [max : Nat, enabled : BOOLEAN, vfs : Seq(GpuVfs)]
  /\ \A i, k \in DOMAIN gpu.vfs : gpu.vfs[i].vf = gpu.vfs[k].vf => i = k

WindowsInv ==
  /\ windows \in [config : [set : BOOLEAN, valid : BOOLEAN, hyperv : BOOLEAN], running : BOOLEAN]
  /\ windows.config.set => windows.config.valid
  /\ windows.running => windows.config.set

RegInv == NicInv /\ NvmeInv /\ GpuInv /\ WindowsInv

(* What a step leaves to those who have it.                                *)
NicKept ==
  /\ \A m \in Macs : MacOwner(m) # Nobody => MacOwner(m)' = MacOwner(m)
  /\ \A g \in Guests : interface_for_guest(g) # << >> => interface_for_guest(g)' = interface_for_guest(g)
  /\ nic.mode # "none" => nic'.mode = nic.mode
NsKept == \A n \in Nsids : ns_owner(n) # Nobody => ns_owner(n)' = ns_owner(n)
VfKept == \A v \in Vfs : query_owner(v) # Nobody => query_owner(v)' = query_owner(v)

-------------------------------------------------------------------------------

(* What a find in a list rests on.                                         *)
LEMMA MinIsLeast ==
  ASSUME NEW I, I \subseteq Nat, I # {}
  PROVE  Min(I) \in I /\ \A y \in I : Min(I) <= y
<1>1. \E x \in I : \A y \in I : x <= y
  BY LeastOf
<1> QED BY <1>1 DEF Min

(* A list that grows at its end keeps its first match.                     *)
LEMMA MinStays ==
  ASSUME NEW n \in Nat, NEW I, NEW J, I # {}, I \subseteq 1 .. n, J \subseteq Nat \ {0},
         \A i \in 1 .. n : i \in J <=> i \in I
  PROVE  J # {} /\ Min(J) = Min(I)
<1>1. Min(I) \in I /\ \A y \in I : Min(I) <= y
  BY MinIsLeast
<1>2. J # {} /\ I \subseteq J
  OBVIOUS
<1>3. Min(J) \in J /\ \A y \in J : Min(J) <= y
  BY <1>2, MinIsLeast
<1>4. Min(J) <= Min(I) /\ Min(I) \in 1 .. n /\ Min(J) \in Nat \ {0}
  BY <1>1, <1>2, <1>3
<1>5. Min(J) \in 1 .. n
  BY <1>4
<1>6. Min(J) \in I
  BY <1>3, <1>5
<1> QED BY <1>1, <1>4, <1>6

WithMac(ifs, m) == {i \in 1 .. Len(ifs) : ifs[i].mac = m}
WithGuest(ifs, g) == {i \in 1 .. Len(ifs) : ifs[i].guest = g}
WithNsid(ns, n) == {i \in 1 .. Len(ns) : ns[i].nsid = n}
WithVf(vfs, v) == {i \in 1 .. Len(vfs) : vfs[i].vf = v}

(* The finds on any list, the next step's too.                             *)
OwnerOfMac(list, x) == OwnerIn(list, LAMBDA e : e.mac = x)
OwnerOfNs(list, x) == OwnerIn(list, LAMBDA e : e.nsid = x)
OwnerOfVf(list, x) == OwnerIn(list, LAMBDA e : e.vf = x)
FirstOfGuest(list, x) == FirstWith(list, LAMBDA e : e.guest = x)

LEMMA MacFound ==
  ASSUME NEW list, NEW x, Len(list) \in Nat
  PROVE  OwnerOfMac(list, x)
           = IF WithMac(list, x) = {} THEN Nobody ELSE list[Min(WithMac(list, x))].guest
<1> DEFINE I == WithMac(list, x)
<1>1. CASE I = {}
  BY <1>1 DEF OwnerOfMac, OwnerIn, FirstWith, SelectInSeq, WithMac
<1>2. CASE I # {}
  <2>1. I \subseteq Nat
    BY DEF WithMac
  <2>2. Min(I) \in I
    BY <1>2, <2>1, MinIsLeast
  <2>3. Min(I) # 0
    BY <2>2 DEF WithMac
  <2> DEFINE first == list[Min(I)]
  <2>4. <<first>> # << >> /\ <<first>>[1] = first
    OBVIOUS
  <2>5. SelectInSeq(list, LAMBDA e : e.mac = x) = Min(I)
    BY <1>2 DEF SelectInSeq, WithMac
  <2>6. FirstWith(list, LAMBDA e : e.mac = x) = <<first>>
    BY <2>3, <2>5 DEF FirstWith
  <2> QED BY <1>2, <2>4, <2>6 DEF OwnerOfMac, OwnerIn
<1> QED BY <1>1, <1>2

LEMMA NsFound ==
  ASSUME NEW list, NEW x, Len(list) \in Nat
  PROVE  OwnerOfNs(list, x)
           = IF WithNsid(list, x) = {} THEN Nobody ELSE list[Min(WithNsid(list, x))].guest
<1> DEFINE I == WithNsid(list, x)
<1>1. CASE I = {}
  BY <1>1 DEF OwnerOfNs, OwnerIn, FirstWith, SelectInSeq, WithNsid
<1>2. CASE I # {}
  <2>1. I \subseteq Nat
    BY DEF WithNsid
  <2>2. Min(I) \in I
    BY <1>2, <2>1, MinIsLeast
  <2>3. Min(I) # 0
    BY <2>2 DEF WithNsid
  <2> DEFINE first == list[Min(I)]
  <2>4. <<first>> # << >> /\ <<first>>[1] = first
    OBVIOUS
  <2>5. SelectInSeq(list, LAMBDA e : e.nsid = x) = Min(I)
    BY <1>2 DEF SelectInSeq, WithNsid
  <2>6. FirstWith(list, LAMBDA e : e.nsid = x) = <<first>>
    BY <2>3, <2>5 DEF FirstWith
  <2> QED BY <1>2, <2>4, <2>6 DEF OwnerOfNs, OwnerIn
<1> QED BY <1>1, <1>2

LEMMA VfFound ==
  ASSUME NEW list, NEW x, Len(list) \in Nat
  PROVE  OwnerOfVf(list, x)
           = IF WithVf(list, x) = {} THEN Nobody ELSE list[Min(WithVf(list, x))].guest
<1> DEFINE I == WithVf(list, x)
<1>1. CASE I = {}
  BY <1>1 DEF OwnerOfVf, OwnerIn, FirstWith, SelectInSeq, WithVf
<1>2. CASE I # {}
  <2>1. I \subseteq Nat
    BY DEF WithVf
  <2>2. Min(I) \in I
    BY <1>2, <2>1, MinIsLeast
  <2>3. Min(I) # 0
    BY <2>2 DEF WithVf
  <2> DEFINE first == list[Min(I)]
  <2>4. <<first>> # << >> /\ <<first>>[1] = first
    OBVIOUS
  <2>5. SelectInSeq(list, LAMBDA e : e.vf = x) = Min(I)
    BY <1>2 DEF SelectInSeq, WithVf
  <2>6. FirstWith(list, LAMBDA e : e.vf = x) = <<first>>
    BY <2>3, <2>5 DEF FirstWith
  <2> QED BY <1>2, <2>4, <2>6 DEF OwnerOfVf, OwnerIn
<1> QED BY <1>1, <1>2

LEMMA InterfaceFound ==
  ASSUME NEW list, NEW g, Len(list) \in Nat
  PROVE  FirstOfGuest(list, g)
           = IF WithGuest(list, g) = {} THEN << >> ELSE <<list[Min(WithGuest(list, g))]>>
<1> DEFINE I == WithGuest(list, g)
<1>1. CASE I = {}
  BY <1>1 DEF FirstOfGuest, FirstWith, SelectInSeq, WithGuest
<1>2. CASE I # {}
  <2>1. I \subseteq Nat
    BY DEF WithGuest
  <2>2. Min(I) \in I
    BY <1>2, <2>1, MinIsLeast
  <2>3. Min(I) # 0
    BY <2>2 DEF WithGuest
  <2>4. SelectInSeq(list, LAMBDA e : e.guest = g) = Min(I)
    BY <1>2 DEF SelectInSeq, WithGuest
  <2> QED BY <1>2, <2>3, <2>4 DEF FirstOfGuest, FirstWith
<1> QED BY <1>1, <1>2

(* The list has grown at its end, or not at all.                           *)
Grown(old, new) ==
  /\ Len(old) \in Nat /\ Len(new) \in Nat /\ Len(old) <= Len(new)
  /\ \A i \in 1 .. Len(old) : new[i] = old[i]

LEMMA NicGrows ==
  ASSUME Grown(nic.ifs, nic'.ifs), nic.mode # "none" => nic'.mode = nic.mode
  PROVE  NicKept
<1>1. ASSUME NEW m \in Macs, MacOwner(m) # Nobody
      PROVE  MacOwner(m)' = MacOwner(m)
  <2> DEFINE I == WithMac(nic.ifs, m)
             J == WithMac(nic'.ifs, m)
  <2>1. I # {} /\ MacOwner(m) = nic.ifs[Min(I)].guest
    BY <1>1, MacFound DEF Grown, MacOwner, OwnerOfMac
  <2>2. I \subseteq 1 .. Len(nic.ifs) /\ I \subseteq Nat /\ J \subseteq Nat \ {0}
        /\ \A i \in 1 .. Len(nic.ifs) : i \in J <=> i \in I
    BY DEF Grown, WithMac
  <2>a. Len(nic.ifs) \in Nat
    BY DEF Grown
  <2>3. J # {} /\ Min(J) = Min(I)
    <3> HIDE DEF I, J
    <3> QED BY <2>1, <2>2, <2>a, MinStays
  <2>4. Min(I) \in 1 .. Len(nic.ifs)
    BY <2>1, <2>2, MinIsLeast DEF Grown
  <2>b. MacOwner(m)' = OwnerOfMac(nic'.ifs, m)
    BY DEF MacOwner, OwnerOfMac, OwnerIn, FirstWith, SelectInSeq
  <2>5. MacOwner(m)' = nic'.ifs[Min(J)].guest
    BY <2>3, <2>b, MacFound DEF Grown
  <2> QED BY <2>1, <2>3, <2>4, <2>5 DEF Grown
<1>2. ASSUME NEW g \in Guests, interface_for_guest(g) # << >>
      PROVE  interface_for_guest(g)' = interface_for_guest(g)
  <2> DEFINE I == WithGuest(nic.ifs, g)
             J == WithGuest(nic'.ifs, g)
  <2>1. I # {} /\ interface_for_guest(g) = <<nic.ifs[Min(I)]>>
    BY <1>2, InterfaceFound DEF Grown, interface_for_guest, FirstOfGuest
  <2>2. I \subseteq 1 .. Len(nic.ifs) /\ I \subseteq Nat /\ J \subseteq Nat \ {0}
        /\ \A i \in 1 .. Len(nic.ifs) : i \in J <=> i \in I
    BY DEF Grown, WithGuest
  <2>a. Len(nic.ifs) \in Nat
    BY DEF Grown
  <2>3. J # {} /\ Min(J) = Min(I)
    <3> HIDE DEF I, J
    <3> QED BY <2>1, <2>2, <2>a, MinStays
  <2>4. Min(I) \in 1 .. Len(nic.ifs)
    BY <2>1, <2>2, MinIsLeast DEF Grown
  <2>b. interface_for_guest(g)' = FirstOfGuest(nic'.ifs, g)
    BY DEF interface_for_guest, FirstOfGuest, FirstWith, SelectInSeq
  <2>5. interface_for_guest(g)' = <<nic'.ifs[Min(J)]>>
    BY <2>3, <2>b, InterfaceFound DEF Grown
  <2> QED BY <2>1, <2>3, <2>4, <2>5 DEF Grown
<1> QED BY <1>1, <1>2 DEF NicKept

(* An attachment changes the first entry of its number, which had nobody.  *)
NsGrown(old, new) ==
  /\ Len(old) \in Nat /\ Len(new) \in Nat /\ Len(old) <= Len(new)
  /\ \A i \in 1 .. Len(old) :
       /\ new[i].nsid = old[i].nsid
       /\ old[i].guest # Nobody => new[i].guest = old[i].guest

LEMMA NsGrows ==
  ASSUME NsGrown(storage.ns, storage'.ns)
  PROVE  NsKept
<1>1. SUFFICES ASSUME NEW n \in Nsids, ns_owner(n) # Nobody
               PROVE  ns_owner(n)' = ns_owner(n)
  BY DEF NsKept
<1> DEFINE I == WithNsid(storage.ns, n)
           J == WithNsid(storage'.ns, n)
<1>2. I # {} /\ ns_owner(n) = storage.ns[Min(I)].guest
  BY <1>1, NsFound DEF NsGrown, ns_owner, OwnerOfNs
<1>3. I \subseteq 1 .. Len(storage.ns) /\ I \subseteq Nat /\ J \subseteq Nat \ {0}
        /\ \A i \in 1 .. Len(storage.ns) : i \in J <=> i \in I
  BY DEF NsGrown, WithNsid
<1>a. Len(storage.ns) \in Nat
  BY DEF NsGrown
<1>4. J # {} /\ Min(J) = Min(I)
  <2> HIDE DEF I, J
  <2> QED BY <1>2, <1>3, <1>a, MinStays
<1>5. Min(I) \in 1 .. Len(storage.ns)
  BY <1>2, <1>3, MinIsLeast
<1>b. ns_owner(n)' = OwnerOfNs(storage'.ns, n)
  BY DEF ns_owner, OwnerOfNs, OwnerIn, FirstWith, SelectInSeq
<1>6. ns_owner(n)' = storage'.ns[Min(J)].guest
  BY <1>4, <1>b, NsFound DEF NsGrown
<1> QED BY <1>1, <1>2, <1>4, <1>5, <1>6 DEF NsGrown

LEMMA VfsGrow ==
  ASSUME Grown(gpu.vfs, gpu'.vfs)
  PROVE  VfKept
<1>1. SUFFICES ASSUME NEW v \in Vfs, query_owner(v) # Nobody
               PROVE  query_owner(v)' = query_owner(v)
  BY DEF VfKept
<1> DEFINE I == WithVf(gpu.vfs, v)
           J == WithVf(gpu'.vfs, v)
<1>2. I # {} /\ query_owner(v) = gpu.vfs[Min(I)].guest
  BY <1>1, VfFound DEF Grown, query_owner, OwnerOfVf
<1>3. I \subseteq 1 .. Len(gpu.vfs) /\ I \subseteq Nat /\ J \subseteq Nat \ {0}
        /\ \A i \in 1 .. Len(gpu.vfs) : i \in J <=> i \in I
  BY DEF Grown, WithVf
<1>a. Len(gpu.vfs) \in Nat
  BY DEF Grown
<1>4. J # {} /\ Min(J) = Min(I)
  <2> HIDE DEF I, J
  <2> QED BY <1>2, <1>3, <1>a, MinStays
<1>5. Min(I) \in 1 .. Len(gpu.vfs)
  BY <1>2, <1>3, MinIsLeast DEF Grown
<1>b. query_owner(v)' = OwnerOfVf(gpu'.vfs, v)
  BY DEF query_owner, OwnerOfVf, OwnerIn, FirstWith, SelectInSeq
<1>6. query_owner(v)' = gpu'.vfs[Min(J)].guest
  BY <1>4, <1>b, VfFound DEF Grown
<1> QED BY <1>2, <1>4, <1>5, <1>6 DEF Grown

-------------------------------------------------------------------------------

LEMMA RegStarts == RegistriesInit => RegInv
<1> SUFFICES ASSUME RegistriesInit PROVE RegInv
  OBVIOUS
<1>1. NicInv
  BY DEF RegistriesInit, NicInv
<1>2. NvmeInv
  BY DEF RegistriesInit, NvmeInv
<1>3. GpuInv
  BY DEF RegistriesInit, GpuInv
<1>4. WindowsInv
  BY DEF RegistriesInit, WindowsInv, NoWindows
<1> QED BY <1>1, <1>2, <1>3, <1>4 DEF RegInv

LEMMA NicRests ==
  ASSUME NicInv, nic' = nic
  PROVE  NicInv' /\ NicKept
<1>1. NicInv'
  BY DEF NicInv
<1>2. Grown(nic.ifs, nic'.ifs)
  BY DEF NicInv, Grown
<1> QED BY <1>1, <1>2, NicGrows

LEMMA NvmeRests ==
  ASSUME NvmeInv, storage' = storage
  PROVE  NvmeInv' /\ NsKept
<1>1. NvmeInv'
  BY DEF NvmeInv
<1>2. NsGrown(storage.ns, storage'.ns)
  BY DEF NvmeInv, NsGrown
<1> QED BY <1>1, <1>2, NsGrows

LEMMA GpuRests ==
  ASSUME GpuInv, gpu' = gpu
  PROVE  GpuInv' /\ VfKept
<1>1. GpuInv'
  BY DEF GpuInv
<1>2. Grown(gpu.vfs, gpu'.vfs)
  BY DEF GpuInv, Grown
<1> QED BY <1>1, <1>2, VfsGrow

(* What registering adds to a list of interfaces.                          *)
LEMMA EntryRegistered ==
  ASSUME NEW ifs \in Seq(Interfaces), NEW i \in Interfaces,
         \A j, k \in DOMAIN ifs : ifs[j].mac = ifs[k].mac => j = k
  PROVE  LET new == Register(ifs, i)
         IN /\ new \in Seq(Interfaces) /\ Grown(ifs, new)
            /\ \A j, k \in DOMAIN new : new[j].mac = new[k].mac => j = k
            /\ \A j \in DOMAIN new : j \in DOMAIN ifs \/ new[j] = i
            /\ CanRegister(ifs, i) => Len(new) = Len(ifs) + 1 /\ new[Len(ifs) + 1] = i
<1> DEFINE new == Register(ifs, i)
<1>1. CASE ~ CanRegister(ifs, i)
  BY <1>1 DEF Register, Grown
<1>2. CASE CanRegister(ifs, i)
  <2>1. new = Append(ifs, i)
    BY <1>2 DEF Register
  <2> HIDE DEF new
  <2>2. /\ new \in Seq(Interfaces) /\ Len(new) = Len(ifs) + 1 /\ Len(ifs) \in Nat
        /\ \A j \in 1 .. Len(ifs) : new[j] = ifs[j]
        /\ new[Len(ifs) + 1] = i
        /\ DOMAIN new = 1 .. Len(ifs) + 1 /\ DOMAIN ifs = 1 .. Len(ifs)
    BY <2>1
  <2>3. \A j \in DOMAIN new : j \in DOMAIN ifs \/ (j = Len(ifs) + 1 /\ new[j] = i)
    BY <2>2
  <2>4. \A j \in DOMAIN ifs : ifs[j].mac # i.mac
    BY <1>2 DEF CanRegister
  <2>5. ASSUME NEW j \in DOMAIN new, NEW k \in DOMAIN new, new[j].mac = new[k].mac
        PROVE  j = k
    BY <2>2, <2>3, <2>4, <2>5
  <2>6. Grown(ifs, new)
    BY <2>2 DEF Grown
  <2> QED BY <2>2, <2>3, <2>5, <2>6 DEF new
<1> QED BY <1>1, <1>2

LEMMA NicStep ==
  ASSUME NicInv,
         \/ \E n \in {0, 2} : probe_sr_iov(n)
         \/ enable_sr_iov
         \/ \E a \in NicAddrs, m \in Macs, g \in Guests : assign_sr_iov_vf(a, m, g) \/ assign_dedicated(a, m, g)
         \/ \E b \in Bridges : configure_bridge(b)
  PROVE  NicInv' /\ NicKept
<1>a. /\ nic.ifs \in Seq(Interfaces) /\ nic.vfs \in Seq(Interfaces)
      /\ Grown(nic.ifs, nic.ifs)
      /\ \A i, k \in DOMAIN nic.ifs : nic.ifs[i].mac = nic.ifs[k].mac => i = k
  BY DEF NicInv, Grown
<1>b. nic.mode # "ParavirtBridge" => nic.bridge = << >>
  BY DEF NicInv
<1>1. CASE \E n \in {0, 2} : probe_sr_iov(n)
  <2>1. nic' = [nic EXCEPT !.probed = TRUE, !.vfs = << >>]
    BY <1>1 DEF probe_sr_iov
  <2>a. << >> \in Seq(Interfaces)
    OBVIOUS
  <2>b. /\ nic'.ifs = nic.ifs /\ nic'.mode = nic.mode /\ nic'.bridge = nic.bridge
        /\ nic' \in [mode : {"none", "SrIov", "DedicatedAdapter", "ParavirtBridge"}, probed : BOOLEAN,
                     vfs : Seq(Interfaces), bridge : Seq(Bridges), ifs : Seq(Interfaces)]
    BY <2>1, <2>a DEF NicInv
  <2>2. NicInv' /\ nic'.ifs = nic.ifs /\ nic'.mode = nic.mode
    BY <2>b DEF NicInv
  <2> QED BY <1>a, <2>2, NicGrows
<1>2. CASE enable_sr_iov
  <2>1. nic' = [nic EXCEPT !.mode = "SrIov"] /\ nic.mode = "none"
    BY <1>2 DEF enable_sr_iov
  <2>a. /\ nic'.ifs = nic.ifs /\ nic'.mode = "SrIov" /\ nic'.bridge = << >>
        /\ nic' \in [mode : {"none", "SrIov", "DedicatedAdapter", "ParavirtBridge"}, probed : BOOLEAN,
                     vfs : Seq(Interfaces), bridge : Seq(Bridges), ifs : Seq(Interfaces)]
    BY <2>1, <1>b DEF NicInv
  <2>b. \A i \in DOMAIN nic.ifs : FALSE
    BY <2>1 DEF NicInv, KindsOf
  <2>2. NicInv' /\ nic'.ifs = nic.ifs
    BY <2>a, <2>b DEF NicInv
  <2> QED BY <1>a, <2>1, <2>2, NicGrows
<1>3. ASSUME NEW a \in NicAddrs, NEW m \in Macs, NEW g \in Guests, assign_sr_iov_vf(a, m, g)
      PROVE  NicInv' /\ NicKept
  <2> DEFINE i == Interface("vf", a, m, g)
             new == Register(nic.ifs, i)
  <2>1. nic' = [nic EXCEPT !.vfs = Append(@, i), !.ifs = new] /\ nic.mode = "SrIov"
    BY <1>3 DEF assign_sr_iov_vf
  <2>2. i \in Interfaces /\ i.kind = "vf"
    BY DEF Interface, Interfaces
  <2>3. Append(nic.vfs, i) \in Seq(Interfaces)
    BY <1>a, <2>2
  <2>4. /\ new \in Seq(Interfaces) /\ Grown(nic.ifs, new)
        /\ \A j, k \in DOMAIN new : new[j].mac = new[k].mac => j = k
        /\ \A j \in DOMAIN new : j \in DOMAIN nic.ifs \/ new[j] = i
    BY <1>a, <2>2, EntryRegistered
  <2> HIDE DEF new, i
  <2>5. nic'.ifs = new /\ nic'.mode = "SrIov" /\ nic'.bridge = << >>
    BY <2>1, <1>b DEF NicInv
  <2>6. \A j \in DOMAIN nic.ifs : j \in DOMAIN new /\ new[j] = nic.ifs[j]
    BY <2>4, <1>a DEF Grown
  <2>7. \A j \in DOMAIN new : new[j].kind \in KindsOf("SrIov")
    BY <2>1, <2>2, <2>4, <2>6 DEF NicInv, KindsOf
  <2>8. NicInv'
    BY <2>1, <2>3, <2>4, <2>5, <2>7 DEF NicInv
  <2> QED BY <2>1, <2>4, <2>5, <2>8, NicGrows
<1>4. ASSUME NEW a \in NicAddrs, NEW m \in Macs, NEW g \in Guests, assign_dedicated(a, m, g)
      PROVE  NicInv' /\ NicKept
  <2> DEFINE i == Interface("physical", a, m, g)
             new == Register(nic.ifs, i)
  <2>1. nic' = [nic EXCEPT !.ifs = new, !.mode = "DedicatedAdapter"] /\ nic.mode \in {"DedicatedAdapter", "none"}
    BY <1>4 DEF assign_dedicated
  <2>2. i \in Interfaces /\ i.kind = "physical"
    BY DEF Interface, Interfaces
  <2>4. /\ new \in Seq(Interfaces) /\ Grown(nic.ifs, new)
        /\ \A j, k \in DOMAIN new : new[j].mac = new[k].mac => j = k
        /\ \A j \in DOMAIN new : j \in DOMAIN nic.ifs \/ new[j] = i
    BY <1>a, <2>2, EntryRegistered
  <2> HIDE DEF new, i
  <2>5. nic'.ifs = new /\ nic'.mode = "DedicatedAdapter" /\ nic'.bridge = << >>
    BY <2>1, <1>b DEF NicInv
  <2>a. \A j \in DOMAIN nic.ifs : nic.ifs[j].kind = "physical"
    BY <2>1 DEF NicInv, KindsOf
  <2>b. \A j \in DOMAIN nic.ifs : j \in DOMAIN new /\ new[j] = nic.ifs[j]
    BY <2>4, <1>a DEF Grown
  <2>6. \A j \in DOMAIN nic.ifs : j \in DOMAIN new /\ new[j] = nic.ifs[j] /\ nic.ifs[j].kind = "physical"
    BY <2>a, <2>b
  <2>7. \A j \in DOMAIN new : new[j].kind \in KindsOf("DedicatedAdapter")
    BY <2>2, <2>4, <2>6 DEF KindsOf
  <2>8. NicInv'
    BY <2>1, <2>4, <2>5, <2>7 DEF NicInv
  <2> QED BY <2>1, <2>4, <2>5, <2>8, NicGrows
<1>5. ASSUME NEW b \in Bridges, configure_bridge(b)
      PROVE  NicInv' /\ NicKept
  <2> DEFINE owner == Interface("physical", b.addr, b.owner_mac, b.owner)
             tunnel == Interface("tunnel", Nobody, b.tunnel_mac, b.tunnel)
             first == Register(nic.ifs, owner)
             both == Register(first, tunnel)
  <2>1. /\ owner \in Interfaces /\ owner.kind = "physical" /\ owner.mac = b.owner_mac /\ owner.guest = b.owner
        /\ tunnel \in Interfaces /\ tunnel.kind = "tunnel" /\ tunnel.mac = b.tunnel_mac /\ tunnel.guest = b.tunnel
    BY DEF Interface, Interfaces, Bridges
  <2>2. /\ nic.mode = "none" /\ b.owner # b.tunnel /\ b.owner_mac # b.tunnel_mac /\ CanRegister(nic.ifs, owner)
        /\ nic' = IF CanRegister(first, tunnel)
                  THEN [nic EXCEPT !.ifs = both, !.bridge = <<b>>, !.mode = "ParavirtBridge"]
                  ELSE [nic EXCEPT !.ifs = first]
    BY <1>5 DEF configure_bridge, ValidBridge
  <2>3. Len(nic.ifs) = 0
    BY <2>2, <1>a DEF NicInv, KindsOf
  <2>4. /\ first \in Seq(Interfaces) /\ Grown(nic.ifs, first) /\ Len(first) = 1 /\ first[1] = owner
        /\ \A j, k \in DOMAIN first : first[j].mac = first[k].mac => j = k
    <3>1. /\ first \in Seq(Interfaces) /\ Grown(nic.ifs, first)
          /\ \A j, k \in DOMAIN first : first[j].mac = first[k].mac => j = k
          /\ Len(first) = Len(nic.ifs) + 1 /\ first[Len(nic.ifs) + 1] = owner
      BY <1>a, <2>1, <2>2, EntryRegistered
    <3>2. Len(nic.ifs) + 1 = 1
      BY <2>3
    <3> QED BY <3>1, <3>2
  <2> HIDE DEF first, owner, tunnel
  <2>a. \A k \in DOMAIN first : k = 1
    BY <2>4
  <2>b. Len(first) < MAX_INTERFACES
    BY <2>4, RegistriesAssumption
  <2>c. tunnel.mac # owner.mac
    BY <2>1, <2>2
  <2>5. CanRegister(first, tunnel)
    BY <2>4, <2>a, <2>b, <2>c DEF CanRegister
  <2>6. /\ both \in Seq(Interfaces) /\ Grown(first, both) /\ Len(both) = 2 /\ both[2] = tunnel
        /\ \A j, k \in DOMAIN both : both[j].mac = both[k].mac => j = k
    <3>1. /\ both \in Seq(Interfaces) /\ Grown(first, both)
          /\ \A j, k \in DOMAIN both : both[j].mac = both[k].mac => j = k
          /\ Len(both) = Len(first) + 1 /\ both[Len(first) + 1] = tunnel
      BY <2>1, <2>4, <2>5, EntryRegistered
    <3>2. Len(first) + 1 = 2
      BY <2>4
    <3> QED BY <3>1, <3>2
  <2> HIDE DEF both
  <2>7. both[1] = owner
    BY <2>4, <2>6 DEF Grown
  <2>8. nic' = [nic EXCEPT !.ifs = both, !.bridge = <<b>>, !.mode = "ParavirtBridge"]
    BY <2>2, <2>5
  <2>d. <<b>> \in Seq(Bridges)
    OBVIOUS
  <2>9. nic'.ifs = both /\ nic'.mode = "ParavirtBridge" /\ <<b>> \in Seq(Bridges)
    BY <2>8, <2>d DEF NicInv
  <2>10. \A j \in DOMAIN both : both[j].kind \in KindsOf("ParavirtBridge")
    BY <2>1, <2>6, <2>7 DEF KindsOf
  <2>11. NicInv'
    BY <2>1, <2>2, <2>6, <2>7, <2>8, <2>9, <2>10 DEF NicInv
  <2>12. Grown(nic.ifs, both)
    BY <2>3, <2>6 DEF Grown
  <2> QED BY <2>2, <2>9, <2>11, <2>12, NicGrows
<1> QED BY <1>1, <1>2, <1>3, <1>4, <1>5

(* The controller an attachment names is one its guest was given.          *)
LEMMA ControllerGiven ==
  ASSUME NvmeInv, NEW g \in Guests
  PROVE  \/ ControllerOf(g) = Nobody
         \/ /\ ControllerOf(g) \in Controllers
            /\ \E k \in DOMAIN storage.vfs :
                 storage.vfs[k].guest = g /\ storage.vfs[k].controller = ControllerOf(g)
<1> DEFINE I == WithGuest(storage.vfs, g)
           vf == FirstWith(storage.vfs, LAMBDA v : v.guest = g)
<1>1. Len(storage.vfs) \in Nat /\ DOMAIN storage.vfs = 1 .. Len(storage.vfs) /\ storage.vfs \in Seq(NvmeVfs)
  BY DEF NvmeInv
<1>2. vf = IF I = {} THEN << >> ELSE <<storage.vfs[Min(I)]>>
  BY <1>1, InterfaceFound DEF FirstOfGuest
<1>3. ControllerOf(g) = IF storage.sriov /\ vf # << >> THEN vf[1].controller ELSE Nobody
  BY DEF ControllerOf
<1>4. CASE I = {}
  BY <1>2, <1>3, <1>4
<1>5. CASE I # {}
  <2>1. I \subseteq Nat /\ I \subseteq DOMAIN storage.vfs
    BY <1>1 DEF WithGuest
  <2>2. Min(I) \in I
    BY <1>5, <2>1, MinIsLeast
  <2> DEFINE place == Min(I)
  <2>a. place \in I
    BY <2>2
  <2> HIDE DEF place
  <2>b. place \in DOMAIN storage.vfs /\ storage.vfs[place].guest = g
    BY <1>1, <2>a DEF WithGuest
  <2>c. storage.vfs[place] \in NvmeVfs
    BY <1>1, <2>b
  <2>3. /\ Min(I) \in DOMAIN storage.vfs /\ storage.vfs[Min(I)].guest = g
        /\ storage.vfs[Min(I)].controller \in Controllers
    BY <2>b, <2>c DEF NvmeVfs, place
  <2>4. vf = <<storage.vfs[Min(I)]>>
    BY <1>2, <1>5
  <2> HIDE DEF vf, I
  <2>5. vf[1] = storage.vfs[Min(I)]
    BY <2>4
  <2>6. ControllerOf(g) \in {Nobody, storage.vfs[Min(I)].controller}
    BY <1>3, <2>5
  <2> QED BY <2>3, <2>6
<1> QED BY <1>4, <1>5

(* Only the first entry of a number is attached.                           *)
NsFirst(ns) ==
  \A i \in DOMAIN ns : ns[i].guest # Nobody => \A k \in DOMAIN ns : k < i => ns[k].nsid # ns[i].nsid
NsGiven(ns, vfs) ==
  \A i \in DOMAIN ns : ns[i].controller # Nobody =>
    \E k \in DOMAIN vfs : vfs[k].guest = ns[i].guest /\ vfs[k].controller = ns[i].controller

LEMMA NvmeStep ==
  ASSUME NvmeInv,
         \/ \E c \in {"bare", "management", "sriov"} : load_caps(c)
         \/ \E n \in Nsids \cup {InvalidNsid} : create_ns(n)
         \/ nvme_enable_sr_iov
         \/ \E c \in Controllers, g \in Guests : nvme_assign_vf(c, g)
         \/ \E n \in Nsids, g \in Guests : attach_ns(n, g)
  PROVE  NvmeInv' /\ NsKept
<1> DEFINE ns == storage.ns
           vfs == storage.vfs
<1>a. /\ ns \in Seq(Namespaces) /\ Len(ns) \in Nat /\ DOMAIN ns = 1 .. Len(ns)
      /\ vfs \in Seq(NvmeVfs) /\ Len(vfs) \in Nat /\ DOMAIN vfs = 1 .. Len(vfs)
      /\ NsFirst(ns) /\ NsGiven(ns, vfs)
  BY DEF NvmeInv, NsFirst, NsGiven
<1>b. ASSUME storage'.ns = ns, storage'.caps \in {"none", "bare", "management", "sriov"},
             storage'.sriov \in BOOLEAN, storage'.vfs \in Seq(NvmeVfs), NsGiven(ns, storage'.vfs),
             storage' = [caps |-> storage'.caps, sriov |-> storage'.sriov, vfs |-> storage'.vfs, ns |-> storage'.ns]
      PROVE  NvmeInv' /\ NsKept
  <2>a. storage' \in [caps : {"none", "bare", "management", "sriov"}, sriov : BOOLEAN,
                     vfs : Seq(NvmeVfs), ns : Seq(Namespaces)]
    BY <1>a, <1>b
  <2>b. NsFirst(storage'.ns) /\ NsGiven(storage'.ns, storage'.vfs)
    BY <1>a, <1>b
  <2>1. NvmeInv'
    BY <2>a, <2>b DEF NvmeInv, NsFirst, NsGiven
  <2>2. NsGrown(ns, storage'.ns)
    BY <1>a, <1>b DEF NsGrown
  <2> QED BY <2>1, <2>2, NsGrows
<1>1. CASE \E c \in {"bare", "management", "sriov"} : load_caps(c)
  <2>1. PICK c \in {"bare", "management", "sriov"} : storage' = [storage EXCEPT !.caps = c]
    BY <1>1 DEF load_caps
  <2> QED BY <1>a, <1>b, <2>1 DEF NvmeInv
<1>2. CASE nvme_enable_sr_iov
  <2>1. storage' = [storage EXCEPT !.sriov = TRUE]
    BY <1>2 DEF nvme_enable_sr_iov
  <2> QED BY <1>a, <1>b, <2>1 DEF NvmeInv
<1>3. ASSUME NEW c \in Controllers, NEW g \in Guests, nvme_assign_vf(c, g)
      PROVE  NvmeInv' /\ NsKept
  <2> DEFINE new == Append(vfs, [controller |-> c, guest |-> g])
  <2>1. storage' = [storage EXCEPT !.vfs = new]
    BY <1>3 DEF nvme_assign_vf
  <2>2. [controller |-> c, guest |-> g] \in NvmeVfs
    BY DEF NvmeVfs
  <2>3. new \in Seq(NvmeVfs) /\ \A k \in DOMAIN vfs : k \in DOMAIN new /\ new[k] = vfs[k]
    BY <1>a, <2>2
  <2>4. NsGiven(ns, new)
    BY <1>a, <2>3 DEF NsGiven
  <2> HIDE DEF new
  <2> QED BY <1>a, <1>b, <2>1, <2>3, <2>4 DEF NvmeInv
<1>4. ASSUME NEW n \in Nsids \cup {InvalidNsid}, create_ns(n)
      PROVE  NvmeInv' /\ NsKept
  <2> DEFINE e == [nsid |-> n, guest |-> Nobody, controller |-> Nobody]
             new == Append(ns, e)
  <2>1. storage' = [storage EXCEPT !.ns = new]
    BY <1>4 DEF create_ns
  <2>2. e \in Namespaces /\ e.guest = Nobody /\ e.controller = Nobody
    BY DEF Namespaces
  <2> HIDE DEF e
  <2>3. /\ new \in Seq(Namespaces) /\ Len(new) = Len(ns) + 1 /\ DOMAIN new = 1 .. Len(ns) + 1
        /\ \A k \in DOMAIN ns : new[k] = ns[k]
        /\ new[Len(ns) + 1] = e
    BY <1>a, <2>2
  <2> HIDE DEF new
  <2>4. \A k \in DOMAIN new : k \in DOMAIN ns \/ (k = Len(ns) + 1 /\ new[k] = e)
    BY <1>a, <2>3
  <2>5. NsFirst(new)
    BY <1>a, <2>2, <2>3, <2>4 DEF NsFirst
  <2>6. NsGiven(new, vfs)
    BY <1>a, <2>2, <2>3, <2>4 DEF NsGiven
  <2>7. storage'.ns = new /\ storage'.vfs = vfs
    BY <2>1 DEF NvmeInv
  <2>8. NvmeInv'
    BY <2>1, <2>3, <2>5, <2>6, <2>7 DEF NvmeInv, NsFirst, NsGiven
  <2>9. NsKept
    <3>1. NsGrown(ns, storage'.ns)
      BY <1>a, <2>3, <2>7 DEF NsGrown
    <3> QED BY <3>1, NsGrows
  <2> QED BY <2>8, <2>9
<1>5. ASSUME NEW n \in Nsids, NEW g \in Guests, attach_ns(n, g)
      PROVE  NvmeInv' /\ NsKept
  <2> DEFINE I == WithNsid(ns, n)
             place == Min(I)
             c == ControllerOf(g)
             e == [nsid |-> ns[place].nsid, guest |-> g, controller |-> c]
             new == [ns EXCEPT ![place] = e]
  <2>1. /\ SelectInSeq(ns, LAMBDA x : x.nsid = n) = IF I = {} THEN 0 ELSE place
        /\ I \subseteq DOMAIN ns /\ I \subseteq Nat
    BY <1>a DEF SelectInSeq, WithNsid
  <2>2. I # {} /\ ns[place].guest = Nobody
    BY <1>5, <2>1 DEF attach_ns
  <2>3. place \in I /\ \A k \in I : place <= k
    BY <2>1, <2>2, MinIsLeast
  <2>4. place \in DOMAIN ns /\ ns[place] \in Namespaces /\ ns[place].nsid = n
    <3> HIDE DEF place
    <3>1. place \in DOMAIN ns /\ ns[place].nsid = n
      BY <1>a, <2>3 DEF WithNsid
    <3> QED BY <1>a, <3>1
  <2>5. storage' = [storage EXCEPT !.ns[place].guest = g, !.ns[place].controller = c]
    BY <1>5, <2>1, <2>2 DEF attach_ns
  <2>6. \/ c = Nobody
        \/ c \in Controllers /\ \E k \in DOMAIN vfs : vfs[k].guest = g /\ vfs[k].controller = c
    BY ControllerGiven
  <2> HIDE DEF I, place, c
  <2>7. [[ns[place] EXCEPT !.guest = g] EXCEPT !.controller = c] = e
    <3>1. ASSUME NEW x \in Namespaces, NEW y, y = [x EXCEPT !.guest = g]
          PROVE  [y EXCEPT !.controller = c] = [nsid |-> x.nsid, guest |-> g, controller |-> c]
      <4>1. x = [nsid |-> x.nsid, guest |-> x.guest, controller |-> x.controller]
        BY DEF Namespaces
      <4>2. y = [nsid |-> x.nsid, guest |-> g, controller |-> x.controller]
        BY <3>1, <4>1
      <4> QED BY <4>2
    <3> QED BY <2>4, <3>1
  <2>8. storage'.ns = new /\ storage'.vfs = vfs /\ storage'.caps = storage.caps /\ storage'.sriov = storage.sriov
    BY <1>a, <2>4, <2>5, <2>7 DEF NvmeInv
  <2>9. e \in Namespaces /\ e.nsid = n /\ e.guest = g /\ e.controller = c
    BY <2>4, <2>6 DEF Namespaces
  <2> HIDE DEF e
  <2>10. /\ new \in Seq(Namespaces) /\ DOMAIN new = DOMAIN ns /\ Len(new) = Len(ns) /\ new[place] = e
         /\ \A k \in DOMAIN ns : k # place => new[k] = ns[k]
    BY <1>a, <2>4, <2>9
  <2> HIDE DEF new
  <2>11. \A k \in DOMAIN ns : k < place => ns[k].nsid # n
    BY <1>a, <2>3, <2>4 DEF I, WithNsid
  <2>12. \A k \in DOMAIN ns : new[k].nsid = ns[k].nsid
    BY <2>4, <2>9, <2>10
  <2>13. NsFirst(new)
    BY <1>a, <2>4, <2>9, <2>10, <2>11, <2>12 DEF NsFirst
  <2>14. NsGiven(new, vfs)
    BY <1>a, <2>4, <2>6, <2>9, <2>10 DEF NsGiven
  <2>15. NvmeInv'
    <3>1. storage' = [caps |-> storage.caps, sriov |-> storage.sriov, vfs |-> vfs, ns |-> new]
      BY <2>5, <2>8 DEF NvmeInv
    <3>2. storage' \in [caps : {"none", "bare", "management", "sriov"}, sriov : BOOLEAN,
                       vfs : Seq(NvmeVfs), ns : Seq(Namespaces)]
      BY <2>10, <3>1 DEF NvmeInv
    <3> QED BY <2>8, <2>13, <2>14, <3>2 DEF NvmeInv, NsFirst, NsGiven
  <2>16. NsKept
    <3>1. NsGrown(ns, storage'.ns)
      BY <1>a, <2>2, <2>8, <2>10, <2>12 DEF NsGrown
    <3> QED BY <3>1, NsGrows
  <2> QED BY <2>15, <2>16
<1> QED BY <1>1, <1>2, <1>3, <1>4, <1>5

LEMMA GpuStep ==
  ASSUME GpuInv,
         \/ \E n \in {0, 2} : set_capability(n)
         \/ gpu_enable_sr_iov
         \/ \E v \in Vfs, g \in Guests : gpu_assign_vf(v, g)
  PROVE  GpuInv' /\ VfKept
<1>a. gpu.vfs \in Seq(GpuVfs) /\ Len(gpu.vfs) \in Nat /\ DOMAIN gpu.vfs = 1 .. Len(gpu.vfs)
  BY DEF GpuInv
<1>1. CASE (\E n \in {0, 2} : set_capability(n)) \/ gpu_enable_sr_iov
  <2>1. GpuInv' /\ gpu'.vfs = gpu.vfs
    <3>1. PICK n \in {0, 2} : gpu' = [gpu EXCEPT !.max = n] \/ gpu' = [gpu EXCEPT !.enabled = TRUE]
      BY <1>1 DEF set_capability, gpu_enable_sr_iov
    <3> DEFINE V == Seq(GpuVfs)
    <3>a. gpu \in [max : Nat, enabled : BOOLEAN, vfs : V] /\ n \in Nat
      BY DEF GpuInv
    <3> HIDE DEF V
    <3>2. gpu' \in [max : Nat, enabled : BOOLEAN, vfs : V] /\ gpu'.vfs = gpu.vfs
      BY <3>1, <3>a
    <3> USE DEF V
    <3> QED BY <3>2 DEF GpuInv
  <2>2. Grown(gpu.vfs, gpu'.vfs)
    BY <1>a, <2>1 DEF Grown
  <2> QED BY <2>1, <2>2, VfsGrow
<1>2. ASSUME NEW v \in Vfs, NEW g \in Guests, gpu_assign_vf(v, g)
      PROVE  GpuInv' /\ VfKept
  <2> DEFINE e == [vf |-> v, guest |-> g]
             new == Append(gpu.vfs, e)
  <2>1. gpu' = [gpu EXCEPT !.vfs = new] /\ \A k \in DOMAIN gpu.vfs : gpu.vfs[k].vf # v
    BY <1>2 DEF gpu_assign_vf
  <2>2. e \in GpuVfs /\ e.vf = v
    BY DEF GpuVfs
  <2> HIDE DEF e
  <2>3. /\ new \in Seq(GpuVfs) /\ Len(new) = Len(gpu.vfs) + 1 /\ DOMAIN new = 1 .. Len(gpu.vfs) + 1
        /\ \A k \in DOMAIN gpu.vfs : new[k] = gpu.vfs[k]
        /\ new[Len(gpu.vfs) + 1] = e
    BY <1>a, <2>2
  <2> HIDE DEF new
  <2>4. \A k \in DOMAIN new : k \in DOMAIN gpu.vfs \/ (k = Len(gpu.vfs) + 1 /\ new[k] = e)
    BY <1>a, <2>3
  <2>5. ASSUME NEW i \in DOMAIN new, NEW k \in DOMAIN new, new[i].vf = new[k].vf
        PROVE  i = k
    BY <2>1, <2>2, <2>3, <2>4, <2>5 DEF GpuInv
  <2>6. gpu'.vfs = new
    BY <2>1 DEF GpuInv
  <2>7. gpu' \in [max : Nat, enabled : BOOLEAN, vfs : Seq(GpuVfs)]
    BY <2>1, <2>3 DEF GpuInv
  <2>8. Grown(gpu.vfs, gpu'.vfs)
    BY <1>a, <2>3, <2>6 DEF Grown
  <2>9. GpuInv'
    BY <2>5, <2>6, <2>7 DEF GpuInv
  <2> QED BY <2>8, <2>9, VfsGrow
<1> QED BY <1>1, <1>2

LEMMA WindowsStep ==
  ASSUME WindowsInv, (\E c \in WindowsConfigs : configure(c)) \/ mark_running
  PROVE  WindowsInv'
<1>1. ASSUME NEW c \in WindowsConfigs, configure(c)
      PROVE  WindowsInv'
  <2>1. c.hyperv \in BOOLEAN /\ WindowsValid(c)
    BY <1>1 DEF WindowsConfigs, configure
  <2>2. windows' = [windows EXCEPT !.config = [set |-> TRUE, valid |-> TRUE, hyperv |-> c.hyperv]]
    BY <1>1, <2>1 DEF configure, WindowsValid, WindowsConfigs
  <2> QED BY <2>1, <2>2 DEF WindowsInv
<1>2. ASSUME mark_running
      PROVE  WindowsInv'
  BY <1>2 DEF WindowsInv, mark_running
<1> QED BY <1>1, <1>2

LEMMA RegStep ==
  ASSUME RegInv, [RegistriesNext]_regVars
  PROVE  RegInv' /\ NicKept /\ NsKept /\ VfKept
<1>a. NicInv /\ NvmeInv /\ GpuInv /\ WindowsInv
  BY DEF RegInv
<1>1. CASE \/ \E n \in {0, 2} : probe_sr_iov(n)
           \/ enable_sr_iov
           \/ \E a \in NicAddrs, m \in Macs, g \in Guests : assign_sr_iov_vf(a, m, g) \/ assign_dedicated(a, m, g)
           \/ \E b \in Bridges : configure_bridge(b)
  <2>1. NicInv' /\ NicKept
    BY <1>a, <1>1, NicStep
  <2>2. UNCHANGED <<storage, gpu, windows>>
    BY <1>1 DEF probe_sr_iov, enable_sr_iov, assign_sr_iov_vf, assign_dedicated, configure_bridge, InNic
  <2>3. WindowsInv'
    BY <1>a, <2>2 DEF WindowsInv
  <2> QED BY <1>a, <2>1, <2>2, <2>3, NvmeRests, GpuRests DEF RegInv
<1>2. CASE \/ \E c \in {"bare", "management", "sriov"} : load_caps(c)
           \/ \E n \in Nsids \cup {InvalidNsid} : create_ns(n)
           \/ nvme_enable_sr_iov
           \/ \E c \in Controllers, g \in Guests : nvme_assign_vf(c, g)
           \/ \E n \in Nsids, g \in Guests : attach_ns(n, g)
  <2>1. NvmeInv' /\ NsKept
    BY <1>a, <1>2, NvmeStep
  <2>2. UNCHANGED <<nic, gpu, windows>>
    BY <1>2 DEF load_caps, create_ns, nvme_enable_sr_iov, nvme_assign_vf, attach_ns, InNvme
  <2>3. WindowsInv'
    BY <1>a, <2>2 DEF WindowsInv
  <2> QED BY <1>a, <2>1, <2>2, <2>3, NicRests, GpuRests DEF RegInv
<1>3. CASE \/ \E n \in {0, 2} : set_capability(n)
           \/ gpu_enable_sr_iov
           \/ \E v \in Vfs, g \in Guests : gpu_assign_vf(v, g)
  <2>1. GpuInv' /\ VfKept
    BY <1>a, <1>3, GpuStep
  <2>2. UNCHANGED <<nic, storage, windows>>
    BY <1>3 DEF set_capability, gpu_enable_sr_iov, gpu_assign_vf, InGpu
  <2>3. WindowsInv'
    BY <1>a, <2>2 DEF WindowsInv
  <2> QED BY <1>a, <2>1, <2>2, <2>3, NicRests, NvmeRests DEF RegInv
<1>4. CASE (\E c \in WindowsConfigs : configure(c)) \/ mark_running
  <2>1. WindowsInv'
    BY <1>a, <1>4, WindowsStep
  <2>2. UNCHANGED <<nic, storage, gpu>>
    BY <1>4 DEF configure, mark_running, InWindows
  <2> QED BY <1>a, <2>1, <2>2, NicRests, NvmeRests, GpuRests DEF RegInv
<1>5. CASE UNCHANGED regVars
  <2>1. UNCHANGED <<nic, storage, gpu, windows>>
    BY <1>5 DEF regVars
  <2>2. WindowsInv'
    BY <1>a, <2>1 DEF WindowsInv
  <2> QED BY <1>a, <2>1, <2>2, NicRests, NvmeRests, GpuRests DEF RegInv
<1> QED BY <1>1, <1>2, <1>3, <1>4, <1>5 DEF RegistriesNext

LEMMA InvIsSole ==
  ASSUME RegInv
  PROVE  SoleOwner
<1>1. \A i, k \in DOMAIN nic.ifs : nic.ifs[i].mac = nic.ifs[k].mac => i = k
  BY DEF RegInv, NicInv
<1>2. \A i, k \in DOMAIN storage.ns :
        storage.ns[i].nsid = storage.ns[k].nsid /\ Nobody \notin {storage.ns[i].guest, storage.ns[k].guest} => i = k
  <2>1. \A i \in DOMAIN storage.ns : i \in Nat
    BY DEF RegInv, NvmeInv
  <2>2. ASSUME NEW i \in DOMAIN storage.ns, NEW k \in DOMAIN storage.ns,
               storage.ns[i].nsid = storage.ns[k].nsid,
               storage.ns[i].guest # Nobody, storage.ns[k].guest # Nobody
        PROVE  i = k
    <3>1. ~ (i < k) /\ ~ (k < i)
      BY <2>2 DEF RegInv, NvmeInv
    <3> QED BY <2>1, <3>1
  <2> QED BY <2>2
<1>3. \A i, k \in DOMAIN gpu.vfs : gpu.vfs[i].vf = gpu.vfs[k].vf => i = k
  BY DEF RegInv, GpuInv
<1>4. {nic.ifs[i].kind : i \in DOMAIN nic.ifs} \subseteq KindsOf(nic.mode)
  BY DEF RegInv, NicInv
<1>5. nic.bridge # << >> =>
        Len(nic.ifs) = 2 /\ nic.ifs[1].kind = "physical" /\ nic.ifs[2].kind = "tunnel"
          /\ nic.ifs[1].guest # nic.ifs[2].guest
  BY DEF RegInv, NicInv
<1>6. \A i \in DOMAIN storage.ns : storage.ns[i].controller # Nobody =>
        \E k \in DOMAIN storage.vfs : storage.vfs[k].guest = storage.ns[i].guest
                                     /\ storage.vfs[k].controller = storage.ns[i].controller
  BY DEF RegInv, NvmeInv
<1>7. windows.running => windows.config.valid
  BY DEF RegInv, WindowsInv
<1> QED BY <1>1, <1>2, <1>3, <1>4, <1>5, <1>6, <1>7 DEF SoleOwner, KindsOf

(* The owner that the registries record for a MAC address, a GPU VF and a  *)
(* namespace never changes once there is one, a guest keeps its interface, *)
(* the network mode is chosen once, and no MAC address, GPU VF or          *)
(* namespace is given twice, for registries of any capacity and in         *)
(* whatever order the calls come (gpu.rs, network.rs, storage.rs,          *)
(* windows.rs).  Nothing of the kind holds for the PCIe address of an      *)
(* adapter or for an NVMe controller, which nobody compares.               *)
THEOREM OwnersStay == RegistriesSpec => OwnersFinal
<1>1. RegistriesInit => RegInv
  BY RegStarts
<1>2. RegInv /\ [RegistriesNext]_regVars => RegInv'
  BY RegStep
<1>3. RegInv => SoleOwner
  BY InvIsSole
<1>4. RegInv /\ [RegistriesNext]_regVars => NicKept /\ NsKept /\ VfKept
  BY RegStep
<1>5. NicKept /\ NsKept /\ VfKept /\ SoleOwner' =>
        [/\ SoleOwner'
         /\ \A m \in Macs : MacOwner(m) # Nobody => MacOwner(m)' = MacOwner(m)
         /\ \A n \in Nsids : ns_owner(n) # Nobody => ns_owner(n)' = ns_owner(n)
         /\ \A v \in Vfs : query_owner(v) # Nobody => query_owner(v)' = query_owner(v)
         /\ \A g \in Guests : interface_for_guest(g) # << >> => interface_for_guest(g)' = interface_for_guest(g)
         /\ nic.mode # "none" => nic'.mode = nic.mode]_regVars
  BY DEF NicKept, NsKept, VfKept
<1> QED BY <1>1, <1>2, <1>3, <1>4, <1>5, PTL DEF RegistriesSpec, OwnersFinal
===============================================================================
