---------------------------- MODULE InputSwitch ----------------------------
(***************************************************************************)
(* Moving the keyboard's USB controller from one guest to the other while  *)
(* both run (usb_passthrough.rs, usb.rs), after DeviceAssign has assigned  *)
(* it to Android.  A guest whose Stage 2 table maps the controller's BAR   *)
(* may program and start it at any time, on its own cores; EL2 runs the    *)
(* switch in its interrupt handler, one step after the other, on one core. *)
(***************************************************************************)
EXTENDS DeviceAssign

CONSTANT
  MaxSwitches        \* bound: key combinations recognised

VARIABLES
  current_owner,     \* InputSwitchState::current_owner, Unassigned before
  reset_state,       \* XhciResetState of the input controller's record
  sw,                \* the step of the switch: "rest" between switches
  word,              \* words of the stream table entries rewritten so far
  switch_count

switchvars == <<current_owner, reset_state, sw, word, switch_count>>
allvars == <<vars, switchvars>>

(* The request for the controller of kind IntegratedInput.                 *)
Input == CHOOSE r \in Requests : r.kind = "usb"

Controller == Input.fns[1]
Key == Input.keys[1]

DeviceRequests == {r \in Requests : r.kind = "device"}

(* The configurations are those of different devices: a virtual function   *)
(* is not assigned by the other pipelines, the controller has streams and  *)
(* a key of its own, and what maps a device's registers assigns its group. *)
ASSUME InputAssumption ==
  /\ \E r \in Requests : r.kind = "usb"
  /\ Input.streams # <<>> /\ Input.keys # <<>> /\ Input.bars # <<>>
  /\ MaxSwitches \in Nat
  /\ \A r \in Requests : r.fns # <<>>
  /\ \A r, q \in Requests : r.kind \in {"gpu", "nic"} /\ q.kind \in {"device", "usb"}
       => ToSet(r.fns) \cap ToSet(q.fns) = {}
  /\ \A r \in Requests \ {Input} :
       ToSet(r.streams) \cap ToSet(Input.streams) = {} /\ Key \notin ToSet(r.keys)
  /\ \A d \in DeviceRequests, r \in Requests :
       /\ r.kind # "device" => ToSet(r.streams) \cap ToSet(d.streams) \cap StreamIDs = {}
       /\ r.window \notin ToSet(d.bars)
       /\ ToSet(d.bars) \cap ToSet(r.bars) # {}
            => r.kind = "device" /\ ToSet(r.streams) = ToSet(d.streams)

InitSwitch ==
  /\ Init
  /\ current_owner = Unassigned
  /\ reset_state = "PendingReset"
  /\ sw = "rest" /\ word = 0 /\ switch_count = 0

GuestsRun == current_owner # Unassigned

(* The record that assign_xhci_controller enters says Clean.               *)
BootStep ==
  /\ ~GuestsRun
  /\ Boot
  /\ reset_state' = IF assigned[Key] # assigned'[Key] THEN "Clean" ELSE reset_state
  /\ UNCHANGED <<current_owner, sw, word, switch_count>>

(* After the controller is registered; the documentation of                *)
(* assign_xhci_controller names Android as the first owner.  From here on  *)
(* the SMMU is enabled and the guests run.                                 *)
configure_input_switch ==
  /\ Idle /\ ~fatal /\ ~GuestsRun
  /\ assigned[Key] # Unassigned
  /\ current_owner' = "Android"
  /\ UNCHANGED <<vars, reset_state, sw, word, switch_count>>

------------------------------------------------------------------------------
(* The guests' drivers.                                                    *)

Reaches(g) == \E b \in ToSet(Input.bars) : region[g, b] = "whole"

ProgramRings(g) ==
  /\ GuestsRun /\ Reaches(g)
  /\ ring' = [ring EXCEPT ![Controller] = g]
  /\ stale' = FALSE
  /\ UNCHANGED <<bootvars, slots, ste, region, bme, running, assigned, switchvars>>

SetRun(g) ==
  /\ GuestsRun /\ Reaches(g)
  /\ running' \in {running \cup {Controller}, running \ {Controller}}
  /\ UNCHANGED <<bootvars, slots, ste, region, bme, ring, stale, assigned, switchvars>>

------------------------------------------------------------------------------
(* The switch.                                                             *)

next_owner == IF current_owner = "Android" THEN "Windows" ELSE "Android"

(* process_hid_report found the key combination in a report.               *)
Switch ==
  /\ GuestsRun /\ sw = "rest"
  /\ switch_count < MaxSwitches
  /\ sw' = "halt"
  /\ stale' = (ring[Controller] # "none")
  /\ UNCHANGED <<bootvars, slots, ste, region, bme, ring, running, assigned,
                 current_owner, reset_state, word, switch_count>>

(* Already halted, or the Run bit is cleared and the poll sees it; a guest *)
(* may set the bit again meanwhile, and the poll may run out.              *)
HaltController ==
  /\ sw = "halt"
  /\ \/ running' = running \ {Controller} /\ sw' = "hcrst"
     \/ Controller \in running /\ running' \in {running, running \ {Controller}} /\ sw' = "rest"
  /\ UNCHANGED <<bootvars, slots, ste, region, bme, ring, stale, assigned,
                 current_owner, reset_state, word, switch_count>>

(* Mutant: a reset that never completed is taken for one that did.         *)
TimeoutIgnored(ok) == TRUE

GoesOn(ok) == ok

(* A reset also clears the Run bit.                                        *)
ResetController ==
  /\ sw = "hcrst"
  /\ \E done \in BOOLEAN, ok \in BOOLEAN :
       /\ ok => done
       /\ IF done THEN /\ ring' = [ring EXCEPT ![Controller] = "none"]
                       /\ running' = running \ {Controller}
                       /\ stale' = FALSE
                  ELSE UNCHANGED <<ring, running, stale>>
       /\ sw' = IF GoesOn(ok) THEN "rewrite_ste" ELSE "rest"
  /\ UNCHANGED <<bootvars, slots, ste, region, bme, assigned,
                 current_owner, reset_state, word, switch_count>>

(* write_ste stores the words of each entry in order; word 0 stays valid   *)
(* throughout.  A step is one of the two stores that change anything.      *)
WordsToWrite == 2 * Len(Input.streams)

rewrite_ste ==
  /\ sw = "rewrite_ste"
  /\ LET s == Input.streams[word \div 2 + 1] IN
       ste' = IF word % 2 = 0 THEN [ste EXCEPT ![s].vmid = next_owner]
                              ELSE [ste EXCEPT ![s].s2ttb = next_owner]
  /\ IF word + 1 = WordsToWrite THEN sw' = "execute_switch" /\ word' = 0
                                ELSE word' = word + 1 /\ UNCHANGED sw
  /\ UNCHANGED <<bootvars, slots, region, bme, ring, running, stale, assigned,
                 current_owner, reset_state, switch_count>>

(* Mutant: only the switch state learns the new owner.                     *)
RecordKept == assigned

Transferred == [assigned EXCEPT ![Key] = next_owner]

execute_switch ==
  /\ sw = "execute_switch"
  /\ reset_state' = "PendingReset"
  /\ assigned' = Transferred
  /\ current_owner' = next_owner
  /\ switch_count' = switch_count + 1
  /\ sw' = "mark_reset_clean"
  /\ UNCHANGED <<bootvars, slots, ste, region, bme, ring, running, stale, word>>

mark_reset_clean ==
  /\ sw = "mark_reset_clean"
  /\ reset_state' = "Clean"
  /\ sw' = "rest"
  /\ UNCHANGED <<vars, current_owner, word, switch_count>>

Next ==
  \/ BootStep
  \/ configure_input_switch
  \/ \E g \in GuestId : ProgramRings(g) \/ SetRun(g)
  \/ Switch \/ HaltController \/ ResetController
  \/ rewrite_ste \/ execute_switch \/ mark_reset_clean

Spec == InitSwitch /\ [][Next]_allvars

------------------------------------------------------------------------------
(* Types, and where the counters stand between calls.                      *)
TypeOK ==
  /\ call \in Requests \cup {NoCall}
  /\ at \in 0 .. 8 /\ (Idle <=> at = 0)
  /\ calls \in 0 .. MaxPipelines /\ fatal \in BOOLEAN
  /\ slots \in [StreamIDs -> GuestId \cup {Unassigned}]
  /\ ste \in [StreamIDs -> [vmid : GuestId \cup {Unassigned},
                            s2ttb : GuestId \cup {Unassigned}]]
  /\ region \in [GuestId \X Regions -> {"none", "part", "whole"}]
  /\ bme \subseteq Functions /\ running \subseteq Functions
  /\ ring \in [Functions -> GuestId \cup {"none", "firmware"}]
  /\ stale \in BOOLEAN
  /\ assigned \in [Keys -> GuestId \cup {Unassigned}]
  /\ current_owner \in GuestId \cup {Unassigned}
  /\ reset_state \in {"Clean", "PendingReset"}
  /\ sw \in {"rest", "halt", "hcrst", "rewrite_ste", "execute_switch", "mark_reset_clean"}
  /\ word \in 0 .. WordsToWrite - 1
  /\ switch_count \in 0 .. MaxSwitches

(* The functions behind a stream go to one guest: a guest whose Stage 2    *)
(* table maps any part of a device's registers is the only one that may    *)
(* own a stream of the device's group.  (passthrough.rs checks the whole   *)
(* group before it touches anything.)                                      *)
GroupToOneGuest ==
  \A r \in DeviceRequests, g \in GuestId :
    (\E b \in ToSet(r.bars) : region[g, b] # "none") =>
      \A s \in ToSet(r.streams) \cap StreamIDs : slots[s] \in {Unassigned, g}

(* Between calls the registry and the stream table agree about every       *)
(* stream assign_device_group handles, also after a call that failed.      *)
CommittedStreams ==
  Idle => \A r \in DeviceRequests : \A s \in ToSet(r.streams) \cap StreamIDs :
            ste[s] = stage2_only(slots[s])

(* A device changes hands only after the DMA state it had when the call or *)
(* the switch began is gone, whatever halting and resetting it returned.   *)
HandedOverReset ==
  [][(slots' # slots \/ assigned' # assigned) => ~stale]_allvars

(* Between switches, completed or abandoned, all records of the input      *)
(* controller's owner agree: both entries of the stream table name it with *)
(* both their words, and the controller counts as reset.                   *)
OwnerHasStreams ==
  GuestsRun /\ sw = "rest" =>
    /\ assigned[Key] = current_owner
    /\ reset_state = "Clean"
    /\ \A s \in ToSet(Input.streams) : ste[s] = stage2_only(current_owner)
=============================================================================
