------------------------------- MODULE Installer -------------------------------
(***************************************************************************)
(* aether-install: the install, update and uninstall commands with         *)
(* --apply, each a straight line of writes to UEFI variables, the EFI      *)
(* System Partition and the state file, any of which may fail (the command *)
(* then returns its exit code) or be the last before a crash.  A dry run   *)
(* writes nothing.  The NVMe and image steps are stubs in the code, and    *)
(* the compatibility check and GPU plan decide only whether install goes   *)
(* on.  The state file is replaced by rename, so it is never torn; the EFI *)
(* binaries are written in place.                                          *)
(*                                                                         *)
(* Paths are joined with a backslash on every host.  On Linux that makes   *)
(* each of them one file name beside the mount point: the files are not on *)
(* the ESP, and the directory that uninstall removes does not exist.       *)
(***************************************************************************)
EXTENDS Integers, SequencesExt

CONSTANTS
  Platforms,  \* subset of {"linux", "windows"}
  MaxIndex,   \* bound on Boot#### indexes
  MaxProbed,  \* the last index read_used_boot_indices probes on Windows
  Images,     \* releases of the EFI binaries
  Absent,     \* a file that does not exist
  Present,    \* the binaries of a slot, of whatever release
  Torn        \* a file, or slot, whose write has not finished

ASSUME InstallerAssumption ==
  /\ Platforms \subseteq {"linux", "windows"}
  /\ MaxIndex \in Nat /\ MaxProbed \in 0 .. MaxIndex - 1
  /\ {Absent, Present, Torn} \cap Images = {}

VARIABLES
  os,         \* the host
  bootVar,    \* Boot#### variables: whose entry each holds
  bootOrder,  \* BootOrder
  files,      \* \EFI\AETHER: its binaries, and those of each slot's directory
  saved,      \* install-state.json, or NoState
  state,      \* the InstallState of the running command
  image,      \* the release given on its command line
  used,       \* the indexes it found used
  order,      \* current_order: what it read, and whether it could
  rewriting,  \* an install is replacing, or left half replaced, a release
  cmd, pc     \* the running command and its next step

installVars == <<os, bootVar, bootOrder, files, saved, state, image, used,
                 order, rewriting, cmd, pc>>
disk == <<bootVar, bootOrder, files, saved>>
run == <<state, image, used, order, cmd>>

Indexes == 0 .. MaxIndex
NoIndex == -1
Slot == {"A", "B"}
Binaries == {"hypervisor", "selector"}
Paths == Binaries \cup Slot

(* InstallState::default, and what load returns when there is no file.     *)
DefaultState == [installed |-> TRUE, id |-> FALSE, index |-> NoIndex, slot |-> "A"]
NoOrder == [read |-> FALSE, list |-> <<>>]
NoState == [DefaultState EXCEPT !.installed = FALSE]
IsInstalled(s) == s.installed /\ s.index # NoIndex /\ s.id

Other(s) == IF s = "A" THEN "B" ELSE "A"

(* Another system boots from Boot0000.                                     *)
Init ==
  /\ os \in Platforms
  /\ bootVar = [i \in Indexes |-> IF i = 0 THEN "other" ELSE "absent"]
  /\ bootOrder = <<0>>
  /\ files = [p \in Paths |-> Absent]
  /\ saved = NoState
  /\ state = NoState
  /\ image = Absent
  /\ used = {}
  /\ order = NoOrder
  /\ rewriting = FALSE
  /\ cmd = "none" /\ pc = "idle"

Goto(l) == pc' = l

(* What a command knew is gone with it.                                    *)
CommandReturns ==
  /\ state' = NoState /\ image' = Absent /\ used' = {} /\ order' = NoOrder
  /\ cmd' = "none" /\ Goto("idle")

Writing(b) == IF b = "hypervisor" THEN "writing_hypervisor" ELSE "writing_selector"

------------------------------------------------------------------------------
(* Starting a command: load decides whether it runs.                       *)

StartInstall(v) ==
  /\ pc = "idle"
  /\ cmd' = "install"
  /\ state' = IF saved.installed THEN saved ELSE DefaultState
  /\ image' = v
  /\ Goto("hypervisor")
  /\ UNCHANGED <<os, disk, used, order, rewriting>>

StartUpdate ==
  /\ pc = "idle"
  /\ IsInstalled(saved)
  /\ cmd' = "update"
  /\ state' = saved
  /\ Goto("slot")
  /\ UNCHANGED <<os, disk, image, used, order, rewriting>>

StartUninstall ==
  /\ pc = "idle"
  /\ saved.installed
  /\ cmd' = "uninstall"
  /\ state' = saved
  /\ Goto(IF saved.index = NoIndex THEN "remove_files" ELSE "delete_var")
  /\ UNCHANGED <<os, disk, image, used, order, rewriting>>

------------------------------------------------------------------------------
(* Copying the EFI binaries: install to \EFI\AETHER, update to the         *)
(* directory of the inactive slot.                                         *)

(* Mutant: the file is written whatever it contains.                       *)
NeverUpToDate(b) == FALSE

(* copy_efi_binary skips a file that already has these contents; that it   *)
(* can read the file is assumed (one it cannot read is written again).     *)
UpToDate(b) == files[b] = image

Whole(b) == files[b] \in Images

AfterCopy(b) ==
  IF b = "hypervisor" THEN "selector"
  ELSE IF state.index = NoIndex THEN "probe" ELSE "write_var"

SkipCopy(b) ==
  /\ pc = b
  /\ UpToDate(b)
  /\ Goto(AfterCopy(b))
  /\ UNCHANGED <<os, disk, run, rewriting>>

BeginCopy(b) ==
  /\ pc = b
  /\ ~UpToDate(b)
  /\ files' = [files EXCEPT ![b] = Torn]
  /\ rewriting' = (rewriting \/ (Whole(b) /\ files[b] # image))
  /\ Goto(Writing(b))
  /\ UNCHANGED <<os, bootVar, bootOrder, saved, run>>

EndCopy(b) ==
  /\ pc = Writing(b)
  /\ files' = [files EXCEPT ![b] = image]
  /\ rewriting' = (rewriting /\ ~ \A c \in Binaries : Whole(c)')
  /\ Goto(AfterCopy(b))
  /\ UNCHANGED <<os, bootVar, bootOrder, saved, run>>

(* Mutant: the slot that is active is written.                             *)
ToActiveSlot == state.slot

ToSlot == Other(state.slot)

(* The two copies of an update: nothing in the repository reads them back, *)
(* so a slot is told apart only as absent, partly or completely written.   *)
BeginSlot ==
  /\ pc = "slot"
  /\ files' = [files EXCEPT ![ToSlot] = Torn]
  /\ Goto("writing_slot")
  /\ UNCHANGED <<os, bootVar, bootOrder, saved, run, rewriting>>

EndSlot ==
  /\ pc = "writing_slot"
  /\ files' = [files EXCEPT ![ToSlot] = Present]
  /\ Goto("save")
  /\ UNCHANGED <<os, bootVar, bootOrder, saved, run, rewriting>>

------------------------------------------------------------------------------
(* install: the Boot#### entry and BootOrder.                              *)

(* read_used_boot_indices.  Linux lists all of them, or none when the      *)
(* directory cannot be read; Windows asks for the first few one by one and *)
(* takes any error for a free index.                                       *)
ProbeIndexes ==
  /\ pc = "probe"
  /\ LET all == {i \in Indexes : bootVar[i] # "absent"}
     IN used' \in IF os = "linux" THEN {all, {}} ELSE SUBSET (all \cap (0 .. MaxProbed))
  /\ Goto("write_var")
  /\ UNCHANGED <<os, disk, state, image, order, rewriting, cmd>>

(* Mutant: the highest index that is used, for the next one.               *)
PickLastUsed == IF used = {} THEN 0 ELSE CHOOSE i \in used : \A j \in used : j <= i

(* pick_free_boot_index: the lowest index that is not used.                *)
PickFree ==
  CHOOSE i \in Indexes : i \notin used /\ \A j \in 0 .. i - 1 : j \in used

(* With every index used the code falls back to a fixed one; here the      *)
(* command stops.                                                          *)
WriteBootVar ==
  /\ pc = "write_var"
  /\ state.index = NoIndex => Indexes \ used # {}
  /\ LET i == IF state.index = NoIndex THEN PickFree ELSE state.index
     IN /\ bootVar' = [bootVar EXCEPT ![i] = "aether"]
        /\ state' = [state EXCEPT !.index = i]
  /\ used' = {}
  /\ Goto("read_order")
  /\ UNCHANGED <<os, bootOrder, files, saved, image, order, rewriting, cmd>>

(* An install that cannot read BootOrder goes on as if it were empty; an   *)
(* uninstall leaves it alone.                                              *)
ReadBootOrder ==
  /\ pc = "read_order"
  /\ \E ok \in BOOLEAN :
       /\ order' = [read |-> ok, list |-> IF ok THEN bootOrder ELSE <<>>]
       /\ Goto(IF ok \/ cmd = "install" THEN "write_order" ELSE "remove_files")
  /\ UNCHANGED <<os, disk, state, image, used, rewriting, cmd>>

(* The other entries of the list, in their order.                          *)
Without(list, i) ==
  LET kept[n \in 0 .. Len(list)] ==
        IF n = 0 THEN <<>>
        ELSE IF list[n] = i THEN kept[n - 1] ELSE Append(kept[n - 1], list[n])
  IN kept[Len(list)]

(* Mutant: an entry that is already in the list stays there as well.       *)
PrependKeeping(list, i) == <<i>> \o list

(* Mutant: the entry is put in place of the first one.                     *)
PrependReplacing(list, i) == <<i>> \o Without(SubSeq(list, 2, Len(list)), i)

(* boot_order_prepend.                                                     *)
Prepend(list, i) == <<i>> \o Without(list, i)

WriteBootOrder ==
  /\ pc = "write_order"
  /\ bootOrder' = IF cmd = "install" THEN Prepend(order.list, state.index)
                  ELSE Without(order.list, state.index)
  /\ order' = NoOrder
  /\ Goto(IF cmd = "install" THEN "save" ELSE "remove_files")
  /\ UNCHANGED <<os, bootVar, files, saved, state, image, used, rewriting, cmd>>

(* The state file: install makes slot A active, update flips the slot.     *)
SaveState ==
  /\ pc = "save"
  /\ saved' = [state EXCEPT
                 !.id = TRUE,
                 !.slot = IF cmd = "install" THEN "A" ELSE Other(@)]
  /\ CommandReturns
  /\ UNCHANGED <<os, bootVar, bootOrder, files, rewriting>>

------------------------------------------------------------------------------
(* uninstall.                                                              *)

(* On Windows deleting a variable that does not exist is an error, because *)
(* write maps ERROR_ENVVAR_NOT_FOUND to Other.                             *)
DeleteBootVar ==
  /\ pc = "delete_var"
  /\ os = "windows" => bootVar[state.index] # "absent"
  /\ bootVar' = [bootVar EXCEPT ![state.index] = "absent"]
  /\ Goto("read_order")
  /\ UNCHANGED <<os, bootOrder, files, saved, run, rewriting>>

(* remove_dir_all takes one file after the other.                          *)
RemoveFile(p) ==
  /\ pc = "remove_files" /\ os = "windows"
  /\ files[p] # Absent
  /\ files' = [files EXCEPT ![p] = Absent]
  /\ UNCHANGED <<os, bootVar, bootOrder, saved, run, rewriting, pc>>

(* Mutant: a directory that could not be removed is forgotten.             *)
FilesAbandoned ==
  /\ pc = "remove_files"
  /\ Goto("delete_state")
  /\ UNCHANGED <<os, disk, run, rewriting>>

FilesRemoved ==
  /\ pc = "remove_files"
  /\ os = "windows" => \A p \in Paths : files[p] = Absent
  /\ Goto("delete_state")
  /\ UNCHANGED <<os, disk, run, rewriting>>

DeleteState ==
  /\ pc = "delete_state"
  /\ saved' = NoState
  /\ CommandReturns
  /\ UNCHANGED <<os, bootVar, bootOrder, files, rewriting>>

------------------------------------------------------------------------------

(* A step fails and the command returns, or the machine goes down: what    *)
(* was written stays, what was in memory is gone.                          *)
CommandStops ==
  /\ pc # "idle"
  /\ CommandReturns
  /\ UNCHANGED <<os, disk, rewriting>>

(* Another system adds its boot entry between two commands.                *)
OtherSystem(i) ==
  /\ pc = "idle"
  /\ bootVar[i] = "absent"
  /\ bootVar' = [bootVar EXCEPT ![i] = "other"]
  /\ bootOrder' = Append(Without(bootOrder, i), i)
  /\ UNCHANGED <<os, files, saved, run, rewriting, pc>>

Next ==
  \/ \E v \in Images : StartInstall(v)
  \/ StartUpdate \/ StartUninstall
  \/ \E b \in Binaries : SkipCopy(b) \/ BeginCopy(b) \/ EndCopy(b)
  \/ BeginSlot \/ EndSlot
  \/ ProbeIndexes \/ WriteBootVar \/ ReadBootOrder \/ WriteBootOrder \/ SaveState
  \/ DeleteBootVar \/ FilesRemoved \/ DeleteState
  \/ \E p \in Paths : RemoveFile(p)
  \/ CommandStops
  \/ \E i \in Indexes : OtherSystem(i)

Spec == Init /\ [][Next]_installVars

------------------------------------------------------------------------------

States == [installed : BOOLEAN, id : BOOLEAN, index : Indexes \cup {NoIndex}, slot : Slot]

(* Types; and what is saved is a complete install, never one that status   *)
(* would call partial.                                                     *)
TypeOK ==
  /\ os \in Platforms
  /\ bootVar \in [Indexes -> {"absent", "other", "aether"}]
  /\ bootOrder \in Seq(Indexes)
  /\ \A b \in Binaries : files[b] \in Images \cup {Absent, Torn}
  /\ \A s \in Slot : files[s] \in {Absent, Torn, Present}
  /\ saved \in States /\ state \in States
  /\ saved.installed => IsInstalled(saved)
  /\ image \in Images \cup {Absent}
  /\ used \subseteq Indexes
  /\ order \in [read : BOOLEAN, list : Seq(Indexes)]
  /\ rewriting \in BOOLEAN
  /\ cmd \in {"none", "install", "update", "uninstall"}

(* BootOrder never names an entry twice, however often commands are run,   *)
(* stopped and run again: the firmware's order stays a permutation.        *)
OrderWithoutRepetition == IsInjective(bootOrder)

(* The entry a command has just written, and the one on record, lead to    *)
(* whole binaries at every point where a command may stop: install writes  *)
(* the binaries before the entry, uninstall removes the entry before the   *)
(* binaries, and a repeated install leaves equal files alone.  Putting     *)
(* another release in their place is the exception: they are rewritten in  *)
(* place.  So is Linux, whose files are not on the ESP.                    *)
EntryLeadsToBinaries ==
  os = "windows" /\ ~rewriting =>
    \A i \in {saved.index, state.index} \ {NoIndex} :
      bootVar[i] = "aether" => \A b \in Binaries : Whole(b)

(* uninstall removes its record last: the record outlives the boot entry   *)
(* and, on Windows, every file that it names.  (On Linux it does not find  *)
(* the files.)  That is not enough to run an interrupted uninstall again:  *)
(* see VariableGoneIsSuccess.                                              *)
RecordDeletedLast ==
  [][saved.installed /\ ~saved'.installed
       => /\ bootVar[saved.index] # "aether"
          /\ os = "windows" => \A p \in Paths : files[p] = Absent]_installVars

(* update never writes to the directory of the slot the state file names   *)
(* as active, so a failed update leaves what boots now.                    *)
ActiveSlotUntouched ==
  [][cmd = "update" => files'[saved.slot] = files[saved.slot]]_installVars

(* What a command may do to the boot entries of other systems.  They keep  *)
(* their place in a BootOrder that the command could read: it writes back  *)
(* no change but its own entry's.  (An install that could not read the     *)
(* list writes one without the others, install.rs:227.)  An install writes *)
(* over one of their entries only when it could not see it (a failed or    *)
(* bounded probe) or takes up an index of its own record that an           *)
(* interrupted uninstall had given back.  And only an uninstall deletes    *)
(* one, at that index alone: see UninstallSparesOthers.                    *)
OthersKeepOrder ==
  pc = "write_order" /\ order.read
    => Without(bootOrder', state.index) = Without(bootOrder, state.index)
SeenEntryKept ==
  \A i \in Indexes : bootVar[i] = "other" /\ bootVar'[i] = "aether"
    => i \notin used /\ (saved.index # i => state.index = NoIndex)
OthersDeletedByRecord ==
  \A i \in Indexes : bootVar[i] = "other" /\ bootVar'[i] = "absent"
    => cmd = "uninstall" /\ saved.installed /\ i = saved.index
OthersKept == [][OthersKeepOrder /\ SeenEntryKept /\ OthersDeletedByRecord]_installVars

(* uninstall.rs:11 lists the boot manager of another system among what is  *)
(* never touched: no uninstall deletes an entry that is not AETHER's.      *)
UninstallSparesOthers ==
  [][cmd = "uninstall"
       => \A i \in Indexes : bootVar[i] = "other" => bootVar'[i] = "other"]_installVars

(* uefi_vars::delete is documented to succeed for a variable that does not *)
(* exist (uefi_vars.rs:75), so that an uninstall stopped after deleting    *)
(* its boot entry gets past that step when it is run again.                *)
VariableGoneIsSuccess ==
  pc = "delete_var" /\ bootVar[state.index] = "absent" => ENABLED DeleteBootVar

(* A second install finds what the first one did: there is never more than *)
(* one entry of AETHER.                                                    *)
OneEntry ==
  \A i, j \in Indexes : bootVar[i] = "aether" /\ bootVar[j] = "aether" => i = j

=============================================================================
