----------------------------- MODULE InstallerProofs -----------------------------
(***************************************************************************)
(* Proofs about what install, update and uninstall leave behind, for any   *)
(* number of boot entries and releases, and after any history of commands  *)
(* that were stopped anywhere; and about the plan an install goes by, for  *)
(* every machine and command line.                                         *)
(***************************************************************************)
EXTENDS Installer, HostCheck, LeastNumber, FiniteSetTheorems, TLAPS

Contents == Images \cup {Absent, Torn, Present}

InstallTypes ==
  /\ bootVar \in [Indexes -> {"absent", "other", "aether"}]
  /\ files \in [Paths -> Contents]
  /\ saved \in States /\ state \in States
  /\ used \subseteq Indexes
  /\ rewriting \in BOOLEAN

InstallSteps ==
  {"hypervisor", "writing_hypervisor", "selector", "writing_selector", "probe", "write_var",
   "read_order", "write_order", "save"}
UpdateSteps == {"slot", "writing_slot", "save"}
UninstallSteps == {"delete_var", "read_order", "write_order", "remove_files", "delete_state"}

(* Which command is at which step.                                         *)
StepInv ==
  \/ cmd = "none" /\ pc = "idle"
  \/ cmd = "install" /\ pc \in InstallSteps
  \/ cmd = "update" /\ pc \in UpdateSteps
  \/ cmd = "uninstall" /\ pc \in UninstallSteps

(* What a command knows is what is on record, until an install has found   *)
(* its entry; and what is on record has an entry.                          *)
KnownInv ==
  /\ saved.installed => saved.index # NoIndex
  /\ cmd = "none" => state = NoState
  /\ cmd \in {"install", "update"} => state.installed
  /\ cmd = "install" /\ pc \in {"read_order", "write_order", "save"} => state.index # NoIndex
  /\ cmd = "update" => state = saved /\ saved.installed
  /\ cmd = "uninstall" => state = saved /\ saved.installed

AllWhole == \A b \in Binaries : Whole(b)

(* How far the copies of an install have come.                             *)
CopyInv ==
  cmd = "install" =>
    /\ image \in Images
    /\ pc \in {"selector", "writing_selector"} => Whole("hypervisor")
    /\ pc \in {"probe", "write_var", "read_order", "write_order", "save"} => AllWhole

(* An uninstall touches the binaries only when its entry is gone, and the  *)
(* record only when they are.                                              *)
RemovalInv ==
  cmd = "uninstall" =>
    /\ pc # "delete_var" => bootVar[saved.index] # "aether"
    /\ pc = "delete_state" /\ os = "windows" => \A p \in Paths : files[p] = Absent

LedTo(i) == i # NoIndex /\ bootVar[i] = "aether"

EntryInv == ~ rewriting /\ (LedTo(saved.index) \/ LedTo(state.index)) => AllWhole

InstallInv == InstallTypes /\ StepInv /\ KnownInv /\ CopyInv /\ RemovalInv
InstallInvW == InstallInv /\ (os = "windows" => EntryInv)

-------------------------------------------------------------------------------

LEMMA PickFreeIsIndex ==
  ASSUME used \subseteq Indexes, Indexes \ used # {}
  PROVE  PickFree \in Indexes /\ PickFree \notin used
<1>1. Indexes \ used \subseteq Nat
  BY InstallerAssumption DEF Indexes
<1>2. PICK i \in Indexes \ used : \A j \in Indexes \ used : i <= j
  BY <1>1, LeastOf
<1>3. \A j \in 0 .. i - 1 : j \in used
  BY <1>2, InstallerAssumption DEF Indexes
<1> QED BY <1>2, <1>3 DEF PickFree

LEMMA InitEstablishes == Init => InstallInvW
<1> SUFFICES ASSUME Init PROVE InstallInvW
  OBVIOUS
<1> USE InstallerAssumption DEF Init
<1>1. NoState \in States /\ ~ NoState.installed /\ NoState.index = NoIndex
  BY DEF NoState, DefaultState, States, Slot, NoIndex
<1>2. InstallTypes
  BY <1>1 DEF InstallTypes, Contents
<1> QED BY <1>1, <1>2 DEF InstallInvW, InstallInv, StepInv, KnownInv, CopyInv, RemovalInv, EntryInv, LedTo

LEMMA EmptyState ==
  NoState \in States /\ ~ NoState.installed /\ NoState.index = NoIndex
BY InstallerAssumption DEF NoState, DefaultState, States, Slot, NoIndex

LEMMA StartStep ==
  ASSUME InstallInvW, (\E v \in Images : StartInstall(v)) \/ StartUpdate \/ StartUninstall
  PROVE  InstallInvW'
<1> USE DEF InstallInvW, InstallInv
<1>1. ASSUME NEW v \in Images, StartInstall(v) PROVE InstallInvW'
  <2>1. DefaultState \in States /\ DefaultState.installed /\ DefaultState.index = NoIndex
    BY DEF DefaultState, States, Slot, NoIndex
  <2>2. UNCHANGED <<bootVar, files, saved, used, rewriting, os>> /\ cmd' = "install"
        /\ state' \in {saved, DefaultState} /\ state'.installed /\ pc' = "hypervisor" /\ image' = v
    BY <1>1, <2>1 DEF StartInstall, Goto, disk
  <2>3. InstallTypes'
    BY <2>1, <2>2 DEF InstallTypes
  <2>4. (StepInv /\ KnownInv /\ CopyInv /\ RemovalInv)'
    BY <2>1, <2>2 DEF StepInv, InstallSteps, KnownInv, CopyInv, RemovalInv
  <2>5. EntryInv => EntryInv'
    BY <2>1, <2>2 DEF EntryInv, LedTo, AllWhole, Whole
  <2> QED BY <2>2, <2>3, <2>4, <2>5
<1>2. ASSUME StartUpdate \/ StartUninstall PROVE InstallInvW'
  <2>1. /\ UNCHANGED <<bootVar, files, saved, used, rewriting, os>> /\ state' = saved /\ saved.installed
        /\ \/ cmd' = "update" /\ pc' = "slot"
           \/ cmd' = "uninstall" /\ pc' = "delete_var"
    BY <1>2 DEF StartUpdate, StartUninstall, Goto, disk, IsInstalled, KnownInv
  <2>2. InstallTypes'
    BY <2>1 DEF InstallTypes
  <2>3. (StepInv /\ KnownInv /\ CopyInv /\ RemovalInv)'
    BY <2>1 DEF StepInv, UpdateSteps, UninstallSteps, KnownInv, CopyInv, RemovalInv
  <2>4. EntryInv => EntryInv'
    BY <2>1 DEF EntryInv, LedTo, AllWhole, Whole
  <2> QED BY <2>1, <2>2, <2>3, <2>4
<1> QED BY <1>1, <1>2

LEMMA CopyStep ==
  ASSUME InstallInvW, NEW b \in Binaries, SkipCopy(b) \/ BeginCopy(b) \/ EndCopy(b)
  PROVE  InstallInvW'
<1> USE DEF InstallInvW, InstallInv
<1>0. b \in Paths /\ b \in {"hypervisor", "selector"} /\ Binaries = {"hypervisor", "selector"}
  BY DEF Paths, Binaries
<1>1. cmd = "install" /\ image \in Images
  BY <1>0 DEF SkipCopy, BeginCopy, EndCopy, Writing, StepInv, UpdateSteps, UninstallSteps, CopyInv
<1>2. UNCHANGED <<os, bootVar, saved, state, image, used, cmd>>
  BY DEF SkipCopy, BeginCopy, EndCopy, disk, run
<1>3. CASE SkipCopy(b)
  <2>1. UNCHANGED <<files, rewriting>> /\ pc = b /\ files[b] = image /\ pc' = AfterCopy(b)
    BY <1>3 DEF SkipCopy, UpToDate, disk, Goto
  <2>2. InstallTypes' /\ (EntryInv => EntryInv')
    BY <1>2, <2>1 DEF InstallTypes, EntryInv, LedTo, AllWhole, Whole
  <2>3. (StepInv /\ KnownInv /\ CopyInv /\ RemovalInv)'
    BY <1>0, <1>1, <1>2, <2>1
       DEF StepInv, InstallSteps, KnownInv, CopyInv, RemovalInv, AfterCopy, AllWhole, Whole
  <2> QED BY <1>2, <2>2, <2>3
<1>4. CASE BeginCopy(b)
  <2>1. /\ pc = b /\ files[b] # image /\ files' = [files EXCEPT ![b] = Torn] /\ pc' = Writing(b)
        /\ rewriting' = (rewriting \/ (Whole(b) /\ files[b] # image))
    BY <1>4 DEF BeginCopy, UpToDate, Goto
  <2>2. InstallTypes'
    BY <1>0, <1>2, <2>1 DEF InstallTypes, Contents, Whole
  <2>3. EntryInv => EntryInv'
    BY <1>0, <1>2, <2>1 DEF InstallTypes, EntryInv, LedTo, AllWhole
  <2>4. (StepInv /\ KnownInv /\ CopyInv /\ RemovalInv)'
    BY <1>0, <1>1, <1>2, <2>1
       DEF InstallTypes, StepInv, InstallSteps, KnownInv, CopyInv, RemovalInv, Writing, AllWhole, Whole
  <2> QED BY <1>2, <2>2, <2>3, <2>4
<1>5. CASE EndCopy(b)
  <2>1. /\ pc = Writing(b) /\ files' = [files EXCEPT ![b] = image] /\ pc' = AfterCopy(b)
        /\ rewriting' = (rewriting /\ ~ \A c \in Binaries : Whole(c)')
    BY <1>5 DEF EndCopy, Goto
  <2>2. files'[b] = image /\ \A c \in Binaries \ {b} : files'[c] = files[c]
    BY <1>0, <2>1 DEF InstallTypes, Paths
  <2>3. InstallTypes'
    BY <1>0, <1>1, <1>2, <2>1 DEF InstallTypes, Contents, Whole
  <2>4. EntryInv => EntryInv'
    BY <1>0, <1>1, <1>2, <2>1, <2>2 DEF InstallTypes, EntryInv, LedTo, AllWhole, Whole
  <2>5. (StepInv /\ KnownInv /\ CopyInv /\ RemovalInv)'
    BY <1>0, <1>1, <1>2, <2>1, <2>2
       DEF InstallTypes, StepInv, InstallSteps, KnownInv, CopyInv, RemovalInv, Writing, AfterCopy,
           AllWhole, Whole
  <2> QED BY <1>2, <2>3, <2>4, <2>5
<1> QED BY <1>3, <1>4, <1>5

LEMMA SlotStep ==
  ASSUME InstallInvW, BeginSlot \/ EndSlot
  PROVE  InstallInvW'
<1> USE DEF InstallInvW, InstallInv
<1>1. cmd = "update" /\ ToSlot \in Slot /\ ToSlot # saved.slot
  BY DEF BeginSlot, EndSlot, StepInv, InstallSteps, UninstallSteps, KnownInv, InstallTypes, States,
         ToSlot, Other, Slot
<1>2. PICK v \in {Torn, Present} : files' = [files EXCEPT ![ToSlot] = v]
  BY DEF BeginSlot, EndSlot
<1>3. UNCHANGED <<os, bootVar, saved, state, image, used, cmd, rewriting>>
      /\ pc' \in {"writing_slot", "save"}
  BY DEF BeginSlot, EndSlot, run, Goto
<1>4. \A b \in Binaries : files'[b] = files[b]
  BY <1>1, <1>2 DEF InstallTypes, Binaries, Slot, Paths
<1>5. InstallTypes'
  BY <1>1, <1>2, <1>3 DEF InstallTypes, Contents, Paths
<1>6. (StepInv /\ KnownInv /\ CopyInv /\ RemovalInv)'
  BY <1>1, <1>3 DEF StepInv, UpdateSteps, KnownInv, CopyInv, RemovalInv
<1>7. EntryInv => EntryInv'
  BY <1>3, <1>4 DEF EntryInv, LedTo, AllWhole, Whole
<1> QED BY <1>3, <1>5, <1>6, <1>7

LEMMA EntryStep ==
  ASSUME InstallInvW, ProbeIndexes \/ WriteBootVar \/ ReadBootOrder \/ WriteBootOrder
  PROVE  InstallInvW'
<1> USE DEF InstallInvW, InstallInv
<1>1. CASE ProbeIndexes
  <2>1. UNCHANGED <<os, bootVar, files, saved, state, image, rewriting, cmd>>
        /\ pc = "probe" /\ pc' = "write_var" /\ used' \subseteq Indexes
    BY <1>1 DEF ProbeIndexes, disk, Goto
  <2> QED
    BY <2>1 DEF InstallTypes, StepInv, InstallSteps, UpdateSteps, UninstallSteps, KnownInv, CopyInv,
                RemovalInv, EntryInv, LedTo, AllWhole, Whole
<1>2. CASE WriteBootVar
  <2>1. PICK i : /\ i = IF state.index = NoIndex THEN PickFree ELSE state.index
                 /\ bootVar' = [bootVar EXCEPT ![i] = "aether"]
                 /\ state' = [state EXCEPT !.index = i]
    BY <1>2 DEF WriteBootVar
  <2>2. UNCHANGED <<os, files, saved, image, rewriting, cmd>>
        /\ pc = "write_var" /\ pc' = "read_order" /\ used' = {}
    BY <1>2 DEF WriteBootVar, Goto
  <2>3. cmd = "install" /\ AllWhole
    BY <2>2 DEF StepInv, InstallSteps, UpdateSteps, UninstallSteps, CopyInv
  <2>4. i \in Indexes /\ i # NoIndex
    <3>1. NoIndex \notin Indexes
      BY InstallerAssumption DEF Indexes, NoIndex
    <3>2. CASE state.index = NoIndex
      BY <1>2, <2>1, <3>1, <3>2, PickFreeIsIndex DEF WriteBootVar, InstallTypes
    <3>3. CASE state.index # NoIndex
      BY <2>1, <3>3 DEF InstallTypes, States
    <3> QED BY <3>2, <3>3
  <2>5. state' \in States /\ state'.index = i /\ state'.installed
    BY <2>1, <2>3, <2>4 DEF InstallTypes, States, KnownInv
  <2>6. InstallTypes'
    BY <2>1, <2>2, <2>4, <2>5 DEF InstallTypes
  <2>7. (StepInv /\ KnownInv /\ CopyInv /\ RemovalInv)'
    BY <2>2, <2>3, <2>4, <2>5
       DEF StepInv, InstallSteps, KnownInv, CopyInv, RemovalInv, AllWhole, Whole
  <2>8. EntryInv'
    BY <2>2, <2>3 DEF EntryInv, AllWhole, Whole
  <2> QED BY <2>6, <2>7, <2>8
<1>3. CASE ReadBootOrder \/ WriteBootOrder
  <2>1. UNCHANGED <<os, bootVar, files, saved, state, image, used, rewriting, cmd>>
    BY <1>3 DEF ReadBootOrder, WriteBootOrder, disk
  <2>2. \/ cmd = "install" /\ pc \in {"read_order", "write_order"} /\ pc' \in {"write_order", "save"}
        \/ cmd = "uninstall" /\ pc # "delete_var" /\ pc' \in {"write_order", "remove_files"}
    BY <1>3 DEF ReadBootOrder, WriteBootOrder, Goto, StepInv, InstallSteps, UpdateSteps, UninstallSteps
  <2> QED
    BY <2>1, <2>2 DEF InstallTypes, StepInv, InstallSteps, UninstallSteps, KnownInv, CopyInv,
                      RemovalInv, EntryInv, LedTo, AllWhole, Whole
<1> QED BY <1>1, <1>2, <1>3

LEMMA SaveStep ==
  ASSUME InstallInvW, SaveState
  PROVE  InstallInvW'
<1> USE DEF InstallInvW, InstallInv
<1>1. UNCHANGED <<os, bootVar, files, rewriting>>
      /\ cmd' = "none" /\ pc' = "idle" /\ state' = NoState /\ used' = {} /\ pc = "save"
  BY DEF SaveState, CommandReturns, Goto
<1>2. cmd \in {"install", "update"} /\ state.index # NoIndex /\ state.installed
  BY <1>1 DEF StepInv, UninstallSteps, KnownInv
<1>3. saved' \in States /\ saved'.index = state.index /\ saved'.installed
  BY <1>2 DEF SaveState, InstallTypes, States, Other, Slot
<1>4. InstallTypes'
  BY <1>1, <1>3, EmptyState DEF InstallTypes
<1>5. (StepInv /\ KnownInv /\ CopyInv /\ RemovalInv)'
  BY <1>1, <1>2, <1>3 DEF StepInv, KnownInv, CopyInv, RemovalInv
<1>6. EntryInv => EntryInv'
  BY <1>1, <1>3, EmptyState DEF EntryInv, LedTo, AllWhole, Whole
<1> QED BY <1>1, <1>4, <1>5, <1>6

LEMMA RemovalStep ==
  ASSUME InstallInvW,
         DeleteBootVar \/ FilesRemoved \/ DeleteState \/ \E p \in Paths : RemoveFile(p)
  PROVE  InstallInvW'
<1> USE DEF InstallInvW, InstallInv
<1>1. cmd = "uninstall" /\ state = saved /\ saved.installed /\ saved.index \in Indexes
  <2>1. cmd = "uninstall"
    BY DEF DeleteBootVar, FilesRemoved, DeleteState, RemoveFile, StepInv, InstallSteps, UpdateSteps
  <2> QED BY <2>1 DEF KnownInv, InstallTypes, States
<1>2. CASE DeleteBootVar
  <2>1. bootVar' = [bootVar EXCEPT ![saved.index] = "absent"] /\ pc' = "read_order"
        /\ UNCHANGED <<os, files, saved, state, used, rewriting, cmd>>
    BY <1>1, <1>2 DEF DeleteBootVar, Goto, run
  <2>2. bootVar'[saved.index] = "absent"
    BY <1>1, <2>1 DEF InstallTypes
  <2>3. InstallTypes'
    BY <1>1, <2>1 DEF InstallTypes
  <2> QED
    BY <1>1, <2>1, <2>2, <2>3
       DEF StepInv, UninstallSteps, KnownInv, CopyInv, RemovalInv, EntryInv, LedTo
<1>3. CASE FilesRemoved
  <2>1. pc = "remove_files" /\ pc' = "delete_state"
        /\ (os = "windows" => \A p \in Paths : files[p] = Absent)
        /\ UNCHANGED <<os, bootVar, files, saved, state, used, rewriting, cmd>>
    BY <1>3 DEF FilesRemoved, Goto, run, disk
  <2> QED
    BY <1>1, <2>1 DEF InstallTypes, StepInv, UninstallSteps, KnownInv, CopyInv, RemovalInv, EntryInv,
                      LedTo, AllWhole, Whole
<1>4. CASE DeleteState
  <2>1. saved' = NoState /\ state' = NoState /\ used' = {} /\ cmd' = "none" /\ pc' = "idle"
        /\ UNCHANGED <<os, bootVar, files, rewriting>>
    BY <1>4 DEF DeleteState, CommandReturns, Goto
  <2> QED
    BY <1>1, <2>1, EmptyState
       DEF InstallTypes, StepInv, KnownInv, CopyInv, RemovalInv, EntryInv, LedTo
<1>5. ASSUME NEW p \in Paths, RemoveFile(p) PROVE InstallInvW'
  <2>1. pc = "remove_files" /\ files' = [files EXCEPT ![p] = Absent]
        /\ UNCHANGED <<os, bootVar, saved, state, used, rewriting, cmd, pc>>
    BY <1>5 DEF RemoveFile, run
  <2>2. InstallTypes'
    BY <2>1 DEF InstallTypes, Contents
  <2>3. ~ LedTo(saved.index)' /\ ~ LedTo(state.index)'
    BY <1>1, <2>1 DEF RemovalInv, LedTo
  <2> QED
    BY <1>1, <2>1, <2>2, <2>3 DEF StepInv, KnownInv, CopyInv, RemovalInv, EntryInv
<1> QED BY <1>2, <1>3, <1>4, <1>5

LEMMA OutsideStep ==
  ASSUME InstallInvW,
         CommandStops \/ (\E i \in Indexes : OtherSystem(i)) \/ UNCHANGED installVars
  PROVE  InstallInvW'
<1> USE DEF InstallInvW, InstallInv
<1>1. CASE CommandStops
  <2>1. state' = NoState /\ used' = {} /\ cmd' = "none" /\ pc' = "idle"
        /\ UNCHANGED <<os, bootVar, files, saved, rewriting>>
    BY <1>1 DEF CommandStops, CommandReturns, Goto, disk
  <2> QED
    BY <2>1, EmptyState
       DEF InstallTypes, StepInv, KnownInv, CopyInv, RemovalInv, EntryInv, LedTo, AllWhole, Whole
<1>2. ASSUME NEW i \in Indexes, OtherSystem(i) PROVE InstallInvW'
  <2>1. bootVar' = [bootVar EXCEPT ![i] = "other"] /\ pc = "idle"
        /\ UNCHANGED <<os, files, saved, state, used, rewriting, cmd, pc>>
    BY <1>2 DEF OtherSystem, run
  <2>2. cmd = "none"
    BY <2>1 DEF StepInv, InstallSteps, UpdateSteps, UninstallSteps
  <2>3. InstallTypes'
    BY <2>1 DEF InstallTypes
  <2>4. \A j : LedTo(j)' /\ j \in Indexes \cup {NoIndex} => LedTo(j)
    BY <2>1 DEF LedTo, InstallTypes
  <2>5. saved.index \in Indexes \cup {NoIndex} /\ state.index \in Indexes \cup {NoIndex}
    BY DEF InstallTypes, States
  <2>6. EntryInv => EntryInv'
    BY <2>1, <2>4, <2>5 DEF EntryInv, LedTo, AllWhole, Whole
  <2> QED BY <2>1, <2>2, <2>3, <2>6 DEF StepInv, KnownInv, CopyInv, RemovalInv
<1>3. CASE UNCHANGED installVars
  BY <1>3 DEF installVars, InstallTypes, StepInv, KnownInv, CopyInv, RemovalInv, EntryInv, LedTo,
              AllWhole, Whole
<1> QED BY <1>1, <1>2, <1>3

LEMMA NextPreserves ==
  ASSUME InstallInvW, [Next]_installVars
  PROVE  InstallInvW'
BY StartStep, CopyStep, SlotStep, EntryStep, SaveStep, RemovalStep, OutsideStep DEF Next

LEMMA Invariance == Spec => []InstallInvW
BY InitEstablishes, NextPreserves, PTL DEF Spec

-------------------------------------------------------------------------------

(* For any number of boot entries and releases: at every point where a     *)
(* command of a Windows host may stop, the entry on record and the one     *)
(* just written lead to whole binaries, unless a release is being replaced *)
(* in place.  It rests on how far the copies of an install have come when  *)
(* it writes its entry, and on the entry being gone before an uninstall    *)
(* touches the binaries.                                                   *)
THEOREM EntriesLeadToBinaries == Spec => []EntryLeadsToBinaries
<1>1. InstallInvW => EntryLeadsToBinaries
  BY DEF InstallInvW, EntryInv, LedTo, AllWhole, EntryLeadsToBinaries
<1> QED BY <1>1, Invariance, PTL

(* The record of an install goes only when its boot entry, and on Windows  *)
(* every file of it, are gone, whatever stopped the commands before.       *)
THEOREM RecordIsDeletedLast == Spec => RecordDeletedLast
<1> DEFINE Action == saved.installed /\ ~saved'.installed
                       => /\ bootVar[saved.index] # "aether"
                          /\ os = "windows" => \A p \in Paths : files[p] = Absent
<1>1. ASSUME InstallInvW, Next PROVE Action
  <2> USE DEF InstallInvW, InstallInv
  <2>1. CASE DeleteState
    <3>1. cmd = "uninstall" /\ pc = "delete_state"
      BY <1>1, <2>1 DEF DeleteState, StepInv, InstallSteps, UpdateSteps
    <3> QED BY <1>1, <3>1 DEF RemovalInv
  <2>2. CASE SaveState
    <3>1. cmd \in {"install", "update"} /\ state.installed /\ state \in States
      BY <1>1, <2>2 DEF SaveState, StepInv, UninstallSteps, KnownInv, InstallTypes
    <3>2. saved'.installed
      BY <2>2, <3>1 DEF SaveState, States
    <3> QED BY <3>2
  <2>3. CASE saved' = saved
    BY <2>3
  <2>4. saved' = saved \/ DeleteState \/ SaveState
    BY <1>1 DEF Next, StartInstall, StartUpdate, StartUninstall, SkipCopy, BeginCopy, EndCopy,
                BeginSlot, EndSlot, ProbeIndexes, WriteBootVar, ReadBootOrder, WriteBootOrder,
                DeleteBootVar, FilesRemoved, RemoveFile, CommandStops, OtherSystem, disk
  <2> QED BY <2>1, <2>2, <2>3, <2>4
<1>2. InstallInvW /\ [Next]_installVars => [Action]_installVars
  BY <1>1
<1> QED BY <1>2, Invariance, PTL DEF Spec, RecordDeletedLast

(* While an update runs, the directory of the slot that the record names   *)
(* as active is not written, whatever stops the update.                    *)
THEOREM ActiveSlotIsUntouched == Spec => ActiveSlotUntouched
<1> DEFINE Action == cmd = "update" => files'[saved.slot] = files[saved.slot]
<1>1. ASSUME InstallInvW, Next, cmd = "update" PROVE files'[saved.slot] = files[saved.slot]
  <2> USE DEF InstallInvW, InstallInv
  <2>1. CASE BeginSlot \/ EndSlot
    <3>1. saved.slot \in Slot /\ ToSlot # saved.slot /\ Slot \subseteq Paths
      BY <1>1 DEF KnownInv, InstallTypes, States, ToSlot, Other, Slot, Paths
    <3>2. PICK v : files' = [files EXCEPT ![ToSlot] = v]
      BY <2>1 DEF BeginSlot, EndSlot
    <3> QED BY <1>1, <3>1, <3>2 DEF InstallTypes
  <2>2. CASE files' = files
    BY <2>2
  <2>3. ~ (\E b \in Binaries : BeginCopy(b) \/ EndCopy(b)) /\ ~ \E p \in Paths : RemoveFile(p)
    BY <1>1 DEF StepInv, UpdateSteps, BeginCopy, EndCopy, RemoveFile, Writing, Binaries
  <2>4. files' = files \/ BeginSlot \/ EndSlot
    BY <1>1, <2>3 DEF Next, StartInstall, StartUpdate, StartUninstall, SkipCopy, ProbeIndexes,
                WriteBootVar, ReadBootOrder, WriteBootOrder, SaveState, DeleteBootVar, FilesRemoved,
                DeleteState, CommandStops, OtherSystem, disk
  <2> QED BY <2>1, <2>2, <2>4
<1>2. InstallInvW /\ [Next]_installVars => [Action]_installVars
  BY <1>1
<1> QED BY <1>2, Invariance, PTL DEF Spec, ActiveSlotUntouched

-------------------------------------------------------------------------------

(***************************************************************************)
(* BootOrder.                                                              *)
(***************************************************************************)

(* What Without has kept of the first entries.                             *)
Kept(f, S, list, i) ==
  /\ f \in [0 .. Len(list) -> Seq(S)]
  /\ f[0] = << >>
  /\ \A n \in 1 .. Len(list) : list[n] = i => f[n] = f[n - 1]
  /\ \A n \in 1 .. Len(list) : list[n] # i => f[n] = Append(f[n - 1], list[n])
  /\ Without(list, i) = f[Len(list)]

LEMMA WithoutIsKept ==
  ASSUME NEW S, NEW list \in Seq(S), NEW i
  PROVE  \E f : Kept(f, S, list, i)
<1> DEFINE R == Seq(S)
           N == Len(list)
           Body(g) == [n \in 0 .. N |-> IF n = 0 THEN << >>
                         ELSE IF list[n] = i THEN g[n - 1] ELSE Append(g[n - 1], list[n])]
           F == [x \in (0 .. N) \X R |-> IF x[1] = 0 THEN << >>
                   ELSE IF list[x[1]] = i THEN x[2] ELSE Append(x[2], list[x[1]])]
           e == << >>
<1>1. N \in Nat /\ e \in R /\ \A n \in 1 .. N : list[n] \in S
  OBVIOUS
<1>2. \A s \in R, x \in S : Append(s, x) \in R
  OBVIOUS
<1>3. F \in [(0 .. N) \X R -> R]
  <2>1. ASSUME NEW x \in (0 .. N) \X R
        PROVE  (IF x[1] = 0 THEN << >> ELSE IF list[x[1]] = i THEN x[2] ELSE Append(x[2], list[x[1]])) \in R
    <3>1. x[1] \in 0 .. N /\ x[2] \in R /\ (x[1] # 0 => x[1] \in 1 .. N)
      BY <1>1, <2>1
    <3> HIDE DEF R, N
    <3> QED BY <1>1, <1>2, <3>1
  <2> HIDE DEF R, N
  <2> QED BY <2>1
<1>4. \A n \in 0 .. N, s \in R : F[<<n, s>>] = IF n = 0 THEN << >>
         ELSE IF list[n] = i THEN s ELSE Append(s, list[n])
  <2> HIDE DEF R, N
  <2> QED OBVIOUS
<1>5. PICK f : FromItsStart(f, N, R, e, F)
  <2> HIDE DEF R, N, e, F
  <2> QED BY <1>1, <1>3, UpRecursion
<1>6. f \in [0 .. N -> R] /\ f[0] = << >> /\ \A n \in 0 .. N : n # 0 => f[n] = F[<<n, f[n - 1]>>]
  BY <1>5 DEF FromItsStart
<1>7. f = Body(f)
  <2>1. ASSUME NEW n \in 0 .. N
        PROVE f[n] = IF n = 0 THEN << >>
                     ELSE IF list[n] = i THEN f[n - 1] ELSE Append(f[n - 1], list[n])
    <3>1. CASE n = 0
      BY <1>6, <3>1
    <3>2. CASE n # 0
      <4>1. n - 1 \in 0 .. N
        BY <1>1, <3>2
      <4>2. f[n - 1] \in R
        BY <1>6, <4>1
      <4> HIDE DEF R, N, F
      <4> QED BY <1>4, <1>6, <3>2, <4>2
    <3> QED BY <3>1, <3>2
  <2> HIDE DEF R, N
  <2> QED BY <1>6, <2>1
<1> DEFINE a == CHOOSE g : g = Body(g)
<1>8. a = Body(a)
  <2> HIDE DEF Body
  <2> QED BY <1>7
<1>9. Without(list, i) = a[N]
  BY DEF Without
<1> HIDE DEF a, F
<1>10. \A n \in 0 .. N : a[n] = IF n = 0 THEN << >>
         ELSE IF list[n] = i THEN a[n - 1] ELSE Append(a[n - 1], list[n])
  <2> HIDE DEF N
  <2> QED BY <1>8
<1>11. \A n \in 0 .. N : a[n] \in R
  <2> DEFINE T == {n \in 0 .. N : a[n] \notin R}
  <2>1. SUFFICES ASSUME T # {} PROVE FALSE
    OBVIOUS
  <2>2. PICK n \in T : \A y \in T : n <= y
    <3>1. T \subseteq Nat
      BY <1>1
    <3> HIDE DEF T
    <3> QED BY <2>1, <3>1, LeastOf
  <2>3. n \in 0 .. N /\ a[n] \notin R
    BY <2>2
  <2>4. CASE n = 0
    BY <1>1, <1>10, <2>3, <2>4
  <2>5. CASE n # 0
    <3>1. n - 1 \in 0 .. N /\ ~ n <= n - 1 /\ n \in 1 .. N
      BY <1>1, <2>3, <2>5
    <3>2. n - 1 \notin T
      <4> HIDE DEF T
      <4> QED BY <2>2, <3>1
    <3>3. a[n - 1] \in R
      BY <3>1, <3>2
    <3> HIDE DEF R, N, T
    <3> QED BY <1>1, <1>2, <1>10, <2>3, <2>5, <3>1, <3>3
  <2> QED BY <2>4, <2>5
<1>12. a \in [0 .. N -> R]
  <2> HIDE DEF R, N
  <2> QED BY <1>8, <1>11
<1>13. /\ \A n \in 1 .. N : list[n] = i => a[n] = a[n - 1]
       /\ \A n \in 1 .. N : list[n] # i => a[n] = Append(a[n - 1], list[n])
       /\ a[0] = << >>
  <2>1. \A n \in 1 .. N : n \in 0 .. N /\ n # 0
    BY <1>1
  <2>2. 0 \in 0 .. N
    BY <1>1
  <2> HIDE DEF N
  <2> QED BY <1>10, <2>1, <2>2
<1> QED BY <1>9, <1>12, <1>13 DEF Kept

(* What is kept of the first n entries: those of them that are not i, each *)
(* once if each is there once.                                             *)
KeptOf(list, i, n, s) ==
  /\ \A k \in DOMAIN s : s[k] # i /\ \E m \in 1 .. n : s[k] = list[m]
  /\ IsInjective(list) => IsInjective(s)

LEMMA KeptFacts ==
  ASSUME NEW S, NEW list \in Seq(S), NEW i, NEW f, Kept(f, S, list, i)
  PROVE  \A n \in 0 .. Len(list) : KeptOf(list, i, n, f[n])
<1> DEFINE N == Len(list)
           T == {n \in 0 .. N : ~ KeptOf(list, i, n, f[n])}
<1>1. N \in Nat /\ DOMAIN list = 1 .. N
  OBVIOUS
<1>2. SUFFICES ASSUME T # {} PROVE FALSE
  OBVIOUS
<1>3. PICK n \in T : \A y \in T : n <= y
  <2>1. T \subseteq Nat
    BY <1>1
  <2> HIDE DEF T
  <2> QED BY <1>2, <2>1, LeastOf
<1>4. n \in 0 .. N /\ ~ KeptOf(list, i, n, f[n])
  BY <1>3
<1>5. n # 0
  <2>1. f[0] = << >>
    BY DEF Kept
  <2>2. KeptOf(list, i, 0, << >>)
    BY DEF KeptOf, IsInjective
  <2> QED BY <1>4, <2>1, <2>2
<1>6. n - 1 \in 0 .. N /\ ~ n <= n - 1 /\ n \in 1 .. N /\ n \in DOMAIN list
  BY <1>1, <1>4, <1>5
<1>7. KeptOf(list, i, n - 1, f[n - 1])
  <2>1. n - 1 \notin T
    <3> HIDE DEF T
    <3> QED BY <1>3, <1>6
  <2> QED BY <1>6, <2>1
<1> DEFINE s == f[n - 1]
<1>8. s \in Seq(S) /\ Len(s) \in Nat /\ DOMAIN s = 1 .. Len(s)
  <2>1. s \in Seq(S)
    BY <1>6 DEF Kept
  <2> HIDE DEF s
  <2> QED BY <2>1
<1>9. \A k \in DOMAIN s : s[k] # i /\ (\E m \in 1 .. n - 1 : s[k] = list[m]) /\ \E m \in 1 .. n : s[k] = list[m]
  <2>1. \A m \in 1 .. n - 1 : m \in 1 .. n
    BY <1>6
  <2> QED BY <1>7, <2>1 DEF KeptOf
<1>10. CASE list[n] = i
  <2>1. f[n] = s
    BY <1>6, <1>10 DEF Kept
  <2> HIDE DEF s
  <2> QED BY <1>4, <1>7, <1>9, <2>1 DEF KeptOf, s
<1>11. CASE list[n] # i
  <2>1. f[n] = Append(s, list[n]) /\ list[n] \in S
    BY <1>6, <1>11 DEF Kept
  <2> DEFINE t == f[n]
  <2>2. /\ DOMAIN t = 1 .. Len(s) + 1 /\ t[Len(s) + 1] = list[n]
        /\ \A k \in DOMAIN s : t[k] = s[k]
        /\ \A k \in DOMAIN t : k \in DOMAIN s \/ k = Len(s) + 1
    <3> HIDE DEF s
    <3> QED BY <1>8, <2>1
  <2>3. n \in 1 .. n
    BY <1>6
  <2> HIDE DEF s, t
  <2>4. \A k \in DOMAIN t : t[k] # i /\ \E m \in 1 .. n : t[k] = list[m]
    BY <1>9, <1>11, <2>2, <2>3
  <2>5. ASSUME IsInjective(list), NEW a \in DOMAIN t, NEW b \in DOMAIN t, t[a] = t[b] PROVE a = b
    <3>1. \A k \in DOMAIN s : s[k] # list[n]
      <4>1. ASSUME NEW k \in DOMAIN s, s[k] = list[n] PROVE FALSE
        <5>1. PICK m \in 1 .. n - 1 : s[k] = list[m]
          BY <1>9
        <5>2. m \in DOMAIN list /\ m # n
          BY <1>1, <1>6
        <5> QED BY <1>6, <2>5, <4>1, <5>1, <5>2 DEF IsInjective
      <4> QED BY <4>1
    <3>2. IsInjective(s)
      BY <1>7, <2>5 DEF KeptOf, s
    <3> QED BY <2>2, <2>5, <3>1, <3>2 DEF IsInjective
  <2>6. KeptOf(list, i, n, t)
    BY <2>4, <2>5 DEF KeptOf, IsInjective
  <2> QED BY <1>4, <2>6 DEF t
<1> QED BY <1>10, <1>11

LEMMA WithoutFacts ==
  ASSUME NEW S, NEW list \in Seq(S), NEW i
  PROVE  /\ Without(list, i) \in Seq(S)
         /\ \A k \in DOMAIN Without(list, i) : Without(list, i)[k] # i
         /\ IsInjective(list) => IsInjective(Without(list, i))
<1>1. PICK f : Kept(f, S, list, i)
  BY WithoutIsKept
<1>2. Len(list) \in 0 .. Len(list)
  OBVIOUS
<1>3. KeptOf(list, i, Len(list), f[Len(list)])
  BY <1>1, <1>2, KeptFacts
<1>4. Without(list, i) = f[Len(list)] /\ f[Len(list)] \in Seq(S)
  BY <1>1, <1>2 DEF Kept
<1> QED BY <1>3, <1>4 DEF KeptOf

LEMMA WithoutNone ==
  ASSUME NEW S, NEW list \in Seq(S), NEW i, \A k \in DOMAIN list : list[k] # i
  PROVE  Without(list, i) = list
<1> DEFINE N == Len(list)
           Same(n, s) == Len(s) = n /\ \A k \in 1 .. n : s[k] = list[k]
<1>1. N \in Nat /\ DOMAIN list = 1 .. N
  OBVIOUS
<1>2. PICK f : Kept(f, S, list, i)
  BY WithoutIsKept
<1> DEFINE T == {n \in 0 .. N : ~ Same(n, f[n])}
<1>3. T = {}
  <2>1. SUFFICES ASSUME T # {} PROVE FALSE
    OBVIOUS
  <2>2. PICK n \in T : \A y \in T : n <= y
    <3>1. T \subseteq Nat
      BY <1>1
    <3> HIDE DEF T
    <3> QED BY <2>1, <3>1, LeastOf
  <2>3. n \in 0 .. N /\ ~ Same(n, f[n])
    BY <2>2
  <2>4. n # 0
    <3>1. f[0] = << >>
      BY <1>2 DEF Kept
    <3> QED BY <2>3, <3>1
  <2>5. n - 1 \in 0 .. N /\ ~ n <= n - 1 /\ n \in 1 .. N /\ n \in DOMAIN list /\ n \in Nat
    BY <1>1, <2>3, <2>4
  <2>6. Same(n - 1, f[n - 1])
    <3>1. n - 1 \notin T
      <4> HIDE DEF T
      <4> QED BY <2>2, <2>5
    <3> HIDE DEF Same
    <3> QED BY <2>5, <3>1
  <2> DEFINE s == f[n - 1]
  <2>7. f[n] = Append(s, list[n]) /\ s \in Seq(S) /\ list[n] \in S
    BY <1>2, <2>5 DEF Kept
  <2>8. Len(s) = n - 1 /\ \A k \in 1 .. n - 1 : s[k] = list[k]
    BY <2>6
  <2> HIDE DEF s
  <2>9. Len(f[n]) = n /\ \A k \in 1 .. n : f[n][k] = list[k]
    BY <2>5, <2>7, <2>8
  <2> QED BY <2>3, <2>9
<1>4. N \in 0 .. N /\ f[N] \in Seq(S) /\ Without(list, i) = f[N]
  <2>1. N \in 0 .. N
    BY <1>1
  <2> QED BY <1>2, <2>1 DEF Kept
<1>5. Len(f[N]) = N /\ \A k \in 1 .. N : f[N][k] = list[k]
  BY <1>3, <1>4
<1>6. f[N] = list
  <2> DEFINE s == f[N]
  <2>1. s \in Seq(S) /\ Len(s) = Len(list) /\ \A k \in 1 .. Len(list) : s[k] = list[k]
    BY <1>4, <1>5
  <2> HIDE DEF s
  <2>2. s = list
    BY <2>1
  <2> QED BY <2>2 DEF s
<1> QED BY <1>4, <1>6

(* An entry put first is taken out without touching the rest.              *)
LEMMA WithoutFirst ==
  ASSUME NEW S, NEW list \in Seq(S), NEW i \in S
  PROVE  Without(<<i>> \o list, i) = Without(list, i)
<1> DEFINE N == Len(list)
           long == <<i>> \o list
<1>1. N \in Nat
  OBVIOUS
<1>2. long \in Seq(S) /\ Len(long) = N + 1 /\ long[1] = i /\ \A n \in 1 .. N : long[n + 1] = list[n]
  OBVIOUS
<1> HIDE DEF long
<1>3. PICK f : Kept(f, S, list, i)
  BY WithoutIsKept
<1>4. PICK g : Kept(g, S, long, i)
  BY <1>2, WithoutIsKept
<1>5. g[1] = << >>
  <2>1. 1 \in 1 .. Len(long) /\ 1 - 1 = 0
    BY <1>1, <1>2
  <2> QED BY <1>2, <1>4, <2>1 DEF Kept
<1> DEFINE T == {n \in 0 .. N : g[n + 1] # f[n]}
<1>6. T = {}
  <2>1. SUFFICES ASSUME T # {} PROVE FALSE
    OBVIOUS
  <2>2. PICK n \in T : \A y \in T : n <= y
    <3>1. T \subseteq Nat
      BY <1>1
    <3> HIDE DEF T
    <3> QED BY <2>1, <3>1, LeastOf
  <2>3. n \in 0 .. N /\ g[n + 1] # f[n]
    BY <2>2
  <2>4. n # 0
    <3>1. f[0] = << >>
      BY <1>3 DEF Kept
    <3> QED BY <1>5, <2>3, <3>1
  <2>5. n - 1 \in 0 .. N /\ ~ n <= n - 1 /\ n \in 1 .. N /\ n - 1 + 1 = n /\ n + 1 - 1 = n
        /\ n + 1 \in 1 .. Len(long)
    BY <1>1, <1>2, <2>3, <2>4
  <2>6. g[n] = f[n - 1]
    <3>1. n - 1 \notin T
      <4> HIDE DEF T
      <4> QED BY <2>2, <2>5
    <3> QED BY <2>5, <3>1
  <2>7. long[n + 1] = list[n]
    BY <1>2, <2>5
  <2>8. g[n + 1] = IF list[n] = i THEN g[n] ELSE Append(g[n], list[n])
    <3>1. long[n + 1] = i => g[n + 1] = g[n + 1 - 1]
      BY <1>4, <2>5 DEF Kept
    <3>2. long[n + 1] # i => g[n + 1] = Append(g[n + 1 - 1], long[n + 1])
      BY <1>4, <2>5 DEF Kept
    <3> QED BY <2>5, <2>7, <3>1, <3>2
  <2>9. f[n] = IF list[n] = i THEN f[n - 1] ELSE Append(f[n - 1], list[n])
    BY <1>3, <2>5 DEF Kept
  <2> QED BY <2>3, <2>6, <2>8, <2>9
<1>7. N \in 0 .. N
  BY <1>1
<1>8. g[N + 1] = f[N]
  BY <1>6, <1>7
<1>9. Without(long, i) = g[N + 1] /\ Without(list, i) = f[N]
  BY <1>2, <1>3, <1>4 DEF Kept
<1> QED BY <1>8, <1>9 DEF long

(* Taking an entry out twice, or putting it first before, is the same as   *)
(* taking it out.                                                          *)
LEMMA WithoutAgain ==
  ASSUME NEW S, NEW list \in Seq(S), NEW i \in S
  PROVE  /\ Without(Without(list, i), i) = Without(list, i)
         /\ Without(Prepend(list, i), i) = Without(list, i)
         /\ Prepend(list, i) \in Seq(S)
         /\ IsInjective(list) => IsInjective(Prepend(list, i))
<1> DEFINE s == Without(list, i)
<1>1. s \in Seq(S) /\ (\A k \in DOMAIN s : s[k] # i) /\ (IsInjective(list) => IsInjective(s))
  BY WithoutFacts
<1> HIDE DEF s
<1>2. Without(s, i) = s
  BY <1>1, WithoutNone
<1>3. Without(<<i>> \o s, i) = Without(s, i)
  BY <1>1, WithoutFirst
<1>4. <<i>> \o s \in Seq(S)
  BY <1>1
<1>5. IsInjective(s) => IsInjective(<<i>> \o s)
  <2> DEFINE t == <<i>> \o s
  <2>1. Len(s) \in Nat /\ DOMAIN s = 1 .. Len(s) /\ DOMAIN t = 1 .. Len(s) + 1 /\ t[1] = i
        /\ \A k \in DOMAIN t : k = 1 \/ (k - 1 \in DOMAIN s /\ t[k] = s[k - 1])
    BY <1>1
  <2> HIDE DEF t
  <2>2. ASSUME IsInjective(s), NEW a \in DOMAIN t, NEW b \in DOMAIN t, t[a] = t[b] PROVE a = b
    <3>1. (a - 1) = (b - 1) => a = b
      BY <2>1
    <3> QED BY <1>1, <2>1, <2>2, <3>1 DEF IsInjective
  <2> QED BY <2>2 DEF IsInjective, t
<1> QED BY <1>1, <1>2, <1>3, <1>4, <1>5 DEF Prepend, s

(* What a command that is about to write BootOrder has read is what it     *)
(* holds, since other systems write it only between commands.              *)
OrderInv ==
  /\ bootOrder \in Seq(Indexes) /\ IsInjective(bootOrder)
  /\ order \in [read : BOOLEAN, list : Seq(Indexes)] /\ IsInjective(order.list)
  /\ pc = "write_order" /\ order.read => order.list = bootOrder

(* An install looks for a free index only if it has none, and one it has   *)
(* before it writes an entry is the one on record.                         *)
ProbeInv ==
  /\ used # {} => pc = "write_var"
  /\ pc = "probe" \/ used # {} => state.index = NoIndex
  /\ cmd = "install" /\ state.index # NoIndex
       /\ pc \in {"hypervisor", "writing_hypervisor", "selector", "writing_selector", "write_var"} =>
     state = saved

OrderInvW == InstallInvW /\ OrderInv /\ ProbeInv

LEMMA NothingRead ==
  /\ NoOrder \in [read : BOOLEAN, list : Seq(Indexes)] /\ ~ NoOrder.read /\ IsInjective(NoOrder.list)
<1>1. << >> \in Seq(Indexes) /\ IsInjective(<< >>)
  BY DEF IsInjective
<1> QED BY <1>1 DEF NoOrder

LEMMA OrderInit == Init => OrderInvW
<1>1. SUFFICES ASSUME Init PROVE OrderInvW
  OBVIOUS
<1>2. 0 \in Indexes
  BY InstallerAssumption DEF Indexes
<1>3. <<0>> \in Seq(Indexes) /\ IsInjective(<<0>>)
  BY <1>2 DEF IsInjective
<1>4. OrderInv
  BY <1>1, <1>3, NothingRead DEF Init, OrderInv
<1>5. ProbeInv
  BY <1>1 DEF Init, ProbeInv
<1> QED BY <1>1, <1>4, <1>5, InitEstablishes DEF OrderInvW

(* The entry of a command that has come to BootOrder is known.             *)
LEMMA EntryKnown ==
  ASSUME InstallInvW, pc \in {"read_order", "write_order"}
  PROVE  state.index \in Indexes
<1>1. cmd \in {"install", "uninstall"}
  BY DEF InstallInvW, InstallInv, StepInv, UpdateSteps
<1>2. state.index # NoIndex
  BY <1>1 DEF InstallInvW, InstallInv, KnownInv
<1> QED BY <1>2 DEF InstallInvW, InstallInv, InstallTypes, States

(* An entry put last.                                                      *)
LEMMA AppendedOnce ==
  ASSUME NEW S, NEW list \in Seq(S), NEW i \in S
  PROVE  /\ Append(Without(list, i), i) \in Seq(S)
         /\ IsInjective(list) => IsInjective(Append(Without(list, i), i))
<1> DEFINE s == Without(list, i)
           t == Append(s, i)
<1>1. s \in Seq(S) /\ (\A k \in DOMAIN s : s[k] # i) /\ (IsInjective(list) => IsInjective(s))
  BY WithoutFacts
<1> HIDE DEF s
<1>2. t \in Seq(S)
  BY <1>1
<1>3. /\ DOMAIN s = 1 .. Len(s) /\ Len(s) \in Nat /\ t[Len(s) + 1] = i
      /\ \A k \in DOMAIN t : (k \in DOMAIN s /\ t[k] = s[k]) \/ k = Len(s) + 1
  BY <1>1
<1> HIDE DEF t
<1>4. ASSUME IsInjective(s), NEW a \in DOMAIN t, NEW b \in DOMAIN t, t[a] = t[b] PROVE a = b
  BY <1>1, <1>3, <1>4 DEF IsInjective
<1> QED BY <1>1, <1>2, <1>4 DEF IsInjective, s, t

LEMMA OrderPreserved ==
  ASSUME InstallInvW, OrderInv, [Next]_installVars
  PROVE  OrderInv'
<1>1. /\ bootOrder \in Seq(Indexes) /\ IsInjective(bootOrder)
      /\ order \in [read : BOOLEAN, list : Seq(Indexes)] /\ IsInjective(order.list)
      /\ order.list \in Seq(Indexes)
  BY DEF OrderInv
<1>2. CASE WriteBootOrder
  <2>1. pc = "write_order" /\ order' = NoOrder
        /\ bootOrder' \in {Prepend(order.list, state.index), Without(order.list, state.index)}
    BY <1>2 DEF WriteBootOrder
  <2>2. state.index \in Indexes
    BY <2>1, EntryKnown
  <2> DEFINE l == order.list
             i == state.index
  <2>3. Prepend(l, i) \in Seq(Indexes) /\ IsInjective(Prepend(l, i))
    BY <1>1, <2>2, WithoutAgain
  <2>4. Without(l, i) \in Seq(Indexes) /\ IsInjective(Without(l, i))
    BY <1>1, <2>2, WithoutFacts
  <2>5. bootOrder' \in Seq(Indexes) /\ IsInjective(bootOrder')
    BY <2>1, <2>3, <2>4
  <2> QED BY <2>1, <2>5, NothingRead DEF OrderInv
<1>3. ASSUME NEW i \in Indexes, OtherSystem(i) PROVE OrderInv'
  <2>1. bootOrder' = Append(Without(bootOrder, i), i) /\ order' = order /\ pc' = "idle"
    BY <1>3 DEF OtherSystem, run
  <2>2. bootOrder' \in Seq(Indexes) /\ IsInjective(bootOrder')
    BY <1>1, <2>1, AppendedOnce
  <2> QED BY <1>1, <2>1, <2>2 DEF OrderInv
<1>4. CASE ReadBootOrder
  <2>1. bootOrder' = bootOrder /\ \E ok \in BOOLEAN :
          order' = [read |-> ok, list |-> IF ok THEN bootOrder ELSE << >>]
    BY <1>4 DEF ReadBootOrder, disk
  <2>2. << >> \in Seq(Indexes) /\ IsInjective(<< >>)
    BY DEF IsInjective
  <2> QED BY <1>1, <2>1, <2>2 DEF OrderInv
<1>5. CASE /\ bootOrder' = bootOrder
           /\ order' = NoOrder \/ (order' = order /\ (pc' # "write_order" \/ pc' = pc))
  BY <1>1, <1>5, NothingRead DEF OrderInv
<1>6. \/ WriteBootOrder \/ ReadBootOrder
      \/ \E i \in Indexes : OtherSystem(i)
      \/ /\ bootOrder' = bootOrder
         /\ order' = NoOrder \/ (order' = order /\ (pc' # "write_order" \/ pc' = pc))
  <2>1. \A b \in Binaries : SkipCopy(b) \/ BeginCopy(b) \/ EndCopy(b) =>
          bootOrder' = bootOrder /\ order' = order /\ pc' # "write_order"
    BY DEF SkipCopy, BeginCopy, EndCopy, AfterCopy, Writing, disk, run, Goto
  <2>2. (\E v \in Images : StartInstall(v)) \/ StartUpdate \/ StartUninstall
        \/ BeginSlot \/ EndSlot \/ ProbeIndexes \/ WriteBootVar \/ DeleteBootVar \/ FilesRemoved =>
          bootOrder' = bootOrder /\ order' = order /\ pc' # "write_order"
    BY DEF StartInstall, StartUpdate, StartUninstall, BeginSlot, EndSlot, ProbeIndexes, WriteBootVar,
           DeleteBootVar, FilesRemoved, disk, run, Goto
  <2>3. (\E p \in Paths : RemoveFile(p)) \/ UNCHANGED installVars =>
          bootOrder' = bootOrder /\ order' = order /\ pc' = pc
    BY DEF RemoveFile, run, installVars
  <2>4. SaveState \/ DeleteState \/ CommandStops => bootOrder' = bootOrder /\ order' = NoOrder
    BY DEF SaveState, DeleteState, CommandStops, CommandReturns, disk
  <2> QED BY <2>1, <2>2, <2>3, <2>4 DEF Next
<1> QED BY <1>2, <1>3, <1>4, <1>5, <1>6

LEMMA ProbePreserved ==
  ASSUME InstallInvW, ProbeInv, [Next]_installVars
  PROVE  ProbeInv'
<1> DEFINE Looking == {"hypervisor", "writing_hypervisor", "selector", "writing_selector", "write_var"}
<1>1. ASSUME NEW v \in Images, StartInstall(v) PROVE ProbeInv'
  <2>1. pc = "idle" /\ pc' = "hypervisor" /\ used' = used /\ saved' = saved
        /\ state' \in {saved, DefaultState} /\ DefaultState.index = NoIndex
    BY <1>1 DEF StartInstall, Goto, disk, DefaultState
  <2> QED BY <2>1 DEF ProbeInv
<1>2. CASE StartUpdate \/ StartUninstall
  BY <1>2 DEF StartUpdate, StartUninstall, Goto, ProbeInv
<1>3. ASSUME NEW b \in Binaries, SkipCopy(b) \/ BeginCopy(b) \/ EndCopy(b) PROVE ProbeInv'
  <2>1. UNCHANGED <<saved, state, used, cmd>>
    BY <1>3 DEF SkipCopy, BeginCopy, EndCopy, disk, run
  <2>2. /\ pc \in {"hypervisor", "writing_hypervisor", "selector", "writing_selector"}
        /\ pc' \in Looking \cup {"probe"}
        /\ pc' = "probe" => state.index = NoIndex
    BY <1>3 DEF SkipCopy, BeginCopy, EndCopy, AfterCopy, Writing, Goto, Binaries
  <2> QED BY <2>1, <2>2 DEF ProbeInv
<1>4. CASE BeginSlot \/ EndSlot \/ ReadBootOrder \/ WriteBootOrder \/ DeleteBootVar \/ FilesRemoved
  BY <1>4 DEF BeginSlot, EndSlot, ReadBootOrder, WriteBootOrder, DeleteBootVar, FilesRemoved,
              run, disk, Goto, ProbeInv
<1>5. CASE ProbeIndexes
  BY <1>5 DEF ProbeIndexes, disk, Goto, ProbeInv
<1>6. CASE WriteBootVar
  BY <1>6 DEF WriteBootVar, Goto, ProbeInv
<1>7. CASE SaveState \/ DeleteState \/ CommandStops
  BY <1>7 DEF SaveState, DeleteState, CommandStops, CommandReturns, Goto, ProbeInv
<1>8. CASE (\E p \in Paths : RemoveFile(p)) \/ (\E i \in Indexes : OtherSystem(i)) \/ UNCHANGED installVars
  <2>1. UNCHANGED <<saved, state, used, cmd, pc>>
    BY <1>8 DEF RemoveFile, OtherSystem, run, installVars
  <2> QED BY <2>1 DEF ProbeInv
<1> QED BY <1>1, <1>2, <1>3, <1>4, <1>5, <1>6, <1>7, <1>8 DEF Next

LEMMA OrderInvariance == Spec => []OrderInvW
<1>1. OrderInvW /\ [Next]_installVars => OrderInvW'
  BY NextPreserves, OrderPreserved, ProbePreserved DEF OrderInvW
<1> QED BY <1>1, OrderInit, PTL DEF Spec

(* However often install, uninstall and the other systems write BootOrder, *)
(* from whatever was read of it, it names no entry twice.                  *)
THEOREM OrderStaysPermutation == Spec => []OrderWithoutRepetition
<1>1. OrderInvW => OrderWithoutRepetition
  BY DEF OrderInvW, OrderInv, OrderWithoutRepetition
<1> QED BY <1>1, OrderInvariance, PTL

(* No command moves or drops the boot entry of another system in a list it *)
(* could read, nor writes over an entry it could see is taken, and only an *)
(* uninstall deletes one, if it has the index on record.  It rests on the  *)
(* list a command holds being the list there is, for as long as the        *)
(* command runs, and on an install probing only when it knows no entry of  *)
(* its own.                                                                *)
THEOREM OthersAreKept == Spec => OthersKept
<1>1. ASSUME OrderInvW, Next PROVE OthersKeepOrder
  <2>1. SUFFICES ASSUME pc = "write_order", order.read
                 PROVE  Without(bootOrder', state.index) = Without(bootOrder, state.index)
    BY DEF OthersKeepOrder
  <2>2. state.index \in Indexes /\ bootOrder \in Seq(Indexes) /\ order.list = bootOrder
    BY <1>1, <2>1, EntryKnown DEF OrderInvW, OrderInv
  <2>3. CASE WriteBootOrder
    <3>1. bootOrder' \in {Prepend(bootOrder, state.index), Without(bootOrder, state.index)}
      BY <2>2, <2>3 DEF WriteBootOrder
    <3> QED BY <2>2, <3>1, WithoutAgain
  <2>4. CASE bootOrder' = bootOrder
    BY <2>4
  <2>5. WriteBootOrder \/ bootOrder' = bootOrder
    <3>1. ~ \E i \in Indexes : OtherSystem(i)
      BY <2>1 DEF OtherSystem
    <3> QED
      BY <1>1, <3>1
         DEF Next, StartInstall, StartUpdate, StartUninstall, SkipCopy, BeginCopy, EndCopy, BeginSlot,
             EndSlot, ProbeIndexes, WriteBootVar, ReadBootOrder, SaveState, DeleteBootVar, FilesRemoved,
             RemoveFile, DeleteState, CommandStops, disk
  <2> QED BY <2>3, <2>4, <2>5
<1>2. ASSUME OrderInvW, Next PROVE SeenEntryKept
  <2>1. SUFFICES ASSUME NEW i \in Indexes, bootVar[i] = "other", bootVar'[i] = "aether"
                 PROVE  i \notin used /\ (saved.index # i => state.index = NoIndex)
    BY DEF SeenEntryKept
  <2>2. bootVar \in [Indexes -> {"absent", "other", "aether"}] /\ used \subseteq Indexes
    BY <1>2 DEF OrderInvW, InstallInvW, InstallInv, InstallTypes
  <2>3. CASE WriteBootVar
    <3>1. /\ pc = "write_var" /\ (state.index = NoIndex => Indexes \ used # {})
          /\ bootVar' = [bootVar EXCEPT
                           ![IF state.index = NoIndex THEN PickFree ELSE state.index] = "aether"]
      BY <2>3 DEF WriteBootVar
    <3>2. i = IF state.index = NoIndex THEN PickFree ELSE state.index
      BY <2>1, <2>2, <3>1
    <3>3. CASE state.index = NoIndex
      BY <2>2, <3>1, <3>2, <3>3, PickFreeIsIndex
    <3>4. CASE state.index # NoIndex
      <4>1. cmd = "install"
        BY <1>2, <3>1 DEF OrderInvW, InstallInvW, InstallInv, StepInv, UpdateSteps, UninstallSteps
      <4>2. used = {} /\ state = saved
        BY <1>2, <3>1, <3>4, <4>1 DEF OrderInvW, ProbeInv
      <4> QED BY <3>2, <3>4, <4>2
    <3> QED BY <3>3, <3>4
  <2>4. CASE bootVar' = bootVar
    BY <2>1, <2>4
  <2>5. CASE DeleteBootVar
    <3>1. bootVar' = [bootVar EXCEPT ![state.index] = "absent"]
      BY <2>5 DEF DeleteBootVar
    <3> QED BY <2>1, <2>2, <3>1
  <2>6. ASSUME NEW k \in Indexes, OtherSystem(k) PROVE FALSE
    <3>1. bootVar' = [bootVar EXCEPT ![k] = "other"]
      BY <2>6 DEF OtherSystem
    <3> QED BY <2>1, <2>2, <3>1
  <2>7. WriteBootVar \/ bootVar' = bootVar \/ DeleteBootVar \/ \E k \in Indexes : OtherSystem(k)
    BY <1>2 DEF Next, StartInstall, StartUpdate, StartUninstall, SkipCopy, BeginCopy, EndCopy, BeginSlot,
                EndSlot, ProbeIndexes, ReadBootOrder, WriteBootOrder, SaveState, FilesRemoved,
                RemoveFile, DeleteState, CommandStops, disk
  <2> QED BY <2>3, <2>4, <2>5, <2>6, <2>7
<1>3. ASSUME OrderInvW, Next PROVE OthersDeletedByRecord
  <2>1. SUFFICES ASSUME NEW i \in Indexes, bootVar[i] = "other", bootVar'[i] = "absent"
                 PROVE  cmd = "uninstall" /\ saved.installed /\ i = saved.index
    BY DEF OthersDeletedByRecord
  <2>2. bootVar \in [Indexes -> {"absent", "other", "aether"}]
    BY <1>3 DEF OrderInvW, InstallInvW, InstallInv, InstallTypes
  <2>3. CASE DeleteBootVar
    <3>1. pc = "delete_var" /\ bootVar' = [bootVar EXCEPT ![state.index] = "absent"]
      BY <2>3 DEF DeleteBootVar
    <3>2. cmd = "uninstall" /\ state = saved /\ saved.installed
      BY <1>3, <3>1 DEF OrderInvW, InstallInvW, InstallInv, StepInv, KnownInv, InstallSteps, UpdateSteps
    <3> QED BY <2>1, <2>2, <3>1, <3>2
  <2>4. ASSUME NEW k, NEW x, x # "absent", bootVar' = [bootVar EXCEPT ![k] = x] PROVE FALSE
    BY <2>1, <2>2, <2>4
  <2>5. \/ DeleteBootVar \/ bootVar' = bootVar
        \/ \E k : bootVar' = [bootVar EXCEPT ![k] = "aether"] \/ bootVar' = [bootVar EXCEPT ![k] = "other"]
    <3>1. WriteBootVar => \E k : bootVar' = [bootVar EXCEPT ![k] = "aether"]
      BY DEF WriteBootVar
    <3>2. ASSUME NEW k \in Indexes, OtherSystem(k) PROVE bootVar' = [bootVar EXCEPT ![k] = "other"]
      BY <3>2 DEF OtherSystem
    <3> QED
      BY <1>3, <3>1, <3>2
         DEF Next, StartInstall, StartUpdate, StartUninstall, SkipCopy, BeginCopy, EndCopy, BeginSlot,
             EndSlot, ProbeIndexes, ReadBootOrder, WriteBootOrder, SaveState, FilesRemoved,
             RemoveFile, DeleteState, CommandStops, disk
  <2> QED BY <2>1, <2>3, <2>4, <2>5
<1>4. OrderInvW /\ [Next]_installVars
        => [OthersKeepOrder /\ SeenEntryKept /\ OthersDeletedByRecord]_installVars
  BY <1>1, <1>2, <1>3
<1> QED BY <1>4, OrderInvariance, PTL DEF Spec, OthersKept

-------------------------------------------------------------------------------

(***************************************************************************)
(* From the command line to the installer's plan.                          *)
(***************************************************************************)

(* The best of finitely many, the first of equals: v gives each its worth. *)
LEMMA BestExists ==
  ASSUME NEW n \in Nat, NEW D \in SUBSET (1 .. n), D # {}, NEW v \in [D -> Int]
  PROVE  \E i \in D : \A j \in D : v[j] < v[i] \/ (v[j] = v[i] /\ i <= j)
<1> DEFINE BestUpTo(i, k) ==
             /\ i \in D /\ i <= k
             /\ \A j \in D : j <= k => v[j] < v[i] \/ (v[j] = v[i] /\ i <= j)
           T == {k \in 0 .. n : (\E i \in D : i <= k) /\ ~ \E i \in D : BestUpTo(i, k)}
<1>1. T = {}
  <2>1. SUFFICES ASSUME T # {} PROVE FALSE
    OBVIOUS
  <2>2. T \subseteq Nat
    OBVIOUS
  <2>3. PICK k \in T : \A y \in T : k <= y
    BY <2>1, <2>2, LeastOf
  <2>4. k \in Nat /\ k <= n /\ (\E i \in D : i <= k) /\ ~ \E i \in D : BestUpTo(i, k)
    BY <2>3
  <2>5. \A i \in D : i \in Nat /\ 1 <= i /\ i <= n /\ v[i] \in Int
    OBVIOUS
  <2>6. k - 1 \notin T
    <3> HIDE DEF T
    <3> QED BY <2>3, <2>4
  <2>7. CASE \A i \in D : ~ i <= k - 1
    <3>1. PICK i \in D : i <= k
      BY <2>4
    <3>2. \A j \in D : j <= k => j = i
      BY <2>4, <2>5, <2>7, <3>1
    <3>3. BestUpTo(i, k)
      BY <2>5, <3>1, <3>2
    <3> QED BY <2>4, <3>3
  <2>8. CASE \E i \in D : i <= k - 1
    <3>1. k - 1 \in 0 .. n
      BY <2>4, <2>5, <2>8
    <3>2. PICK i \in D : BestUpTo(i, k - 1)
      BY <2>6, <2>8, <3>1
    <3>3. CASE k \notin D
      <4>1. \A j \in D : j <= k => j <= k - 1
        BY <2>4, <2>5, <3>3
      <4>2. BestUpTo(i, k)
        BY <2>4, <2>5, <3>2, <4>1
      <4> QED BY <2>4, <4>2
    <3>4. CASE k \in D /\ v[i] < v[k]
      <4>1. \A j \in D : j <= k => j = k \/ j <= k - 1
        BY <2>4, <2>5
      <4>2. \A j \in D : j <= k => j = k \/ v[j] < v[k]
        BY <2>5, <3>2, <3>4, <4>1
      <4>3. BestUpTo(k, k)
        BY <2>4, <2>5, <3>4, <4>2
      <4> QED BY <2>4, <3>4, <4>3
    <3>5. CASE k \in D /\ ~ (v[i] < v[k])
      <4>1. \A j \in D : j <= k => j = k \/ j <= k - 1
        BY <2>4, <2>5
      <4>2. i <= k /\ (v[k] < v[i] \/ v[k] = v[i])
        BY <2>4, <2>5, <3>2, <3>5
      <4>3. BestUpTo(i, k)
        BY <2>4, <2>5, <3>2, <4>1, <4>2
      <4> QED BY <2>4, <4>3
    <3> QED BY <3>3, <3>4, <3>5
  <2> QED BY <2>7, <2>8
<1>2. PICK i \in D : TRUE
  OBVIOUS
<1>3. i <= n /\ n \in 0 .. n
  OBVIOUS
<1>4. \E k \in D : BestUpTo(k, n)
  BY <1>1, <1>3
<1>5. PICK k \in D : BestUpTo(k, n)
  BY <1>4
<1>6. \A j \in D : j <= n
  OBVIOUS
<1>7. \A j \in D : v[j] < v[k] \/ (v[j] = v[k] /\ k <= j)
  BY <1>5, <1>6
<1> QED BY <1>7

Drives == Seq([name : STRING, free : Nat, nvme : BOOLEAN])

(* What the storage check passes has a drive with room.                    *)
LEMMA RoomFound ==
  ASSUME NEW h \in Hosts, storage_check(h).pass
  PROVE  \E i \in DOMAIN h.drives : h.drives[i].free >= MINIMUM_FREE_GIB
<1> DEFINE D == DOMAIN h.drives
           ranked == Ordered(D, LAMBDA i, k : MoreFree(h.drives, i, k))
           drives == [k \in DOMAIN ranked |-> h.drives[ranked[k]]]
           v == [i \in D |-> h.drives[i].free]
<1>1. PICK n \in Nat : D = 1 .. n /\ \A i \in D : h.drives[i].free \in Nat
  <2> DEFINE R == [name : STRING, free : Nat, nvme : BOOLEAN]
  <2>1. h.drives \in Seq(R)
    BY HostCheckAssumption
  <2> HIDE DEF R
  <2>2. Len(h.drives) \in Nat /\ D = 1 .. Len(h.drives) /\ \A i \in D : h.drives[i] \in R
    BY <2>1
  <2>3. \A r \in R : r.free \in Nat
    BY DEF R
  <2> QED BY <2>2, <2>3
<1>2. v \in [D -> Int]
  BY <1>1
<1>3. IsFiniteSet(D) /\ Cardinality(D) = n
  BY <1>1, FS_Interval
<1>4. DOMAIN ranked = 1 .. n
  BY <1>3 DEF Ordered
<1>5. (IF drives = << >> THEN 0 ELSE drives[1].free) >= MINIMUM_FREE_GIB
  BY DEF storage_check
<1> HIDE DEF ranked
<1>6. n # 0
  <2>1. SUFFICES ASSUME n = 0 PROVE FALSE
    OBVIOUS
  <2>2. drives = << >>
    BY <1>4, <2>1
  <2> QED BY <1>5, <2>2 DEF MINIMUM_FREE_GIB
<1>7. drives # << >> /\ drives[1] = h.drives[ranked[1]]
  BY <1>4, <1>6
<1>8. ranked[1] \in D
  <2>1. D # {} /\ D \in SUBSET (1 .. n)
    BY <1>1, <1>6
  <2>2. PICK i \in D : \A j \in D : v[j] < v[i] \/ (v[j] = v[i] /\ i <= j)
    <3> HIDE DEF D, v
    <3> QED BY <1>2, <2>1, BestExists
  <2>3. \A j \in D : ~ MoreFree(h.drives, j, i)
    BY <1>1, <2>2 DEF MoreFree
  <2>4. {j \in D : MoreFree(h.drives, j, i)} = {}
    BY <2>3
  <2>5. Cardinality({j \in D : MoreFree(h.drives, j, i)}) = 1 - 1
    BY <2>4, FS_EmptySet
  <2>6. ranked[1] = CHOOSE e \in D : Cardinality({j \in D : MoreFree(h.drives, j, e)}) = 1 - 1
    <3>1. 1 \in 1 .. Cardinality(D)
      BY <1>3, <1>6
    <3> HIDE DEF D
    <3> QED BY <3>1 DEF ranked, Ordered
  <2> QED BY <2>5, <2>6
<1>9. h.drives[ranked[1]].free >= MINIMUM_FREE_GIB
  BY <1>5, <1>7
<1> QED BY <1>8, <1>9

(* Numbers in their order are numbers of the set.                          *)
LEMMA OrderedNumbers ==
  ASSUME NEW n \in Nat, NEW S \in SUBSET (1 .. n)
  PROVE  LET ranked == Ordered(S, LAMBDA i, k : i < k)
         IN /\ Cardinality(S) \in Nat /\ DOMAIN ranked = 1 .. Cardinality(S)
            /\ \A k \in 1 .. Cardinality(S) : ranked[k] \in S
<1> DEFINE ranked == Ordered(S, LAMBDA i, k : i < k)
           C(i) == Cardinality(S \cap (1 .. i))
<1>1. IsFiniteSet(S) /\ Cardinality(S) \in Nat
  <2>1. IsFiniteSet(1 .. n)
    BY FS_Interval
  <2>2. IsFiniteSet(S)
    BY <2>1, FS_Subset
  <2> QED BY <2>2, FS_CardinalityType
<1>2. \A i \in 0 .. n : IsFiniteSet(S \cap (1 .. i)) /\ C(i) \in Nat
  <2>1. ASSUME NEW i \in 0 .. n PROVE IsFiniteSet(S \cap (1 .. i)) /\ C(i) \in Nat
    <3>1. S \cap (1 .. i) \in SUBSET S
      OBVIOUS
    <3>2. IsFiniteSet(S \cap (1 .. i))
      BY <1>1, <3>1, FS_Subset
    <3> QED BY <3>2, FS_CardinalityType
  <2> QED BY <2>1
<1>3. ASSUME NEW k \in 1 .. Cardinality(S)
      PROVE  ranked[k] \in S
  <2> DEFINE T == {i \in 0 .. n : C(i) >= k}
  <2>1. n \in T
    <3>1. S \cap (1 .. n) = S
      OBVIOUS
    <3>2. C(n) = Cardinality(S)
      BY <3>1
    <3> HIDE DEF C
    <3> QED BY <1>1, <3>2
  <2>2. T \subseteq Nat /\ T # {}
    <3>1. T \subseteq 0 .. n
      <4> HIDE DEF C
      <4> QED OBVIOUS
    <3> HIDE DEF T
    <3> QED BY <2>1, <3>1
  <2>3. PICK m \in T : \A y \in T : m <= y
    <3> HIDE DEF T
    <3> QED BY <2>2, LeastOf
  <2>4. m \in 0 .. n /\ C(m) >= k
    BY <2>3
  <2>5. m # 0
    <3>1. S \cap (1 .. 0) = {}
      OBVIOUS
    <3>2. C(0) = 0
      BY <3>1, FS_EmptySet
    <3> HIDE DEF C
    <3> QED BY <2>4, <3>2
  <2>6. m - 1 \in 0 .. n /\ m \in Nat
    BY <2>4, <2>5
  <2>7. m - 1 \notin T
    <3> HIDE DEF T
    <3> QED BY <2>3, <2>6
  <2>8. C(m - 1) < k /\ C(m - 1) \in Nat /\ C(m) \in Nat
    <3>1. C(m - 1) \in Nat /\ C(m) \in Nat
      BY <1>2, <2>4, <2>6
    <3> HIDE DEF C
    <3> QED BY <2>6, <2>7, <3>1
  <2>9. m \in S
    <3>1. SUFFICES ASSUME m \notin S PROVE FALSE
      OBVIOUS
    <3>2. S \cap (1 .. m) = S \cap (1 .. m - 1)
      BY <2>6, <3>1
    <3>3. C(m) = C(m - 1)
      BY <3>2
    <3> HIDE DEF C
    <3> QED BY <2>4, <2>8, <3>3
  <2>10. C(m - 1) = k - 1
    <3>1. S \cap (1 .. m) = (S \cap (1 .. m - 1)) \cup {m} /\ m \notin S \cap (1 .. m - 1)
      BY <2>6, <2>9, <2>5
    <3>2. C(m) = C(m - 1) + 1
      BY <1>2, <2>6, <3>1, FS_AddElement
    <3> HIDE DEF C
    <3> QED BY <2>4, <2>8, <3>2
  <2>11. {j \in S : j < m} = S \cap (1 .. m - 1)
    <3>1. \A j \in S : j < m <=> j \in 1 .. m - 1
      BY <2>6
    <3> QED BY <3>1
  <2>12. Cardinality({j \in S : j < m}) = k - 1
    BY <2>10, <2>11
  <2>13. ranked[k] = CHOOSE e \in S : Cardinality({j \in S : j < e}) = k - 1
    BY DEF Ordered
  <2> QED BY <2>9, <2>12, <2>13
<1> QED BY <1>1, <1>3 DEF Ordered

(* What the programs see of a GPU.                                         *)
SeenAs(h, d) ==
  \/ d = EnumerationFailed
  \/ /\ d.of \in DOMAIN h.gpus /\ d.of # 0
     /\ \/ h.os = "linux" /\ h.gpus[d.of].pci /\ d = LinuxDevice(d.of, h.gpus[d.of])
        \/ h.os # "linux" /\ d = WindowsDevice(d.of, h.gpus[d.of])

Gpus == [pci : BOOLEAN, vendor : STRING, kind : STRING, id : STRING, name : SUBSET STRING, vfs : Int]

LEMMA DevicesAreSeen ==
  ASSUME NEW h \in Hosts
  PROVE  /\ \E n \in Nat : DOMAIN gpu_check(h) = 1 .. n /\ (gpu_check(h) # << >> => n # 0)
         /\ \A i \in DOMAIN gpu_check(h) : SeenAs(h, gpu_check(h)[i])
<1>1. h.gpus \in Seq(Gpus)
  BY HostCheckAssumption DEF Gpus
<1>2. Len(h.gpus) \in Nat /\ DOMAIN h.gpus = 1 .. Len(h.gpus)
  BY <1>1
<1> DEFINE n == Len(h.gpus)
           P == {i \in DOMAIN h.gpus : h.gpus[i].pci}
<1>3. CASE h.os = "linux" /\ h.scans
  <2>1. P \in SUBSET (1 .. n)
    BY <1>2
  <2>2. /\ Cardinality(P) \in Nat /\ DOMAIN PciDisplays(h) = 1 .. Cardinality(P)
        /\ \A k \in 1 .. Cardinality(P) : PciDisplays(h)[k] \in P
    <3> HIDE DEF P
    <3>1. PciDisplays(h) = Ordered(P, LAMBDA i, k : i < k)
      BY DEF PciDisplays, P
    <3> QED BY <1>2, <2>1, <3>1, OrderedNumbers
  <2>3. gpu_check(h) = [k \in DOMAIN PciDisplays(h) |-> LinuxDevice(PciDisplays(h)[k], h.gpus[PciDisplays(h)[k]])]
    BY <1>3 DEF gpu_check, check_linux
  <2>4. ASSUME NEW k \in DOMAIN gpu_check(h) PROVE SeenAs(h, gpu_check(h)[k])
    <3> DEFINE i == PciDisplays(h)[k]
    <3>1. i \in P
      BY <2>2, <2>3
    <3> HIDE DEF i
    <3>2. i \in DOMAIN h.gpus /\ i # 0 /\ h.gpus[i].pci
      BY <1>2, <3>1
    <3>3. gpu_check(h)[k] = LinuxDevice(i, h.gpus[i])
      BY <2>3 DEF i
    <3>4. LinuxDevice(i, h.gpus[i]).of = i
      BY DEF LinuxDevice
    <3> QED BY <1>3, <3>2, <3>3, <3>4 DEF SeenAs
  <2>5. gpu_check(h) # << >> => Cardinality(P) # 0
    <3>1. SUFFICES ASSUME Cardinality(P) = 0 PROVE gpu_check(h) = << >>
      OBVIOUS
    <3>2. 1 .. 0 = {}
      OBVIOUS
    <3>3. DOMAIN PciDisplays(h) = {}
      <4> HIDE DEF P
      <4> QED BY <2>2, <3>1, <3>2
    <3> QED BY <2>3, <3>3
  <2> QED BY <2>2, <2>3, <2>4, <2>5
<1>4. CASE h.os = "linux" /\ ~ h.scans
  <2>1. gpu_check(h) = << >>
    BY <1>4 DEF gpu_check, check_linux
  <2>2. DOMAIN gpu_check(h) = 1 .. 0
    BY <2>1
  <2> QED BY <2>1, <2>2
<1>5. CASE h.os # "linux" /\ (~ h.scans \/ h.gpus = << >>)
  <2>1. gpu_check(h) = <<EnumerationFailed>>
    BY <1>5 DEF gpu_check, check_windows
  <2>2. DOMAIN gpu_check(h) = 1 .. 1 /\ gpu_check(h)[1] = EnumerationFailed
    BY <2>1
  <2> QED BY <2>2 DEF SeenAs
<1>6. CASE h.os # "linux" /\ ~ (~ h.scans \/ h.gpus = << >>)
  <2>1. gpu_check(h) = [i \in DOMAIN h.gpus |-> WindowsDevice(i, h.gpus[i])]
    BY <1>6 DEF gpu_check, check_windows
  <2>2. ASSUME NEW i \in DOMAIN gpu_check(h) PROVE SeenAs(h, gpu_check(h)[i])
    <3>1. i \in DOMAIN h.gpus /\ i # 0 /\ gpu_check(h)[i] = WindowsDevice(i, h.gpus[i])
      BY <1>2, <2>1
    <3>2. WindowsDevice(i, h.gpus[i]).of = i
      BY DEF WindowsDevice
    <3> QED BY <1>6, <3>1, <3>2 DEF SeenAs
  <2>3. n # 0
    BY <1>1, <1>6
  <2> QED BY <1>2, <2>1, <2>2, <2>3
<1> QED BY <1>3, <1>4, <1>5, <1>6

LEMMA PrimaryIsSeen ==
  ASSUME NEW h \in Hosts, gpu_check(h) # << >>
  PROVE  SeenAs(h, pick_primary_gpu(gpu_check(h)))
<1> DEFINE devices == gpu_check(h)
           known == {i \in DOMAIN devices : devices[i].vendor # "unknown"}
           v == [i \in known |-> devices[i].vfs]
<1>1. PICK n \in Nat : DOMAIN devices = 1 .. n /\ n # 0
  BY DevicesAreSeen
<1>2. \A i \in DOMAIN devices : SeenAs(h, devices[i])
  BY DevicesAreSeen
<1>3. \A i \in DOMAIN devices : devices[i].vfs \in Int
  <2>1. ASSUME NEW i \in DOMAIN devices PROVE devices[i].vfs \in Int
    <3> DEFINE d == devices[i]
    <3>1. SeenAs(h, d)
      BY <1>2
    <3> HIDE DEF d
    <3>2. \A k \in DOMAIN h.gpus : h.gpus[k].vfs \in Int
      <4>1. h.gpus \in Seq(Gpus)
        BY HostCheckAssumption DEF Gpus
      <4>2. \A k \in DOMAIN h.gpus : h.gpus[k] \in Gpus
        BY <4>1
      <4> QED BY <4>2 DEF Gpus
    <3>3. d.vfs \in Int
      BY <3>1, <3>2 DEF SeenAs, EnumerationFailed, LinuxDevice, WindowsDevice, Unknown
    <3> QED BY <3>3 DEF d
  <2> QED BY <2>1
<1> HIDE DEF devices
<1>4. CASE known = {}
  <2>1. pick_primary_gpu(devices) = devices[1]
    BY <1>4 DEF pick_primary_gpu
  <2>2. 1 \in DOMAIN devices
    BY <1>1
  <2> QED BY <1>2, <2>1, <2>2 DEF devices
<1>5. CASE known # {}
  <2>1. known \in SUBSET (1 .. n) /\ v \in [known -> Int]
    BY <1>1, <1>3
  <2>2. PICK i \in known : \A j \in known : v[j] < v[i] \/ (v[j] = v[i] /\ i <= j)
    <3> HIDE DEF known, v
    <3> QED BY <1>1, <1>5, <2>1, BestExists
  <2>3. \A j \in known : devices[j].vfs < devices[i].vfs \/ (devices[j].vfs = devices[i].vfs /\ i <= j)
    BY <2>2
  <2> DEFINE best == CHOOSE e \in known : \A j \in known :
                       devices[j].vfs < devices[e].vfs \/ (devices[j].vfs = devices[e].vfs /\ e <= j)
  <2>4. best \in known
    <3> HIDE DEF known
    <3> QED BY <2>3
  <2>5. pick_primary_gpu(devices) = devices[best]
    BY <1>5 DEF pick_primary_gpu
  <2> HIDE DEF best
  <2>6. best \in DOMAIN devices
    BY <2>4
  <2> QED BY <1>2, <2>5, <2>6 DEF devices
<1> QED BY <1>4, <1>5

(* What the names say of a GPU is what it is, as far as the plan asks.     *)
Passed(class) == class \notin {"AmdIntegrated", "IntelIntegrated", "Unknown"}

LEMMA NamesFit ==
  ASSUME NEW h \in Hosts, NEW d, SeenAs(h, d)
  PROVE  LET g == h.gpus[d.of] class == classify_vendor(d)
         IN /\ d.of = 0 \/ d.of \in DOMAIN h.gpus
            /\ d.of = 0 => class = "Unknown" /\ ~ d.vfs > 0
            /\ d.of # 0 /\ d.vfs > 0 => g.vfs > 0
            /\ d.of # 0 /\ class = "NvidiaProfessional" => g.kind = "professional"
            /\ d.of # 0 /\ g.kind \in {"integrated", "unknown"} =>
                 ~ Passed(class) \/ (h.os = "linux" /\ g.vendor = "amd")
            /\ d.of # 0 /\ g.kind = "consumer" => class = "NvidiaConsumer"
<1> DEFINE g == h.gpus[d.of]
           class == classify_vendor(d)
<1>1. CASE d = EnumerationFailed
  <2>1. d.of = 0 /\ d.vendor = "unknown" /\ d.vfs = -1
    BY <1>1 DEF EnumerationFailed, Unknown
  <2>2. class = "Unknown" /\ ~ d.vfs > 0
    BY <2>1 DEF classify_vendor
  <2> QED BY <2>1, <2>2
<1>2. CASE d # EnumerationFailed
  <2>1. /\ d.of \in DOMAIN h.gpus /\ d.of # 0
        /\ \/ h.os = "linux" /\ g.pci /\ d = LinuxDevice(d.of, g)
           \/ h.os # "linux" /\ d = WindowsDevice(d.of, g)
    BY <1>2 DEF SeenAs
  <2>2. NamedAsItIs(g)
    BY <2>1, HostCheckAssumption
  <2> HIDE DEF g
  <2>3. CASE h.os = "linux" /\ g.pci /\ d = LinuxDevice(d.of, g)
    <3>1. d.vendor = g.vendor /\ d.id = g.id /\ d.name = resolve_gpu_name(g.vendor) /\ d.vfs = g.vfs
      <4> DEFINE i == d.of
      <4>1. d = LinuxDevice(i, g)
        BY <2>3
      <4> HIDE DEF i
      <4> QED BY <4>1 DEF LinuxDevice
    <3>2. g.vendor = "intel" => ~ ("arc" \in d.name)
      BY <3>1 DEF resolve_gpu_name
    <3>3. class = "NvidiaProfessional" => g.kind = "professional"
      BY <2>2, <3>1 DEF NamedAsItIs, classify_vendor
    <3>4. g.kind \in {"integrated", "unknown"} => ~ Passed(class) \/ g.vendor = "amd"
      <4>1. g.kind \in {"integrated", "unknown"} => g.vendor # "nvidia"
        BY <2>2 DEF NamedAsItIs
      <4>2. g.vendor \notin {"nvidia", "amd"} => class \in {"IntelIntegrated", "Unknown"}
        BY <3>1, <3>2 DEF classify_vendor
      <4> HIDE DEF class
      <4> QED BY <4>1, <4>2 DEF Passed
    <3>5. g.kind = "consumer" => class = "NvidiaConsumer"
      BY <2>2, <3>1 DEF NamedAsItIs, classify_vendor
    <3> QED BY <2>1, <2>3, <3>1, <3>3, <3>4, <3>5 DEF g
  <2>4. CASE h.os # "linux" /\ d = WindowsDevice(d.of, g)
    <3>1. /\ d.vendor = (IF g.pci THEN g.vendor ELSE "unknown") /\ d.id = g.id
          /\ d.name = g.name /\ d.vfs = -1
      <4> DEFINE i == d.of
      <4>1. d = WindowsDevice(i, g)
        BY <2>4
      <4> HIDE DEF i
      <4> QED BY <4>1 DEF WindowsDevice, Unknown
    <3>2. ~ d.vfs > 0
      BY <3>1
    <3>3. class = "NvidiaProfessional" => g.kind = "professional"
      BY <2>2, <3>1 DEF NamedAsItIs, classify_vendor
    <3>4. g.kind \in {"integrated", "unknown"} => ~ Passed(class)
      <4>1. SUFFICES ASSUME g.kind \in {"integrated", "unknown"} PROVE ~ Passed(class)
        OBVIOUS
      <4>2. g.vendor # "nvidia"
        BY <2>2, <4>1 DEF NamedAsItIs
      <4>3. g.vendor = "amd" => g.name \cap ApuNames # {}
        BY <2>2, <4>1 DEF NamedAsItIs
      <4>4. g.vendor = "intel" => "arc" \notin g.name
        BY <2>2, <4>1 DEF NamedAsItIs
      <4>5. class \in {"AmdIntegrated", "IntelIntegrated", "Unknown"}
        BY <3>1, <4>2, <4>3, <4>4 DEF classify_vendor
      <4> QED BY <4>5 DEF Passed
    <3>5. g.kind = "consumer" => class = "NvidiaConsumer"
      BY <2>2, <3>1 DEF NamedAsItIs, classify_vendor
    <3> QED BY <2>1, <3>2, <3>3, <3>4, <3>5 DEF g
  <2> QED BY <2>1, <2>3, <2>4
<1> QED BY <1>1, <1>2

(* What decide promises, whatever it is made to do.                        *)
Decided(h, forced, p) ==
  LET g == h.gpus[p.of]
  IN /\ DOMAIN p = {"mode", "auto", "warnings", "of"} /\ p.auto \in BOOLEAN
     /\ p.of = 0 \/ p.of \in DOMAIN h.gpus
     /\ p.mode = "sriov" => forced = "sriov" \/ (p.of # 0 /\ g.vfs > 0)
     /\ p.mode = "passthrough" /\ forced # "passthrough" =>
          /\ p.of # 0
          /\ p.auto => g.kind = "professional"
          /\ g.kind \in {"integrated", "unknown"} => h.os = "linux" /\ g.vendor = "amd"
     /\ p.of # 0 /\ g.kind = "consumer" /\ ~ g.vfs > 0 => "reset" \in p.warnings
     /\ ~ p.auto => p.of # 0

LEMMA DecideDecides ==
  ASSUME NEW h \in Hosts, NEW forced
  PROVE  Decided(h, forced, decide(gpu_check(h), forced))
<1> DEFINE devices == gpu_check(h)
           p == decide(devices, forced)
           d == pick_primary_gpu(devices)
           g == h.gpus[d.of]
           class == classify_vendor(d)
           default == PlanWithoutVfs(class)
           other == forced # "none" /\ forced # default[1]
<1>1. CASE devices = << >>
  <2>1. p = Plan("software", TRUE, {"no gpu"} \cup (IF forced = "none" THEN {} ELSE {"override"}), 0)
    BY <1>1 DEF decide
  <2>2. /\ p.mode = "software" /\ p.auto = TRUE /\ p.of = 0
        /\ DOMAIN p = {"mode", "auto", "warnings", "of"}
    <3> HIDE DEF p
    <3> QED BY <2>1 DEF Plan
  <2> HIDE DEF p
  <2>3. Decided(h, forced, p)
    BY <2>2 DEF Decided
  <2> QED BY <2>3 DEF p
<1>2. CASE devices # << >>
  <2>1. SeenAs(h, d)
    BY <1>2, PrimaryIsSeen
  <2>2. /\ d.of = 0 \/ d.of \in DOMAIN h.gpus
        /\ d.of = 0 => class = "Unknown" /\ ~ d.vfs > 0
        /\ d.of # 0 /\ d.vfs > 0 => g.vfs > 0
        /\ d.of # 0 /\ class = "NvidiaProfessional" => g.kind = "professional"
        /\ d.of # 0 /\ g.kind \in {"integrated", "unknown"} =>
             ~ Passed(class) \/ (h.os = "linux" /\ g.vendor = "amd")
        /\ d.of # 0 /\ g.kind = "consumer" => class = "NvidiaConsumer"
    <3> HIDE DEF d
    <3> QED BY <2>1, NamesFit
  <2>3. p = IF d.vfs > 0
            THEN IF forced \in {"none", "sriov"} THEN Plan("sriov", TRUE, {}, d.of)
                 ELSE Plan(forced, FALSE, {}, d.of)
            ELSE Plan(IF other THEN forced ELSE default[1], IF other THEN TRUE ELSE default[2],
                      default[3] \cup (IF other THEN {"override"} ELSE {}), d.of)
    <3> HIDE DEF devices
    <3> QED BY <1>2 DEF decide
  <2>4. /\ default[1] \in {"passthrough", "software"} /\ default[2] \in BOOLEAN
        /\ default[1] = "passthrough" => Passed(class)
        /\ default[1] = "passthrough" /\ default[2] => class = "NvidiaProfessional"
        /\ class = "NvidiaConsumer" => "reset" \in default[3]
        /\ ~ default[2] => default[1] = "passthrough"
    <3> HIDE DEF class
    <3> QED BY DEF PlanWithoutVfs, Passed
  <2> HIDE DEF d, class, default, devices
  <2>5. DOMAIN p = {"mode", "auto", "warnings", "of"} /\ p.of = d.of
    <3> DEFINE q == p
    <3>1. \E m, a, w : q = Plan(m, a, w, d.of)
      BY <2>3
    <3> HIDE DEF q
    <3>2. DOMAIN q = {"mode", "auto", "warnings", "of"} /\ q.of = d.of
      BY <3>1 DEF Plan
    <3> QED BY <3>2 DEF q
  <2>6. CASE d.vfs > 0 /\ forced \in {"none", "sriov"}
    <3>1. p.mode = "sriov" /\ p.auto = TRUE
      BY <2>3, <2>6 DEF Plan
    <3> HIDE DEF p
    <3>2. Decided(h, forced, p)
      BY <2>2, <2>5, <2>6, <3>1 DEF Decided
    <3> QED BY <3>2 DEF p, devices
  <2>7. CASE d.vfs > 0 /\ forced \notin {"none", "sriov"}
    <3>1. p.mode = forced /\ p.auto = FALSE
      BY <2>3, <2>7 DEF Plan
    <3> HIDE DEF p
    <3>2. Decided(h, forced, p)
      BY <2>2, <2>5, <2>7, <3>1 DEF Decided
    <3> QED BY <3>2 DEF p, devices
  <2>8. CASE ~ d.vfs > 0
    <3>1. /\ p.mode = (IF other THEN forced ELSE default[1])
          /\ p.auto = (IF other THEN TRUE ELSE default[2])
          /\ default[3] \subseteq p.warnings
      <4> DEFINE m == IF other THEN forced ELSE default[1]
                 a == IF other THEN TRUE ELSE default[2]
                 w == default[3] \cup (IF other THEN {"override"} ELSE {})
      <4>1. p = Plan(m, a, w, d.of)
        BY <2>3, <2>8
      <4>2. default[3] \subseteq w
        OBVIOUS
      <4> HIDE DEF p, m, a, w
      <4>3. p.mode = m /\ p.auto = a /\ p.warnings = w
        BY <4>1 DEF Plan
      <4> QED BY <4>2, <4>3 DEF m, a
    <3> HIDE DEF p
    <3>2. p.mode # forced => p.mode = default[1]
      BY <3>1
    <3>3. p.mode = "sriov" => forced = "sriov"
      BY <2>4, <3>1
    <3>4. p.mode = "passthrough" /\ forced # "passthrough" =>
            Passed(class) /\ (p.auto => class = "NvidiaProfessional")
      BY <2>4, <3>1
    <3>5. ~ p.auto => Passed(class)
      BY <2>4, <3>1
    <3>6. Passed(class) => d.of # 0
      BY <2>2 DEF Passed
    <3>7. Decided(h, forced, p)
      BY <2>2, <2>4, <2>5, <3>1, <3>3, <3>4, <3>5, <3>6 DEF Decided
    <3> QED BY <3>7 DEF p, devices
  <2> QED BY <2>6, <2>7, <2>8
<1> QED BY <1>1, <1>2

CheckTypes ==
  /\ DOMAIN chk = {"host", "argv", "args", "at", "exit", "report", "plan", "answer", "target"}
  /\ DOMAIN chk.report = {"tier", "memory", "storage", "gpus", "overall"}
  /\ DOMAIN chk.plan = {"mode", "auto", "warnings", "of"}
  /\ chk.host \in Hosts

(* What the report says, once the check that says it has run.              *)
ReportInv ==
  LET r == chk.report h == chk.host
  IN /\ chk.at \in {"cpu", "memory", "storage", "gpu", "build"} => chk.args.sub \in {"check", "install"}
     /\ chk.at \notin {"main", "cpu", "elsewhere", "exited"} => r.tier = cpu_check(h)
     /\ chk.at \notin {"main", "cpu", "memory", "elsewhere", "exited"} => r.memory = memory_check(h)
     /\ chk.at \notin {"main", "cpu", "memory", "storage", "elsewhere", "exited"} => r.storage = storage_check(h)
     /\ chk.at \in {"build", "check", "install", "resolve", "target", "planned"} => r.gpus = gpu_check(h)
     /\ chk.at \in {"check", "install"} => r.overall = OverallOf(r)
     /\ chk.at \in {"resolve", "target", "planned"} => ~ HardFail(r)

Decision == decide(gpu_check(chk.host), chk.args.gpu)

(* The plan is the table's, or what the user made of it at the prompt,     *)
(* which only a plan that needs confirmation reaches.                      *)
PlanInv ==
  /\ chk.at \notin {"target", "planned", "exited"} => chk.answer = "none"
  /\ chk.at = "resolve" => chk.plan = Decision
  /\ chk.at \in {"target", "planned"} =>
       /\ chk.plan.of = Decision.of /\ chk.plan.warnings = Decision.warnings
       /\ \/ /\ chk.answer = "none" /\ chk.plan.mode = Decision.mode
             /\ Decision.auto \/ chk.args.on \cap {"--yes", "--no-gpu-prompt"} # {}
          \/ chk.answer = "" /\ ~ Decision.auto /\ chk.plan.mode = Decision.mode
          \/ chk.answer = "1" /\ chk.plan.mode = "software"
          \/ chk.answer = "2" /\ ~ Decision.auto /\ chk.plan.mode = "passthrough"

CheckInv == CheckTypes /\ ReportInv /\ PlanInv

LEMMA CheckInit == HostCheckInit => CheckInv
<1>1. SUFFICES ASSUME HostCheckInit PROVE CheckInv
  OBVIOUS
<1>2. PICK h \in Hosts, argv \in CommandLines : HostCheckOf(h, argv)
  BY <1>1 DEF HostCheckInit
<1>3. /\ DOMAIN chk = {"host", "argv", "args", "at", "exit", "report", "plan", "answer", "target"}
      /\ chk.host = h /\ chk.at = "main" /\ chk.report = NoReport /\ chk.plan = NoPlan
      /\ chk.answer = "none"
  BY <1>2 DEF HostCheckOf
<1>4. CheckTypes
  BY <1>3 DEF CheckTypes, NoReport, NoPlan, Plan
<1>5. ReportInv /\ PlanInv
  BY <1>3 DEF ReportInv, PlanInv
<1> QED BY <1>4, <1>5 DEF CheckInv

(* Leaving a stage for one where the invariant asks nothing.               *)
LEMMA ExitKeeps ==
  ASSUME CheckInv, NEW code, Exits(code)
  PROVE  CheckInv'
<1>1. chk'.at = "exited" /\ DOMAIN chk' = DOMAIN chk
      /\ chk'.host = chk.host /\ chk'.report = chk.report /\ chk'.plan = chk.plan
  BY DEF Exits, CheckInv, CheckTypes
<1>2. CheckTypes'
  BY <1>1 DEF CheckInv, CheckTypes
<1>3. ReportInv' /\ PlanInv'
  BY <1>1 DEF ReportInv, PlanInv
<1> QED BY <1>2, <1>3 DEF CheckInv

LEMMA CheckStep == CheckInv /\ [HostCheckNext]_<<chk>> => CheckInv'
<1>1. SUFFICES ASSUME CheckInv, [HostCheckNext]_<<chk>> PROVE CheckInv'
  OBVIOUS
<1>t. CheckTypes /\ ReportInv /\ PlanInv
  BY <1>1 DEF CheckInv
<1>2. CASE dispatch
  <2>1. CASE \E code : Exits(code)
    BY <1>1, <2>1, ExitKeeps
  <2>2. CASE \E args, s : /\ chk' = [chk EXCEPT !.at = s, !.args = args]
                          /\ s = "elsewhere" \/ (s = "cpu" /\ args.sub \in {"check", "install"})
    <3>1. PICK args, s : /\ chk' = [chk EXCEPT !.at = s, !.args = args]
                         /\ s = "elsewhere" \/ (s = "cpu" /\ args.sub \in {"check", "install"})
      BY <2>2
    <3>2. /\ DOMAIN chk' = DOMAIN chk /\ chk'.at = s /\ chk'.args = args
          /\ chk'.host = chk.host /\ chk'.report = chk.report /\ chk'.plan = chk.plan
          /\ chk'.answer = chk.answer
      BY <1>t, <3>1 DEF CheckTypes
    <3>3. chk.answer = "none"
      BY <1>2, <1>t DEF PlanInv, dispatch, ChkAt
    <3>4. CheckTypes'
      BY <1>t, <3>2 DEF CheckTypes
    <3>5. ReportInv' /\ PlanInv'
      BY <3>1, <3>2, <3>3 DEF ReportInv, PlanInv
    <3> QED BY <3>4, <3>5 DEF CheckInv
  <2>3. \/ \E code : Exits(code)
        \/ \E args, s : /\ chk' = [chk EXCEPT !.at = s, !.args = args]
                        /\ s = "elsewhere" \/ (s = "cpu" /\ args.sub \in {"check", "install"})
    <3> HIDE DEF Exits
    <3> QED BY <1>2 DEF dispatch
  <2> QED BY <2>1, <2>2, <2>3
<1>3. CASE run_compat_check_fails
  BY <1>1, <1>3, ExitKeeps DEF run_compat_check_fails
<1>4. CASE check_cpu
  <2>1. /\ chk.at = "cpu" /\ chk'.at = "memory" /\ DOMAIN chk' = DOMAIN chk
        /\ chk'.host = chk.host /\ chk'.args = chk.args /\ chk'.plan = chk.plan /\ chk'.answer = chk.answer
        /\ chk'.report = [chk.report EXCEPT !.tier = cpu_check(chk.host)]
    BY <1>4, <1>t DEF check_cpu, ChkAt, CheckTypes
  <2>2. DOMAIN chk'.report = DOMAIN chk.report /\ chk'.report.tier = cpu_check(chk.host)
    BY <1>t, <2>1 DEF CheckTypes
  <2>3. CheckTypes'
    BY <1>t, <2>1, <2>2 DEF CheckTypes
  <2>4. ReportInv' /\ PlanInv'
    BY <1>t, <2>1, <2>2 DEF ReportInv, PlanInv
  <2> QED BY <2>3, <2>4 DEF CheckInv
<1>5. CASE check_memory
  <2>1. /\ chk.at = "memory" /\ chk'.at = "storage" /\ DOMAIN chk' = DOMAIN chk
        /\ chk'.host = chk.host /\ chk'.args = chk.args /\ chk'.plan = chk.plan /\ chk'.answer = chk.answer
        /\ chk'.report = [chk.report EXCEPT !.memory = memory_check(chk.host)]
    BY <1>5, <1>t DEF check_memory, ChkAt, CheckTypes
  <2>2. /\ DOMAIN chk'.report = DOMAIN chk.report /\ chk'.report.memory = memory_check(chk.host)
        /\ chk'.report.tier = chk.report.tier
    BY <1>t, <2>1 DEF CheckTypes
  <2>3. CheckTypes'
    BY <1>t, <2>1, <2>2 DEF CheckTypes
  <2>4. ReportInv' /\ PlanInv'
    BY <1>t, <2>1, <2>2 DEF ReportInv, PlanInv
  <2> QED BY <2>3, <2>4 DEF CheckInv
<1>6. CASE check_storage
  <2>1. /\ chk.at = "storage" /\ chk'.at = "gpu" /\ DOMAIN chk' = DOMAIN chk
        /\ chk'.host = chk.host /\ chk'.args = chk.args /\ chk'.plan = chk.plan /\ chk'.answer = chk.answer
        /\ chk'.report = [chk.report EXCEPT !.storage = storage_check(chk.host)]
    BY <1>6, <1>t DEF check_storage, ChkAt, CheckTypes
  <2>2. /\ DOMAIN chk'.report = DOMAIN chk.report /\ chk'.report.storage = storage_check(chk.host)
        /\ chk'.report.tier = chk.report.tier /\ chk'.report.memory = chk.report.memory
    BY <1>t, <2>1 DEF CheckTypes
  <2>3. CheckTypes'
    BY <1>t, <2>1, <2>2 DEF CheckTypes
  <2>4. ReportInv' /\ PlanInv'
    BY <1>t, <2>1, <2>2 DEF ReportInv, PlanInv
  <2> QED BY <2>3, <2>4 DEF CheckInv
<1>7. CASE check_gpu
  <2>1. /\ chk.at = "gpu" /\ chk'.at = "build" /\ DOMAIN chk' = DOMAIN chk
        /\ chk'.host = chk.host /\ chk'.args = chk.args /\ chk'.plan = chk.plan /\ chk'.answer = chk.answer
        /\ chk'.report = [chk.report EXCEPT !.gpus = gpu_check(chk.host)]
    BY <1>7, <1>t DEF check_gpu, ChkAt, CheckTypes
  <2>2. /\ DOMAIN chk'.report = DOMAIN chk.report /\ chk'.report.gpus = gpu_check(chk.host)
        /\ chk'.report.tier = chk.report.tier /\ chk'.report.memory = chk.report.memory
        /\ chk'.report.storage = chk.report.storage
    BY <1>t, <2>1 DEF CheckTypes
  <2>3. CheckTypes'
    BY <1>t, <2>1, <2>2 DEF CheckTypes
  <2>4. ReportInv' /\ PlanInv'
    BY <1>t, <2>1, <2>2 DEF ReportInv, PlanInv
  <2> QED BY <2>3, <2>4 DEF CheckInv
<1>8. CASE build_report
  <2>1. /\ chk.at = "build" /\ chk'.at \in {"check", "install"} /\ DOMAIN chk' = DOMAIN chk
        /\ chk'.host = chk.host /\ chk'.args = chk.args /\ chk'.plan = chk.plan /\ chk'.answer = chk.answer
        /\ chk'.report = [chk.report EXCEPT !.overall = OverallOf(chk.report)]
    BY <1>8, <1>t DEF build_report, ChkAt, CheckTypes, ReportInv
  <2>2. /\ DOMAIN chk'.report = DOMAIN chk.report /\ chk'.report.overall = OverallOf(chk.report)
        /\ chk'.report.tier = chk.report.tier /\ chk'.report.memory = chk.report.memory
        /\ chk'.report.storage = chk.report.storage /\ chk'.report.gpus = chk.report.gpus
    BY <1>t, <2>1 DEF CheckTypes
  <2>3. chk'.report.overall = OverallOf(chk'.report)
    BY <2>2 DEF OverallOf, HardFail
  <2>4. CheckTypes'
    BY <1>t, <2>1, <2>2 DEF CheckTypes
  <2>5. ReportInv'
    BY <1>t, <2>1, <2>2, <2>3 DEF ReportInv
  <2>6. PlanInv'
    BY <1>t, <2>1 DEF PlanInv
  <2> QED BY <2>4, <2>5, <2>6 DEF CheckInv
<1>9. CASE check_run
  BY <1>1, <1>9, ExitKeeps DEF check_run
<1>10. CASE install_checks
  <2>1. CASE Exits(2)
    BY <1>1, <2>1, ExitKeeps
  <2>2. CASE ~ Exits(2)
    <3>1. /\ chk.at = "install" /\ chk.report.overall # "Fail"
          /\ chk' = [chk EXCEPT !.at = "resolve", !.plan = decide(chk.report.gpus, chk.args.gpu)]
      BY <1>10, <2>2 DEF install_checks, ChkAt
    <3>2. /\ chk'.at = "resolve" /\ DOMAIN chk' = DOMAIN chk
          /\ chk'.host = chk.host /\ chk'.args = chk.args /\ chk'.answer = chk.answer
          /\ chk'.report = chk.report /\ chk'.plan = decide(chk.report.gpus, chk.args.gpu)
      BY <1>t, <3>1 DEF CheckTypes
    <3>3. chk.report.gpus = gpu_check(chk.host) /\ ~ HardFail(chk.report)
      BY <1>t, <3>1 DEF ReportInv, OverallOf
    <3>4. chk'.plan = Decision'
      BY <3>2, <3>3 DEF Decision
    <3>5. DOMAIN chk'.plan = {"mode", "auto", "warnings", "of"}
      BY <1>t, <3>2, <3>3, DecideDecides DEF Decided, CheckTypes
    <3>6. CheckTypes'
      BY <1>t, <3>2, <3>5 DEF CheckTypes
    <3>7. ReportInv'
      BY <1>t, <3>1, <3>2, <3>3 DEF ReportInv
    <3>8. PlanInv'
      BY <1>t, <3>1, <3>2, <3>4 DEF PlanInv
    <3> QED BY <3>6, <3>7, <3>8 DEF CheckInv
  <2> QED BY <2>1, <2>2
<1>11. CASE resolve_gpu_plan
  <2>1. /\ chk.at = "resolve" /\ chk'.at = "target" /\ DOMAIN chk' = DOMAIN chk
        /\ chk'.host = chk.host /\ chk'.args = chk.args /\ chk'.plan = chk.plan /\ chk'.answer = chk.answer
        /\ chk'.report = chk.report
    BY <1>11, <1>t DEF resolve_gpu_plan, ChkAt, CheckTypes
  <2>2. chk.plan = Decision /\ Decision' = Decision /\ chk.answer = "none"
    BY <1>t, <2>1 DEF PlanInv, Decision
  <2>3. Decision.auto \/ chk.args.on \cap {"--yes", "--no-gpu-prompt"} # {}
    BY <1>11, <2>2 DEF resolve_gpu_plan, Unprompted
  <2>4. CheckTypes'
    BY <1>t, <2>1 DEF CheckTypes
  <2>5. ReportInv'
    BY <1>t, <2>1 DEF ReportInv
  <2>6. PlanInv'
    BY <2>1, <2>2, <2>3 DEF PlanInv
  <2> QED BY <2>4, <2>5, <2>6 DEF CheckInv
<1>12. CASE \E answer \in {"1", "2", "", "other", "unreadable"} : prompt_gpu(answer)
  <2>1. PICK answer \in {"1", "2", "", "other", "unreadable"} : prompt_gpu(answer)
    BY <1>12
  <2>2. CASE answer \in {"other", "unreadable"}
    <3>1. Exits(11) \/ Exits(12)
      BY <2>1, <2>2 DEF prompt_gpu
    <3> QED BY <1>1, <3>1, ExitKeeps
  <2>3. CASE answer \in {"1", "2", ""}
    <3> DEFINE mode == CASE answer = "1" -> "software" [] answer = "2" -> "passthrough"
                         [] OTHER -> chk.plan.mode
    <3>1. /\ chk.at = "resolve" /\ ~ Unprompted
          /\ chk' = [chk EXCEPT !.at = "target", !.answer = answer, !.plan.auto = TRUE, !.plan.mode = mode]
      BY <2>1, <2>3 DEF prompt_gpu, ChkAt
    <3>2. /\ answer = "1" => mode = "software"
          /\ answer = "2" => mode = "passthrough"
          /\ answer = "" => mode = chk.plan.mode
      OBVIOUS
    <3> HIDE DEF mode
    <3>3. /\ chk'.at = "target" /\ DOMAIN chk' = DOMAIN chk
          /\ chk'.host = chk.host /\ chk'.args = chk.args /\ chk'.answer = answer
          /\ chk'.report = chk.report
          /\ chk'.plan = [[chk.plan EXCEPT !.auto = TRUE] EXCEPT !.mode = mode]
      BY <1>t, <3>1 DEF CheckTypes
    <3>4. /\ DOMAIN chk'.plan = DOMAIN chk.plan /\ chk'.plan.mode = mode
          /\ chk'.plan.of = chk.plan.of /\ chk'.plan.warnings = chk.plan.warnings
      <4> DEFINE q == [chk.plan EXCEPT !.auto = TRUE]
      <4>1. DOMAIN q = DOMAIN chk.plan /\ q.of = chk.plan.of /\ q.warnings = chk.plan.warnings
        BY <1>t DEF CheckTypes
      <4>2. chk'.plan = [q EXCEPT !.mode = mode]
        BY <3>3
      <4>3. DOMAIN q = {"mode", "auto", "warnings", "of"}
        BY <1>t, <4>1 DEF CheckTypes
      <4> HIDE DEF q
      <4> QED BY <4>1, <4>2, <4>3
    <3>5. chk.plan = Decision /\ Decision' = Decision
      BY <1>t, <3>1, <3>3 DEF PlanInv, Decision
    <3>6. ~ Decision.auto
      BY <3>1, <3>5 DEF Unprompted
    <3>7. CheckTypes'
      BY <1>t, <3>3, <3>4 DEF CheckTypes
    <3>8. ReportInv'
      BY <1>t, <3>1, <3>3 DEF ReportInv
    <3>9. PlanInv'
      BY <2>3, <3>2, <3>3, <3>4, <3>5, <3>6 DEF PlanInv
    <3> QED BY <3>7, <3>8, <3>9 DEF CheckInv
  <2> QED BY <2>2, <2>3
<1>13. CASE choose_target
  <2>1. /\ chk.at = "target" /\ chk'.at = "planned" /\ DOMAIN chk' = DOMAIN chk
        /\ chk'.host = chk.host /\ chk'.args = chk.args /\ chk'.plan = chk.plan /\ chk'.answer = chk.answer
        /\ chk'.report = chk.report
    BY <1>13, <1>t DEF choose_target, ChkAt, CheckTypes
  <2>2. Decision' = Decision
    BY <2>1 DEF Decision
  <2>3. CheckTypes'
    BY <1>t, <2>1 DEF CheckTypes
  <2>4. ReportInv'
    BY <1>t, <2>1 DEF ReportInv
  <2>5. PlanInv'
    BY <1>t, <2>1, <2>2 DEF PlanInv
  <2> QED BY <2>3, <2>4, <2>5 DEF CheckInv
<1>14. CASE UNCHANGED chk
  <2>1. Decision' = Decision
    BY <1>14 DEF Decision
  <2> QED BY <1>14, <1>t, <2>1 DEF CheckInv, CheckTypes, ReportInv, PlanInv
<1> QED BY <1>1, <1>2, <1>3, <1>4, <1>5, <1>6, <1>7, <1>8, <1>9, <1>10, <1>11, <1>12, <1>13, <1>14
        DEF HostCheckNext

(* What the checks passed is in the machine.                               *)
LEMMA PassedWillDo ==
  ASSUME NEW h \in Hosts, NEW r, ~ HardFail(r),
         r.tier = cpu_check(h), r.memory = memory_check(h), r.storage = storage_check(h)
  PROVE  /\ h.memory >= MINIMUM_GIB
         /\ \E i \in DOMAIN h.drives : h.drives[i].free >= MINIMUM_FREE_GIB
         /\ \/ h.arch = "arm64"
            \/ h.vendor = "intel" /\ "vmx" \in h.flags
            \/ h.vendor = "amd" /\ "svm" \in h.flags
            \/ h.hypervisor /\ h.flags = {} /\ h.vendor \in {"intel", "amd"}
<1>1. h.memory >= MINIMUM_GIB
  BY DEF HardFail, memory_check
<1>2. storage_check(h).pass
  BY DEF HardFail
<1>3. cpu_check(h) # "Unsupported"
  BY DEF HardFail
<1>4. \/ h.arch = "arm64"
      \/ h.vendor = "intel" /\ "vmx" \in h.flags
      \/ h.vendor = "amd" /\ "svm" \in h.flags
      \/ h.hypervisor /\ h.flags = {} /\ h.vendor \in {"intel", "amd"}
  BY <1>3 DEF cpu_check
<1> QED BY <1>1, <1>2, <1>4, RoomFound

LEMMA CheckImplies == CheckInv => PlanFitsHost
<1>1. SUFFICES ASSUME CheckInv, chk.at = "planned" PROVE
        /\ HostWillDo
        /\ PassedThroughKnowingly
        /\ chk.plan.mode = "sriov" => Asked("sriov") \/ (chk.plan.of # 0 /\ Gpu.vfs > 0)
  BY DEF PlanFitsHost
<1> DEFINE h == chk.host
           p == Decision
           g == h.gpus[p.of]
<1>2. h \in Hosts
  BY <1>1 DEF CheckInv, CheckTypes
<1>3. Decided(h, chk.args.gpu, p)
  BY <1>2, DecideDecides DEF Decision
<1>4. HostWillDo
  <2>1. /\ ~ HardFail(chk.report) /\ chk.report.tier = cpu_check(h)
        /\ chk.report.memory = memory_check(h) /\ chk.report.storage = storage_check(h)
    BY <1>1 DEF CheckInv, ReportInv
  <2> HIDE DEF h
  <2>2. /\ h.memory >= MINIMUM_GIB
        /\ \E i \in DOMAIN h.drives : h.drives[i].free >= MINIMUM_FREE_GIB
        /\ \/ h.arch = "arm64"
           \/ h.vendor = "intel" /\ "vmx" \in h.flags
           \/ h.vendor = "amd" /\ "svm" \in h.flags
           \/ h.hypervisor /\ h.flags = {} /\ h.vendor \in {"intel", "amd"}
    BY <1>2, <2>1, PassedWillDo
  <2> QED BY <2>2 DEF HostWillDo, h
<1>5. /\ chk.plan.of = p.of /\ chk.plan.warnings = p.warnings
      /\ \/ /\ chk.answer = "none" /\ chk.plan.mode = p.mode
            /\ p.auto \/ chk.args.on \cap {"--yes", "--no-gpu-prompt"} # {}
         \/ chk.answer = "" /\ ~ p.auto /\ chk.plan.mode = p.mode
         \/ chk.answer = "1" /\ chk.plan.mode = "software"
         \/ chk.answer = "2" /\ ~ p.auto /\ chk.plan.mode = "passthrough"
  BY <1>1 DEF CheckInv, PlanInv
<1>6. Gpu = g
  BY <1>5 DEF Gpu
<1> HIDE DEF p, h
<1>7. chk.plan.mode = "sriov" => Asked("sriov") \/ (chk.plan.of # 0 /\ Gpu.vfs > 0)
  BY <1>3, <1>5, <1>6 DEF Decided, Asked
<1>8. PassedThroughKnowingly
  <2>1. SUFFICES ASSUME chk.plan.mode = "passthrough"
        PROVE
          /\ p.of # 0 \/ Asked("passthrough")
          /\ \/ Asked("passthrough") \/ chk.answer \in {"", "2"}
             \/ chk.args.on \cap {"--yes", "--no-gpu-prompt"} # {}
             \/ g.kind = "professional"
          /\ p.of # 0 =>
               /\ g.kind \in {"integrated", "unknown"} =>
                    \/ Asked("passthrough") \/ chk.answer = "2"
                    \/ h.os = "linux" /\ g.vendor = "amd"
               /\ g.kind = "consumer" /\ ~ g.vfs > 0 => "reset" \in p.warnings
    BY <1>5, <1>6 DEF PassedThroughKnowingly, h
  <2>2. p.of # 0 \/ Asked("passthrough")
    BY <1>3, <1>5, <2>1 DEF Decided, Asked
  <2>3. \/ Asked("passthrough") \/ chk.answer \in {"", "2"}
        \/ chk.args.on \cap {"--yes", "--no-gpu-prompt"} # {}
        \/ g.kind = "professional"
    BY <1>3, <1>5, <2>1 DEF Decided, Asked
  <2>4. g.kind \in {"integrated", "unknown"} =>
          \/ Asked("passthrough") \/ chk.answer = "2"
          \/ h.os = "linux" /\ g.vendor = "amd"
    BY <1>3, <1>5, <2>1 DEF Decided, Asked
  <2>5. p.of # 0 /\ g.kind = "consumer" /\ ~ g.vfs > 0 => "reset" \in p.warnings
    BY <1>3 DEF Decided
  <2> QED BY <2>2, <2>3, <2>4, <2>5
<1> QED BY <1>4, <1>7, <1>8

(* An install that gets past its first steps is on a machine that meets    *)
(* the requirements, and no GPU leaves the host but as PlanFitsHost says,  *)
(* on every machine and for every command line.                            *)
THEOREM PlansFit == HostCheckSpec => []PlanFitsHost
<1> QED BY CheckInit, CheckStep, CheckImplies, PTL DEF HostCheckSpec
===============================================================================
