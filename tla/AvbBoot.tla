-------------------------------- MODULE AvbBoot --------------------------------
(***************************************************************************)
(* Booting Android from its NVMe namespace: nvme_namespace_setup           *)
(* (controller reset, admin queue, namespace creation), the hand-over of   *)
(* the admin queue, and run_avb_boot_pipeline (I/O queue pair, three       *)
(* sector reads, the BootloaderState phases).  The driver polls, so its    *)
(* thread interleaves only with the controller, which may answer at any    *)
(* time, with any status, or never; a poll that runs out of iterations     *)
(* leaves its command outstanding.                                         *)
(*                                                                         *)
(* A sector's contents are chosen when it is parsed: each is parsed once.  *)
(* build_cmdline cannot fail: 1536 bytes of image command line and five    *)
(* short parameters are less than MAX_CMDLINE_LEN.  KernelLaunchParams     *)
(* repeats two tests of AvbBootConfig::validate on the same values.        *)
(***************************************************************************)
EXTENDS NvmeQueue

CONSTANTS
  Strides,                 \* CAP.DSTRD values of the controllers considered
  MAX_ROLLBACK_LOCATIONS,
  MaxIndex,                \* bound on rollback indexes
  MaxPriority,             \* bound on slot priorities
  MaxRuns                  \* bound on calls of nvme_namespace_setup

ASSUME AvbBootAssumption ==
  /\ Depth = 4
  /\ Strides \subseteq Nat /\ \A s \in Strides : 2 ^ s \in Nat \ {0}
  /\ MAX_ROLLBACK_LOCATIONS \in Nat \ {0}
  /\ {MaxIndex, MaxPriority, MaxRuns} \subseteq Nat

VARIABLES
  ctl,     \* CC.EN, CSTS.RDY, CSTS.CFS
  stride,  \* CAP.DSTRD of this controller
  dstrd,   \* AdminQueue.dstrd, later AvbAdminState.dstrd
  pair,    \* queue pairs: 0 admin, 1 I/O
  live,    \* queue pairs the controller serves
  cid,     \* next command identifier of each pair
  run,     \* calls of nvme_namespace_setup so far
  op,      \* the command being issued
  buf,     \* the sector in AVB_DATA_BUF
  store,   \* AvbBootConfig.rollback_store
  bcb,     \* slots of the parsed Boot Control Block
  bl,      \* BootloaderState: phase, active slot, VBMeta header
  gate,    \* AvbBootGate fields that are true
  pc       \* where the boot thread is

nvmeVars == <<ctl, stride, dstrd, pair, live, cid, run, op, buf>>
avbVars == <<store, bcb, bl, gate>>
bootVars == <<nvmeVars, avbVars, pc>>

Queues == {0, 1}
BootSlots == {"A", "B"}
(* A slot is viable when it booted once or has tries left.                 *)
SlotInfos == [priority : 0 .. MaxPriority, viable : BOOLEAN]
(* The key of a header passes when it is the trust anchor or lies beyond   *)
(* the sector that was read.                                               *)
VbmetaHeaders ==
  [disabled : BOOLEAN, keyPasses : BOOLEAN, sigFits : BOOLEAN,
   location : 0 .. MAX_ROLLBACK_LOCATIONS, index : 0 .. MaxIndex]
NoHeader == [disabled |-> TRUE, keyPasses |-> FALSE, sigFits |-> FALSE,
             location |-> 0, index |-> 0]

SetupOps == <<"identify", "create_ns", "attach_ns">>
AvbOps == <<"create_cq", "create_sq", "misc", "vbmeta", "boot">>
Reads == {"misc", "vbmeta", "boot"}
Ops == {SetupOps[k] : k \in 1 .. 3} \cup {AvbOps[k] : k \in 1 .. 5}
FollowedBy(a, b) ==
  \/ \E k \in 1 .. 2 : a = SetupOps[k] /\ b = SetupOps[k + 1]
  \/ \E k \in 1 .. 4 : a = AvbOps[k] /\ b = AvbOps[k + 1]
QueueOf(o) == IF o \in Reads THEN 1 ELSE 0

Phases == <<"Init", "SlotSelected", "VbmetaLoaded", "KeyVerified",
            "SignatureVerified", "RollbackAccepted", "PartitionsVerified",
            "ReadyToLaunch">>
Gates == {"header_parsed", "rollback_accepted", "cmdline_built", "eret_ready"}

(* The sector an operation reads: the slotted partitions follow the        *)
(* active slot.                                                            *)
NoSlot == "none"
SectorOf(o) == [part |-> o, slot |-> IF o = "misc" THEN NoSlot ELSE bl.slot]

(* BootloaderState::new.                                                   *)
NewBootloader == [phase |-> 1, slot |-> NoSlot, header |-> NoHeader]

(* The firmware leaves the controller as it likes.                         *)
Init ==
  /\ ctl \in [en : BOOLEAN, rdy : BOOLEAN, cfs : {FALSE}]
  /\ stride \in Strides
  /\ dstrd = 0
  /\ pair = [n \in Queues |-> FreshPair(ZeroedSq, ZeroedCq)]
  /\ live = {}
  /\ cid = [n \in Queues |-> 0]
  /\ run = 1
  /\ op = "identify"
  /\ buf = [part |-> "none", slot |-> NoSlot]
  /\ store \in [0 .. MAX_ROLLBACK_LOCATIONS - 1 -> 0 .. MaxIndex]
  /\ bcb = [s \in BootSlots |-> [priority |-> 0, viable |-> FALSE]]
  /\ bl = NewBootloader
  /\ gate = {}
  /\ pc = "reset"

Goto(l) == pc' = l

------------------------------------------------------------------------------
(* controller_reset, init_admin_queue, controller_enable.                  *)

DisableController ==
  /\ pc = "reset"
  /\ ctl' = [ctl EXCEPT !.en = FALSE]
  /\ Goto("wait_down")
  /\ UNCHANGED <<stride, dstrd, pair, live, cid, run, op, buf, avbVars>>

ControllerDown ==
  /\ pc = "wait_down"
  /\ ~ctl.cfs /\ ~ctl.rdy
  /\ Goto("init_queue")
  /\ UNCHANGED <<nvmeVars, avbVars>>

(* CFS, or POLL_LIMIT reads with RDY at the wrong level.                   *)
ResetTimeout ==
  /\ pc = "wait_down"
  /\ ctl.cfs \/ ctl.rdy
  /\ Goto("failed")
  /\ UNCHANGED <<nvmeVars, avbVars>>

(* Mutant: the ring memory keeps what an earlier call left in it.          *)
InitAdminQueueDirty ==
  /\ pc = "init_queue"
  /\ pair' = [pair EXCEPT ![0] = FreshPair(@.sq, @.cq)]
  /\ cid' = [cid EXCEPT ![0] = 0]
  /\ dstrd' = stride
  /\ Goto("enable")
  /\ UNCHANGED <<ctl, stride, live, run, op, buf, avbVars>>

InitAdminQueue ==
  /\ pc = "init_queue"
  /\ pair' = [pair EXCEPT ![0] = FreshPair(ZeroedSq, ZeroedCq)]
  /\ cid' = [cid EXCEPT ![0] = 0]
  /\ dstrd' = stride
  /\ Goto("enable")
  /\ UNCHANGED <<ctl, stride, live, run, op, buf, avbVars>>

EnableController ==
  /\ pc = "enable"
  /\ ctl' = [ctl EXCEPT !.en = TRUE]
  /\ Goto("wait_up")
  /\ UNCHANGED <<stride, dstrd, pair, live, cid, run, op, buf, avbVars>>

ControllerUp ==
  /\ pc = "wait_up"
  /\ ~ctl.cfs /\ ctl.rdy
  /\ Goto("submit")
  /\ UNCHANGED <<nvmeVars, avbVars>>

EnableTimeout ==
  /\ pc = "wait_up"
  /\ ctl.cfs \/ ~ctl.rdy
  /\ Goto("failed")
  /\ UNCHANGED <<nvmeVars, avbVars>>

------------------------------------------------------------------------------
(* Submitting and polling, the same on every queue.                        *)

(* Doorbells stand at 0x1000 + (2n + d)(4 << DSTRD), d = 1 for the head of *)
(* the completion queue.                                                   *)
Offset(n, d, s) == (2 * n + d) * 2 ^ s

(* Writing v at an offset reaches the doorbell the controller has there.   *)
Rung(ps, offset, v) ==
  [n \in Queues |->
     [ps[n] EXCEPT
        !.sqDoorbell = IF Offset(n, 0, stride) = offset THEN v ELSE @,
        !.cqDoorbell = IF Offset(n, 1, stride) = offset THEN v ELSE @]]

Submit ==
  LET n == QueueOf(op)
      tag == [run |-> run, cid |-> cid[n], sector |-> SectorOf(op)]
      ps == [pair EXCEPT ![n] = Submitted(@, tag)]
  IN /\ pc = "submit"
     /\ pair' = Rung(ps, Offset(n, 0, dstrd), ps[n].sqTail)
     /\ cid' = [cid EXCEPT ![n] = @ + 1]
     /\ Goto("poll")
     /\ UNCHANGED <<ctl, stride, dstrd, live, run, op, buf, avbVars>>

(* What the callers of the poll require of the completion: success, and of *)
(* Identify the OACS bit, of Create a non-zero NSID.                       *)
Accepted(cqe) ==
  /\ cqe.status = "ok"
  /\ op \in {"identify", "create_ns"} => cqe.result # 0

(* Mutant: the head doorbell is not written.                               *)
KeptBack(n) == [pair EXCEPT ![n] = Consumed(@)]

(* The completion at the head is taken and its slot released.              *)
Released(n) ==
  LET ps == [pair EXCEPT ![n] = Consumed(@)]
  IN Rung(ps, Offset(n, 1, dstrd), ps[n].cqHead)

(* Mutant: whatever stands at the head is taken for the completion.        *)
TakeAny(n) ==
  /\ pc = "poll"
  /\ Accepted(pair[n].cq[pair[n].cqHead])
  /\ n = QueueOf(op)

TakeCompletion(n) ==
  /\ pc = "poll"
  /\ Visible(pair[n])
  /\ Accepted(pair[n].cq[pair[n].cqHead])
  /\ n = QueueOf(op)

(* Identify and Create are followed by the next admin command.             *)
SetupStep ==
  /\ TakeCompletion(0)
  /\ pair' = Released(0)
  /\ op \in {"identify", "create_ns", "create_cq"}
  /\ \E o \in Ops : FollowedBy(op, o) /\ op' = o
  /\ Goto("submit")
  /\ UNCHANGED <<ctl, stride, dstrd, live, cid, run, buf, avbVars>>

(* nvme_namespace_setup returns its NvmeNamespaceConfig; the AdminQueue is *)
(* dropped.                                                                *)
NamespaceReady ==
  /\ TakeCompletion(0)
  /\ pair' = Released(0)
  /\ op = "attach_ns"
  /\ Goto("handover")
  /\ UNCHANGED <<ctl, stride, dstrd, live, cid, run, op, buf, avbVars>>

(* create_io_queue_pair returns AvbIoQueueState::new(): the rings start at *)
(* 0, their memory is as it was.                                           *)
IoQueueReady ==
  /\ TakeCompletion(0)
  /\ op = "create_sq"
  /\ pair' = [Released(0) EXCEPT ![1] = FreshPair(@.sq, @.cq)]
  /\ cid' = [cid EXCEPT ![1] = 0]
  /\ op' = "misc"
  /\ Goto("submit")
  /\ UNCHANGED <<ctl, stride, dstrd, live, run, buf, avbVars>>

SectorRead ==
  /\ TakeCompletion(1)
  /\ pair' = Released(1)
  /\ Goto("parse")
  /\ UNCHANGED <<ctl, stride, dstrd, live, cid, run, op, buf, avbVars>>

CommandFailed ==
  LET n == QueueOf(op)
  IN /\ pc = "poll"
     /\ Visible(pair[n])
     /\ ~Accepted(pair[n].cq[pair[n].cqHead])
     /\ pair' = Released(n)
     /\ Goto("failed")
     /\ UNCHANGED <<ctl, stride, dstrd, live, cid, run, op, buf, avbVars>>

(* Mutant: the poll loop has no limit while the controller is healthy.     *)
PollUntilFault ==
  /\ pc = "poll"
  /\ ~Visible(pair[QueueOf(op)])
  /\ ctl.cfs
  /\ Goto("failed")
  /\ UNCHANGED <<nvmeVars, avbVars>>

(* MAX_POLL reads without a new phase.                                     *)
PollTimeout ==
  /\ pc = "poll"
  /\ ~Visible(pair[QueueOf(op)])
  /\ Goto("failed")
  /\ UNCHANGED <<nvmeVars, avbVars>>

(* The caller sets the namespace up once more.  Nothing in avb_boot.rs     *)
(* supports a second run of the pipeline, so only a failed setup is.       *)
Retry ==
  /\ pc = "failed"
  /\ \E k \in 1 .. 3 : op = SetupOps[k]
  /\ run < MaxRuns
  /\ run' = run + 1
  /\ op' = "identify"
  /\ Goto("reset")
  /\ UNCHANGED <<ctl, stride, dstrd, pair, live, cid, buf, avbVars>>

------------------------------------------------------------------------------
(* run_avb_boot_pipeline.                                                  *)

(* AvbAdminState::from_ch37_defaults.                                      *)
Ch37Defaults(p) == [p EXCEPT !.sqTail = 3, !.cqHead = 3, !.cqPhase = TRUE]

Handover ==
  /\ pc = "handover"
  /\ pair' = [pair EXCEPT ![0] = Ch37Defaults(@)]
  /\ cid' = [cid EXCEPT ![0] = 3]
  /\ dstrd' = 0
  /\ op' = "create_cq"
  /\ bl' = NewBootloader
  /\ Goto("submit")
  /\ UNCHANGED <<ctl, stride, live, run, buf, store, bcb, gate>>

(* AvbBootConfig::validate refuses.                                        *)
ConfigRejected ==
  /\ pc = "handover"
  /\ Goto("failed")
  /\ UNCHANGED <<nvmeVars, avbVars>>

Bootable(s) == s.priority > 0 /\ s.viable

(* Mutant: slot B wins whenever its priority is higher.                    *)
SelectHigher(b) == IF b["B"].priority > b["A"].priority THEN "B" ELSE "A"

(* BootControlBlock::select_slot.                                          *)
SelectSlot(b) ==
  IF Bootable(b["B"]) /\ (Bootable(b["A"]) => b["B"].priority > b["A"].priority)
  THEN "B" ELSE "A"

(* BootloaderState::select_slot and the read of vbmeta_<slot>.             *)
ParseMisc ==
  /\ pc = "parse" /\ op = "misc"
  /\ bcb' \in [BootSlots -> SlotInfos]
  /\ \E s \in BootSlots : Bootable(bcb'[s])
  /\ bl' = [bl EXCEPT !.phase = 2, !.slot = SelectSlot(bcb')]
  /\ op' = "vbmeta"
  /\ Goto("submit")
  /\ UNCHANGED <<ctl, stride, dstrd, pair, live, cid, run, buf, store, gate>>

(* BootloaderState::load_vbmeta.                                           *)
LoadVbmeta ==
  /\ pc = "parse" /\ op = "vbmeta"
  /\ \E h \in VbmetaHeaders :
       /\ ~h.disabled
       /\ bl' = [bl EXCEPT !.phase = 3, !.header = h]
  /\ Goto("key")
  /\ UNCHANGED <<nvmeVars, store, bcb, gate>>

(* The key is compared when it lies within the sector that was read.       *)
CheckKey ==
  /\ pc = "key"
  /\ bl.header.keyPasses
  /\ bl' = [bl EXCEPT !.phase = 4]
  /\ Goto("signature")
  /\ UNCHANGED <<nvmeVars, store, bcb, gate>>

CheckSignature ==
  /\ pc = "signature"
  /\ bl.header.sigFits
  /\ bl' = [bl EXCEPT !.phase = 5]
  /\ Goto("rollback")
  /\ UNCHANGED <<nvmeVars, store, bcb, gate>>

(* RollbackIndexStore::get.                                                *)
StoredMinimum(location) ==
  IF location < MAX_ROLLBACK_LOCATIONS THEN store[location] ELSE 0

RollbackAccepted(h) == h.index >= StoredMinimum(h.location)

CheckRollback ==
  /\ pc = "rollback"
  /\ RollbackAccepted(bl.header)
  /\ bl' = [bl EXCEPT !.phase = 6]
  /\ gate' = gate \cup {"rollback_accepted"}
  /\ op' = "boot"
  /\ Goto("submit")
  /\ UNCHANGED <<ctl, stride, dstrd, pair, live, cid, run, buf, store, bcb>>

(* BootImageHeader::parse and partitions_verified.                         *)
ParseBoot ==
  /\ pc = "parse" /\ op = "boot"
  /\ bl' = [bl EXCEPT !.phase = 7]
  /\ gate' = gate \cup {"header_parsed"}
  /\ Goto("cmdline")
  /\ UNCHANGED <<nvmeVars, store, bcb>>

BuildCmdline ==
  /\ pc = "cmdline"
  /\ bl' = [bl EXCEPT !.phase = 8]
  /\ gate' = gate \cup {"cmdline_built", "eret_ready"}
  /\ Goto("launched")
  /\ UNCHANGED <<nvmeVars, store, bcb>>

(* A sector that does not parse, no bootable slot, VERIFICATION_DISABLED,  *)
(* or a test the header does not pass.                                     *)
Rejected ==
  /\ \/ pc = "parse"
     \/ pc = "key" /\ ~bl.header.keyPasses
     \/ pc = "signature" /\ ~bl.header.sigFits
     \/ pc = "rollback" /\ ~RollbackAccepted(bl.header)
  /\ Goto("failed")
  /\ UNCHANGED <<nvmeVars, avbVars>>

------------------------------------------------------------------------------
(* The controller.                                                         *)

(* CC.EN = 0 takes effect: every queue is gone.                            *)
ControllerStops ==
  /\ ~ctl.en /\ ctl.rdy
  /\ ctl' = [ctl EXCEPT !.rdy = FALSE, !.cfs = FALSE]
  /\ live' = {}
  /\ UNCHANGED <<stride, dstrd, pair, cid, run, op, buf, avbVars, pc>>

ControllerStarts ==
  /\ ctl.en /\ ~ctl.rdy /\ ~ctl.cfs
  /\ ctl' = [ctl EXCEPT !.rdy = TRUE]
  /\ live' = {0}
  /\ UNCHANGED <<stride, dstrd, pair, cid, run, op, buf, avbVars, pc>>

ControllerFault ==
  /\ ctl.rdy /\ ~ctl.cfs
  /\ ctl' = [ctl EXCEPT !.cfs = TRUE]
  /\ UNCHANGED <<stride, dstrd, pair, live, cid, run, op, buf, avbVars, pc>>

(* OACS and NSID are the only results anybody reads.                       *)
Results(o) == IF o \in {"identify", "create_ns"} THEN {0, 1} ELSE {0}

(* A command completes, perhaps after its poll has timed out.  A sector is *)
(* written to AVB_DATA_BUF before the completion is posted.                *)
ControllerCompletes(n) ==
  LET tag == pair[n].sq[pair[n].sqHead]
  IN /\ ctl.rdy /\ ~ctl.cfs
     /\ n \in live
     /\ Outstanding(pair[n])
     /\ \E status \in {"ok", "error"}, result \in {0, 1} :
          /\ pair' = [pair EXCEPT ![n] = Posted(@, status, result)]
          /\ live' = IF status = "ok" /\ tag.sector.part = "create_sq"
                     THEN live \cup {1} ELSE live
          /\ buf' = IF status = "ok" /\ n = 1 THEN tag.sector ELSE buf
     /\ UNCHANGED <<ctl, stride, dstrd, cid, run, op, avbVars, pc>>

------------------------------------------------------------------------------

BootThread ==
  \/ DisableController \/ ControllerDown \/ ResetTimeout
  \/ InitAdminQueue \/ EnableController \/ ControllerUp \/ EnableTimeout
  \/ Submit \/ SetupStep \/ NamespaceReady \/ IoQueueReady \/ SectorRead
  \/ CommandFailed \/ PollTimeout \/ Retry
  \/ Handover \/ ConfigRejected
  \/ ParseMisc \/ LoadVbmeta \/ CheckKey \/ CheckSignature \/ CheckRollback
  \/ ParseBoot \/ BuildCmdline \/ Rejected

Controller ==
  \/ ControllerStops \/ ControllerStarts \/ ControllerFault
  \/ \E n \in Queues : ControllerCompletes(n)

Next == BootThread \/ Controller

(* The boot thread runs at EL2 with nothing that could stop it; nothing is *)
(* assumed of the controller.                                              *)
Spec == Init /\ [][Next]_bootVars /\ WF_bootVars(BootThread)

------------------------------------------------------------------------------

TypeOK ==
  /\ ctl \in [en : BOOLEAN, rdy : BOOLEAN, cfs : BOOLEAN]
  /\ stride \in Strides /\ dstrd \in {0, stride}
  /\ \A n \in Queues :
       /\ {pair[n].sqTail, pair[n].cqHead, pair[n].sqHead, pair[n].cqTail,
           pair[n].sqDoorbell, pair[n].cqDoorbell} \subseteq Slots
       /\ {pair[n].phase, pair[n].cqPhase} \subseteq BOOLEAN
       /\ cid[n] \in 0 .. 5
  /\ live \subseteq Queues
  /\ run \in 1 .. MaxRuns
  /\ op \in Ops
  /\ bcb \in [BootSlots -> SlotInfos]
  /\ bl.phase \in 1 .. 8 /\ bl.header \in VbmetaHeaders \cup {NoHeader}
  /\ gate \subseteq Gates

(* A completion the poll accepts as new is the one of the command it waits *)
(* for, across the wrap of the rings, the hand-over between the two        *)
(* drivers and a repeated setup: poll_completion and nvme_io_read_sector   *)
(* look at the phase alone and never compare the identifier.  The rings    *)
(* are zeroed and their bases written while the controller has stopped, so *)
(* that nothing of an earlier setup is posted into them.                   *)
CompletionAnswersCommand ==
  /\ pc = "init_queue" => ~ ctl.en /\ ~ ctl.rdy
  /\ \A n \in Queues :
       pc = "poll" /\ n = QueueOf(op) /\ Visible(pair[n])
         => pair[n].cq[pair[n].cqHead].tag = Awaited(pair[n])

(* Once the controller serves a queue, its doorbells hold the indexes the  *)
(* driver last wrote: ring_sq_tail, ring_cq_head and the doorbell writes   *)
(* of avb_boot.rs all reach the queue they mean.                           *)
DoorbellsCurrent ==
  \A n \in live :
    n = QueueOf(op) /\ pc \in {"submit", "poll", "parse", "handover"}
      => /\ pair[n].sqDoorbell = pair[n].sqTail
         /\ pair[n].cqDoorbell = pair[n].cqHead

(* nvme_io_read_sector: on success the buffer holds the sector asked for,  *)
(* although all three reads share AVB_DATA_BUF.                            *)
SectorReadIsSectorAsked ==
  pc \in {"parse", "key", "signature", "rollback", "cmdline", "launched"}
    => buf = SectorOf(op)

(* A passing gate means a slot that may boot and that no bootable slot     *)
(* outranks, the verification data of that same slot acceptable, and the   *)
(* kernel read from it.                                                    *)
LaunchedVerified ==
  gate = Gates =>
    /\ bl.phase = 8
    /\ Bootable(bcb[bl.slot])
    /\ \A s \in BootSlots :
         Bootable(bcb[s]) => bcb[s].priority <= bcb[bl.slot].priority
    /\ bcb["A"].priority = bcb["B"].priority /\ Bootable(bcb["A"]) => bl.slot = "A"
    /\ ~bl.header.disabled /\ bl.header.sigFits /\ bl.header.keyPasses
    /\ bl.header.location < MAX_ROLLBACK_LOCATIONS
         => bl.header.index >= store[bl.header.location]
    /\ buf = [part |-> "boot", slot |-> bl.slot]

(* Whatever the controller does or does not do, the boot ends: every poll  *)
(* loop is bounded.                                                        *)
BootEnds == <>[](pc \in {"launched", "failed"})

=============================================================================
