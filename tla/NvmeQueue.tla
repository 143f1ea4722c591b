------------------------------- MODULE NvmeQueue -------------------------------
(***************************************************************************)
(* One NVMe queue pair as the boot code drives it: a submission ring, a    *)
(* completion ring whose entries carry a phase tag, and one command at a   *)
(* time.  The driver half is AdminQueue of nvme_namespace.rs, which        *)
(* AvbAdminState and AvbIoQueueState of avb_boot.rs repeat; the controller *)
(* half is the device.                                                     *)
(***************************************************************************)
EXTENDS Integers

CONSTANTS
  Depth,  \* ADMIN_Q_DEPTH = AVB_ADMIN_Q_DEPTH = AVB_IO_QUEUE_DEPTH
  NoTag   \* what identifies no command

ASSUME NvmeQueueAssumption == Depth \in Nat \ {0, 1}

Slots == 0 .. Depth - 1
NextSlot(i) == (i + 1) % Depth
LastSlot(i) == (i + Depth - 1) % Depth

(* A completion entry that was zeroed.                                     *)
ZeroedCqe == [tag |-> NoTag, phase |-> FALSE, status |-> "ok", result |-> 0]

(* A ring pair just set up: both indexes 0 and the controller about to     *)
(* post phase 1.  The memory of the rings is the caller's.                 *)
FreshPair(sq, cq) ==
  [sq |-> sq, cq |-> cq,
   sqTail |-> 0, cqHead |-> 0, cqPhase |-> TRUE,
   sqDoorbell |-> 0, cqDoorbell |-> 0,
   sqHead |-> 0, cqTail |-> 0, phase |-> TRUE]

ZeroedSq == [i \in Slots |-> NoTag]
ZeroedCq == [i \in Slots |-> ZeroedCqe]

(* AdminQueue::submit up to the doorbell: the slot is written, the tail    *)
(* advances.                                                               *)
Submitted(p, tag) ==
  [p EXCEPT !.sq[p.sqTail] = tag, !.sqTail = NextSlot(@)]

(* AdminQueue::poll_completion: the entry at the head is new when its      *)
(* phase is the expected one.                                              *)
Visible(p) == p.cq[p.cqHead].phase = p.cqPhase

(* Mutant: the expected phase never flips.                                 *)
ConsumedSamePhase(p) == [p EXCEPT !.cqHead = NextSlot(@)]

Consumed(p) ==
  [p EXCEPT !.cqHead = NextSlot(@),
            !.cqPhase = IF NextSlot(p.cqHead) = 0 THEN ~@ ELSE @]

(* The controller has a command to fetch and room for its completion.      *)
Outstanding(p) ==
  /\ p.sqHead # p.sqDoorbell
  /\ NextSlot(p.cqTail) # p.cqDoorbell

(* It executes the command at its head and posts the completion.           *)
Posted(p, status, result) ==
  [p EXCEPT
     !.sqHead = NextSlot(@),
     !.cq[p.cqTail] = [tag |-> p.sq[p.sqHead], phase |-> p.phase,
                       status |-> status, result |-> result],
     !.cqTail = NextSlot(@),
     !.phase = IF NextSlot(p.cqTail) = 0 THEN ~@ ELSE @]

(* The command the driver submitted last.                                  *)
Awaited(p) == p.sq[LastSlot(p.sqTail)]

=============================================================================
