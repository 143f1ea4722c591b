---------------------------- MODULE AvbBootProofs ----------------------------
(***************************************************************************)
(* Proofs about the NVMe rings and the verified boot, for every controller *)
(* (any doorbell stride, any answers or none), every rollback store and    *)
(* any number of repeated setups.  A queue pair goes round: Quiet, Pending *)
(* when a command is submitted, Answered when the controller posts, Quiet  *)
(* when the poll consumes.  With a stride the hand-over does not know, the *)
(* admin queue may stop at Pending; what is proved holds even then.        *)
(***************************************************************************)
EXTENDS AvbBoot, TLAPS

Sectors == [part : Ops \cup {"none"}, slot : BootSlots \cup {NoSlot}]
Commands == [run : Nat, cid : Nat, sector : Sectors]
Tags == {NoTag} \cup Commands
Completions == [tag : Tags, phase : BOOLEAN, status : {"ok", "error"}, result : {0, 1}]
Pairs ==
  [sq : [Slots -> Tags], cq : [Slots -> Completions],
   sqTail : Slots, cqHead : Slots, cqPhase : BOOLEAN,
   sqDoorbell : Slots, cqDoorbell : Slots,
   sqHead : Slots, cqTail : Slots, phase : BOOLEAN]

------------------------------------------------------------------------------
(* The life of a queue pair.                                               *)

(* The entries before the controller's tail carry its current phase, the   *)
(* others the one of its previous round.                                   *)
Written(p) == \A i \in Slots : (p.cq[i].phase = p.phase) <=> (i < p.cqTail)

InStep(p) ==
  /\ p.cqHead = p.cqTail /\ p.cqPhase = p.phase /\ p.sqHead = p.cqHead
  /\ Written(p)

(* Nothing is outstanding and nothing is unread.                           *)
Quiet(p) == InStep(p) /\ p.sqTail = p.sqHead /\ p.sqDoorbell = p.sqHead

(* One command is in the ring; a doorbell of the wrong stride may not have *)
(* told the controller.                                                    *)
Pending(p) ==
  InStep(p) /\ p.sqTail = NextSlot(p.sqHead) /\ p.sqDoorbell \in {p.sqHead, p.sqTail}

(* Its completion is in the ring and is the next entry the driver reads.   *)
Answered(p) ==
  /\ p.sqTail = NextSlot(p.cqHead) /\ p.sqHead = p.sqTail /\ p.sqDoorbell = p.sqTail
  /\ p.cqTail = p.sqTail
  /\ p.cq[p.cqHead].phase = p.cqPhase
  /\ (p.phase = p.cqPhase) <=> (p.cqTail # 0)
  /\ p.cq[p.cqHead].tag = Awaited(p)
  /\ Written(p)

(* q is p but for its doorbells.                                           *)
SameRings(p, q) ==
  /\ q.sq = p.sq /\ q.cq = p.cq
  /\ q.sqTail = p.sqTail /\ q.cqHead = p.cqHead /\ q.cqPhase = p.cqPhase
  /\ q.sqHead = p.sqHead /\ q.cqTail = p.cqTail /\ q.phase = p.phase

LEMMA NextSlotIs ==
  ASSUME NEW i \in Slots
  PROVE  /\ NextSlot(i) = IF i = Depth - 1 THEN 0 ELSE i + 1
         /\ NextSlot(i) \in Slots /\ NextSlot(i) # i
         /\ LastSlot(NextSlot(i)) = i
<1>1. Depth = 4
  BY AvbBootAssumption
<1>2. i \in {0, 1, 2, 3}
  BY <1>1 DEF Slots
<1> QED BY <1>1, <1>2 DEF Slots, NextSlot, LastSlot

LEMMA FreshIsQuiet ==
  /\ FreshPair(ZeroedSq, ZeroedCq) \in Pairs
  /\ Quiet(FreshPair(ZeroedSq, ZeroedCq))
<1> USE AvbBootAssumption DEF FreshPair, ZeroedSq, ZeroedCq, ZeroedCqe, Slots
<1>1. FreshPair(ZeroedSq, ZeroedCq) \in Pairs
  BY DEF Pairs, Tags, Completions
<1>2. Written(FreshPair(ZeroedSq, ZeroedCq))
  <2> SUFFICES ASSUME NEW i \in Slots
               PROVE  ~ (i < 0) /\ FreshPair(ZeroedSq, ZeroedCq).cq[i].phase = FALSE
    BY Zenon DEF Written
  <2> QED OBVIOUS
<1> QED BY <1>1, <1>2 DEF Quiet, InStep

LEMMA SubmittedType ==
  ASSUME NEW p \in Pairs, NEW tag \in Tags
  PROVE  Submitted(p, tag) \in Pairs
BY NextSlotIs DEF Submitted, Pairs

LEMMA SubmitMakesPending ==
  ASSUME NEW p \in Pairs, NEW tag \in Tags, Quiet(p),
         NEW q \in Pairs, SameRings(Submitted(p, tag), q),
         q.sqDoorbell \in {p.sqDoorbell, Submitted(p, tag).sqTail}
  PROVE  Pending(q) /\ Awaited(q) = tag
<1>1. /\ Submitted(p, tag).sq = [p.sq EXCEPT ![p.sqTail] = tag]
      /\ Submitted(p, tag).sqTail = NextSlot(p.sqTail)
      /\ Submitted(p, tag).cq = p.cq /\ Submitted(p, tag).cqHead = p.cqHead
      /\ Submitted(p, tag).cqPhase = p.cqPhase /\ Submitted(p, tag).phase = p.phase
      /\ Submitted(p, tag).sqHead = p.sqHead /\ Submitted(p, tag).cqTail = p.cqTail
  BY DEF Submitted, Pairs
<1>2. p.sqTail \in Slots /\ p.sq \in [Slots -> Tags]
  BY DEF Pairs
<1>3. Awaited(q) = tag
  BY <1>1, <1>2, NextSlotIs DEF Awaited, SameRings
<1>4. Pending(q)
  BY <1>1 DEF Pending, Quiet, InStep, Written, SameRings
<1> QED BY <1>3, <1>4

LEMMA ConsumeMakesQuiet ==
  ASSUME NEW p \in Pairs, Answered(p)
  PROVE  /\ Consumed(p) \in Pairs
         /\ Quiet(Consumed(p))
         /\ Consumed(p).cqHead = NextSlot(p.cqHead)
         /\ p.cqHead # Depth - 1 => Consumed(p).cqPhase = p.cqPhase
<1>0. p.cqHead \in Slots /\ p.cqPhase \in BOOLEAN /\ p.phase \in BOOLEAN
  BY DEF Pairs
<1>1. Consumed(p) \in Pairs
  BY NextSlotIs DEF Consumed, Pairs
<1>2. /\ Consumed(p).sq = p.sq /\ Consumed(p).cq = p.cq /\ Consumed(p).sqTail = p.sqTail
      /\ Consumed(p).sqHead = p.sqHead /\ Consumed(p).cqTail = p.cqTail
      /\ Consumed(p).phase = p.phase /\ Consumed(p).sqDoorbell = p.sqDoorbell
      /\ Consumed(p).cqHead = NextSlot(p.cqHead)
      /\ NextSlot(p.cqHead) # 0 => Consumed(p).cqPhase = p.cqPhase
      /\ NextSlot(p.cqHead) = 0 => Consumed(p).cqPhase = ~ p.cqPhase
  BY DEF Consumed, Pairs
<1>3. Consumed(p).cqPhase = Consumed(p).phase
  <2>1. CASE NextSlot(p.cqHead) = 0
    BY <1>0, <1>2, <2>1 DEF Answered
  <2>2. CASE NextSlot(p.cqHead) # 0
    BY <1>0, <1>2, <2>2 DEF Answered
  <2> QED BY <2>1, <2>2
<1>4. Quiet(Consumed(p))
  BY <1>2, <1>3 DEF Quiet, InStep, Answered, Written
<1>5. p.cqHead # Depth - 1 => NextSlot(p.cqHead) # 0
  BY <1>0, NextSlotIs, AvbBootAssumption DEF Slots
<1> QED BY <1>1, <1>2, <1>4, <1>5

LEMMA PostedType ==
  ASSUME NEW p \in Pairs, NEW status \in {"ok", "error"}, NEW result \in {0, 1}
  PROVE  Posted(p, status, result) \in Pairs
<1>0. /\ p.sqHead \in Slots /\ p.cqTail \in Slots /\ p.phase \in BOOLEAN
      /\ p.sq \in [Slots -> Tags]
  BY DEF Pairs
<1>1. [tag |-> p.sq[p.sqHead], phase |-> p.phase, status |-> status, result |-> result]
        \in Completions
  BY <1>0 DEF Completions
<1> QED BY <1>0, <1>1, NextSlotIs DEF Posted, Pairs

LEMMA PostMakesAnswered ==
  ASSUME NEW p \in Pairs, Pending(p), Outstanding(p),
         NEW status \in {"ok", "error"}, NEW result \in {0, 1}
  PROVE  LET q == Posted(p, status, result)
         IN /\ Answered(q) /\ Awaited(q) = Awaited(p) /\ p.sq[p.sqHead] = Awaited(p)
            /\ q.cqHead = p.cqHead /\ q.cqPhase = p.cqPhase
            /\ q.cq[q.cqHead].status = status
            /\ q.sqTail = p.sqTail /\ q.sqDoorbell = p.sqDoorbell
            /\ q.cqDoorbell = p.cqDoorbell
<1> DEFINE cqe == [tag |-> p.sq[p.sqHead], phase |-> p.phase, status |-> status,
                   result |-> result]
           q == Posted(p, status, result)
<1>0. /\ p.sqHead \in Slots /\ p.cqTail \in Slots /\ p.phase \in BOOLEAN
      /\ p.cq \in [Slots -> Completions]
  BY DEF Pairs
<1>1. /\ q.sq = p.sq /\ q.cq = [p.cq EXCEPT ![p.cqTail] = cqe] /\ q.sqTail = p.sqTail
      /\ q.cqHead = p.cqHead /\ q.cqPhase = p.cqPhase /\ q.sqHead = NextSlot(p.sqHead)
      /\ q.cqTail = NextSlot(p.cqTail)
      /\ q.sqDoorbell = p.sqDoorbell /\ q.cqDoorbell = p.cqDoorbell
      /\ NextSlot(p.cqTail) # 0 => q.phase = p.phase
      /\ NextSlot(p.cqTail) = 0 => q.phase = ~ p.phase
  BY DEF Posted, Pairs
<1>2. p.sqDoorbell = p.sqTail
  BY DEF Pending, Outstanding
<1>3. p.sq[p.sqHead] = Awaited(p)
  BY <1>0, NextSlotIs DEF Pending, Awaited
<1>4. q.cq[q.cqHead] = cqe
  BY <1>0, <1>1 DEF Pending, InStep
<1>5. Written(q)
  <2> SUFFICES ASSUME NEW i \in Slots
               PROVE  (q.cq[i].phase = q.phase) <=> (i < q.cqTail)
    BY DEF Written
  <2>1. p.cq[i].phase \in BOOLEAN /\ p.phase \in BOOLEAN
    BY <1>0 DEF Completions
  <2>2. (p.cq[i].phase = p.phase) <=> (i < p.cqTail)
    BY DEF Pending, InStep, Written
  <2>3. CASE i = p.cqTail
    <3>1. q.cq[i].phase = p.phase
      BY <1>0, <1>1, <2>3
    <3>2. CASE NextSlot(p.cqTail) = 0
      BY <1>0, <1>1, <2>3, <3>1, <3>2 DEF Slots
    <3>3. CASE NextSlot(p.cqTail) # 0
      <4>1. i < NextSlot(p.cqTail)
        BY <1>0, <2>3, <3>3, NextSlotIs DEF Slots
      <4> QED BY <1>1, <3>1, <3>3, <4>1
    <3> QED BY <3>2, <3>3
  <2>4. CASE i # p.cqTail
    <3>1. q.cq[i].phase = p.cq[i].phase
      BY <1>0, <1>1, <2>4
    <3>2. CASE NextSlot(p.cqTail) = 0
      <4>1. i < p.cqTail
        BY <1>0, <2>4, <3>2, NextSlotIs, AvbBootAssumption DEF Slots
      <4>2. ~ (i < q.cqTail)
        BY <1>1, <3>2 DEF Slots
      <4>3. q.phase = ~ p.phase /\ q.cq[i].phase = p.phase
        BY <1>1, <2>2, <3>1, <3>2, <4>1
      <4>4. q.cq[i].phase # q.phase
        BY <4>3, <1>0
      <4> QED BY <4>2, <4>4
    <3>3. CASE NextSlot(p.cqTail) # 0
      <4>1. (i < q.cqTail) <=> (i < p.cqTail)
        BY <1>0, <1>1, <2>4, <3>3, NextSlotIs, AvbBootAssumption DEF Slots
      <4> QED BY <1>1, <2>2, <3>1, <3>3, <4>1
    <3> QED BY <3>2, <3>3
  <2> QED BY <2>3, <2>4
<1>6. Awaited(q) = Awaited(p)
  BY <1>1 DEF Awaited
<1>7. (q.phase = q.cqPhase) <=> (q.cqTail # 0)
  <2>1. p.cqPhase = p.phase
    BY DEF Pending, InStep
  <2> QED BY <1>0, <1>1, <2>1
<1>8. Answered(q)
  BY <1>0, <1>1, <1>2, <1>3, <1>4, <1>5, <1>6, <1>7 DEF Answered, Pending, InStep
<1> QED BY <1>1, <1>3, <1>4, <1>6, <1>8

(* What the poll sees of a pair.                                           *)
LEMMA VisibleIsAnswered ==
  ASSUME NEW p \in Pairs, Pending(p) \/ Answered(p), Visible(p)
  PROVE  Answered(p)
<1>1. p.cqTail \in Slots /\ ~ (p.cqTail < p.cqTail)
  BY DEF Pairs, Slots
<1> QED BY <1>1 DEF Pending, InStep, Written, Visible

LEMMA QuietIsIdle ==
  ASSUME NEW p, Quiet(p) \/ Answered(p) \/ p = FreshPair(ZeroedSq, ZeroedCq)
  PROVE  ~ Outstanding(p)
BY DEF Quiet, Answered, Outstanding, FreshPair

------------------------------------------------------------------------------
(* Doorbells.                                                              *)

(* Whatever stride the driver assumes, a write to the tail doorbell of a   *)
(* queue changes no other tail doorbell, a write to a head doorbell        *)
(* changes no tail doorbell, and a write meant for the admin queue leaves  *)
(* the I/O queue alone.                                                    *)
LEMMA Offsets ==
  ASSUME stride \in Strides, dstrd \in {0, stride}, NEW n \in Queues, NEW m \in Queues
  PROVE  /\ Offset(m, 0, stride) = Offset(n, 0, dstrd) => m = n
         /\ Offset(m, 0, stride) # Offset(n, 1, dstrd)
         /\ Offset(1, 1, stride) \notin {Offset(0, 0, dstrd), Offset(0, 1, dstrd)}
         /\ stride = 0 => /\ Offset(n, 0, stride) = Offset(n, 0, dstrd)
                          /\ Offset(n, 1, stride) = Offset(n, 1, dstrd)
                          /\ Offset(m, 1, stride) # Offset(n, 0, dstrd)
<1> DEFINE k == 2 ^ stride
<1>1. k \in Nat \ {0} /\ 2 ^ 0 = 1
  BY AvbBootAssumption
<1>2. 2 ^ dstrd \in {1, k} /\ (stride = 0 => k = 1 /\ 2 ^ dstrd = 1)
  BY <1>1
<1> HIDE DEF k
<1>3. /\ Offset(m, 0, stride) = (2 * m) * k /\ Offset(m, 1, stride) = (2 * m + 1) * k
      /\ Offset(1, 1, stride) = 3 * k
      /\ Offset(n, 0, stride) = (2 * n) * k /\ Offset(n, 1, stride) = (2 * n + 1) * k
  BY DEF Offset, k, Queues
<1>4. \A j \in {1, k} : 2 ^ dstrd = j =>
        Offset(n, 0, dstrd) = (2 * n) * j /\ Offset(n, 1, dstrd) = (2 * n + 1) * j
             /\ Offset(0, 0, dstrd) = 0 /\ Offset(0, 1, dstrd) = j
  BY <1>1 DEF Offset, Queues
<1>5. CASE n = 0 /\ m = 0
  BY <1>1, <1>2, <1>3, <1>4, <1>5
<1>6. CASE n = 0 /\ m = 1
  BY <1>1, <1>2, <1>3, <1>4, <1>6
<1>7. CASE n = 1 /\ m = 0
  BY <1>1, <1>2, <1>3, <1>4, <1>7
<1>8. CASE n = 1 /\ m = 1
  BY <1>1, <1>2, <1>3, <1>4, <1>8
<1> QED BY <1>5, <1>6, <1>7, <1>8 DEF Queues

LEMMA RungIs ==
  ASSUME NEW ps \in [Queues -> Pairs], NEW offset, NEW v \in Slots
  PROVE  /\ Rung(ps, offset, v) \in [Queues -> Pairs]
         /\ \A m \in Queues :
              /\ SameRings(ps[m], Rung(ps, offset, v)[m])
              /\ Offset(m, 0, stride) = offset => Rung(ps, offset, v)[m].sqDoorbell = v
              /\ Offset(m, 0, stride) # offset =>
                    Rung(ps, offset, v)[m].sqDoorbell = ps[m].sqDoorbell
              /\ Offset(m, 1, stride) = offset => Rung(ps, offset, v)[m].cqDoorbell = v
              /\ Offset(m, 1, stride) # offset =>
                    Rung(ps, offset, v)[m].cqDoorbell = ps[m].cqDoorbell
              /\ Offset(m, 0, stride) # offset /\ Offset(m, 1, stride) # offset =>
                    Rung(ps, offset, v)[m] = ps[m]
<1> DEFINE r == Rung(ps, offset, v)
<1>1. ASSUME NEW m \in Queues
      PROVE  /\ r[m] \in Pairs /\ SameRings(ps[m], r[m])
             /\ Offset(m, 0, stride) = offset => r[m].sqDoorbell = v
             /\ Offset(m, 0, stride) # offset => r[m].sqDoorbell = ps[m].sqDoorbell
             /\ Offset(m, 1, stride) = offset => r[m].cqDoorbell = v
             /\ Offset(m, 1, stride) # offset => r[m].cqDoorbell = ps[m].cqDoorbell
             /\ Offset(m, 0, stride) # offset /\ Offset(m, 1, stride) # offset =>
                    r[m] = ps[m]
  <2>1. r[m] = [ps[m] EXCEPT
                  !.sqDoorbell = IF Offset(m, 0, stride) = offset THEN v ELSE @,
                  !.cqDoorbell = IF Offset(m, 1, stride) = offset THEN v ELSE @]
    BY DEF Rung
  <2>2. ps[m] \in Pairs
    OBVIOUS
  <2> QED BY <2>1, <2>2 DEF Pairs, SameRings
<1>2. r \in [Queues -> Pairs]
  BY <1>1 DEF Rung
<1> QED BY <1>1, <1>2

------------------------------------------------------------------------------
(* The inductive invariant.                                                *)

Setting == {"reset", "wait_down", "init_queue", "enable", "wait_up"}
Verifying == {"parse", "key", "signature", "rollback", "cmdline", "launched"}
Labels == Setting \cup Verifying \cup {"submit", "poll", "handover", "failed"}

SlotNames == BootSlots \cup {NoSlot}
HeaderValues == VbmetaHeaders \cup {NoHeader}
BootloaderStates == [phase : 1 .. 8, slot : SlotNames, header : HeaderValues]

AvbTypes ==
  /\ ctl \in [en : BOOLEAN, rdy : BOOLEAN, cfs : BOOLEAN]
  /\ stride \in Strides /\ dstrd \in {0, stride}
  /\ pair \in [Queues -> Pairs]
  /\ live \subseteq Queues
  /\ cid \in [Queues -> Nat]
  /\ run \in Nat
  /\ op \in Ops
  /\ buf \in Sectors
  /\ bcb \in [BootSlots -> SlotInfos]
  /\ bl \in BootloaderStates
  /\ gate \subseteq Gates
  /\ pc \in Labels

(* Which command belongs to which place of the boot thread.                *)
StepInv ==
  /\ pc \in Setting => op = "identify"
  /\ pc = "handover" => op = "attach_ns"
  /\ pc \in Verifying => op \in Reads
  /\ pc \in {"key", "signature", "rollback"} => op = "vbmeta"
  /\ pc \in {"cmdline", "launched"} => op = "boot"

(* The rings are set up while the controller has stopped.                  *)
ControllerInv ==
  /\ pc \in {"wait_down", "init_queue", "enable"} => ~ ctl.en
  /\ pc \in {"init_queue", "enable"} => ~ ctl.rdy

(* How far the setup has come in the completion ring, which is what        *)
(* from_ch37_defaults assumes of it.                                       *)
SetupPlace ==
  IF pc = "handover" THEN 3
  ELSE IF op = "attach_ns" THEN 2 ELSE IF op = "create_ns" THEN 1 ELSE 0

Current == pair[QueueOf(op)]

(* A pair that goes round with commands of the boot thread.                *)
Serving(p) == Quiet(p) \/ ((Pending(p) \/ Answered(p)) /\ Awaited(p) \in Commands)

(* The pair in use goes round; the other one rests.  The I/O pair goes     *)
(* round even after a failure, when nobody polls.                          *)
QueueInv ==
  /\ pc \in {"enable", "wait_up", "submit", "handover"} \cup Verifying => Quiet(Current)
  /\ pc = "poll" => Pending(Current) \/ Answered(Current)
  /\ op \in {"identify", "create_ns", "attach_ns"}
       /\ pc \in {"enable", "wait_up", "submit", "poll", "handover"} =>
     pair[0].cqHead = SetupPlace /\ pair[0].cqPhase = TRUE
  /\ op \in Reads => Quiet(pair[0]) /\ Serving(pair[1])
  /\ op \notin Reads => pair[1] = FreshPair(ZeroedSq, ZeroedCq)

(* The command in flight names the sector the thread wants, and the buffer *)
(* holds it from the completion on.                                        *)
SectorInv ==
  /\ pc = "poll" => Awaited(Current) \in Commands /\ Awaited(Current).sector = SectorOf(op)
  /\ pc = "poll" /\ op \in Reads /\ Answered(Current)
       /\ Current.cq[Current.cqHead].status = "ok" => buf = SectorOf(op)
  /\ pc \in Verifying => buf = SectorOf(op)

(* What has been verified at each place.                                   *)
VerifiedInv ==
  /\ op \in {"vbmeta", "boot"} =>
       bl.slot = SelectSlot(bcb) /\ \E s \in BootSlots : Bootable(bcb[s])
  /\ pc \in {"key", "signature", "rollback"} \/ op = "boot" => ~ bl.header.disabled
  /\ pc \in {"signature", "rollback"} \/ op = "boot" => bl.header.keyPasses
  /\ pc = "rollback" \/ op = "boot" => bl.header.sigFits
  /\ op = "boot" => RollbackAccepted(bl.header)
  /\ "eret_ready" \in gate => pc = "launched"
  /\ pc = "launched" => bl.phase = 8

AvbInv ==
  AvbTypes /\ StepInv /\ ControllerInv /\ QueueInv /\ SectorInv /\ VerifiedInv

LEMMA OpFacts ==
  /\ Ops = {"identify", "create_ns", "attach_ns", "create_cq", "create_sq",
            "misc", "vbmeta", "boot"}
  /\ \A a, b : FollowedBy(a, b) <=>
       <<a, b>> \in {<<"identify", "create_ns">>, <<"create_ns", "attach_ns">>,
                    <<"create_cq", "create_sq">>, <<"create_sq", "misc">>,
                    <<"misc", "vbmeta">>, <<"vbmeta", "boot">>}
BY DEF Ops, FollowedBy, SetupOps, AvbOps

LEMMA NewBootloaderType == NewBootloader \in BootloaderStates
<1>1. NoSlot \in SlotNames /\ NoHeader \in HeaderValues
  BY DEF SlotNames, HeaderValues
<1> QED BY <1>1 DEF NewBootloader, BootloaderStates

LEMMA SectorType ==
  ASSUME AvbTypes PROVE SectorOf(op) \in Sectors
<1>1. bl.slot \in SlotNames /\ op \in Ops \cup {"none"} /\ NoSlot \in SlotNames
  BY DEF AvbTypes, BootloaderStates, SlotNames
<1> QED BY <1>1 DEF SectorOf, Sectors, SlotNames

LEMMA AvbInit == Init => AvbInv
<1> SUFFICES ASSUME Init PROVE AvbInv
  OBVIOUS
<1>1. AvbTypes
  <2>1. pair \in [Queues -> Pairs] /\ cid \in [Queues -> Nat] /\ live \subseteq Queues
    BY FreshIsQuiet DEF Init
  <2>2. buf \in Sectors /\ op \in Ops
    BY OpFacts DEF Init, Sectors
  <2>3. bcb \in [BootSlots -> SlotInfos]
    BY AvbBootAssumption DEF Init, SlotInfos
  <2>4. bl \in BootloaderStates
    BY NewBootloaderType DEF Init
  <2>5. ctl \in [en : BOOLEAN, rdy : BOOLEAN, cfs : BOOLEAN]
    BY DEF Init
  <2> QED BY <2>1, <2>2, <2>3, <2>4, <2>5 DEF Init, AvbTypes, Labels, Setting
<1>2. StepInv /\ ControllerInv
  BY DEF Init, StepInv, ControllerInv, Verifying
<1>3. QueueInv
  BY FreshIsQuiet DEF Init, QueueInv, Verifying, Reads, Queues, Current
<1>4. SectorInv /\ VerifiedInv
  BY DEF Init, SectorInv, VerifiedInv, Verifying
<1> QED BY <1>1, <1>2, <1>3, <1>4 DEF AvbInv

------------------------------------------------------------------------------
(* Steps of the setup that touch no ring but to make it new.               *)
LEMMA SetupSteps ==
  ASSUME AvbInv,
         \/ DisableController \/ ControllerDown \/ ResetTimeout \/ InitAdminQueue
         \/ EnableController \/ ControllerUp \/ EnableTimeout \/ Retry
  PROVE  AvbInv'
<1> USE DEF AvbInv, StepInv, ControllerInv, VerifiedInv, Goto, Labels, Setting, Verifying,
        nvmeVars, avbVars, RollbackAccepted, StoredMinimum
<1>1. CASE DisableController
  <2>1. AvbTypes'
    BY <1>1 DEF DisableController, AvbTypes
  <2>2. QueueInv' /\ SectorInv'
    BY <1>1 DEF DisableController, QueueInv, SectorInv, Current
  <2> QED BY <1>1, <2>1, <2>2 DEF DisableController
<1>2. CASE ControllerDown
  <2>1. AvbTypes'
    BY <1>2 DEF ControllerDown, AvbTypes
  <2>2. QueueInv' /\ SectorInv'
    BY <1>2 DEF ControllerDown, QueueInv, SectorInv, Current
  <2> QED BY <1>2, <2>1, <2>2 DEF ControllerDown
<1>3. CASE ResetTimeout
  <2>1. AvbTypes'
    BY <1>3 DEF ResetTimeout, AvbTypes
  <2>2. QueueInv' /\ SectorInv'
    BY <1>3 DEF ResetTimeout, QueueInv, SectorInv, Current
  <2> QED BY <1>3, <2>1, <2>2 DEF ResetTimeout
<1>4. CASE InitAdminQueue
  <2>0. pair'[0] = FreshPair(ZeroedSq, ZeroedCq) /\ pair'[1] = pair[1] /\ op = "identify"
    BY <1>4 DEF InitAdminQueue, AvbTypes, Queues
  <2>1. AvbTypes'
    BY <1>4, FreshIsQuiet DEF InitAdminQueue, AvbTypes
  <2>2. QueueInv'
    <3>1. Quiet(pair'[0]) /\ pair'[0].cqHead = 0 /\ pair'[0].cqPhase = TRUE
      BY <2>0, FreshIsQuiet DEF FreshPair
    <3>2. QueueOf(op) = 0 /\ op \notin Reads
      BY <2>0 DEF QueueOf, Reads
    <3> QED BY <1>4, <2>0, <3>1, <3>2 DEF InitAdminQueue, QueueInv, Current, SetupPlace
  <2>3. SectorInv'
    BY <1>4 DEF InitAdminQueue, SectorInv
  <2> QED BY <1>4, <2>1, <2>2, <2>3 DEF InitAdminQueue
<1>5. CASE EnableController
  <2>1. AvbTypes'
    BY <1>5 DEF EnableController, AvbTypes
  <2>2. QueueInv' /\ SectorInv'
    BY <1>5 DEF EnableController, QueueInv, SectorInv, Current, SetupPlace
  <2> QED BY <1>5, <2>1, <2>2 DEF EnableController
<1>6. CASE ControllerUp
  <2>1. AvbTypes'
    BY <1>6 DEF ControllerUp, AvbTypes
  <2>2. QueueInv' /\ SectorInv'
    BY <1>6 DEF ControllerUp, QueueInv, SectorInv, Current, SetupPlace
  <2> QED BY <1>6, <2>1, <2>2 DEF ControllerUp
<1>7. CASE EnableTimeout
  <2>1. AvbTypes'
    BY <1>7 DEF EnableTimeout, AvbTypes
  <2>2. QueueInv' /\ SectorInv'
    BY <1>7 DEF EnableTimeout, QueueInv, SectorInv, Current
  <2> QED BY <1>7, <2>1, <2>2 DEF EnableTimeout
<1>8. CASE Retry
  <2>0. op \notin Reads /\ op \notin {"vbmeta", "boot"}
    BY <1>8 DEF Retry, SetupOps, Reads
  <2>1. AvbTypes'
    BY <1>8, OpFacts DEF Retry, AvbTypes
  <2>2. QueueInv' /\ SectorInv'
    BY <1>8, <2>0 DEF Retry, QueueInv, SectorInv, Reads
  <2> QED BY <1>8, <2>0, <2>1, <2>2 DEF Retry
<1> QED BY <1>1, <1>2, <1>3, <1>4, <1>5, <1>6, <1>7, <1>8

------------------------------------------------------------------------------
(* Steps on the rings.                                                     *)

(* Ringing leaves the pairs' rounds as they are.                           *)
LEMMA SameRingsQuiet ==
  ASSUME NEW p \in Pairs, NEW q \in Pairs, SameRings(p, q), q.sqDoorbell = p.sqDoorbell,
         Quiet(p)
  PROVE  Quiet(q)
BY DEF SameRings, Quiet, InStep, Written

LEMMA SubmitStep == ASSUME AvbInv, Submit PROVE AvbInv'
<1> DEFINE n == QueueOf(op)
           tag == [run |-> run, cid |-> cid[n], sector |-> SectorOf(op)]
           ps == [pair EXCEPT ![n] = Submitted(@, tag)]
           r == Rung(ps, Offset(n, 0, dstrd), ps[n].sqTail)
<1>0. /\ pc = "submit" /\ pc' = "poll" /\ pair' = r
      /\ cid' = [cid EXCEPT ![n] = @ + 1]
      /\ UNCHANGED <<ctl, stride, dstrd, live, run, op, buf, avbVars>>
  BY DEF Submit, Goto
<1>1. n \in Queues /\ (n = 0 <=> op \notin Reads) /\ AvbTypes
  BY DEF QueueOf, Queues, AvbInv
<1>2. tag \in Commands /\ tag \in Tags /\ tag.sector = SectorOf(op)
  BY <1>1, SectorType DEF Commands, Tags, AvbTypes
<1>3. Quiet(pair[n]) /\ pair[n] \in Pairs
  BY <1>0, <1>1 DEF AvbInv, QueueInv, Current, AvbTypes
<1> HIDE DEF n, tag
<1>4. /\ ps \in [Queues -> Pairs] /\ ps[n] = Submitted(pair[n], tag)
      /\ \A m \in Queues : m # n => ps[m] = pair[m]
  BY <1>1, <1>2, <1>3, SubmittedType DEF AvbTypes
<1> HIDE DEF ps
<1>5. ps[n].sqTail \in Slots
  BY <1>1, <1>4 DEF Pairs
<1>6. /\ r \in [Queues -> Pairs]
      /\ SameRings(ps[n], r[n])
      /\ r[n].sqDoorbell \in {ps[n].sqDoorbell, ps[n].sqTail}
      /\ \A m \in Queues : m # n =>
           SameRings(ps[m], r[m]) /\ r[m].sqDoorbell = ps[m].sqDoorbell
      /\ n = 0 => r[1] = ps[1]
  <2>1. \A m \in Queues : m # n => Offset(m, 0, stride) # Offset(n, 0, dstrd)
    BY <1>1, Offsets DEF AvbTypes
  <2>2. n = 0 => Offset(1, 0, stride) # Offset(0, 0, dstrd)
                 /\ Offset(1, 1, stride) # Offset(0, 0, dstrd)
    BY <1>1, Offsets DEF AvbTypes, Queues
  <2> QED BY <1>1, <1>4, <1>5, <2>1, <2>2, RungIs DEF Queues
<1>7. ps[n].sqDoorbell = pair[n].sqDoorbell
  BY <1>3, <1>4 DEF Submitted, Pairs
<1>8. Pending(r[n]) /\ Awaited(r[n]) = tag
  BY <1>1, <1>2, <1>3, <1>4, <1>6, <1>7, SubmitMakesPending
<1> HIDE DEF r
<1>9. pair[n].cqHead = r[n].cqHead /\ pair[n].cqPhase = r[n].cqPhase
  BY <1>3, <1>4, <1>6 DEF SameRings, Submitted, Pairs
<1>10. \A m \in Queues : m # n => (Quiet(pair[m]) => Quiet(r[m]))
  BY <1>4, <1>6, SameRingsQuiet DEF AvbTypes
<1>11. AvbTypes'
  BY <1>0, <1>1, <1>6 DEF AvbTypes, Labels, avbVars
<1>12. (StepInv /\ ControllerInv /\ VerifiedInv)'
  BY <1>0 DEF AvbInv, StepInv, ControllerInv, VerifiedInv, avbVars, Setting, Verifying,
              RollbackAccepted, StoredMinimum
<1>13. QueueInv'
  <2>1. Current' = r[n]
    BY <1>0 DEF Current, n
  <2>2. op \in Reads => Serving(r[1])
    BY <1>1, <1>2, <1>8 DEF Serving, Queues
  <2>3. op \in Reads => Quiet(r[0])
    BY <1>1, <1>10 DEF AvbInv, QueueInv, Queues
  <2>4. op \notin Reads => r[1] = FreshPair(ZeroedSq, ZeroedCq)
    BY <1>1, <1>4, <1>6 DEF AvbInv, QueueInv, Queues
  <2>5. op \in {"identify", "create_ns", "attach_ns"} =>
          r[0].cqHead = SetupPlace' /\ r[0].cqPhase = TRUE
    <3>1. op \in {"identify", "create_ns", "attach_ns"} => n = 0
      BY <1>1 DEF Reads
    <3> QED BY <1>0, <1>9, <3>1 DEF AvbInv, QueueInv, SetupPlace
  <2> QED BY <1>0, <1>8, <2>1, <2>2, <2>3, <2>4, <2>5 DEF QueueInv, Verifying
<1>14. SectorInv'
  <2>1. Current' = r[n] /\ SectorOf(op)' = SectorOf(op)
    BY <1>0 DEF Current, SectorOf, avbVars, n
  <2>2. ~ Answered(r[n])
    BY <1>8, <1>6, <1>1, NextSlotIs DEF Pending, Answered, InStep, Pairs
  <2> QED BY <1>0, <1>2, <1>8, <2>1, <2>2 DEF SectorInv, Verifying
<1> QED BY <1>11, <1>12, <1>13, <1>14 DEF AvbInv

(* Taking the completion of the command in flight.                         *)
LEMMA ReleaseStep ==
  ASSUME AvbInv, pc = "poll", Visible(Current),
         NEW r, r = Released(QueueOf(op))
  PROVE  /\ Answered(Current)
         /\ r \in [Queues -> Pairs]
         /\ Quiet(r[QueueOf(op)])
         /\ r[QueueOf(op)].cqHead = NextSlot(Current.cqHead)
         /\ Current.cqHead # Depth - 1 => r[QueueOf(op)].cqPhase = Current.cqPhase
         /\ op \in Reads => Quiet(r[0])
         /\ op \notin Reads => r[1] = FreshPair(ZeroedSq, ZeroedCq)
<1> DEFINE n == QueueOf(op)
           ps == [pair EXCEPT ![n] = Consumed(@)]
<1>1. n \in Queues /\ (n = 0 <=> op \notin Reads) /\ AvbTypes
  BY DEF QueueOf, Queues, AvbInv
<1>2. Answered(pair[n]) /\ pair[n] \in Pairs /\ Current = pair[n]
  BY <1>1, VisibleIsAnswered DEF AvbInv, QueueInv, Current, AvbTypes
<1> HIDE DEF n
<1>3. /\ ps \in [Queues -> Pairs] /\ ps[n] = Consumed(pair[n])
      /\ \A m \in Queues : m # n => ps[m] = pair[m]
  BY <1>1, <1>2, ConsumeMakesQuiet DEF AvbTypes
<1>4. r = Rung(ps, Offset(n, 1, dstrd), ps[n].cqHead)
  BY DEF Released, n
<1> HIDE DEF ps
<1>5. ps[n].cqHead \in Slots
  BY <1>1, <1>3 DEF Pairs
<1>6. /\ r \in [Queues -> Pairs]
      /\ \A m \in Queues : SameRings(ps[m], r[m]) /\ r[m].sqDoorbell = ps[m].sqDoorbell
      /\ n = 0 => r[1] = ps[1]
  <2>1. \A m \in Queues : Offset(m, 0, stride) # Offset(n, 1, dstrd)
    BY <1>1, Offsets DEF AvbTypes
  <2>2. n = 0 => Offset(1, 1, stride) # Offset(0, 1, dstrd)
    BY <1>1, Offsets DEF AvbTypes, Queues
  <2> QED BY <1>1, <1>3, <1>4, <1>5, <2>1, <2>2, RungIs DEF Queues
<1>7. Quiet(r[n])
  BY <1>1, <1>2, <1>3, <1>6, ConsumeMakesQuiet, SameRingsQuiet
<1>8. /\ r[n].cqHead = NextSlot(pair[n].cqHead)
      /\ pair[n].cqHead # Depth - 1 => r[n].cqPhase = pair[n].cqPhase
  BY <1>1, <1>2, <1>3, <1>6, ConsumeMakesQuiet DEF SameRings
<1>9. op \in Reads => Quiet(r[0])
  <2> SUFFICES ASSUME op \in Reads PROVE Quiet(r[0])
    OBVIOUS
  <2>1. Quiet(pair[0]) /\ 0 # n /\ 0 \in Queues
    BY <1>1 DEF AvbInv, QueueInv, Queues
  <2> QED BY <1>1, <1>3, <1>6, <2>1, SameRingsQuiet
<1>10. op \notin Reads => r[1] = FreshPair(ZeroedSq, ZeroedCq)
  BY <1>1, <1>3, <1>6 DEF AvbInv, QueueInv, Queues
<1> QED BY <1>2, <1>6, <1>7, <1>8, <1>9, <1>10 DEF n

(* What all steps that take a completion leave alone.                      *)
LEMMA CompletionSteps ==
  ASSUME AvbInv,
         SetupStep \/ NamespaceReady \/ IoQueueReady \/ SectorRead \/ CommandFailed \/ PollTimeout
  PROVE  AvbInv'
<1> USE DEF AvbInv, StepInv, ControllerInv, VerifiedInv, Goto, Labels, Setting, Verifying,
        nvmeVars, avbVars, RollbackAccepted, StoredMinimum, TakeCompletion
<1>1. CASE SetupStep
  <2>0. /\ pc = "poll" /\ pc' = "submit" /\ op \notin Reads /\ op' \notin Reads /\ op' \in Ops
        /\ QueueOf(op) = 0 /\ QueueOf(op') = 0 /\ pair' = Released(0) /\ Visible(Current)
        /\ op' \notin {"vbmeta", "boot"}
        /\ <<op, op'>> \in {<<"identify", "create_ns">>, <<"create_ns", "attach_ns">>,
                            <<"create_cq", "create_sq">>}
        /\ UNCHANGED <<ctl, stride, dstrd, live, cid, run, buf, avbVars>>
    BY <1>1, OpFacts DEF SetupStep, QueueOf, Reads, Current
  <2>1. /\ pair' \in [Queues -> Pairs] /\ Quiet(pair'[0])
        /\ pair'[0].cqHead = NextSlot(pair[0].cqHead)
        /\ pair[0].cqHead # Depth - 1 => pair'[0].cqPhase = pair[0].cqPhase
        /\ pair'[1] = FreshPair(ZeroedSq, ZeroedCq)
    BY <2>0, ReleaseStep DEF Current
  <2>2. AvbTypes'
    BY <2>0, <2>1 DEF AvbTypes
  <2>3. op' \in {"identify", "create_ns", "attach_ns"} =>
          pair'[0].cqHead = SetupPlace' /\ pair'[0].cqPhase = TRUE
    BY <2>0, <2>1, NextSlotIs, AvbBootAssumption DEF QueueInv, SetupPlace, Slots
  <2>4. QueueInv'
    BY <2>0, <2>1, <2>3 DEF QueueInv, Current
  <2>5. SectorInv'
    BY <2>0 DEF SectorInv
  <2> QED BY <2>0, <2>2, <2>4, <2>5
<1>2. CASE NamespaceReady
  <2>0. /\ pc = "poll" /\ pc' = "handover" /\ op = "attach_ns" /\ op \notin Reads
        /\ QueueOf(op) = 0 /\ pair' = Released(0) /\ Visible(Current)
        /\ UNCHANGED <<ctl, stride, dstrd, live, cid, run, op, buf, avbVars>>
    BY <1>2 DEF NamespaceReady, QueueOf, Reads, Current
  <2>1. /\ pair' \in [Queues -> Pairs] /\ Quiet(pair'[0])
        /\ pair'[0].cqHead = NextSlot(pair[0].cqHead)
        /\ pair[0].cqHead # Depth - 1 => pair'[0].cqPhase = pair[0].cqPhase
        /\ pair'[1] = FreshPair(ZeroedSq, ZeroedCq)
    BY <2>0, ReleaseStep DEF Current
  <2>2. AvbTypes'
    BY <2>0, <2>1 DEF AvbTypes
  <2>3. pair'[0].cqHead = SetupPlace' /\ pair'[0].cqPhase = TRUE
    BY <2>0, <2>1, NextSlotIs, AvbBootAssumption DEF QueueInv, SetupPlace, Slots
  <2>4. QueueInv'
    BY <2>0, <2>1, <2>3 DEF QueueInv, Current
  <2>5. SectorInv'
    BY <2>0 DEF SectorInv
  <2> QED BY <2>0, <2>2, <2>4, <2>5
<1>3. CASE IoQueueReady
  <2> DEFINE r == Released(0)
  <2>0. /\ pc = "poll" /\ pc' = "submit" /\ op = "create_sq" /\ op \notin Reads
        /\ op' = "misc" /\ QueueOf(op) = 0 /\ QueueOf(op') = 1 /\ op' \in Reads
        /\ pair' = [r EXCEPT ![1] = FreshPair(@.sq, @.cq)] /\ Visible(Current)
        /\ cid' = [cid EXCEPT ![1] = 0]
        /\ UNCHANGED <<ctl, stride, dstrd, live, run, buf, avbVars>>
    BY <1>3 DEF IoQueueReady, QueueOf, Reads, Current
  <2>1. /\ r \in [Queues -> Pairs] /\ Quiet(r[0]) /\ r[1] = FreshPair(ZeroedSq, ZeroedCq)
    BY <2>0, ReleaseStep DEF Current
  <2> HIDE DEF r
  <2>2. FreshPair(r[1].sq, r[1].cq) = FreshPair(ZeroedSq, ZeroedCq)
    BY <2>1 DEF FreshPair
  <2>3. /\ pair' \in [Queues -> Pairs] /\ Quiet(pair'[0]) /\ Quiet(pair'[1])
    BY <2>0, <2>1, <2>2, FreshIsQuiet DEF Queues
  <2>4. AvbTypes'
    BY <2>0, <2>3, OpFacts DEF AvbTypes, Queues
  <2>5. QueueInv'
    BY <2>0, <2>3 DEF QueueInv, Current, Serving
  <2>6. SectorInv'
    BY <2>0 DEF SectorInv
  <2> QED BY <2>0, <2>4, <2>5, <2>6
<1>4. CASE SectorRead
  <2>0. /\ pc = "poll" /\ pc' = "parse" /\ op \in Reads /\ QueueOf(op) = 1
        /\ pair' = Released(1) /\ Visible(Current)
        /\ Current.cq[Current.cqHead].status = "ok"
        /\ UNCHANGED <<ctl, stride, dstrd, live, cid, run, op, buf, avbVars>>
    BY <1>4 DEF SectorRead, QueueOf, Current, Accepted
  <2>1. /\ pair' \in [Queues -> Pairs] /\ Quiet(pair'[0]) /\ Quiet(pair'[1])
        /\ Answered(Current)
    BY <2>0, ReleaseStep DEF Current
  <2>2. AvbTypes'
    BY <2>0, <2>1 DEF AvbTypes
  <2>3. QueueInv'
    BY <2>0, <2>1 DEF QueueInv, Current, Reads, Serving
  <2>4. SectorInv'
    BY <2>0, <2>1 DEF SectorInv, SectorOf
  <2> QED BY <2>0, <2>2, <2>3, <2>4
<1>5. CASE CommandFailed
  <2>0. /\ pc = "poll" /\ pc' = "failed" /\ pair' = Released(QueueOf(op)) /\ Visible(Current)
        /\ UNCHANGED <<ctl, stride, dstrd, live, cid, run, op, buf, avbVars>>
    BY <1>5 DEF CommandFailed, Current
  <2>1. /\ pair' \in [Queues -> Pairs]
        /\ op \in Reads => Quiet(pair'[0]) /\ Quiet(pair'[1])
        /\ op \notin Reads => pair'[1] = FreshPair(ZeroedSq, ZeroedCq)
    BY <2>0, ReleaseStep DEF QueueOf
  <2>2. AvbTypes'
    BY <2>0, <2>1 DEF AvbTypes
  <2>3. QueueInv' /\ SectorInv'
    BY <2>0, <2>1 DEF QueueInv, SectorInv, Serving
  <2> QED BY <2>0, <2>2, <2>3
<1>6. CASE PollTimeout
  <2>1. AvbTypes'
    BY <1>6 DEF PollTimeout, AvbTypes
  <2>2. QueueInv' /\ SectorInv'
    BY <1>6 DEF PollTimeout, QueueInv, SectorInv
  <2> QED BY <1>6, <2>1, <2>2 DEF PollTimeout
<1> QED BY <1>1, <1>2, <1>3, <1>4, <1>5, <1>6

------------------------------------------------------------------------------
(* The pipeline.                                                           *)

(* What from_ch37_defaults assumes is what the admin queue has come to.    *)
LEMMA HandoverKeeps ==
  ASSUME AvbInv, Handover
  PROVE  pair' = pair /\ Quiet(pair[0])
<1>0. /\ pc = "handover" /\ op = "attach_ns" /\ QueueOf(op) = 0 /\ 0 \in Queues
      /\ pair' = [pair EXCEPT ![0] = Ch37Defaults(@)]
  BY DEF AvbInv, StepInv, Handover, QueueOf, Reads, Queues
<1>1. /\ Quiet(pair[0]) /\ pair[0] \in Pairs /\ pair[0].cqHead = 3 /\ pair[0].cqPhase = TRUE
  BY <1>0 DEF AvbInv, QueueInv, Current, SetupPlace, AvbTypes
<1>2. Ch37Defaults(pair[0]) = pair[0]
  BY <1>1 DEF Ch37Defaults, Quiet, InStep, Pairs
<1> QED BY <1>0, <1>1, <1>2 DEF AvbInv, AvbTypes

LEMMA HandoverStep == ASSUME AvbInv, Handover PROVE AvbInv'
<1> USE DEF AvbInv, StepInv, ControllerInv, VerifiedInv, Labels, Setting, Verifying, avbVars
<1>0. /\ pc = "handover" /\ pc' = "submit" /\ op = "attach_ns" /\ op' = "create_cq"
      /\ QueueOf(op) = 0 /\ QueueOf(op') = 0 /\ op \notin Reads /\ op' \notin Reads
      /\ 0 \in Queues
      /\ cid' = [cid EXCEPT ![0] = 3] /\ dstrd' = 0 /\ bl' = NewBootloader
      /\ UNCHANGED <<ctl, stride, live, run, buf, store, bcb, gate>>
  BY DEF Handover, Goto, QueueOf, Reads, Queues
<1>3. pair' = pair /\ Quiet(pair[0])
  BY HandoverKeeps
<1>4. AvbTypes'
  <2>1. bl' \in BootloaderStates
    BY <1>0, NewBootloaderType
  <2>2. stride \in Strides /\ dstrd' \in {0, stride'}
    BY <1>0 DEF AvbTypes
  <2>3. cid' \in [Queues -> Nat]
    BY <1>0 DEF AvbTypes
  <2> QED BY <1>0, <1>3, <2>1, <2>2, <2>3, OpFacts DEF AvbTypes
<1>5. QueueInv'
  BY <1>0, <1>3 DEF QueueInv, Current
<1>6. SectorInv'
  BY <1>0 DEF SectorInv
<1> QED BY <1>0, <1>4, <1>5, <1>6

LEMMA SlotSelected ==
  ASSUME AvbTypes, ParseMisc
  PROVE  bl' \in BootloaderStates /\ bl'.slot = SelectSlot(bcb')
<1>1. PICK s \in SlotNames : s = SelectSlot(bcb') /\ bl' = [bl EXCEPT !.phase = 2, !.slot = s]
  BY DEF ParseMisc, SelectSlot, BootSlots, SlotNames
<1>2. bl \in BootloaderStates
  BY DEF AvbTypes
<1>3. bl' = [phase |-> 2, slot |-> s, header |-> bl.header]
  BY <1>1, <1>2 DEF BootloaderStates
<1> QED BY <1>1, <1>2, <1>3 DEF BootloaderStates

LEMMA HeaderLoaded ==
  ASSUME AvbTypes, LoadVbmeta
  PROVE  bl' \in BootloaderStates /\ bl'.slot = bl.slot /\ ~ bl'.header.disabled
<1>1. PICK h \in VbmetaHeaders : ~ h.disabled /\ bl' = [bl EXCEPT !.phase = 3, !.header = h]
  BY DEF LoadVbmeta
<1>2. bl \in BootloaderStates /\ h \in HeaderValues
  BY DEF AvbTypes, HeaderValues
<1>3. bl' = [phase |-> 3, slot |-> bl.slot, header |-> h]
  BY <1>1, <1>2 DEF BootloaderStates
<1> QED BY <1>1, <1>2, <1>3 DEF BootloaderStates

LEMMA VerifySteps ==
  ASSUME AvbInv,
         \/ ConfigRejected \/ ParseMisc \/ LoadVbmeta \/ CheckKey \/ CheckSignature
         \/ CheckRollback \/ ParseBoot \/ BuildCmdline \/ Rejected
  PROVE  AvbInv'
<1> USE DEF AvbInv, StepInv, ControllerInv, VerifiedInv, Goto, Labels, Setting, Verifying,
        nvmeVars, avbVars, RollbackAccepted, StoredMinimum
<1>1. CASE ConfigRejected
  <2>1. AvbTypes'
    BY <1>1 DEF ConfigRejected, AvbTypes
  <2>2. QueueInv' /\ SectorInv'
    BY <1>1 DEF ConfigRejected, QueueInv, SectorInv
  <2> QED BY <1>1, <2>1, <2>2 DEF ConfigRejected
<1>2. CASE ParseMisc
  <2>0. /\ pc = "parse" /\ op = "misc" /\ pc' = "submit" /\ op' = "vbmeta"
        /\ bcb' \in [BootSlots -> SlotInfos] /\ (\E s \in BootSlots : Bootable(bcb'[s]))
        /\ bl' = [bl EXCEPT !.phase = 2, !.slot = SelectSlot(bcb')]
        /\ QueueOf(op) = 1 /\ QueueOf(op') = 1 /\ op \in Reads /\ op' \in Reads
        /\ UNCHANGED <<ctl, stride, dstrd, pair, live, cid, run, buf, store, gate>>
    BY <1>2 DEF ParseMisc, QueueOf, Reads
  <2>1. bl' \in BootloaderStates /\ bl'.slot = SelectSlot(bcb')
    BY <1>2, SlotSelected
  <2>2. AvbTypes'
    BY <2>0, <2>1, OpFacts DEF AvbTypes
  <2>3. QueueInv'
    BY <2>0 DEF QueueInv, Current
  <2>4. SectorInv'
    BY <2>0 DEF SectorInv
  <2> QED BY <2>0, <2>1, <2>2, <2>3, <2>4
<1>3. CASE LoadVbmeta
  <2>0. bl' \in BootloaderStates /\ bl'.slot = bl.slot /\ ~ bl'.header.disabled
    BY <1>3, HeaderLoaded
  <2>1. AvbTypes'
    BY <1>3, <2>0 DEF LoadVbmeta, AvbTypes
  <2>2. QueueInv' /\ SectorInv'
    BY <1>3, <2>0 DEF LoadVbmeta, QueueInv, SectorInv, Current, SectorOf
  <2> QED BY <1>3, <2>0, <2>1, <2>2 DEF LoadVbmeta
<1>4. CASE CheckKey
  <2>1. AvbTypes' /\ bl'.header = bl.header /\ bl'.slot = bl.slot
    BY <1>4 DEF CheckKey, AvbTypes, BootloaderStates
  <2>2. QueueInv' /\ SectorInv'
    BY <1>4, <2>1 DEF CheckKey, QueueInv, SectorInv, Current, SectorOf
  <2> QED BY <1>4, <2>1, <2>2 DEF CheckKey
<1>5. CASE CheckSignature
  <2>1. AvbTypes' /\ bl'.header = bl.header /\ bl'.slot = bl.slot
    BY <1>5 DEF CheckSignature, AvbTypes, BootloaderStates
  <2>2. QueueInv' /\ SectorInv'
    BY <1>5, <2>1 DEF CheckSignature, QueueInv, SectorInv, Current, SectorOf
  <2> QED BY <1>5, <2>1, <2>2 DEF CheckSignature
<1>6. CASE CheckRollback
  <2>1. AvbTypes' /\ bl'.header = bl.header /\ bl'.slot = bl.slot
    BY <1>6, OpFacts DEF CheckRollback, AvbTypes, BootloaderStates, Gates
  <2>2. QueueInv'
    BY <1>6 DEF CheckRollback, QueueInv, Current, QueueOf, Reads
  <2>3. SectorInv'
    BY <1>6 DEF CheckRollback, SectorInv
  <2> QED BY <1>6, <2>1, <2>2, <2>3 DEF CheckRollback
<1>7. CASE ParseBoot
  <2>1. AvbTypes' /\ bl'.header = bl.header /\ bl'.slot = bl.slot
    BY <1>7 DEF ParseBoot, AvbTypes, BootloaderStates, Gates
  <2>2. QueueInv' /\ SectorInv'
    BY <1>7, <2>1 DEF ParseBoot, QueueInv, SectorInv, Current, SectorOf
  <2> QED BY <1>7, <2>1, <2>2 DEF ParseBoot
<1>8. CASE BuildCmdline
  <2>1. AvbTypes' /\ bl'.header = bl.header /\ bl'.slot = bl.slot /\ bl'.phase = 8
    BY <1>8 DEF BuildCmdline, AvbTypes, BootloaderStates, Gates
  <2>2. QueueInv' /\ SectorInv'
    BY <1>8, <2>1 DEF BuildCmdline, QueueInv, SectorInv, Current, SectorOf
  <2> QED BY <1>8, <2>1, <2>2 DEF BuildCmdline
<1>9. CASE Rejected
  <2>1. AvbTypes'
    BY <1>9 DEF Rejected, AvbTypes
  <2>2. QueueInv' /\ SectorInv'
    BY <1>9 DEF Rejected, QueueInv, SectorInv
  <2> QED BY <1>9, <2>1, <2>2 DEF Rejected
<1> QED BY <1>1, <1>2, <1>3, <1>4, <1>5, <1>6, <1>7, <1>8, <1>9

------------------------------------------------------------------------------
(* The controller.                                                         *)

LEMMA ControllerSteps ==
  ASSUME AvbInv, ControllerStops \/ ControllerStarts \/ ControllerFault
  PROVE  AvbInv'
<1> USE DEF AvbInv, StepInv, ControllerInv, VerifiedInv, Setting, Verifying, avbVars,
        RollbackAccepted, StoredMinimum
<1>1. UNCHANGED <<stride, dstrd, pair, cid, run, op, buf, avbVars, pc>>
  BY DEF ControllerStops, ControllerStarts, ControllerFault
<1>2. /\ ctl' \in [en : BOOLEAN, rdy : BOOLEAN, cfs : BOOLEAN]
      /\ ctl'.en = ctl.en /\ (~ ctl.en => (ctl'.rdy => ctl.rdy))
  BY DEF ControllerStops, ControllerStarts, ControllerFault, AvbTypes
<1>3. live' \subseteq Queues
  BY DEF ControllerStops, ControllerStarts, ControllerFault, AvbTypes, Queues
<1>4. AvbTypes'
  BY <1>1, <1>2, <1>3 DEF AvbTypes
<1>5. ControllerInv'
  BY <1>1, <1>2
<1>6. StepInv' /\ VerifiedInv'
  BY <1>1
<1>7. QueueInv' /\ SectorInv'
  BY <1>1 DEF QueueInv, SectorInv, Current, SetupPlace, SectorOf
<1> QED BY <1>4, <1>5, <1>6, <1>7

LEMMA CompletesStep ==
  ASSUME AvbInv, NEW n \in Queues, ControllerCompletes(n)
  PROVE  AvbInv'
<1> DEFINE tag == pair[n].sq[pair[n].sqHead]
<1>0. PICK status \in {"ok", "error"}, result \in {0, 1} :
        /\ pair' = [pair EXCEPT ![n] = Posted(@, status, result)]
        /\ live' \in {live, live \cup {1}}
        /\ buf' = IF status = "ok" /\ n = 1 THEN tag.sector ELSE buf
  BY DEF ControllerCompletes
<1>1. /\ UNCHANGED <<ctl, stride, dstrd, cid, run, op, avbVars, pc>>
      /\ Outstanding(pair[n])
  BY DEF ControllerCompletes
<1>2. /\ AvbTypes /\ pair[n] \in Pairs /\ QueueOf(op) \in Queues
      /\ QueueOf(op) = 0 <=> op \notin Reads
  BY DEF AvbInv, AvbTypes, QueueOf, Queues
<1>3. n = QueueOf(op)
  BY <1>1, <1>2, QuietIsIdle DEF AvbInv, QueueInv, QueueOf, Queues
<1>4. pc \notin {"enable", "wait_up", "submit", "handover"} \cup Verifying
  BY <1>1, <1>3, QuietIsIdle DEF AvbInv, QueueInv, Current
<1> DEFINE q == Posted(pair[n], status, result)
<1>5. pc = "poll" \/ op \in Reads =>
        /\ Pending(pair[n])
        /\ Answered(q) /\ Awaited(q) = Awaited(pair[n]) /\ tag = Awaited(pair[n])
        /\ q.cqHead = pair[n].cqHead /\ q.cqPhase = pair[n].cqPhase
        /\ q.cq[q.cqHead].status = status
  <2> SUFFICES ASSUME pc = "poll" \/ op \in Reads PROVE Pending(pair[n])
    BY <1>1, <1>2, PostMakesAnswered
  <2>1. Quiet(pair[n]) \/ Pending(pair[n]) \/ Answered(pair[n])
    BY <1>3 DEF AvbInv, QueueInv, Current, Serving, QueueOf
  <2> QED BY <1>1, <2>1, QuietIsIdle
<1>6. q \in Pairs
  BY <1>2, PostedType
<1> HIDE DEF q, tag
<1>7. /\ pair' \in [Queues -> Pairs] /\ pair'[n] = q
      /\ \A m \in Queues : m # n => pair'[m] = pair[m]
  BY <1>0, <1>2, <1>6 DEF AvbTypes, q
<1>8. op \in Reads => tag \in Commands
  BY <1>1, <1>3, <1>5, QuietIsIdle DEF AvbInv, QueueInv, Serving, QueueOf
<1>9. buf' \in Sectors
  BY <1>0, <1>2, <1>3, <1>8 DEF AvbTypes, Commands
<1>10. AvbTypes'
  BY <1>0, <1>1, <1>2, <1>7, <1>9 DEF AvbTypes, avbVars, Queues
<1>11. StepInv' /\ ControllerInv' /\ VerifiedInv'
  BY <1>1 DEF AvbInv, StepInv, ControllerInv, VerifiedInv, avbVars, RollbackAccepted,
              StoredMinimum
<1>12. Current' = q /\ Current = pair[n] /\ SectorOf(op)' = SectorOf(op) /\ SetupPlace' = SetupPlace
  BY <1>1, <1>3, <1>7 DEF Current, SectorOf, SetupPlace, avbVars
<1>13. QueueInv'
  <2>1. op \in Reads => Quiet(pair'[0]) /\ Serving(pair'[1])
    BY <1>2, <1>3, <1>5, <1>7, <1>8 DEF AvbInv, QueueInv, Serving, Queues, QueueOf
  <2>2. op \notin Reads => pair'[1] = FreshPair(ZeroedSq, ZeroedCq)
    BY <1>2, <1>3, <1>7 DEF AvbInv, QueueInv, Queues
  <2>3. pc = "poll" /\ op \in {"identify", "create_ns", "attach_ns"} =>
          pair'[0].cqHead = SetupPlace /\ pair'[0].cqPhase = TRUE
    BY <1>2, <1>3, <1>5, <1>7 DEF AvbInv, QueueInv, Reads
  <2> QED BY <1>1, <1>4, <1>5, <1>12, <2>1, <2>2, <2>3 DEF QueueInv
<1>14. SectorInv'
  <2>1. pc = "poll" => Awaited(q) \in Commands /\ Awaited(q).sector = SectorOf(op)
    BY <1>5, <1>12 DEF AvbInv, SectorInv
  <2>2. pc = "poll" /\ op \in Reads /\ q.cq[q.cqHead].status = "ok" => buf' = SectorOf(op)
    BY <1>0, <1>2, <1>3, <1>5, <1>12, <2>1 DEF QueueOf
  <2> QED BY <1>1, <1>4, <1>12, <2>1, <2>2 DEF SectorInv
<1> QED BY <1>10, <1>11, <1>13, <1>14 DEF AvbInv

------------------------------------------------------------------------------
(* The theorems.                                                           *)

LEMMA AvbStep == AvbInv /\ [Next]_bootVars => AvbInv'
<1> SUFFICES ASSUME AvbInv, [Next]_bootVars PROVE AvbInv'
  OBVIOUS
<1>1. CASE Next
  BY <1>1, SetupSteps, SubmitStep, CompletionSteps, HandoverStep, VerifySteps, ControllerSteps,
     CompletesStep DEF Next, BootThread, Controller
<1>2. CASE UNCHANGED bootVars
  BY <1>2 DEF bootVars, nvmeVars, avbVars, AvbInv, AvbTypes, StepInv, ControllerInv, QueueInv,
              SectorInv, VerifiedInv, Current, SetupPlace, SectorOf, RollbackAccepted, StoredMinimum
<1> QED BY <1>1, <1>2

THEOREM AvbInvariance == Spec => []AvbInv
BY AvbInit, AvbStep, PTL DEF Spec

(* On every boot, with every controller: a completion the poll takes for   *)
(* new answers the command it waits for, and the rings are only set up     *)
(* while the controller has stopped.                                       *)
THEOREM CompletionsAnswer == Spec => []CompletionAnswersCommand
<1>1. AvbInv => CompletionAnswersCommand
  <2> SUFFICES ASSUME AvbInv PROVE CompletionAnswersCommand
    OBVIOUS
  <2>1. ASSUME NEW n \in Queues, pc = "poll", n = QueueOf(op), Visible(pair[n])
        PROVE  pair[n].cq[pair[n].cqHead].tag = Awaited(pair[n])
    <3>1. Answered(pair[n])
      BY <2>1, VisibleIsAnswered DEF AvbInv, AvbTypes, QueueInv, Current
    <3> QED BY <3>1 DEF Answered
  <2> QED BY <2>1 DEF AvbInv, ControllerInv, CompletionAnswersCommand
<1> QED BY <1>1, AvbInvariance, PTL

(* Every sector parsed is the one the thread asked for.                    *)
THEOREM SectorsAreThoseAsked == Spec => []SectorReadIsSectorAsked
<1>1. AvbInv => SectorReadIsSectorAsked
  BY DEF AvbInv, SectorInv, SectorReadIsSectorAsked, Verifying
<1> QED BY <1>1, AvbInvariance, PTL

(* The slot select_slot picks may boot and none that may outranks it.      *)
LEMMA SelectedSlot ==
  ASSUME NEW b \in [BootSlots -> SlotInfos], \E s \in BootSlots : Bootable(b[s])
  PROVE  /\ Bootable(b[SelectSlot(b)])
         /\ \A s \in BootSlots : Bootable(b[s]) => b[s].priority <= b[SelectSlot(b)].priority
         /\ b["A"].priority = b["B"].priority /\ Bootable(b["A"]) => SelectSlot(b) = "A"
<1>1. b["A"].priority \in Int /\ b["B"].priority \in Int
  BY AvbBootAssumption DEF BootSlots, SlotInfos
<1> HIDE DEF Bootable
<1> QED BY <1>1 DEF SelectSlot, BootSlots

(* When every gate passes, the slot, its verification data and the kernel  *)
(* that was read belong together and were accepted.                        *)
THEOREM LaunchIsVerified == Spec => []LaunchedVerified
<1>1. AvbInv => LaunchedVerified
  <2> SUFFICES ASSUME AvbInv, gate = Gates PROVE LaunchedVerified
    BY DEF LaunchedVerified
  <2>1. pc = "launched" /\ op = "boot" /\ bl.phase = 8
    BY DEF AvbInv, VerifiedInv, StepInv, Gates
  <2>2. bl.slot = SelectSlot(bcb) /\ \E s \in BootSlots : Bootable(bcb[s])
    BY <2>1 DEF AvbInv, VerifiedInv
  <2>3. buf = [part |-> "boot", slot |-> bl.slot]
    BY <2>1 DEF AvbInv, SectorInv, SectorOf, Verifying
  <2>4. ~ bl.header.disabled /\ bl.header.sigFits /\ bl.header.keyPasses
        /\ RollbackAccepted(bl.header)
    BY <2>1 DEF AvbInv, VerifiedInv
  <2> QED BY <2>1, <2>2, <2>3, <2>4, SelectedSlot
          DEF AvbInv, AvbTypes, LaunchedVerified, RollbackAccepted, StoredMinimum
<1> QED BY <1>1, AvbInvariance, PTL

------------------------------------------------------------------------------
(* Doorbells of controllers with the stride that avb_boot.rs takes for     *)
(* granted.                                                                *)

Ringing == {"enable", "wait_up", "submit", "poll", "handover"} \cup Verifying
DoorsInStep(p) == p.sqDoorbell = p.sqTail /\ p.cqDoorbell = p.cqHead
DoorInv == stride = 0 /\ pc \in Ringing => DoorsInStep(Current)

LEMMA SubmitRings ==
  ASSUME AvbTypes, stride = 0, Submit, DoorsInStep(Current)
  PROVE  DoorsInStep(Current')
<1> DEFINE n == QueueOf(op)
           tag == [run |-> run, cid |-> cid[n], sector |-> SectorOf(op)]
           ps == [pair EXCEPT ![n] = Submitted(@, tag)]
<1>1. n \in Queues /\ pair[n] \in Pairs /\ tag \in Tags
  BY SectorType DEF QueueOf, Queues, AvbTypes, Tags, Commands
<1>2. pair' = Rung(ps, Offset(n, 0, dstrd), ps[n].sqTail) /\ op' = op
  BY DEF Submit
<1> HIDE DEF tag
<1>3. ps \in [Queues -> Pairs] /\ ps[n] = Submitted(pair[n], tag)
  BY <1>1, SubmittedType DEF AvbTypes
<1>4. /\ ps[n].cqDoorbell = pair[n].cqDoorbell /\ ps[n].cqHead = pair[n].cqHead
      /\ ps[n].sqTail \in Slots
  BY <1>1, <1>3 DEF Submitted, Pairs
<1>5. Offset(n, 0, stride) = Offset(n, 0, dstrd) /\ Offset(n, 1, stride) # Offset(n, 0, dstrd)
  BY <1>1, Offsets DEF AvbTypes
<1> HIDE DEF ps, n
<1>6. LET q == pair'[n]
      IN /\ q.sqDoorbell = ps[n].sqTail /\ q.cqDoorbell = ps[n].cqDoorbell
         /\ q.sqTail = ps[n].sqTail /\ q.cqHead = ps[n].cqHead
  BY <1>1, <1>2, <1>3, <1>4, <1>5, RungIs DEF SameRings
<1>7. Current' = pair'[n] /\ Current = pair[n]
  BY <1>2 DEF Current, n
<1> QED BY <1>4, <1>6, <1>7 DEF DoorsInStep

LEMMA ReleaseRings ==
  ASSUME AvbTypes, stride = 0, DoorsInStep(Current),
         NEW n \in Queues, n = QueueOf(op), NEW r, r = Released(n)
  PROVE  DoorsInStep(r[n])
<1> DEFINE ps == [pair EXCEPT ![n] = Consumed(@)]
<1>1. pair[n] \in Pairs /\ Current = pair[n]
  BY DEF AvbTypes, Current
<1>2. r = Rung(ps, Offset(n, 1, dstrd), ps[n].cqHead)
  BY DEF Released
<1>3. Consumed(pair[n]) \in Pairs
  BY <1>1, NextSlotIs DEF Consumed, Pairs
<1>4. ps \in [Queues -> Pairs] /\ ps[n] = Consumed(pair[n])
  BY <1>3 DEF AvbTypes
<1>5. /\ ps[n].sqDoorbell = pair[n].sqDoorbell /\ ps[n].sqTail = pair[n].sqTail
      /\ ps[n].cqHead \in Slots
  BY <1>1, <1>3, <1>4 DEF Consumed, Pairs
<1>6. Offset(n, 1, stride) = Offset(n, 1, dstrd) /\ Offset(n, 0, stride) # Offset(n, 1, dstrd)
  BY Offsets DEF AvbTypes
<1> HIDE DEF ps
<1>7. /\ r[n].cqDoorbell = ps[n].cqHead /\ r[n].sqDoorbell = ps[n].sqDoorbell
      /\ r[n].sqTail = ps[n].sqTail /\ r[n].cqHead = ps[n].cqHead
  BY <1>2, <1>4, <1>5, <1>6, RungIs DEF SameRings
<1> QED BY <1>1, <1>5, <1>7 DEF DoorsInStep

LEMMA DoorStep ==
  ASSUME AvbInv, DoorInv, [Next]_bootVars
  PROVE  DoorInv'
<1> USE DEF Goto, nvmeVars, avbVars, Ringing, Verifying
<1>1. stride' = stride
  BY DEF Next, BootThread, Controller, DisableController, ControllerDown, ResetTimeout,
         InitAdminQueue, EnableController, ControllerUp, EnableTimeout, Submit, SetupStep,
         NamespaceReady, IoQueueReady, SectorRead, CommandFailed, PollTimeout, Retry, Handover,
         ConfigRejected, ParseMisc, LoadVbmeta, CheckKey, CheckSignature, CheckRollback,
         ParseBoot, BuildCmdline, Rejected, ControllerStops, ControllerStarts, ControllerFault,
         ControllerCompletes, bootVars
<1> SUFFICES ASSUME stride = 0, pc' \in Ringing PROVE DoorsInStep(Current')
  BY <1>1 DEF DoorInv
<1>2. AvbTypes /\ QueueOf(op) \in Queues
  BY DEF AvbInv, QueueOf, Queues
<1>3. CASE UNCHANGED <<pair, op, pc>>
  BY <1>3 DEF Current, DoorInv
<1>4. CASE InitAdminQueue
  <2>1. pair'[0] = FreshPair(ZeroedSq, ZeroedCq) /\ QueueOf(op') = 0
    BY <1>4, <1>2 DEF InitAdminQueue, AvbTypes, Queues, AvbInv, StepInv, Setting, QueueOf, Reads
  <2> QED BY <2>1 DEF Current, DoorsInStep, FreshPair
<1>5. CASE EnableController \/ ControllerUp
  BY <1>5 DEF EnableController, ControllerUp, Current, DoorInv
<1>6. CASE Submit
  BY <1>6, <1>2, SubmitRings DEF Submit, DoorInv
<1>7. CASE SetupStep \/ NamespaceReady \/ SectorRead
  <2>1. /\ pc = "poll" /\ pair' = Released(QueueOf(op)) /\ QueueOf(op') = QueueOf(op)
    BY <1>7, OpFacts DEF SetupStep, NamespaceReady, SectorRead, TakeCompletion, QueueOf, Reads
  <2> QED BY <1>2, <2>1, ReleaseRings DEF Current, DoorInv
<1>8. CASE IoQueueReady
  <2>1. /\ QueueOf(op) = 0 /\ QueueOf(op') = 1 /\ pc = "poll"
        /\ pair' = [Released(0) EXCEPT ![1] = FreshPair(@.sq, @.cq)]
    BY <1>8 DEF IoQueueReady, TakeCompletion, QueueOf, Reads
  <2>2. pair'[1] = FreshPair(Released(0)[1].sq, Released(0)[1].cq)
    BY <2>1 DEF Released, Rung, Queues
  <2> QED BY <2>1, <2>2 DEF Current, DoorsInStep, FreshPair
<1>9. CASE Handover
  <2>1. pc = "handover" /\ pair' = pair /\ QueueOf(op) = 0 /\ QueueOf(op') = 0
    BY <1>9, HandoverKeeps DEF Handover, QueueOf, Reads, AvbInv, StepInv
  <2> QED BY <2>1 DEF Current, DoorInv
<1>10. CASE ParseMisc \/ LoadVbmeta \/ CheckKey \/ CheckSignature \/ CheckRollback
            \/ ParseBoot \/ BuildCmdline
  <2>1. pc \in Verifying /\ pair' = pair /\ op \in Reads /\ op' \in Reads
    BY <1>10 DEF ParseMisc, LoadVbmeta, CheckKey, CheckSignature, CheckRollback, ParseBoot,
                 BuildCmdline, AvbInv, StepInv, Reads
  <2> QED BY <2>1 DEF Current, DoorInv, QueueOf
<1>11. CASE \/ DisableController \/ ControllerDown \/ ResetTimeout \/ EnableTimeout
            \/ CommandFailed \/ PollTimeout \/ Retry \/ ConfigRejected \/ Rejected
  BY <1>11 DEF DisableController, ControllerDown, ResetTimeout, EnableTimeout, CommandFailed,
               PollTimeout, Retry, ConfigRejected, Rejected
<1>12. CASE ControllerStops \/ ControllerStarts \/ ControllerFault
  BY <1>3, <1>12 DEF ControllerStops, ControllerStarts, ControllerFault
<1>13. ASSUME NEW n \in Queues, ControllerCompletes(n)
       PROVE  DoorsInStep(Current')
  <2>1. PICK status \in {"ok", "error"}, result \in {0, 1} :
          pair' = [pair EXCEPT ![n] = Posted(@, status, result)]
    BY <1>13 DEF ControllerCompletes
  <2>2. op' = op /\ pc' = pc
    BY <1>13 DEF ControllerCompletes
  <2>3. pair[n] \in Pairs
    BY <1>2 DEF AvbTypes
  <2>4. LET q == Posted(pair[n], status, result)
        IN q.sqTail = pair[n].sqTail /\ q.cqHead = pair[n].cqHead
           /\ q.sqDoorbell = pair[n].sqDoorbell /\ q.cqDoorbell = pair[n].cqDoorbell
    BY <2>3 DEF Posted, Pairs
  <2>5. Current' \in {Current, Posted(pair[n], status, result)}
        /\ (Current' # Current => n = QueueOf(op))
    BY <1>2, <2>1, <2>2 DEF Current, AvbTypes
  <2> QED BY <2>2, <2>4, <2>5 DEF DoorInv, DoorsInStep, Current
<1>14. CASE UNCHANGED bootVars
  BY <1>3, <1>14 DEF bootVars
<1> QED BY <1>4, <1>5, <1>6, <1>7, <1>8, <1>9, <1>10, <1>11, <1>12, <1>13, <1>14
        DEF Next, BootThread, Controller

(* On a controller with a stride of 0 every doorbell write reaches the     *)
(* queue it means, through setup, hand-over and the wraps of both rings.   *)
THEOREM DoorbellsReachTheirQueue == Spec => [](stride = 0 => DoorbellsCurrent)
<1>1. Init => DoorInv
  BY DEF Init, DoorInv, Ringing, Verifying
<1>2. AvbInv /\ DoorInv /\ [Next]_bootVars => DoorInv'
  BY DoorStep
<1>3. DoorInv => (stride = 0 => DoorbellsCurrent)
  BY DEF DoorInv, DoorbellsCurrent, DoorsInStep, Ringing, Verifying, Current
<1> QED BY <1>1, <1>2, <1>3, AvbInvariance, PTL DEF Spec
==============================================================================
