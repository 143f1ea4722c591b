------------------------------ MODULE VgicProofs ------------------------------
(***************************************************************************)
(* Proofs about interrupt forwarding for any number of interrupts and of   *)
(* List Registers.  Everything rests on one fact: while EL2 holds an       *)
(* acknowledged INTID or a List Register holds it, the Distributor keeps   *)
(* it active, so it cannot be acknowledged again.                          *)
(***************************************************************************)
EXTENDS Vgic, FiniteSetTheorems, TLAPS

Holding == irqPc \in {"inject", "eoi_drop", "dir"}

(* EL2 is about to inject or drop an INTID that no List Register holds.    *)
CurInv == Holding => ~Held(cur)

(* ... and, unless it was dropped already, that INTID is active.           *)
CurActive == irqPc \in {"inject", "eoi", "eoi_drop"} => active[cur]

EoiInv == irqPc = "eoi" => Held(cur)

ModeInv ==
  eoiMode = 1 =>
    /\ Backed
    /\ OneLrPerInterrupt
    /\ CurInv
    /\ CurActive

(* A level that the guest has not served is pending in the Distributor,    *)
(* whatever EL2 does with it.                                              *)
LevelInv == \A i \in Level : wants[i] => pend[i]

VgicInv ==
  /\ ForwardTypes
  /\ EoiInv
  /\ NoStuckActive
  /\ ModeInv
  /\ LevelInv

LEMMA TypeStep == ForwardTypes /\ [ForwardNext]_vgicVars => ForwardTypes'
<1> SUFFICES ASSUME ForwardTypes, [ForwardNext]_vgicVars PROVE ForwardTypes'
  OBVIOUS
<1> USE VgicAssumption DEF ForwardTypes, Pcs, States
<1>1. ASSUME NEW i \in Lines, Raise(i) PROVE ForwardTypes'
  BY <1>1 DEF Raise
<1>2. ASSUME NEW i \in Lines, Lower(i) PROVE ForwardTypes'
  BY <1>2 DEF Lower
<1>3. CASE TakeIrq
  BY <1>3 DEF TakeIrq
<1>4. ASSUME NEW i \in Lines, Acknowledge(i) PROVE ForwardTypes'
  BY <1>4 DEF Acknowledge
<1>5. CASE Spurious
  BY <1>5 DEF Spurious
<1>6. CASE Inject
  <2>1. lr' \in [Regs -> [intid : Lines, state : States]]
    BY <1>6 DEF Inject, FindFreeLr, Free, Regs
  <2> QED BY <1>6, <2>1 DEF Inject
<1>7. CASE InjectFails
  BY <1>7 DEF InjectFails
<1>8. CASE EndOfInterrupt
  BY <1>8 DEF EndOfInterrupt
<1>9. CASE Deactivate
  BY <1>9 DEF Deactivate
<1>10. ASSUME NEW k \in Regs, GuestAck(k) PROVE ForwardTypes'
  BY <1>10 DEF GuestAck
<1>11. ASSUME NEW k \in Regs, GuestEoi(k) PROVE ForwardTypes'
  BY <1>11 DEF GuestEoi
<1>12. CASE UNCHANGED vgicVars
  BY <1>12 DEF vgicVars
<1> QED
  BY <1>1, <1>2, <1>3, <1>4, <1>5, <1>6, <1>7, <1>8, <1>9, <1>10, <1>11, <1>12
  DEF ForwardNext, Device, HandlePhysicalIrq, Guest

(* Type correctness of the model, for every value of the constants.        *)
THEOREM TypeCorrect == ForwardSpec => []ForwardTypes
<1>1. ForwardInit => ForwardTypes
  BY VgicAssumption DEF ForwardInit, ForwardTypes, Pcs, States
<1> QED BY <1>1, TypeStep, PTL DEF ForwardSpec

LEMMA VgicInit == ForwardInit => VgicInv
BY VgicAssumption
DEF ForwardInit, VgicInv, ModeInv, ForwardTypes, Pcs, States, Backed, OneLrPerInterrupt,
    CurInv, CurActive, EoiInv, NoStuckActive, LevelInv, Holding, Held, Valid

(* Every step preserves the invariant; what it says of EOImode = 1 is not  *)
(* needed for the owners of active interrupts.                             *)
LEMMA VgicStep ==
  ASSUME VgicInv, [ForwardNext]_vgicVars
  PROVE  VgicInv'
<1>0. ForwardTypes'
  BY TypeStep DEF VgicInv
<1>L. LevelInv'
  BY VgicAssumption
  DEF VgicInv, ForwardTypes, LevelInv, ForwardNext, Device, HandlePhysicalIrq, Guest, Raise,
      Lower, TakeIrq, Acknowledge, Spurious, Inject, InjectFails, EndOfInterrupt, Deactivate,
      GuestAck, GuestEoi, vgicVars
<1> USE <1>0, <1>L DEF VgicInv, ModeInv, ForwardTypes, Pcs, States, Backed,
             OneLrPerInterrupt, CurInv, CurActive, EoiInv, NoStuckActive, Holding, Held, Valid,
             El2Pcs
<1>1. ASSUME NEW i \in Lines, Raise(i) PROVE VgicInv'
  BY <1>1 DEF Raise
<1>2. ASSUME NEW i \in Lines, Lower(i) PROVE VgicInv'
  BY <1>2 DEF Lower
<1>3. CASE TakeIrq
  BY <1>3 DEF TakeIrq
<1>4. ASSUME NEW i \in Lines, Acknowledge(i) PROVE VgicInv'
  BY <1>4 DEF Acknowledge, Signalled
<1>5. CASE Spurious
  BY <1>5 DEF Spurious
<1>6. CASE Inject
  <2> PICK k \in Regs :
        /\ lr[k].state = "invalid"
        /\ lr' = [lr EXCEPT ![k] = [intid |-> cur, state |-> "pending"]]
    <3>1. PICK k \in Free : lr' = [lr EXCEPT ![k] = [intid |-> cur, state |-> "pending"]]
      BY <1>6 DEF Inject, FindFreeLr
    <3>2. k \in Regs /\ lr[k].state = "invalid"
      BY VgicAssumption DEF Free, Regs
    <3> QED BY <3>1, <3>2
  <2>1. irqPc = "inject" /\ irqPc' = "eoi" /\ cur' = cur /\ active' = active
    BY <1>6 DEF Inject
  <2>2. lr'[k] = [intid |-> cur, state |-> "pending"]
    OBVIOUS
  <2>3. \A j \in Regs : j # k => lr'[j] = lr[j]
    OBVIOUS
  <2>0. lrCount' = lrCount /\ eoiMode' = eoiMode
    BY <1>6 DEF Inject
  <2>4. ModeInv'
    BY <2>0, <2>1, <2>2, <2>3
  <2>6. EoiInv'
    BY <2>1, <2>2
  <2>7. NoStuckActive'
    BY <2>1, <2>2, <2>3
  <2> QED BY <2>1, <2>4, <2>6, <2>7
<1>7. CASE InjectFails
  BY <1>7 DEF InjectFails
<1>8. CASE EndOfInterrupt
  BY <1>8 DEF EndOfInterrupt
<1>9. CASE Deactivate
  BY <1>9 DEF Deactivate
<1>10. ASSUME NEW k \in Regs, GuestAck(k) PROVE VgicInv'
  <2>1. \A j \in Regs : lr'[j].intid = lr[j].intid
                         /\ (lr'[j].state = "invalid" <=> lr[j].state = "invalid")
    BY <1>10 DEF GuestAck
  <2>2. irqPc' = irqPc /\ cur' = cur /\ active' = active /\ eoiMode' = eoiMode
    BY <1>10 DEF GuestAck
  <2> QED BY <1>10, <2>1, <2>2 DEF GuestAck
<1>11. ASSUME NEW k \in Regs, GuestEoi(k) PROVE VgicInv'
  <2>1. lr'[k].state = "invalid" /\ \A j \in Regs : j # k => lr'[j] = lr[j]
    BY <1>11 DEF GuestEoi
  <2>2. irqPc = "guest" /\ irqPc' = irqPc /\ cur' = cur /\ eoiMode' = eoiMode
    BY <1>11 DEF GuestEoi
  <2>3. /\ ~active'[lr[k].intid]
        /\ \A i \in Lines : i # lr[k].intid => active'[i] = active[i]
    BY <1>11 DEF GuestEoi
  <2>4. ModeInv'
    BY <1>11, <2>1, <2>2, <2>3 DEF GuestEoi
  <2>6. NoStuckActive'
    <3> SUFFICES ASSUME NEW i \in Lines, active'[i] PROVE Held(i)'
      OBVIOUS
    <3>1. i # lr[k].intid /\ active[i]
      BY <2>3
    <3>2. PICK j \in Regs : Valid(j) /\ lr[j].intid = i
      BY <2>2, <3>1
    <3> QED BY <2>1, <3>1, <3>2
  <2> QED BY <2>2, <2>4, <2>6
<1>12. CASE UNCHANGED vgicVars
  BY <1>12 DEF vgicVars
<1> QED
  BY <1>1, <1>2, <1>3, <1>4, <1>5, <1>6, <1>7, <1>8, <1>9, <1>10, <1>11, <1>12
  DEF ForwardNext, Device, HandlePhysicalIrq, Guest

THEOREM Invariance == ForwardSpec => []VgicInv
<1>1. VgicInv /\ [ForwardNext]_vgicVars => VgicInv'
  BY VgicStep
<1> QED BY <1>1, VgicInit, PTL DEF ForwardSpec

(* With EOImode = 1 every valid List Register is backed by an active       *)
(* interrupt, the contract of inject_hw, and none has the same INTID as    *)
(* another.                                                                *)
THEOREM BackedRegisters == ForwardSpec => []BackedByActive
<1>1. VgicInv => BackedByActive
  BY DEF VgicInv, ModeInv, BackedByActive
<1> QED BY <1>1, Invariance, PTL

(* No interrupt is left active for ever, in either mode: the guest or EL2  *)
(* still has it in hand (the dir1 of handle_physical_irq).                 *)
THEOREM NothingStuck == ForwardSpec => []NoStuckActive
<1>1. VgicInv => NoStuckActive
  BY DEF VgicInv
<1> QED BY <1>1, Invariance, PTL

(* The pigeonhole: if every register is taken and none holds the INTID     *)
(* being injected, there are more interrupts than registers.               *)
LEMMA FullRegisters ==
  ASSUME VgicInv, eoiMode = 1, irqPc = "inject", FindFreeLr = {}
  PROVE  Cardinality(Lines) > lrCount
<1> DEFINE R == 1 .. lrCount
           f == [k \in R |-> lr[k].intid]
           Others == Lines \ {cur}
<1>0. lrCount \in Nat /\ R \subseteq Regs
  BY VgicAssumption DEF VgicInv, ForwardTypes, Regs
<1>1. IsFiniteSet(R) /\ Cardinality(R) = lrCount
  BY <1>0, FS_Interval
<1>2. cur \in Lines /\ IsFiniteSet(Lines)
  BY VgicAssumption DEF VgicInv, ForwardTypes
<1>3. IsFiniteSet(Others) /\ Cardinality(Others) = Cardinality(Lines) - 1
  BY <1>2, FS_RemoveElement
<1>4. \A k \in R : Valid(k)
  BY DEF FindFreeLr, Free
<1>5. \A k \in R : f[k] \in Others
  BY <1>0, <1>4 DEF VgicInv, ModeInv, ForwardTypes, CurInv, Holding, Held
<1>6. \A j, k \in R : f[j] = f[k] => j = k
  BY <1>0, <1>4 DEF VgicInv, ModeInv, OneLrPerInterrupt
<1>7. f \in Injection(R, Others)
  BY <1>5, <1>6 DEF Injection, IsInjective
<1> HIDE DEF f, R, Others
<1>8. Cardinality(R) <= Cardinality(Others)
  BY <1>3, <1>7, FS_Injection
<1>9. Cardinality(Lines) \in Nat
  BY <1>2, FS_CardinalityType
<1> QED BY <1>0, <1>1, <1>3, <1>8, <1>9

(* However many interrupts compete for however few List Registers, and in  *)
(* either EOI mode, handle_physical_irq loses no request but an            *)
(* edge-triggered one that finds every List Register occupied; with        *)
(* EOImode = 1 that takes more interrupts than registers.                  *)
THEOREM NothingElseDropped == ForwardSpec => RequestsKept
<1>1. ASSUME VgicInv, VgicInv', [ForwardNext]_vgicVars PROVE [Kept]_vgicVars
  <2> SUFFICES ASSUME NEW i \in Lines, Waits(i), ~Waits(i)', wants'[i] PROVE Dropped(i)
    BY DEF Kept
  <2>a. ForwardTypes /\ LevelInv /\ ForwardTypes' /\ LevelInv'
    BY <1>1 DEF VgicInv
  <2>b. i \notin Level
    BY <2>a DEF LevelInv, Waits
  <2>1. ASSUME NEW j \in Lines, Raise(j) PROVE FALSE
    BY <2>1, <2>a DEF Raise, Waits, ForwardTypes
  <2>2. ASSUME NEW j \in Lines, Lower(j) PROVE FALSE
    BY <2>2, <2>a, <2>b DEF Lower, Waits, ForwardTypes
  <2>3. ASSUME TakeIrq \/ Spurious \/ EndOfInterrupt \/ Deactivate PROVE FALSE
    BY <2>3, <2>a DEF TakeIrq, Spurious, EndOfInterrupt, Deactivate, Waits
  <2>4. ASSUME NEW j \in Lines, Acknowledge(j) PROVE FALSE
    BY <2>4, <2>a DEF Acknowledge, Waits, ForwardTypes
  <2>5. ASSUME Inject PROVE FALSE
    <3>1. PICK k \in Free : lr' = [lr EXCEPT ![k] = [intid |-> cur, state |-> "pending"]]
      BY <2>5 DEF Inject, FindFreeLr
    <3>2. k \in Regs /\ lr[k].state = "invalid"
      BY <2>a, VgicAssumption DEF ForwardTypes, Free, Regs, Valid
    <3>3. lr'[k] = [intid |-> cur, state |-> "pending"] /\ \A j \in Regs : j # k => lr'[j] = lr[j]
      BY <2>a, <3>1, <3>2 DEF ForwardTypes
    <3>4. UNCHANGED <<pend, cur>>
      BY <2>5 DEF Inject
    <3>5. CASE irqPc = "inject" /\ cur = i
      BY <3>2, <3>3, <3>5 DEF Waits
    <3>6. CASE pend[i]
      BY <3>4, <3>6 DEF Waits
    <3>7. CASE \E j \in Regs : lr[j].state = "pending" /\ lr[j].intid = i
      BY <3>2, <3>3, <3>7 DEF Waits
    <3> QED BY <3>5, <3>6, <3>7 DEF Waits
  <2>6. ASSUME InjectFails PROVE Dropped(i)
    <3>1. irqPc = "inject" /\ FindFreeLr = {} /\ cur = i
      BY <2>6 DEF InjectFails, Waits
    <3>2. NoRoom
      BY <3>1 DEF FindFreeLr, Free, NoRoom
    <3>3. eoiMode = 1 => Cardinality(Lines) > lrCount
      BY <1>1, <3>1, FullRegisters
    <3> QED BY <2>b, <3>1, <3>2, <3>3 DEF Dropped
  <2>7. ASSUME NEW k \in Regs, GuestAck(k) PROVE FALSE
    <3>1. lr[k].intid # i
      BY <2>7, <2>a DEF GuestAck, ForwardTypes
    <3> QED BY <2>7, <2>a, <3>1 DEF GuestAck, Waits, ForwardTypes
  <2>8. ASSUME NEW k \in Regs, GuestEoi(k) PROVE FALSE
    BY <2>8, <2>a DEF GuestEoi, Waits, ForwardTypes
  <2>9. ASSUME UNCHANGED vgicVars PROVE FALSE
    BY <2>9 DEF vgicVars, Waits
  <2> QED
    BY <1>1, <2>1, <2>2, <2>3, <2>4, <2>5, <2>6, <2>7, <2>8, <2>9
    DEF ForwardNext, Device, HandlePhysicalIrq, Guest
<1> QED BY <1>1, Invariance, PTL DEF ForwardSpec, RequestsKept
==============================================================================
