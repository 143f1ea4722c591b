--------------------------------- MODULE Vgic ---------------------------------
(***************************************************************************)
(* Forwarding of physical interrupts to the guest (gic.rs and              *)
(* aether_handle_irq).  An interrupt taken to EL2 is acknowledged, put     *)
(* into a free List Register with HW=1 and gets its priority dropped; the  *)
(* guest's own EOI then deactivates it in the Distributor.  When every     *)
(* List Register is occupied the interrupt is deactivated at once.         *)
(*                                                                         *)
(* The model is one core: List Registers are banked per core and the       *)
(* handler runs with interrupts masked.  The maintenance branch is absent  *)
(* because configure_el2_virt sets ICH_HCR_EL2.En alone, so a maintenance  *)
(* interrupt is never asserted.  Devices, Distributor and guest are        *)
(* external to the repository.                                             *)
(***************************************************************************)
EXTENDS Integers, FiniteSets

CONSTANTS
  Lines,           \* INTIDs routed to this core
  Level,           \* those of them that are level-sensitive
  MAX_LRS,         \* the most List Registers a GIC can have
  ICC_SPURIOUS_INTID,
  MaxRaises        \* bound on the requests of each device

Regs == 1 .. MAX_LRS

ASSUME VgicAssumption ==
  /\ Level \subseteq Lines
  /\ IsFiniteSet(Lines)
  /\ MAX_LRS \in Nat \ {0}
  /\ ICC_SPURIOUS_INTID \notin Lines
  /\ MaxRaises \in Nat

VARIABLES
  lrCount,  \* VGicState.lr_count, ICH_VTR_EL2.ListRegs + 1
  eoiMode,  \* ICC_CTLR_EL1.EOImode: 1 separates priority drop and deactivation
  raises,   \* requests each device has made
  wants,    \* a request the guest has not acknowledged yet
  pend,     \* Distributor: pending (the latch of an edge, the level of a line)
  active,   \* Distributor: active
  lr,       \* ICH_LRn_EL2: intid and state
  irqPc,    \* what the core executes
  cur       \* the INTID handle_physical_irq has read from ICC_IAR1_EL1

vgicVars == <<lrCount, eoiMode, raises, wants, pend, active, lr, irqPc, cur>>

States == {"invalid", "pending", "active"}
Pcs == {"guest", "iar", "inject", "eoi", "eoi_drop", "dir"}
El2Pcs == Pcs \ {"guest"}

Valid(k) == lr[k].state # "invalid"
Free == {k \in 1 .. lrCount : ~Valid(k)}
Signalled(i) == pend[i] /\ ~active[i]

(* VGicState::init reads how many List Registers there are; EOImode is     *)
(* what the firmware left, because no code of AETHER writes ICC_CTLR_EL1.  *)
ForwardInit ==
  /\ lrCount \in Regs
  /\ eoiMode \in {0, 1}
  /\ raises = [i \in Lines |-> 0]
  /\ wants = [i \in Lines |-> FALSE]
  /\ pend = [i \in Lines |-> FALSE]
  /\ active = [i \in Lines |-> FALSE]
  /\ lr \in {[k \in Regs |-> [intid |-> i, state |-> "invalid"]] : i \in Lines}
  /\ irqPc = "guest"
  /\ cur \in Lines

------------------------------------------------------------------------------
(* Devices.                                                                *)

Raise(i) ==
  /\ raises[i] < MaxRaises
  /\ raises' = [raises EXCEPT ![i] = @ + 1]
  /\ wants' = [wants EXCEPT ![i] = TRUE]
  /\ pend' = [pend EXCEPT ![i] = TRUE]
  /\ UNCHANGED <<lrCount, eoiMode, active, lr, irqPc, cur>>

(* A level-sensitive device withdraws its request.                         *)
Lower(i) ==
  /\ i \in Level
  /\ pend[i]
  /\ wants' = [wants EXCEPT ![i] = FALSE]
  /\ pend' = [pend EXCEPT ![i] = FALSE]
  /\ UNCHANGED <<lrCount, eoiMode, raises, active, lr, irqPc, cur>>

------------------------------------------------------------------------------
(* EL2: aether_handle_irq, handle_physical_irq.                            *)

(* HCR_EL2.IMO routes the interrupt to EL2 while the guest executes.       *)
TakeIrq ==
  /\ irqPc = "guest"
  /\ \E i \in Lines : Signalled(i)
  /\ irqPc' = "iar"
  /\ UNCHANGED <<lrCount, eoiMode, raises, wants, pend, active, lr, cur>>

(* iar1: pending to active.  The latch of an edge is consumed; a level     *)
(* stays.                                                                  *)
Acknowledge(i) ==
  /\ irqPc = "iar"
  /\ Signalled(i)
  /\ cur' = i
  /\ active' = [active EXCEPT ![i] = TRUE]
  /\ pend' = [pend EXCEPT ![i] = i \in Level]
  /\ irqPc' = "inject"
  /\ UNCHANGED <<lrCount, eoiMode, raises, wants, lr>>

(* iar1 = ICC_SPURIOUS_INTID: the level went away in between.              *)
Spurious ==
  /\ irqPc = "iar"
  /\ \A i \in Lines : ~Signalled(i)
  /\ irqPc' = "guest"
  /\ UNCHANGED <<lrCount, eoiMode, raises, wants, pend, active, lr, cur>>

(* Mutant: init takes ICH_VTR_EL2.ListRegs without the + 1.                *)
FreeShort == {k \in 1 .. lrCount - 1 : ~Valid(k)}

(* Mutant: a register that is still occupied counts as free.               *)
AnyLr == 1 .. lrCount

(* find_free_lr: the lowest register that ICH_ELRSR_EL2 reports empty.     *)
FindFreeLr == Free

(* inject_hw: vINTID = pINTID = the acknowledged INTID.                    *)
Inject ==
  /\ irqPc = "inject"
  /\ \E k \in FindFreeLr :
       /\ \A j \in FindFreeLr : k <= j
       /\ lr' = [lr EXCEPT ![k] = [intid |-> cur, state |-> "pending"]]
  /\ irqPc' = "eoi"
  /\ UNCHANGED <<lrCount, eoiMode, raises, wants, pend, active, cur>>

InjectFails ==
  /\ irqPc = "inject"
  /\ FindFreeLr = {}
  /\ irqPc' = "eoi_drop"
  /\ UNCHANGED <<lrCount, eoiMode, raises, wants, pend, active, lr, cur>>

(* Mutant: dir1 is called whether or not the interrupt was injected.       *)
AlwaysDeactivate ==
  /\ irqPc \in {"eoi", "eoi_drop"}
  /\ active' = [active EXCEPT ![cur] = @ /\ eoiMode = 1]
  /\ irqPc' = "dir"
  /\ UNCHANGED <<lrCount, eoiMode, raises, wants, pend, lr, cur>>

(* Mutant: dir1 is never called.                                           *)
NeverDeactivate ==
  /\ irqPc \in {"eoi", "eoi_drop"}
  /\ active' = [active EXCEPT ![cur] = @ /\ eoiMode = 1]
  /\ irqPc' = "guest"
  /\ UNCHANGED <<lrCount, eoiMode, raises, wants, pend, lr, cur>>

(* eoir1: with EOImode = 0 the write also deactivates.                     *)
EndOfInterrupt ==
  /\ irqPc \in {"eoi", "eoi_drop"}
  /\ active' = [active EXCEPT ![cur] = @ /\ eoiMode = 1]
  /\ irqPc' = IF irqPc = "eoi" THEN "guest" ELSE "dir"
  /\ UNCHANGED <<lrCount, eoiMode, raises, wants, pend, lr, cur>>

(* dir1, only if the injection failed.                                     *)
Deactivate ==
  /\ irqPc = "dir"
  /\ active' = [active EXCEPT ![cur] = FALSE]
  /\ irqPc' = "guest"
  /\ UNCHANGED <<lrCount, eoiMode, raises, wants, pend, lr, cur>>

------------------------------------------------------------------------------
(* The guest, through the virtual CPU interface.                           *)

(* ICV_IAR1_EL1, and the driver serves the device.                         *)
GuestAck(k) ==
  /\ irqPc = "guest"
  /\ lr[k].state = "pending"
  /\ lr' = [lr EXCEPT ![k].state = "active"]
  /\ wants' = [wants EXCEPT ![lr[k].intid] = FALSE]
  /\ pend' = [pend EXCEPT ![lr[k].intid] = @ /\ lr[k].intid \notin Level]
  /\ UNCHANGED <<lrCount, eoiMode, raises, active, irqPc, cur>>

(* ICV_EOIR1_EL1: with HW=1 the GIC deactivates the physical interrupt.    *)
GuestEoi(k) ==
  /\ irqPc = "guest"
  /\ lr[k].state = "active"
  /\ lr' = [lr EXCEPT ![k].state = "invalid"]
  /\ active' = [active EXCEPT ![lr[k].intid] = FALSE]
  /\ UNCHANGED <<lrCount, eoiMode, raises, wants, pend, irqPc, cur>>

------------------------------------------------------------------------------
Device == \E i \in Lines : Raise(i) \/ Lower(i)

HandlePhysicalIrq ==
  \/ TakeIrq
  \/ \E i \in Lines : Acknowledge(i)
  \/ Spurious
  \/ Inject
  \/ InjectFails
  \/ EndOfInterrupt
  \/ Deactivate

Guest == \E k \in Regs : GuestAck(k) \/ GuestEoi(k)

ForwardNext == Device \/ HandlePhysicalIrq \/ Guest

ForwardSpec == ForwardInit /\ [][ForwardNext]_vgicVars

(* EL2 code and a guest that unmasks its interrupts run on.                *)
ForwardFairness == WF_vgicVars(HandlePhysicalIrq) /\ WF_vgicVars(Guest)

------------------------------------------------------------------------------
ForwardTypes ==
  /\ lrCount \in Regs
  /\ eoiMode \in {0, 1}
  /\ raises \in [Lines -> 0 .. MaxRaises]
  /\ wants \in [Lines -> BOOLEAN]
  /\ pend \in [Lines -> BOOLEAN]
  /\ active \in [Lines -> BOOLEAN]
  /\ lr \in [Regs -> [intid : Lines, state : States]]
  /\ irqPc \in Pcs
  /\ cur \in Lines

Backed == \A k \in Regs : Valid(k) => active[lr[k].intid]

(* One INTID is never valid in two List Registers, which the architecture  *)
(* leaves unpredictable.                                                   *)
OneLrPerInterrupt ==
  \A j, k \in Regs : Valid(j) /\ Valid(k) /\ lr[j].intid = lr[k].intid => j = k

(* The contract of inject_hw: a List Register with HW=1 is backed by an    *)
(* active physical interrupt until the guest's EOI, and is the only one    *)
(* with its INTID.  It holds with EOImode = 1, where EL2 cannot            *)
(* acknowledge an INTID again while the guest still has it; EoiKeepsActive *)
(* shows how EOImode = 0 breaks it.                                        *)
BackedByActive == eoiMode = 1 => Backed /\ OneLrPerInterrupt

Held(i) == \E k \in Regs : Valid(k) /\ lr[k].intid = i

(* No interrupt stays active without somebody who will deactivate it, in   *)
(* either mode and also when the List Registers were full.                 *)
NoStuckActive ==
  \A i \in Lines : active[i] => Held(i) \/ (irqPc \in El2Pcs \ {"iar"} /\ cur = i)

Waits(i) ==
  \/ pend[i]
  \/ irqPc = "inject" /\ cur = i
  \/ \E k \in Regs : lr[k].state = "pending" /\ lr[k].intid = i

NoRoom == \A k \in 1 .. lrCount : Valid(k)

(* What makes EL2 drop a request.                                          *)
Dropped(i) ==
  /\ i \notin Level /\ cur = i /\ NoRoom
  /\ eoiMode = 1 => Cardinality(Lines) > lrCount

Kept == \A i \in Lines : Waits(i) /\ ~Waits(i)' => ~wants'[i] \/ Dropped(i)

(* In either mode and with however few List Registers, a request goes on   *)
(* waiting, in the Distributor, in EL2's hand or in a List Register, until *)
(* the guest acknowledges it or the device withdraws it.  Only one that is *)
(* edge-triggered and finds every List Register occupied is dropped, and   *)
(* with EOImode = 1 that takes more interrupts than registers; a level     *)
(* that finds no room stays pending and is taken again.                    *)
RequestsKept == [][Kept]_vgicVars

EnoughRegisters == eoiMode = 1 /\ Cardinality(Lines) <= lrCount

(* With EOImode = 1 and as many List Registers as interrupts, so that none *)
(* is dropped, every request reaches the guest.                            *)
RequestsServed == \A i \in Lines : (wants[i] /\ EnoughRegisters) ~> ~wants[i]

------------------------------------------------------------------------------
(* What a comment of the source says and the code does not do.             *)

(* "writing ICC_EOIR1_EL1 drops priority WITHOUT deactivating"             *)
EoiKeepsActive ==
  [][irqPc = "eoi" /\ irqPc' = "guest" => active'[cur]]_vgicVars
==============================================================================
