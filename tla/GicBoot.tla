-------------------------------- MODULE GicBoot --------------------------------
(***************************************************************************)
(* What the boot processor writes to the interrupt controller before the   *)
(* guest runs (gic.rs, irq_forward.rs and the end of arm64/virt.rs), as    *)
(* operators on one record.  HostBoot applies them in main's order; the    *)
(* forwarding that runs on top of them afterwards is Vgic.                 *)
(*                                                                         *)
(* Frame 0 is the Distributor and frame c the Redistributor of core c.     *)
(* Word w of a frame holds the bits of interrupts 32w .. 32w + 31; a       *)
(* Redistributor has word 0 alone.                                         *)
(***************************************************************************)
EXTENDS Integers

CONSTANTS
  BootCores,   \* SMP_CORE_COUNT: the Redistributors 1 .. BootCores are programmed
  ItLines      \* ITLinesNumber of GICD_TYPER

(* More than one core, and a Distributor with at least the word of the UART.*)
ASSUME GicBootAssumption == BootCores \in Nat \ {0, 1} /\ ItLines \in Nat \ {0}

TIMER_VIRT_INTID == 27
TIMER_PHYS_NS_INTID == 30
UART_SPI_INTID == 33

(* asked: ProcessorSleep was cleared; gaveUp: ChildrenAsleep was still set *)
(* when the bounded poll ended, and the boot went on.                      *)
NewGic ==
  [asked |-> {}, gaveUp |-> {}, group1 |-> {}, priority |-> {}, enabled |-> {},
   distributor |-> "firmware", sre |-> FALSE, interface |-> FALSE, virtual |-> FALSE,
   lr_count |-> 0, maint |-> 25]

wake_gicr(g, core, answers) ==
  [g EXCEPT !.asked = @ \cup {core}, !.group1 = @ \cup {<<core, 0>>},
            !.gaveUp = IF answers THEN @ ELSE @ \cup {core}]

(* The priority mask, the binary point and the group 1 enable are system   *)
(* registers, which ICC_SRE_EL2 turns on.                                  *)
enable_sre_el2(g) == [g EXCEPT !.sre = TRUE]
init_cpu_interface(g) == [g EXCEPT !.interface = g.sre]
init_icc(g) == init_cpu_interface(enable_sre_el2(g))

(* Off, every shared word in group 1 with a priority per interrupt, on.    *)
gicd_off(g) == [g EXCEPT !.distributor = "off"]
gicd_groups(g) ==
  [g EXCEPT !.group1 = @ \cup {<<0, w>> : w \in 1 .. ItLines},
            !.priority = 32 .. ((ItLines + 1) * 32 - 1)]
gicd_on(g) == [g EXCEPT !.distributor = "on"]

(* VGicState::init: the number of List Registers comes from ICH_VTR_EL2.   *)
vgic_init(g, registers, maint) == [g EXCEPT !.lr_count = registers, !.maint = maint]

enable_ppi_in_gicr(g, core, intid) == [g EXCEPT !.enabled = @ \cup {<<core, intid>>}]
enable_spi_in_gicd(g, intid) == [g EXCEPT !.enabled = @ \cup {<<0, intid>>}]
enable_timers(g, core) ==
  enable_ppi_in_gicr(enable_ppi_in_gicr(g, core, TIMER_VIRT_INTID), core, TIMER_PHYS_NS_INTID)

-------------------------------------------------------------------------------

InGroup1(g, i) == <<i[1], i[2] \div 32>> \in g.group1

(* An interrupt AETHER has enabled and the boot processor may be given.    *)
Deliverable(g) ==
  {i \in g.enabled : g.distributor = "on" /\ g.interface /\ i[1] \in {0, 1} /\ InGroup1(g, i)}
===============================================================================
