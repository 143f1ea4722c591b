-------------------------------- MODULE EventRing --------------------------------
(***************************************************************************)
(* The event ring of the xHCI controller's interrupter 0, from which the   *)
(* hypervisor takes keyboard reports (usb_passthrough.rs), and the test of *)
(* each report for the switch hot key (usb.rs).  The controller produces   *)
(* events (external); the poll consumes them.                              *)
(***************************************************************************)
EXTENDS Naturals, Sequences

CONSTANTS
  RingDepth,   \* EL2_EVENT_RING_DEPTH
  MaxEvents,   \* bound on the events produced
  HidReports   \* reports: the modifier bits and the keys that are down

ASSUME EventRingAssumption == RingDepth \in Nat \ {0, 1} /\ MaxEvents \in Nat

VARIABLES
  interrupter,  \* XhciInterrupterState: index of dequeue_pa, cycle_bit
  trb,          \* the ring: cycle bit and event of each slot
  xhc,          \* the controller: its enqueue index and cycle, ERDP, the bus started
  events,       \* history: the reports that completed successfully
  polled        \* history: what the polls returned, and whether each switched

ringVars == <<interrupter, trb, xhc, events, polled>>

Free == [kind |-> "none"]
Slots == 0 .. RingDepth - 1

(* ------------------------------- the hot key ------------------------------- *)

(* InputSwitchTrigger: both modifiers held and the action key among those  *)
(* down; a modifier that is not one of the eight usages never matches.     *)
DEFAULT == [modifier_a |-> "LeftCtrl", modifier_b |-> "LeftAlt", action_key |-> "Tab"]
ModifierUsages == {"LeftCtrl", "LeftShift", "LeftAlt", "LeftGui",
                   "RightCtrl", "RightShift", "RightAlt", "RightGui"}

matches_hid_report(trigger, report) ==
  /\ {trigger.modifier_a, trigger.modifier_b} \subseteq ModifierUsages \cap report.modifiers
  /\ trigger.action_key \in report.keys

process_hid_report(report) ==
  IF matches_hid_report(DEFAULT, report) THEN "Switch" ELSE "Forward"

(* --------------------------------- the ring --------------------------------- *)

(* Ring memory is zero: the first pass of the controller writes cycle one. *)
RingInit ==
  /\ trb = [s \in Slots |-> [cycle |-> 0, event |-> Free]]
  /\ interrupter = [deq |-> 0, cycle |-> 0]
  /\ xhc = [on |-> FALSE, enq |-> 0, cycle |-> 1, erdp |-> 0, n |-> 0]
  /\ events = << >>
  /\ polled = << >>

init_el2_event_ring ==
  /\ ~ xhc.on
  /\ interrupter' = [deq |-> 0, cycle |-> 1]
  /\ xhc' = [xhc EXCEPT !.on = TRUE, !.erdp = 0]
  /\ UNCHANGED <<trb, events, polled>>

(* Mutant: the cycle bit survives the wrap.                                *)
WrapsOnly(i) == [i EXCEPT !.deq = (@ + 1) % RingDepth]

(* XhciInterrupterState::advance.                                          *)
Advanced(i) ==
  IF i.deq + 1 >= RingDepth THEN [deq |-> 0, cycle |-> 1 - i.cycle]
  ELSE [i EXCEPT !.deq = @ + 1]

(* An event that is a transfer's but failed is skipped without telling the *)
(* controller; one that is not a transfer's is skipped and reported.       *)
Acknowledges(event) == event.kind \in {"report", "other"}

poll_event_ring ==
  /\ xhc.on /\ trb[interrupter.deq].cycle = interrupter.cycle
  /\ LET event == trb[interrupter.deq].event IN
       /\ interrupter' = Advanced(interrupter)
       /\ xhc' = IF Acknowledges(event) THEN [xhc EXCEPT !.erdp = interrupter'.deq] ELSE xhc
       /\ polled' = IF event.kind = "report"
                    THEN Append(polled, [report |-> event.report, action |-> process_hid_report(event.report)])
                    ELSE polled
  /\ UNCHANGED <<trb, events>>

(* The controller writes no event into the slot before its dequeue pointer.*)
RingFull == (xhc.enq + 1) % RingDepth = xhc.erdp

controller_event(event) ==
  /\ xhc.on /\ ~ RingFull /\ xhc.n < MaxEvents
  /\ trb' = [trb EXCEPT ![xhc.enq] = [cycle |-> xhc.cycle, event |-> event]]
  /\ xhc' = [xhc EXCEPT !.enq = (@ + 1) % RingDepth, !.n = @ + 1,
                        !.cycle = IF xhc.enq + 1 = RingDepth THEN 1 - @ ELSE @]
  /\ events' = IF event.kind = "report" THEN Append(events, event.report) ELSE events
  /\ UNCHANGED <<interrupter, polled>>

RingNext ==
  \/ init_el2_event_ring
  \/ poll_event_ring
  \/ \E r \in HidReports : controller_event([kind |-> "report", report |-> r])
  \/ \E k \in {"error", "other"} : controller_event([kind |-> k])

RingSpec == RingInit /\ [][RingNext]_ringVars

-------------------------------------------------------------------------------

(* The reports the ring still holds for a consumer at deq: as many slots   *)
(* as have the cycle bit of the pass the consumer is in when it is there.  *)
Pending(deq, cycle, ring) ==
  LET ahead[i \in 0 .. RingDepth] ==
        LET slot == ring[(deq + i) % RingDepth]
        IN IF i = RingDepth \/ slot.cycle # (IF deq + i < RingDepth THEN cycle ELSE 1 - cycle) THEN << >>
           ELSE (IF slot.event.kind = "report" THEN <<slot.event.report>> ELSE << >>) \o ahead[i + 1]
  IN ahead[0]

(* Every report the controller completed is returned by exactly one poll,  *)
(* in order: what was polled and what the ring still holds is all there    *)
(* was.                                                                    *)
ReportsInOrder ==
  LET taken == [i \in DOMAIN polled |-> polled[i].report]
  IN xhc.on => taken \o Pending(interrupter.deq, interrupter.cycle, trb) = events
===============================================================================
