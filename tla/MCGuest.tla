-------------------------------- MODULE MCGuest ---------------------------------
(***************************************************************************)
(* What a running guest gets from the hypervisor, checked in one run: its  *)
(* interrupts (Vgic) and the answers to its hypercalls and AT commands     *)
(* (GuestIo).  The two share no state, so a behaviour moves one of them,   *)
(* its subject, and the other rests in one initial state.                  *)
(***************************************************************************)
EXTENDS Vgic, GuestIo

CONSTANT GuestSubjects

VARIABLE subject

guestVars == <<subject, vgicVars, guestIoVars>>

GuestInit ==
  /\ subject \in GuestSubjects
  /\ ForwardInit /\ GuestIoInit
  /\ subject # "interrupts" =>
       /\ lrCount = 1 /\ eoiMode = 0 /\ lr[1].intid = cur
       /\ cur = CHOOSE i \in Lines : TRUE
  /\ subject # "traps" => pv.operator = CHOOSE size \in OperatorSizes : TRUE

GuestNext ==
  /\ UNCHANGED subject
  /\ \/ subject = "interrupts" /\ ForwardNext /\ UNCHANGED guestIoVars
     \/ subject = "traps" /\ GuestIoNext /\ UNCHANGED vgicVars

(* ForwardFairness and GuestIoFairness of the subject.                     *)
GuestFairness ==
  /\ WF_vgicVars(subject = "interrupts" /\ HandlePhysicalIrq)
  /\ WF_vgicVars(subject = "interrupts" /\ Guest)
  /\ \A c \in GuestCores :
       /\ WF_guestIoVars(subject = "traps" /\ Handles(c))
       /\ SF_guestIoVars(subject = "traps" /\ guest_idles(c))
       /\ SF_guestIoVars(subject = "traps" /\ poll_command(c))
       /\ SF_guestIoVars(subject = "traps" /\ guest_woken(c))
  /\ SF_guestIoVars(subject = "traps" /\ ril_receive)

GuestSpec == GuestInit /\ [][GuestNext]_guestVars /\ GuestFairness
=================================================================================
