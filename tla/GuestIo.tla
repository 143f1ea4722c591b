-------------------------------- MODULE GuestIo --------------------------------
(***************************************************************************)
(* The guest's way into the hypervisor: traps, hypercalls and the modem    *)
(* port.  A core of the guest traps; the handler acts on what trapped it   *)
(* and the vectors return to the guest.  An idle core traps on WFI, and    *)
(* that is when the hypervisor looks at the page through which the radio   *)
(* interface of the guest sends AT commands.                               *)
(*                                                                         *)
(* The page has no lock: cores that idle at the same time poll it at the   *)
(* same time.                                                              *)
(*                                                                         *)
(* The radio interface (ril_send, ril_receive) is external: it writes one  *)
(* command, waits for its answer and takes it.                             *)
(***************************************************************************)
EXTENDS Naturals, Sequences

CONSTANTS
  GuestCores,    \* cores of the Android partition
  AtCommands,    \* AT commands the radio interface sends
  OperatorSizes, \* lengths of the operator's name
  MaxCommands,   \* bound on the commands sent
  Hypercalls     \* function identifiers in X0

ASSUME GuestIoAssumption ==
  MaxCommands \in Nat /\ OperatorSizes \subseteq Nat

VARIABLES
  vcpu,    \* per core: where it is, its next instruction, X0, the command read
  port,    \* the shared page: CMD_READY, command, RESP_READY, response
  ril,     \* the radio interface: state, command sent, answer taken
  pv,      \* ParavirtState: initialised, bridge mode, operator name
  overtaken \* history: the radio interface went on during some core's poll

guestIoVars == <<vcpu, port, ril, pv, overtaken>>

NoCommand == [n |-> 0, at |-> ""]
NoAnswer == [n |-> 0, text |-> ""]

(* ------------------------------- AT commands ------------------------------- *)

AT_RESP_SIZE == 128

(* What the answer carries before its OK, and how long the whole answer is.*)
AtTable == [
  AT |-> [text |-> "", size |-> 6], ATI |-> [text |-> "model", size |-> 75],
  CGMI |-> [text |-> "vendor", size |-> 36], CGMM |-> [text |-> "SM8550", size |-> 16],
  CGSN |-> [text |-> "imei", size |-> 25], CREG |-> [text |-> "registration", size |-> 20],
  CGREG |-> [text |-> "registration", size |-> 21], CSQ |-> [text |-> "rssi", size |-> 21],
  CPIN |-> [text |-> "no sim", size |-> 32], CMGF |-> [text |-> "", size |-> 6],
  COPS |-> [text |-> "operator", size |-> 24]]

AnswerSize(at) == AtTable[at].size + IF at = "COPS" THEN pv.operator ELSE 0

(* VirtualModem::process_command, and the ERROR that replaces an answer    *)
(* that does not fit; CIMI and everything unknown are errors too.          *)
process_command(at) ==
  IF at \in DOMAIN AtTable /\ AnswerSize(at) <= AT_RESP_SIZE
  THEN AtTable[at].text \o " OK" ELSE "ERROR"

(* -------------------------------- hypercalls -------------------------------- *)

AetherCalls == {"version", "accel", "gyro", "mag", "proximity", "sensor_other",
                "mode_get", "mode_set_model", "mode_set_phone", "mode_set_other",
                "update_stage", "diag_log"}

(* SENSOR_READ: in phone mode the samplers refuse, and the answer is that  *)
(* the call is not supported.  Proximity is always far.                    *)
handle_sensor_read(fn) ==
  IF /\ pv.on
     /\ \/ fn = "proximity"
        \/ fn \in {"accel", "gyro", "mag"} /\ pv.mode = "model"
  THEN "success" ELSE "not_supported"

handle_bridge_mode_get == IF pv.on THEN pv.mode ELSE "not_supported"

handle_bridge_mode_set(fn) ==
  CASE fn = "mode_set_other" -> "invalid"
    [] fn # "mode_set_other" /\ ~ pv.on -> "not_supported"
    [] OTHER -> "success"

dispatch_aether_hvc(fn) ==
  CASE fn = "version" -> "success"
    [] fn \in {"accel", "gyro", "mag", "proximity", "sensor_other"} -> handle_sensor_read(fn)
    [] fn = "mode_get" -> handle_bridge_mode_get
    [] fn \in {"mode_set_model", "mode_set_phone", "mode_set_other"} -> handle_bridge_mode_set(fn)
    [] OTHER -> "not_supported"

ModeAfter(fn) ==
  CASE fn = "mode_set_model" /\ pv.on -> "model"
    [] fn = "mode_set_phone" /\ pv.on -> "phone"
    [] OTHER -> pv.mode

(* The PSCI dispatcher, of which only the calls without effect are here.   *)
PsciAnswer(fn) == IF fn = "psci_version" THEN "1.1" ELSE "not_supported"

(* ---------------------------------- traps ---------------------------------- *)

(* ExceptionClass::from_esr and the handlers: the reason they return.      *)
ExitReason(insn) ==
  IF insn \in {"hvc", "smc", "wfi"} THEN "ReturnToGuest" ELSE "Halt"

(* The vectors restore the guest and ERET whatever the reason.  Only for   *)
(* an HVC does ELR_EL2 point past the instruction: anything else executes  *)
(* again, and traps again.                                                 *)
Resumed(insn, reason) == IF insn = "hvc" THEN "plain" ELSE insn

InGuest(c) == vcpu[c].at = "guest"
Stuck(c) == InGuest(c) /\ vcpu[c].insn \in {"smc", "abort"}

guest_runs(c) ==
  /\ InGuest(c) /\ vcpu[c].insn = "plain"
  /\ \E insn \in {"hvc", "smc", "abort"}, fn \in Hypercalls :
       vcpu' = [vcpu EXCEPT ![c].insn = insn, ![c].x0 = fn]
  /\ UNCHANGED <<port, ril, pv, overtaken>>

guest_idles(c) ==
  /\ InGuest(c) /\ vcpu[c].insn = "plain"
  /\ vcpu' = [vcpu EXCEPT ![c].insn = "wfi"]
  /\ UNCHANGED <<port, ril, pv, overtaken>>

(* aether_handle_irq has put an interrupt in a List Register: the idle     *)
(* guest takes it when it is resumed.                                      *)
guest_woken(c) ==
  /\ InGuest(c) /\ vcpu[c].insn = "wfi"
  /\ vcpu' = [vcpu EXCEPT ![c].insn = "plain"]
  /\ UNCHANGED <<port, ril, pv, overtaken>>

handle_hvc(c) ==
  /\ InGuest(c) /\ vcpu[c].insn = "hvc"
  /\ LET fn == vcpu[c].x0
         answer == IF fn \in AetherCalls THEN dispatch_aether_hvc(fn) ELSE PsciAnswer(fn)
     IN /\ vcpu' = [vcpu EXCEPT ![c].x0 = answer,
                                ![c].insn = Resumed("hvc", ExitReason("hvc"))]
        /\ pv' = [pv EXCEPT !.mode = ModeAfter(fn)]
  /\ UNCHANGED <<port, ril, overtaken>>

handle_smc(c) ==
  /\ InGuest(c) /\ vcpu[c].insn = "smc"
  /\ vcpu' = [vcpu EXCEPT ![c].x0 = PsciAnswer(@),
                          ![c].insn = Resumed("smc", ExitReason("smc"))]
  /\ UNCHANGED <<port, ril, pv, overtaken>>

handle_fault(c) ==
  /\ InGuest(c) /\ vcpu[c].insn = "abort"
  /\ vcpu' = [vcpu EXCEPT ![c].insn = Resumed("abort", ExitReason("abort"))]
  /\ UNCHANGED <<port, ril, pv, overtaken>>

(* --------------------- WFI: the hypervisor polls the port --------------------- *)

(* CMD_READY is read, and the command copied, before the flag is cleared.  *)
poll_command(c) ==
  /\ InGuest(c) /\ vcpu[c].insn = "wfi"
  /\ pv.on /\ port.cmdReady
  /\ vcpu' = [vcpu EXCEPT ![c].at = "read", ![c].cmd = port.cmd]
  /\ UNCHANGED <<port, ril, pv, overtaken>>

(* Mutant: CMD_READY is not cleared.                                       *)
LeftReady(c) ==
  /\ vcpu[c].at = "read"
  /\ vcpu' = IF vcpu[c].cmd.at = "" THEN [vcpu EXCEPT ![c].at = "guest", ![c].cmd = NoCommand]
             ELSE [vcpu EXCEPT ![c].at = "cleared"]
  /\ UNCHANGED <<port, ril, pv, overtaken>>

(* An empty command ends the poll here, without an answer.                 *)
clear_command(c) ==
  /\ vcpu[c].at = "read"
  /\ port' = [port EXCEPT !.cmdReady = FALSE]
  /\ vcpu' = IF vcpu[c].cmd.at = "" THEN [vcpu EXCEPT ![c].at = "guest", ![c].cmd = NoCommand]
             ELSE [vcpu EXCEPT ![c].at = "cleared"]
  /\ UNCHANGED <<ril, pv, overtaken>>

write_response(c) ==
  /\ vcpu[c].at = "cleared"
  /\ port' = [port EXCEPT !.resp = [n |-> vcpu[c].cmd.n, text |-> process_command(vcpu[c].cmd.at)]]
  /\ vcpu' = [vcpu EXCEPT ![c].at = "written"]
  /\ UNCHANGED <<ril, pv, overtaken>>

(* Mutant: an error is written but not announced.                          *)
ErrorUnannounced(c) ==
  /\ vcpu[c].at = "written"
  /\ port' = [port EXCEPT !.respReady = port.resp.text # "ERROR"]
  /\ vcpu' = [vcpu EXCEPT ![c].at = "guest", ![c].cmd = NoCommand]
  /\ UNCHANGED <<ril, pv, overtaken>>

response_ready(c) ==
  /\ vcpu[c].at = "written"
  /\ port' = [port EXCEPT !.respReady = TRUE]
  /\ vcpu' = [vcpu EXCEPT ![c].at = "guest", ![c].cmd = NoCommand]
  /\ UNCHANGED <<ril, pv, overtaken>>

(* ---------------------------- the radio interface ---------------------------- *)

(* A core that is still in a poll when the radio interface goes on will    *)
(* clear the flag of a later command, or answer one already answered.      *)
Overtakes == overtaken' = (overtaken \/ \E c \in GuestCores : ~ InGuest(c))

(* It runs on a core that executes the guest.                              *)
RilRuns == \E c \in GuestCores : InGuest(c) /\ vcpu[c].insn = "plain"

ril_send(at) ==
  /\ RilRuns /\ ril.state = "idle" /\ ril.cmd.n < MaxCommands
  /\ LET cmd == [n |-> ril.cmd.n + 1, at |-> at] IN
       /\ port' = [port EXCEPT !.cmd = cmd, !.cmdReady = TRUE]
       /\ ril' = [state |-> IF at = "" THEN "unanswered" ELSE "waiting", cmd |-> cmd, got |-> NoAnswer]
  /\ UNCHANGED <<vcpu, pv, overtaken>>

ril_receive ==
  /\ RilRuns /\ ril.state = "waiting" /\ port.respReady
  /\ port' = [port EXCEPT !.respReady = FALSE]
  /\ ril' = [ril EXCEPT !.state = "idle", !.got = port.resp]
  /\ Overtakes
  /\ UNCHANGED <<vcpu, pv>>

(* Nothing answers an empty command; the sender goes on once it was taken. *)
ril_continue ==
  /\ RilRuns /\ ril.state = "unanswered" /\ ~ port.cmdReady
  /\ ril' = [ril EXCEPT !.state = "idle"]
  /\ Overtakes
  /\ UNCHANGED <<vcpu, port, pv>>

(* ---------------------------------- steps ---------------------------------- *)

GuestIoOf(size) ==
  /\ vcpu = [c \in GuestCores |-> [at |-> "guest", insn |-> "plain", x0 |-> "", cmd |-> NoCommand]]
  /\ port = [cmdReady |-> FALSE, cmd |-> NoCommand, respReady |-> FALSE, resp |-> NoAnswer]
  /\ ril = [state |-> "idle", cmd |-> NoCommand, got |-> NoAnswer]
  /\ pv = [on |-> FALSE, mode |-> "model", operator |-> size]
  /\ overtaken = FALSE

GuestIoInit == \E size \in OperatorSizes : GuestIoOf(size)

(* init_virtual_sensors_and_modem stores the state; until then polls do    *)
(* nothing and calls are not supported.                                    *)
init_paravirt ==
  /\ ~ pv.on
  /\ pv' = [pv EXCEPT !.on = TRUE]
  /\ UNCHANGED <<vcpu, port, ril, overtaken>>

poll_modem_on_wfi(c) ==
  poll_command(c) \/ clear_command(c) \/ write_response(c) \/ response_ready(c)

GuestIoNext ==
  \/ init_paravirt
  \/ \E c \in GuestCores :
       \/ guest_runs(c) \/ guest_idles(c) \/ guest_woken(c)
       \/ handle_hvc(c) \/ handle_smc(c) \/ handle_fault(c)
       \/ poll_modem_on_wfi(c)
  \/ \E at \in AtCommands : ril_send(at)
  \/ ril_receive
  \/ ril_continue

GuestIoSpec == GuestIoInit /\ [][GuestIoNext]_guestIoVars

(* The hypervisor finishes what a trap started; an Android core that can   *)
(* idle does so again and again, is polled then, and is woken by the       *)
(* timer; the radio interface takes an answer.  Nothing makes              *)
(* init_paravirt happen: no code of the repository calls it.               *)
Handles(c) ==
  clear_command(c) \/ write_response(c) \/ response_ready(c) \/ handle_hvc(c)

GuestIoFairness ==
  /\ \A c \in GuestCores :
       /\ WF_guestIoVars(Handles(c))
       /\ SF_guestIoVars(guest_idles(c))
       /\ SF_guestIoVars(poll_command(c))
       /\ SF_guestIoVars(guest_woken(c))
  /\ SF_guestIoVars(ril_receive)

-------------------------------------------------------------------------------

(* The answer the radio interface takes is the modem's answer to the       *)
(* command it sent, whole and not an earlier one.  Any number of cores may *)
(* poll the same command and answer it twice; the answers go wrong only    *)
(* after the interface took one while another core was still in its poll:  *)
(* that core then clears CMD_READY of, or answers, a later command.        *)
AnswersOwnCommand ==
  ~ overtaken /\ ril.got # NoAnswer =>
    ril.got = [n |-> ril.cmd.n, text |-> process_command(ril.cmd.at)]

(* Once the modem is initialised every command that is not empty is        *)
(* answered, whichever cores poll for it, unless every core has taken a    *)
(* fault or an SMC, from which the vectors never let it go on, or the      *)
(* interface has overtaken a poll.                                         *)
ModemAnswers ==
  \A n \in 1 .. MaxCommands :
    pv.on /\ ril.state = "waiting" /\ ril.cmd.n = n ~>
      \/ ril.got.n = n
      \/ \A c \in GuestCores : Stuck(c)
      \/ overtaken
===============================================================================
