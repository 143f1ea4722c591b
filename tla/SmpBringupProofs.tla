--------------------------- MODULE SmpBringupProofs ---------------------------
(***************************************************************************)
(* Safety of the bring-up for any number of cores, any split between the   *)
(* two partitions and any number of spin-table slots.                      *)
(*                                                                         *)
(* SafeInv needs no assumption on the guest.  SerialInv, and with it the   *)
(* pairing of entry and context and the refinement of CoreStart, holds     *)
(* when the guest serialises its CPU_ON calls, as an SMP kernel does with  *)
(* its hotplug lock; TLC refutes the pairing without that assumption.      *)
(***************************************************************************)
EXTENDS SmpBringup, TLAPS

(* Who may be where: the primary never parks, nobody else boots.           *)
PcInv ==
  /\ corePc[Primary] \notin ParkPcs
  /\ \A c \in Secondaries : corePc[c] \notin BootPcs

(* What travels from a CPU_ON call to the slot and to the registers was    *)
(* issued inside the partition of the target.                              *)
OwnerInv ==
  /\ \A c \in Cores : corePc[c] \in HandlerPcs =>
       /\ SameGuest(c, psciCall[c].target)
       /\ psciCall[c].entry # Parked => psciCall[c].entry.by = c
  /\ \A c \in Cores : ep[c] # Parked => SameGuest(ep[c].by, c)
  /\ \A c \in Secondaries : corePc[c] = "loadctx" \/ InGuest(c) =>
       /\ reg[c].elr \in StartRequests
       /\ SameGuest(reg[c].elr.by, c)

(* The root is published before the first core is woken.                   *)
RootInv ==
  /\ corePc[Primary] \notin {"register", "publish"} => s2root = "root"
  /\ \A c \in Secondaries : corePc[c] # "off" => s2root = "root"
  /\ \A c \in Cores : corePc[c] \notin {"off", "init"} => vttbr[c] = "root"

SafeInv == SmpTypes /\ PcInv /\ OwnerInv /\ RootInv

USE DEF Primary

(* The constants give the primary core a number and the slots a range.     *)
LEMMA CoreFacts ==
  /\ Primary \in Cores
  /\ Secondaries \subseteq Cores
  /\ \A c \in Cores : c \notin Secondaries => c = Primary
  /\ Primary \notin Secondaries
  /\ Parked \in SlotWords
  /\ StartRequests \subseteq SlotWords
  /\ \A r \in SlotWords : r # Parked => r \in StartRequests
  /\ NotCalled \in [target : Cores, entry : SlotWords, context : SlotWords]
BY CoreAssumption, SMT DEF Cores, Secondaries, SlotWords, NotCalled

(* Every variable of the bring-up keeps its type (cpu.rs, smp.rs).         *)
THEOREM TypeCorrect == SmpSpec => []SmpTypes
<1>1. SmpInit => SmpTypes
  BY CoreFacts, CoreAssumption
  DEF SmpInit, SmpTypes, States, Pcs, BootPcs, ParkPcs, Secondaries
<1>2. SmpTypes /\ [SmpNext]_smpVars => SmpTypes'
  <2> SUFFICES ASSUME SmpTypes, [SmpNext]_smpVars PROVE SmpTypes'
    OBVIOUS
  <2> USE CoreFacts DEF SmpTypes, Goto
  <2>1. CASE RegisterCores
    BY <2>1 DEF RegisterCores, States, Pcs, BootPcs
  <2>2. CASE Publish
    BY <2>2 DEF Publish, Pcs, BootPcs
  <2>3. CASE WakeSecondary
    BY <2>3, CoreAssumption DEF WakeSecondary, Pcs, ParkPcs
  <2>4. CASE LaunchGuest
    BY <2>4 DEF LaunchGuest, Pcs
  <2>5. ASSUME NEW c \in Cores, Secondary(c) PROVE SmpTypes'
    <3>1. CASE ConfigureEl2(c) BY <3>1 DEF ConfigureEl2, Pcs, ParkPcs
    <3>2. CASE SetRunning(c) BY <3>2 DEF SetRunning, Pcs, ParkPcs, States
    <3>3. CASE LoadEntry(c) BY <3>3 DEF LoadEntry, Pcs, ParkPcs
    <3>4. CASE LoadContext(c) BY <3>4 DEF LoadContext, Pcs
    <3>5. CASE WaitForEvent(c) BY <3>5 DEF WaitForEvent, Pcs, ParkPcs
    <3> QED BY <2>5, <3>1, <3>2, <3>3, <3>4, <3>5 DEF Secondary
  <2>6. ASSUME NEW c \in Cores, Handler(c) PROVE SmpTypes'
    <3>1. CASE AcceptCpuOn(c)
      BY <3>1 DEF AcceptCpuOn, Pcs, HandlerPcs, States
    <3>2. CASE StoreContext(c) BY <3>2 DEF StoreContext, Pcs, HandlerPcs
    <3>3. CASE StoreEntry(c) BY <3>3 DEF StoreEntry, Pcs, HandlerPcs
    <3>4. CASE SendEvent(c) BY <3>4 DEF SendEvent, Pcs
    <3> QED BY <2>6, <3>1, <3>2, <3>3, <3>4 DEF Handler
  <2>7. ASSUME NEW c \in Cores, GuestCall(c) PROVE SmpTypes'
    <3>1. ASSUME NEW t \in 0 .. NumCores, NEW r \in StartRequests, NEW e \in SlotWords,
                 CpuOn(c, t, r, e)
          PROVE  SmpTypes'
      <4>1. t \in Cores BY <3>1 DEF CpuOn, CpuOnAnswer
      <4> QED BY <3>1, <4>1 DEF CpuOn, Pcs, HandlerPcs
    <3>2. CASE CpuOff(c) BY <3>2 DEF CpuOff, States
    <3>3. CASE SystemOff(c) BY <3>3 DEF SystemOff, Pcs
    <3> QED BY <2>7, <3>1, <3>2, <3>3 DEF GuestCall
  <2>8. CASE UNCHANGED smpVars
    BY <2>8 DEF smpVars
  <2> QED BY <2>1, <2>2, <2>3, <2>4, <2>5, <2>6, <2>7, <2>8 DEF SmpNext, BringUp
<1> QED BY <1>1, <1>2, PTL DEF SmpSpec

(* The boot of the primary and of each secondary keeps every core on the   *)
(* program points that are its own.                                        *)
LEMMA PcStep == SmpTypes /\ PcInv /\ [SmpNext]_smpVars => PcInv'
<1> SUFFICES ASSUME SmpTypes, PcInv, [SmpNext]_smpVars PROVE PcInv'
  OBVIOUS
<1> USE CoreFacts DEF SmpTypes, PcInv, Goto, BootPcs, ParkPcs, HandlerPcs
<1>1. CASE BringUp
  BY <1>1, CoreAssumption
  DEF BringUp, RegisterCores, Publish, WakeSecondary, LaunchGuest, Secondaries
<1>2. ASSUME NEW c \in Cores, Secondary(c) PROVE PcInv'
  BY <1>2 DEF Secondary, ConfigureEl2, SetRunning, LoadEntry, LoadContext,
              WaitForEvent
<1>3. ASSUME NEW c \in Cores, Handler(c) PROVE PcInv'
  BY <1>3 DEF Handler, AcceptCpuOn, StoreContext, StoreEntry, SendEvent
<1>4. ASSUME NEW c \in Cores, GuestCall(c) PROVE PcInv'
  BY <1>4 DEF GuestCall, CpuOn, CpuOff, SystemOff
<1>5. CASE UNCHANGED smpVars
  BY <1>5 DEF smpVars
<1> QED BY <1>1, <1>2, <1>3, <1>4, <1>5 DEF SmpNext

(* A CPU_ON that cpu_on accepts names a core of the caller's partition     *)
(* that the table holds for Off.                                           *)
LEMMA Accepted ==
  ASSUME NEW c, NEW t, CpuOnAnswer(c, t) = "SUCCESS"
  PROVE  t \in Cores /\ SameGuest(c, t) /\ table[t] \notin {"Running", "Pending"}
BY DEF CpuOnAnswer

(* Every step carries the caller of a CPU_ON unchanged from the registers  *)
(* of the call to the slot and from the slot to the core that starts.      *)
LEMMA OwnerStep == SmpTypes /\ PcInv /\ OwnerInv /\ [SmpNext]_smpVars => OwnerInv'
<1> SUFFICES ASSUME SmpTypes, PcInv, OwnerInv, [SmpNext]_smpVars PROVE OwnerInv'
  OBVIOUS
<1> USE CoreFacts
    DEF SmpTypes, PcInv, OwnerInv, Goto, InGuest, HandlerPcs, SameGuest, GuestOf
<1>1. CASE BringUp
  BY <1>1, CoreAssumption
  DEF BringUp, RegisterCores, Publish, WakeSecondary, LaunchGuest, Secondaries
<1>2. ASSUME NEW c \in Cores, Secondary(c) PROVE OwnerInv'
  <2>1. CASE ConfigureEl2(c) BY <2>1 DEF ConfigureEl2
  <2>2. CASE SetRunning(c) BY <2>2 DEF SetRunning
  <2>3. CASE LoadEntry(c) BY <2>3 DEF LoadEntry
  <2>4. CASE LoadContext(c) BY <2>4 DEF LoadContext
  <2>5. CASE WaitForEvent(c) BY <2>5 DEF WaitForEvent
  <2> QED BY <1>2, <2>1, <2>2, <2>3, <2>4, <2>5 DEF Secondary
<1>3. ASSUME NEW c \in Cores, Handler(c) PROVE OwnerInv'
  <2>1. CASE AcceptCpuOn(c) BY <2>1 DEF AcceptCpuOn
  <2>2. CASE StoreContext(c) BY <2>2 DEF StoreContext
  <2>3. CASE StoreEntry(c) BY <2>3 DEF StoreEntry
  <2>4. CASE SendEvent(c) BY <2>4 DEF SendEvent
  <2> QED BY <1>3, <2>1, <2>2, <2>3, <2>4 DEF Handler
<1>4. ASSUME NEW c \in Cores, GuestCall(c) PROVE OwnerInv'
  <2>1. ASSUME NEW t \in 0 .. NumCores, NEW r \in StartRequests, NEW e \in SlotWords,
               CpuOn(c, t, r, e)
        PROVE  OwnerInv'
    <3>1. t \in Cores /\ SameGuest(c, t)
      BY <2>1, Accepted DEF CpuOn
    <3> QED BY <2>1, <3>1 DEF CpuOn
  <2>2. CASE CpuOff(c) BY <2>2 DEF CpuOff
  <2>3. CASE SystemOff(c) BY <2>3 DEF SystemOff
  <2> QED BY <1>4, <2>1, <2>2, <2>3 DEF GuestCall
<1>5. CASE UNCHANGED smpVars
  BY <1>5 DEF smpVars
<1> QED BY <1>1, <1>2, <1>3, <1>4, <1>5 DEF SmpNext

(* A secondary that has left firmware finds the root already published.    *)
LEMMA RootStep == SmpTypes /\ PcInv /\ RootInv /\ [SmpNext]_smpVars => RootInv'
<1> SUFFICES ASSUME SmpTypes, PcInv, RootInv, [SmpNext]_smpVars PROVE RootInv'
  OBVIOUS
<1> USE CoreFacts DEF SmpTypes, PcInv, RootInv, Goto, BootPcs, ParkPcs, HandlerPcs
<1>1. CASE BringUp
  BY <1>1, CoreAssumption
  DEF BringUp, RegisterCores, Publish, WakeSecondary, LaunchGuest, Secondaries
<1>2. ASSUME NEW c \in Cores, Secondary(c) PROVE RootInv'
  BY <1>2 DEF Secondary, ConfigureEl2, SetRunning, LoadEntry, LoadContext,
              WaitForEvent
<1>3. ASSUME NEW c \in Cores, Handler(c) PROVE RootInv'
  BY <1>3 DEF Handler, AcceptCpuOn, StoreContext, StoreEntry, SendEvent
<1>4. ASSUME NEW c \in Cores, GuestCall(c) PROVE RootInv'
  BY <1>4 DEF GuestCall, CpuOn, CpuOff, SystemOff
<1>5. CASE UNCHANGED smpVars
  BY <1>5 DEF smpVars
<1> QED BY <1>1, <1>2, <1>3, <1>4, <1>5 DEF SmpNext

(* The initial state satisfies the invariant.                              *)
LEMMA SafeInit == SmpInit => SafeInv
BY CoreFacts, CoreAssumption
DEF SmpInit, SafeInv, SmpTypes, PcInv, OwnerInv, RootInv, InGuest, States, Pcs,
    BootPcs, ParkPcs, HandlerPcs, NotCalled, Secondaries

(* The strengthening holds in every reachable state.                       *)
THEOREM SafeInvariant == SmpSpec => []SafeInv
<1>1. SmpTypes /\ PcInv /\ OwnerInv /\ RootInv /\ [SmpNext]_smpVars
        => PcInv' /\ OwnerInv' /\ RootInv'
  BY PcStep, OwnerStep, RootStep
<1>2. SmpInit => PcInv /\ OwnerInv /\ RootInv
  BY SafeInit DEF SafeInv
<1> QED BY <1>1, <1>2, TypeCorrect, PTL DEF SmpSpec, SafeInv

(* cpu_on never lets one partition start a core of the other one.          *)
THEOREM PartitionsStartTheirOwnCores == SmpSpec => []NoCrossPartitionStart
<1>1. SafeInv => NoCrossPartitionStart
  BY DEF SafeInv, OwnerInv, NoCrossPartitionStart
<1> QED BY <1>1, SafeInvariant, PTL

(* Every core that executes guest code translates through Stage 2.         *)
THEOREM GuestsAreTranslated == SmpSpec => []GuestRunsUnderStage2
<1>1. SafeInv => GuestRunsUnderStage2
  BY DEF SafeInv, RootInv, GuestRunsUnderStage2, InGuest, HandlerPcs
<1> QED BY <1>1, SafeInvariant, PTL

------------------------------------------------------------------------------
(* The guest serialises CPU_ON.                                            *)

Waiting(i) == corePc[i] \in ParkPcs
Targets(c, i) == corePc[c] \in HandlerPcs /\ psciCall[c].target = i

(* One call at a time, and its words belong together.                      *)
OneCall ==
  /\ \A c, d \in Cores : corePc[c] \in HandlerPcs /\ corePc[d] \in HandlerPcs => c = d
  /\ \A c \in Cores : corePc[c] \in HandlerPcs =>
       /\ psciCall[c].context \in StartRequests
       /\ psciCall[c].entry \in {psciCall[c].context, Parked}

(* Nothing is armed before the primary launches the guest.                 *)
BootQuiet ==
  corePc[Primary] \in BootPcs =>
    /\ \A c \in Cores : ep[c] = Parked /\ corePc[c] \in BootPcs \cup ParkPcs
    /\ \A c \in Cores : corePc[c] # "loadctx"

(* An armed slot of a waiting core holds the two words of one call, and    *)
(* the table no longer lets another call through.                          *)
ArmedInv ==
  \A i \in Secondaries : Waiting(i) /\ ep[i] # Parked =>
    /\ ep[i] = ctx[i]
    /\ table[i] \in {"Pending", "Running"}

(* The call in flight for a waiting core finds its slot empty.             *)
FlightInv ==
  \A c \in Cores, i \in Secondaries : Waiting(i) /\ Targets(c, i) =>
    /\ corePc[c] \in {"on_write", "on_ctx", "on_ep"} => ep[i] = Parked
    /\ corePc[c] \in {"on_ctx", "on_ep"} => table[i] \in {"Pending", "Running"}
    /\ corePc[c] = "on_ep" => ctx[i] = psciCall[c].context

(* What a core has loaded is what its slot still holds.                    *)
LoadInv ==
  \A i \in Secondaries :
    /\ corePc[i] = "loadctx" => reg[i].elr = ep[i] /\ ep[i] # Parked
    /\ InGuest(i) => reg[i].elr = reg[i].x0

SerialInv == OneCall /\ BootQuiet /\ ArmedInv /\ FlightInv /\ LoadInv

(* The guest's lock around CPU_ON.                                         *)
LEMMA OneCallStep ==
  SerialisedCallers /\ SmpTypes /\ PcInv /\ OneCall /\ [SmpNext]_smpVars => OneCall'
<1> SUFFICES ASSUME SerialisedCallers, SmpTypes, PcInv, OneCall, [SmpNext]_smpVars
             PROVE  OneCall'
  OBVIOUS
<1> USE CoreFacts DEF SmpTypes, PcInv, OneCall, Goto, HandlerPcs
<1>1. CASE BringUp
  <2>1. CASE RegisterCores BY <2>1 DEF RegisterCores
  <2>2. CASE Publish BY <2>2 DEF Publish
  <2>3. CASE WakeSecondary BY <2>3 DEF WakeSecondary
  <2>4. CASE LaunchGuest BY <2>4 DEF LaunchGuest
  <2> QED BY <1>1, <2>1, <2>2, <2>3, <2>4 DEF BringUp
<1>2. ASSUME NEW c \in Cores, Secondary(c) PROVE OneCall'
  <2>1. CASE ConfigureEl2(c) BY <2>1 DEF ConfigureEl2
  <2>2. CASE SetRunning(c) BY <2>2 DEF SetRunning
  <2>3. CASE LoadEntry(c) BY <2>3 DEF LoadEntry
  <2>4. CASE LoadContext(c) BY <2>4 DEF LoadContext
  <2>5. CASE WaitForEvent(c) BY <2>5 DEF WaitForEvent
  <2> QED BY <1>2, <2>1, <2>2, <2>3, <2>4, <2>5 DEF Secondary
<1>3. ASSUME NEW c \in Cores, Handler(c) PROVE OneCall'
  <2>1. CASE AcceptCpuOn(c) BY <2>1 DEF AcceptCpuOn
  <2>2. CASE StoreContext(c) BY <2>2 DEF StoreContext
  <2>3. CASE StoreEntry(c) BY <2>3 DEF StoreEntry
  <2>4. CASE SendEvent(c) BY <2>4 DEF SendEvent
  <2> QED BY <1>3, <2>1, <2>2, <2>3, <2>4 DEF Handler
<1>4. ASSUME NEW c \in Cores, GuestCall(c) PROVE OneCall'
  <2>1. ASSUME NEW t \in 0 .. NumCores, NEW r \in StartRequests, NEW e \in SlotWords,
               CpuOn(c, t, r, e)
        PROVE  OneCall'
    <3>1. t \in Cores
      BY <2>1, Accepted DEF CpuOn
    <3> QED BY <2>1, <3>1 DEF CpuOn
  <2>2. CASE CpuOff(c) BY <2>2 DEF CpuOff
  <2>3. CASE SystemOff(c) BY <2>3 DEF SystemOff
  <2> QED BY <1>4, <2>1, <2>2, <2>3 DEF GuestCall
<1>5. CASE UNCHANGED smpVars
  BY <1>5 DEF smpVars
<1> QED BY <1>1, <1>2, <1>3, <1>4, <1>5 DEF SmpNext

(* No core runs guest code, and so none calls, before the launch.          *)
LEMMA BootQuietStep ==
  SmpTypes /\ PcInv /\ BootQuiet /\ [SmpNext]_smpVars => BootQuiet'
<1> SUFFICES ASSUME SmpTypes, PcInv, BootQuiet, [SmpNext]_smpVars PROVE BootQuiet'
  OBVIOUS
<1> USE CoreFacts
    DEF SmpTypes, PcInv, BootQuiet, Goto, HandlerPcs, BootPcs, ParkPcs
<1>1. CASE BringUp
  BY <1>1, CoreAssumption
  DEF BringUp, RegisterCores, Publish, WakeSecondary, LaunchGuest, Secondaries
<1>2. ASSUME NEW c \in Cores, Secondary(c) PROVE BootQuiet'
  <2>1. CASE ConfigureEl2(c) BY <2>1 DEF ConfigureEl2
  <2>2. CASE SetRunning(c) BY <2>2 DEF SetRunning
  <2>3. CASE LoadEntry(c) BY <2>3 DEF LoadEntry
  <2>4. CASE LoadContext(c) BY <2>4 DEF LoadContext
  <2>5. CASE WaitForEvent(c) BY <2>5 DEF WaitForEvent
  <2> QED BY <1>2, <2>1, <2>2, <2>3, <2>4, <2>5 DEF Secondary
<1>3. ASSUME NEW c \in Cores, Handler(c) PROVE BootQuiet'
  <2>1. corePc[Primary] \notin BootPcs
    BY <1>3 DEF Handler, AcceptCpuOn, StoreContext, StoreEntry, SendEvent
  <2>2. corePc'[Primary] \notin BootPcs
    BY <1>3, <2>1 DEF Handler, AcceptCpuOn, StoreContext, StoreEntry, SendEvent
  <2> QED BY <2>2
<1>4. ASSUME NEW c \in Cores, GuestCall(c) PROVE BootQuiet'
  <2>1. corePc[c] = "el1"
    BY <1>4 DEF GuestCall, CpuOn, CpuOff, SystemOff
  <2>2. corePc[Primary] \notin BootPcs
    BY <2>1
  <2>3. corePc'[Primary] \notin BootPcs
    BY <1>4, <2>2 DEF GuestCall, CpuOn, CpuOff, SystemOff
  <2> QED BY <2>3
<1>5. CASE UNCHANGED smpVars
  BY <1>5 DEF smpVars
<1> QED BY <1>1, <1>2, <1>3, <1>4, <1>5 DEF SmpNext

(* The slot of a waiting core is written by one call and read unchanged.   *)
LEMMA SlotStep ==
  SmpTypes /\ PcInv /\ SerialInv /\ [SmpNext]_smpVars
    => ArmedInv' /\ FlightInv' /\ LoadInv'
<1> SUFFICES ASSUME SmpTypes, PcInv, SerialInv, [SmpNext]_smpVars
             PROVE  ArmedInv' /\ FlightInv' /\ LoadInv'
  OBVIOUS
<1> DEFINE Goal == ArmedInv' /\ FlightInv' /\ LoadInv'
<1> USE CoreFacts
    DEF SmpTypes, PcInv, SerialInv, OneCall, BootQuiet, ArmedInv, FlightInv,
        LoadInv, Waiting, Targets, InGuest, Goto, HandlerPcs, BootPcs, ParkPcs
<1>1. CASE BringUp
  <2>1. CASE RegisterCores BY <2>1 DEF RegisterCores
  <2>2. CASE Publish BY <2>2 DEF Publish
  <2>3. CASE WakeSecondary
    BY <2>3, CoreAssumption DEF WakeSecondary, Secondaries
  <2>4. CASE LaunchGuest BY <2>4 DEF LaunchGuest
  <2> QED BY <1>1, <2>1, <2>2, <2>3, <2>4 DEF BringUp
<1>2. ASSUME NEW c \in Cores, Secondary(c) PROVE Goal
  <2>1. CASE ConfigureEl2(c) BY <2>1 DEF ConfigureEl2
  <2>2. CASE SetRunning(c) BY <2>2 DEF SetRunning
  <2>3. CASE LoadEntry(c) BY <2>3 DEF LoadEntry
  <2>4. CASE LoadContext(c) BY <2>4 DEF LoadContext
  <2>5. CASE WaitForEvent(c) BY <2>5 DEF WaitForEvent
  <2> QED BY <1>2, <2>1, <2>2, <2>3, <2>4, <2>5 DEF Secondary
<1>3. ASSUME NEW c \in Cores, Handler(c) PROVE Goal
  <2>1. CASE AcceptCpuOn(c) BY <2>1 DEF AcceptCpuOn
  <2>2. CASE StoreContext(c) BY <2>2 DEF StoreContext
  <2>3. CASE StoreEntry(c) BY <2>3 DEF StoreEntry
  <2>4. CASE SendEvent(c) BY <2>4 DEF SendEvent
  <2> QED BY <1>3, <2>1, <2>2, <2>3, <2>4 DEF Handler
<1>4. ASSUME NEW c \in Cores, GuestCall(c) PROVE Goal
  <2>1. ASSUME NEW t \in 0 .. NumCores, NEW r \in StartRequests, NEW e \in SlotWords,
               CpuOn(c, t, r, e)
        PROVE  Goal
    <3>1. t \in Cores /\ table[t] \notin {"Running", "Pending"}
      BY <2>1, Accepted DEF CpuOn
    <3> QED BY <2>1, <3>1 DEF CpuOn
  <2>2. CASE CpuOff(c) BY <2>2 DEF CpuOff
  <2>3. CASE SystemOff(c) BY <2>3 DEF SystemOff
  <2> QED BY <1>4, <2>1, <2>2, <2>3 DEF GuestCall
<1>5. CASE UNCHANGED smpVars
  BY <1>5 DEF smpVars
<1> QED BY <1>1, <1>2, <1>3, <1>4, <1>5 DEF SmpNext

(* The initial state satisfies the invariant.                              *)
LEMMA SerialInit == SmpInit => SerialInv
BY CoreFacts
DEF SmpInit, SerialInv, OneCall, BootQuiet, ArmedInv, FlightInv, LoadInv, Waiting,
    Targets, InGuest, BootPcs, ParkPcs, HandlerPcs, Secondaries

(* The strengthening holds in every state a serialising guest can reach.   *)
THEOREM SerialInvariant == SerialisedCallers /\ SmpSpec => [](SafeInv /\ SerialInv)
<1>1. ASSUME SerialisedCallers, SafeInv, SerialInv, [SmpNext]_smpVars
      PROVE  SerialInv'
  BY <1>1, OneCallStep, BootQuietStep, SlotStep DEF SafeInv, SerialInv
<1>2. CASE SerialisedCallers
  <2>1. SafeInv /\ SerialInv /\ [SmpNext]_smpVars => SerialInv'
    BY <1>1, <1>2
  <2> QED BY <2>1, SerialInit, SafeInvariant, PTL DEF SmpSpec
<1>3. CASE ~SerialisedCallers
  BY <1>3
<1> QED BY <1>2, <1>3

(* A secondary enters EL1 with the entry and the context of one CPU_ON     *)
(* call (the memory ordering protocol of smp.rs).                          *)
THEOREM PairedEntry == SerialisedCallers /\ SmpSpec => []EntryContextPaired
<1>1. SerialInv => EntryContextPaired
  BY DEF SerialInv, LoadInv, EntryContextPaired
<1> QED BY <1>1, SerialInvariant, PTL

(* The spin table implements CoreStart: one request of the same partition  *)
(* per core, recorded once, and the core starts with exactly that request. *)
THEOREM Refinement == SerialisedCallers /\ SmpSpec => ImplementsCoreStart
<1>1. SmpInit => Starting!Init
  BY CoreFacts
  DEF SmpInit, Starting!Init, Starting!Down, startView, InGuest, HandlerPcs
<1>2. SafeInv /\ SerialInv /\ SafeInv' /\ SerialInv' /\ [SmpNext]_smpVars
        => [Starting!Next]_startView
  <2> SUFFICES ASSUME SafeInv, SerialInv, SafeInv', SerialInv', [SmpNext]_smpVars
               PROVE  Starting!Next \/ UNCHANGED startView
    OBVIOUS
  <2> USE CoreFacts
      DEF SafeInv, SmpTypes, PcInv, SerialInv, InGuest, Goto, HandlerPcs
  <2>1. CASE BringUp
    <3>1. ep' = ep /\ reg' = reg
      BY <2>1 DEF BringUp, RegisterCores, Publish, WakeSecondary, LaunchGuest
    <3>2. SUFFICES ASSUME NEW i \in Secondaries PROVE InGuest(i) <=> InGuest(i)'
      BY <3>1 DEF startView
    <3>3. corePc[i] \in BootPcs \cup ParkPcs /\ i # Primary /\ i \in Cores
      BY <2>1 DEF BringUp, RegisterCores, Publish, WakeSecondary, LaunchGuest, BootQuiet,
                  BootPcs, PcInv
    <3>4. CASE RegisterCores \/ Publish \/ LaunchGuest
      BY <3>3, <3>4 DEF RegisterCores, Publish, LaunchGuest
    <3>5. CASE WakeSecondary
      BY <3>3, <3>5, CoreAssumption DEF WakeSecondary, BootPcs, ParkPcs
    <3> QED BY <2>1, <3>4, <3>5 DEF BringUp
  <2>2. ASSUME NEW c \in Cores, ConfigureEl2(c) \/ SetRunning(c) \/ LoadEntry(c)
                                 \/ WaitForEvent(c)
        PROVE  UNCHANGED startView
    <3>1. \A i \in Secondaries : (InGuest(i) <=> InGuest(i)') /\ ep'[i] = ep[i]
                                  /\ (InGuest(i) => reg'[i] = reg[i])
      BY <2>2 DEF ConfigureEl2, SetRunning, LoadEntry, WaitForEvent
    <3> QED BY <3>1 DEF startView
  <2>3. ASSUME NEW c \in Cores, LoadContext(c) PROVE Starting!Next
    <3>1. c \in Secondaries
      BY <2>3 DEF LoadContext, ParkPcs
    <3>2. /\ ep[c] # Parked /\ reg[c].elr = ep[c] /\ ep[c] \in StartRequests
          /\ reg'[c].elr = ep[c]
      BY <2>3, <3>1 DEF LoadContext, LoadInv
    <3>3. startView[c] = Starting!Requested(ep[c])
      BY <2>3, <3>1, <3>2 DEF LoadContext, startView, Starting!Requested
    <3>4. startView' = [startView EXCEPT ![c] = Starting!Up(ep[c])]
      BY <2>3, <3>1, <3>2 DEF LoadContext, startView, Starting!Up
    <3> QED BY <3>1, <3>2, <3>3, <3>4 DEF Starting!Next, Starting!Enter
  <2>4. ASSUME NEW c \in Cores, AcceptCpuOn(c) \/ StoreContext(c) \/ SendEvent(c)
        PROVE  UNCHANGED startView
    <3>1. \A i \in Secondaries : (InGuest(i) <=> InGuest(i)') /\ ep'[i] = ep[i]
                                  /\ reg'[i] = reg[i]
      BY <2>4 DEF AcceptCpuOn, StoreContext, SendEvent
    <3> QED BY <3>1 DEF startView
  <2>5. ASSUME NEW c \in Cores, StoreEntry(c)
        PROVE  Starting!Next \/ UNCHANGED startView
    <3> DEFINE i == psciCall[c].target
    <3>1. \A j \in Secondaries : (InGuest(j) <=> InGuest(j)') /\ reg'[j] = reg[j]
                                  /\ (j # i => ep'[j] = ep[j])
      BY <2>5 DEF StoreEntry
    <3>2. CASE i \in Secondaries /\ ~InGuest(i) /\ psciCall[c].entry # Parked
      <4>1. Waiting(i) /\ Targets(c, i)
        BY <2>5, <3>2 DEF StoreEntry, Waiting, Targets, Pcs, BootPcs
      <4>2. ep[i] = Parked
        BY <2>5, <3>2, <4>1 DEF StoreEntry, FlightInv
      <4>3. ep'[i] = psciCall[c].entry /\ psciCall[c].entry \in StartRequests
        BY <2>5, <3>2 DEF StoreEntry
      <4>4. SameGuest(psciCall[c].entry.by, i)
        BY <2>5, <3>2 DEF StoreEntry, OwnerInv
      <4>5. startView[i] = Starting!Down
        BY <3>2, <4>2 DEF startView, Starting!Down
      <4>6. startView' = [startView EXCEPT ![i] = Starting!Requested(psciCall[c].entry)]
        <5>1. ~InGuest(i)'
          BY <2>5, <3>2 DEF StoreEntry
        <5>2. ep'[i] # Parked
          BY <3>2, <4>3
        <5>3. startView'[i] = Starting!Requested(psciCall[c].entry)
          BY <2>5, <3>2, <4>3, <5>1, <5>2 DEF StoreEntry, startView, Starting!Requested
        <5>4. \A j \in Secondaries : j # i => startView'[j] = startView[j]
          BY <3>1 DEF startView
        <5> HIDE DEF i
        <5> QED BY <3>2, <5>3, <5>4 DEF startView
      <4> QED BY <3>2, <4>3, <4>4, <4>5, <4>6 DEF Starting!Next, Starting!Request
    <3>3. CASE i \notin Secondaries \/ InGuest(i)
      BY <3>1, <3>3 DEF startView
    <3>4. CASE i \in Secondaries /\ ~InGuest(i) /\ psciCall[c].entry = Parked
      <4>1. Waiting(i) /\ Targets(c, i)
        BY <2>5, <3>4 DEF StoreEntry, Waiting, Targets, Pcs, BootPcs
      <4>2. ep[i] = Parked /\ ep'[i] = Parked
        BY <2>5, <3>4, <4>1 DEF StoreEntry, FlightInv
      <4> QED BY <3>1, <4>2 DEF startView
    <3> QED BY <3>2, <3>3, <3>4
  <2>6. ASSUME NEW c \in Cores, GuestCall(c) PROVE UNCHANGED startView
    <3>1. \A i \in Secondaries : (InGuest(i) <=> InGuest(i)') /\ ep'[i] = ep[i]
                                  /\ reg'[i] = reg[i]
      BY <2>6 DEF GuestCall, CpuOn, CpuOff, SystemOff
    <3> QED BY <3>1 DEF startView
  <2>7. CASE UNCHANGED smpVars
    BY <2>7 DEF smpVars, startView
  <2> QED BY <2>1, <2>2, <2>3, <2>4, <2>5, <2>6, <2>7
          DEF SmpNext, Secondary, Handler
<1> QED BY <1>1, <1>2, SerialInvariant, PTL DEF SmpSpec, ImplementsCoreStart, Starting!Spec
===============================================================================
