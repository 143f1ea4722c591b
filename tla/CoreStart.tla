------------------------------ MODULE CoreStart ------------------------------
(***************************************************************************)
(* What the two-level wake of smp.rs promises for the start of a secondary *)
(* core: one request of a core of the same partition is recorded for it,   *)
(* the record is not replaced before the core picks it up, and the core    *)
(* enters EL1 with exactly that record.  SmpBringup implements this        *)
(* specification when the guest issues its CPU_ON calls one at a time.     *)
(***************************************************************************)
CONSTANTS
  Secondaries,      \* the cores that start parked in the spin table
  Requests,         \* a set of [by : core, n : payload] records
  SameGuest(_, _)   \* SameGuest(c, d): one partition owns both cores

VARIABLE start      \* start[i]: how far the start of core i has got

Down == [phase |-> "down"]
Requested(r) == [phase |-> "requested", req |-> r]
Up(r) == [phase |-> "up", req |-> r]

Init == start = [i \in Secondaries |-> Down]

Request(i, r) ==
  /\ start[i] = Down
  /\ SameGuest(r.by, i)
  /\ start' = [start EXCEPT ![i] = Requested(r)]

Enter(i, r) ==
  /\ start[i] = Requested(r)
  /\ start' = [start EXCEPT ![i] = Up(r)]

Next == \E i \in Secondaries, r \in Requests : Request(i, r) \/ Enter(i, r)

Spec == Init /\ [][Next]_start
==============================================================================
