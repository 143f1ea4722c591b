------------------------------ MODULE LogMonitor ------------------------------
(***************************************************************************)
(* What the boot monitors of the hypervisor have in common.  A monitor is  *)
(* fed the lines of a guest's console one by one.  A line is the set of    *)
(* the signatures found in it; a monitor is a record with at least the     *)
(* fields phase, a name from its list of phases, and bits, the set of the  *)
(* gate's criteria that hold.                                              *)
(***************************************************************************)
EXTENDS Naturals, Sequences, FiniteSets

(* Where a phase stands in the list: the derived order of the Rust enum.   *)
Rank(phases, p) == CHOOSE i \in DOMAIN phases : phases[i] = p

Earlier(phases, p, q) == Rank(phases, p) < Rank(phases, q)

(* if self.phase < p { self.phase = p }                                    *)
Advance(phases, m, p) ==
  IF Earlier(phases, m.phase, p) THEN [m EXCEPT !.phase = p] ELSE m

(* Sets or clears a criterion of the gate.                                 *)
Grant(m, bit) == [m EXCEPT !.bits = @ \cup {bit}]
Revoke(m, bit) == [m EXCEPT !.bits = @ \ {bit}]

(* A monitor is a list of rules that a line passes in order.  A rule fires *)
(* on a signature, sets criteria, and may move the phase:                  *)
(*   Sees     leaves the phase alone;                                      *)
(*   Reports  advances it, and sets the criteria whether or not it moves;  *)
(*   First    does both only when the phase advances;                      *)
(*   Enters   sets it, wherever it was.                                    *)
Sees(sig, bits) == [on |-> sig, how |-> "see", to |-> "", bits |-> bits]
Reports(sig, p, bits) == [on |-> sig, how |-> "reach", to |-> p, bits |-> bits]
First(sig, p, bits) == [on |-> sig, how |-> "first", to |-> p, bits |-> bits]
Enters(sig, p, bits) == [on |-> sig, how |-> "enter", to |-> p, bits |-> bits]

(* Mutants: a rule fires wherever the phase is, and moves it back.         *)
FiredAnyway(phases, m, line, r) == r.on \in line
MovedAnyway(phases, m, r) == r.how \in {"enter", "first", "reach"}

Fired(phases, m, line, r) ==
  /\ r.on \in line
  /\ r.how = "first" => Earlier(phases, m.phase, r.to)

Moved(phases, m, r) ==
  \/ r.how = "enter"
  \/ r.how \in {"first", "reach"} /\ Earlier(phases, m.phase, r.to)

Applied(phases, m, line, r) ==
  IF ~ Fired(phases, m, line, r) THEN m
  ELSE [m EXCEPT !.bits = @ \cup r.bits,
                 !.phase = IF Moved(phases, m, r) THEN r.to ELSE @]

Processed(phases, rules, m, line) ==
  LET after[i \in 0 .. Len(rules)] ==
        IF i = 0 THEN m ELSE Applied(phases, after[i - 1], line, rules[i])
  IN after[Len(rules)]

(* The first member of a sequence of alternatives that is in a set.        *)
FirstIn(alternatives, set, none) ==
  LET hits == {i \in DOMAIN alternatives : alternatives[i] \in set} IN
  IF hits = {} THEN none
  ELSE alternatives[CHOOSE i \in hits : \A j \in hits : i <= j]

(* Lines with at most n of the signatures.                                 *)
LinesOf(signatures, n) == {l \in SUBSET signatures : Cardinality(l) <= n}
===============================================================================
