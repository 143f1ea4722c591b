-------------------------------- MODULE Stage2 --------------------------------
(***************************************************************************)
(* Stage2Tables::map_range (memory.rs): a region is mapped block by block  *)
(* or page by page into a three-level table whose pages come from a bump   *)
(* allocator.  Every descriptor write is a step, and between two steps     *)
(* the table can be walked, as the hardware does once VM = 1.              *)
(*                                                                         *)
(* Addresses count 4 KiB pages.  A table page is named by the indices that *)
(* lead to it, because exactly one descriptor points to it.  Fanout is the *)
(* number of entries of a table, 512 in the code, and L1Entries the 1024   *)
(* entries of the concatenated root.                                       *)
(***************************************************************************)
EXTENDS Integers, FiniteSets

CONSTANTS
  Fanout,       \* entries of an L2 or L3 table
  L1Entries,    \* entries of the root
  LastIpa,      \* the largest IPA page a caller passes
  LastPa,       \* the largest PA page a caller passes
  PoolPages,    \* pages of the BumpAllocator behind the root
  Kinds,        \* MapKind
  Unmapped,     \* a descriptor whose bit 0 is clear
  Table,        \* a descriptor that points to a table
  MaxCalls      \* bound on the calls of map_range

ASSUME Stage2Assumption ==
  /\ Fanout \in Nat \ {0}
  /\ L1Entries \in Nat \ {0}
  /\ LastIpa \in Nat
  /\ LastPa \in Nat
  /\ PoolPages \in Nat
  /\ MaxCalls \in Nat
  /\ Table # Unmapped
  /\ \A p \in 0 .. LastPa + LastIpa, k \in Kinds :
       [pa |-> p, kind |-> k] \notin {Unmapped, Table}

Idx == 0 .. Fanout - 1
L1Idx == 0 .. L1Entries - 1
CoveredPages == L1Entries * (Fanout * Fanout)

(* The bit fields of an IPA: PUD_SHIFT masked to the root, PMD_SHIFT and   *)
(* PAGE_SHIFT.                                                             *)
I1(ipa) == ((ipa \div Fanout) \div Fanout) % L1Entries
I2(ipa) == (ipa \div Fanout) % Fanout
I3(ipa) == ipa % Fanout

Leaf(pa, kind) == [pa |-> pa, kind |-> kind]

VARIABLES
  l1,      \* the root entries that point to an L2 table
  l2,      \* L2 descriptors: Table, a block, or Unmapped
  l3,      \* L3 descriptors: a page or Unmapped
  free,    \* pages left in the allocator
  mapCall, \* the arguments of map_range
  done,    \* pages of the call mapped so far
  pc,      \* position in map_range
  result,  \* of the last call
  asked,   \* history: the (IPA page, leaf) pairs of all calls
  mapCalls \* history: calls made

stage2Vars == <<l1, l2, l3, free, mapCall, done, pc, result, asked, mapCalls>>

ipa == mapCall.ipa + done
pa == mapCall.pa + done
remaining == mapCall.size - done
Here == <<I1(ipa), I2(ipa)>>

Calls == [ipa : 0 .. LastIpa, pa : 0 .. LastPa, size : 1 .. LastIpa + 1, kind : Kinds]

(* What the region asks for.                                               *)
Wanted(c) == {<<c.ipa + n, Leaf(c.pa + n, c.kind)>> : n \in 0 .. c.size - 1}

(* The table walker: an input above the root's reach does not translate.   *)
Walk(i) ==
  LET here == <<I1(i), I2(i)>> IN
  IF i \notin 0 .. CoveredPages - 1 \/ I1(i) \notin l1 THEN Unmapped
  ELSE IF l2[here] = Table THEN l3[here][I3(i)]
  ELSE IF l2[here] = Unmapped THEN Unmapped
  ELSE Leaf(l2[here].pa + I3(i), l2[here].kind)

EmptyTable == [n \in Idx |-> Unmapped]

(* The allocator zeroes a page before it is linked; what the pages hold    *)
(* before is whatever the firmware left there.                             *)
MapInit ==
  /\ l1 = {}
  /\ \E x \in {Unmapped} \cup {Leaf(0, k) : k \in Kinds} :
       /\ l2 = [h \in L1Idx \X Idx |-> x]
       /\ l3 = [h \in L1Idx \X Idx |-> [n \in Idx |-> x]]
  /\ free = PoolPages
  /\ mapCall \in [ipa : {0}, pa : {0}, size : {1}, kind : Kinds]
  /\ done = 0
  /\ pc = "idle"
  /\ result = "Ok"
  /\ asked = {}
  /\ mapCalls = 0

Fail(e) ==
  /\ pc' = "idle"
  /\ result' = e

------------------------------------------------------------------------------
MapRange(c) ==
  /\ pc = "idle"
  /\ mapCalls < MaxCalls
  /\ mapCall' = c
  /\ done' = 0
  /\ pc' = "loop"
  /\ asked' = asked \cup Wanted(c)
  /\ mapCalls' = mapCalls + 1
  /\ UNCHANGED <<l1, l2, l3, free, result>>

(* while ipa < ipa_end; both branches begin with ensure_l2_table.          *)
Loop ==
  /\ pc = "loop"
  /\ pc' = IF remaining > 0 THEN "l2" ELSE "idle"
  /\ result' = IF remaining > 0 THEN result ELSE "Ok"
  /\ UNCHANGED <<l1, l2, l3, free, mapCall, done, asked, mapCalls>>

(* Mutant: the PA is not required to be block-aligned.                     *)
BlockByIpaOnly == ipa % Fanout = 0 /\ remaining >= Fanout

TakesBlock == ipa % Fanout = 0 /\ pa % Fanout = 0 /\ remaining >= Fanout

AfterL2 == IF TakesBlock THEN "block" ELSE "l3"

UseL2Table ==
  /\ pc = "l2"
  /\ I1(ipa) \in l1
  /\ pc' = AfterL2
  /\ UNCHANGED <<l1, l2, l3, free, mapCall, done, result, asked, mapCalls>>

(* Mutant: the page of the new table is not zeroed.                        *)
NewL2Dirty ==
  /\ pc = "l2"
  /\ I1(ipa) \notin l1
  /\ free > 0
  /\ l1' = l1 \cup {I1(ipa)}
  /\ free' = free - 1
  /\ pc' = AfterL2
  /\ UNCHANGED <<l2, l3, mapCall, done, result, asked, mapCalls>>

(* Mutant: an entry of the root is always taken for empty.                 *)
NewL2Always ==
  /\ pc = "l2"
  /\ free > 0
  /\ l1' = l1 \cup {I1(ipa)}
  /\ l2' = [h \in DOMAIN l2 |-> IF h[1] = I1(ipa) THEN Unmapped ELSE l2[h]]
  /\ free' = free - 1
  /\ pc' = AfterL2
  /\ UNCHANGED <<l3, mapCall, done, result, asked, mapCalls>>

(* ensure_l2_table                                                         *)
NewL2Table ==
  /\ pc = "l2"
  /\ I1(ipa) \notin l1
  /\ free > 0
  /\ l1' = l1 \cup {I1(ipa)}
  /\ l2' = [h \in DOMAIN l2 |-> IF h[1] = I1(ipa) THEN Unmapped ELSE l2[h]]
  /\ free' = free - 1
  /\ pc' = AfterL2
  /\ UNCHANGED <<l3, mapCall, done, result, asked, mapCalls>>

NoL2Table ==
  /\ pc = "l2"
  /\ I1(ipa) \notin l1
  /\ free = 0
  /\ Fail("OutOfMemory")
  /\ UNCHANGED <<l1, l2, l3, free, mapCall, done, asked, mapCalls>>

(* Mutant: an existing block is overwritten.                               *)
ReplaceBlock ==
  /\ pc = "block"
  /\ l2' = [l2 EXCEPT ![Here] = Leaf(pa - (pa % Fanout), mapCall.kind)]
  /\ done' = done + Fanout
  /\ pc' = "loop"
  /\ UNCHANGED <<l1, l3, free, mapCall, result, asked, mapCalls>>

(* map_l2_block                                                            *)
WriteBlock ==
  /\ pc = "block"
  /\ l2[Here] = Unmapped
  /\ l2' = [l2 EXCEPT ![Here] = Leaf(pa - (pa % Fanout), mapCall.kind)]
  /\ done' = done + Fanout
  /\ pc' = "loop"
  /\ UNCHANGED <<l1, l3, free, mapCall, result, asked, mapCalls>>

BlockTaken ==
  /\ pc = "block"
  /\ l2[Here] # Unmapped
  /\ Fail("AlreadyMapped")
  /\ UNCHANGED <<l1, l2, l3, free, mapCall, done, asked, mapCalls>>

(* ensure_l3_table                                                         *)
UseL3Table ==
  /\ pc = "l3"
  /\ l2[Here] = Table
  /\ pc' = "page"
  /\ UNCHANGED <<l1, l2, l3, free, mapCall, done, result, asked, mapCalls>>

NewL3Table ==
  /\ pc = "l3"
  /\ l2[Here] = Unmapped
  /\ free > 0
  /\ l3' = [l3 EXCEPT ![Here] = EmptyTable]
  /\ l2' = [l2 EXCEPT ![Here] = Table]
  /\ free' = free - 1
  /\ pc' = "page"
  /\ UNCHANGED <<l1, mapCall, done, result, asked, mapCalls>>

NoL3Table ==
  /\ pc = "l3"
  /\ l2[Here] = Unmapped
  /\ free = 0
  /\ Fail("OutOfMemory")
  /\ UNCHANGED <<l1, l2, l3, free, mapCall, done, asked, mapCalls>>

BlockInTheWay ==
  /\ pc = "l3"
  /\ l2[Here] \notin {Table, Unmapped}
  /\ Fail("AlreadyMapped")
  /\ UNCHANGED <<l1, l2, l3, free, mapCall, done, asked, mapCalls>>

(* map_l3_page                                                             *)
WritePage ==
  /\ pc = "page"
  /\ l3[Here][I3(ipa)] = Unmapped
  /\ l3' = [l3 EXCEPT ![Here][I3(ipa)] = Leaf(pa, mapCall.kind)]
  /\ done' = done + 1
  /\ pc' = "loop"
  /\ UNCHANGED <<l1, l2, free, mapCall, result, asked, mapCalls>>

PageTaken ==
  /\ pc = "page"
  /\ l3[Here][I3(ipa)] # Unmapped
  /\ Fail("AlreadyMapped")
  /\ UNCHANGED <<l1, l2, l3, free, mapCall, done, asked, mapCalls>>

------------------------------------------------------------------------------
EnsureL2Table == UseL2Table \/ NewL2Table \/ NoL2Table
MapL2Block == WriteBlock \/ BlockTaken
EnsureL3Table == UseL3Table \/ NewL3Table \/ NoL3Table \/ BlockInTheWay
MapL3Page == WritePage \/ PageTaken

Step == Loop \/ EnsureL2Table \/ MapL2Block \/ EnsureL3Table \/ MapL3Page

(* A region stays inside the IPAs the callers use.                         *)
Caller == \E c \in Calls : c.ipa + c.size - 1 <= LastIpa /\ MapRange(c)

MapNext == Caller \/ Step

MapSpec == MapInit /\ [][MapNext]_stage2Vars

------------------------------------------------------------------------------
Leaves == [pa : Nat, kind : Kinds]

MapTypes ==
  /\ l1 \subseteq L1Idx
  /\ l2 \in [L1Idx \X Idx -> {Table, Unmapped} \cup Leaves]
  /\ l3 \in [L1Idx \X Idx -> [Idx -> {Unmapped} \cup Leaves]]
  /\ free \in 0 .. PoolPages
  /\ mapCall \in [ipa : Nat, pa : Nat, size : Nat \ {0}, kind : Kinds]
  /\ done \in Nat
  /\ pc \in {"idle", "loop", "l2", "block", "l3", "page"}
  /\ result \in {"Ok", "AlreadyMapped", "OutOfMemory"}
  /\ mapCalls \in 0 .. MaxCalls

(* Nothing translates but what some call asked for, whatever the allocator *)
(* pages held before and wherever a call failed.                           *)
OnlyAsked == \A i \in 0 .. LastIpa : Walk(i) # Unmapped => <<i, Walk(i)>> \in asked

(* A call that returns Ok has mapped its whole region.                     *)
OkMeansMapped ==
  [][(pc = "loop" /\ pc' = "idle") =>
        \A n \in 0 .. mapCall.size - 1 :
           Walk(mapCall.ipa + n) = Leaf(mapCall.pa + n, mapCall.kind)]_stage2Vars

(* The allocator and the root account for every table.                     *)
PagesAccounted ==
  free + Cardinality(l1)
       + Cardinality({h \in L1Idx \X Idx : h[1] \in l1 /\ l2[h] = Table})
    = PoolPages

(* Every step of map_range extends the address space and changes none of   *)
(* the translations it already has.                                        *)
Ipas == 0 .. CoveredPages - 1
spaceView == [i \in Ipas |-> Walk(i)]
Abstract == INSTANCE AddressSpace WITH space <- spaceView,
              Offsets <- -LastIpa .. LastPa
ImplementsAddressSpace == Abstract!Spec
==============================================================================
