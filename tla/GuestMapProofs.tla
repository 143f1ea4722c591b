---------------------------- MODULE GuestMapProofs ----------------------------
(***************************************************************************)
(* Proofs about what a guest finds: where its addresses lead (Stage2), the *)
(* tables its firmware hands over (AcpiTables) and the device tree its     *)
(* kernel reads (Dtb).                                                     *)
(*                                                                         *)
(* Stage 2: every table geometry, every size of the allocator and every    *)
(* sequence of calls whose regions the root covers.  One lemma carries all *)
(* of them: a step of map_range leaves each translation alone or creates   *)
(* it exactly as the current call asks.                                    *)
(*                                                                         *)
(* The tables: every configuration.  What the code writes is a sequence of *)
(* entries or of tokens, what the other side reads is a walk over it, and  *)
(* the argument follows the walk: where it stands after each step is the   *)
(* start of an entry, or the open nodes of the tree.                       *)
(***************************************************************************)
EXTENDS Stage2, AcpiTables, Dtb, LeastNumber, SequenceTheorems, FiniteSetTheorems, TLAPS

(* The callers stay below 1 TiB, the reach of the root.                    *)
Covered == LastIpa < CoveredPages

------------------------------------------------------------------------------
(* Arithmetic of the index fields.                                         *)

LEMMA ModRange == ASSUME NEW a \in Nat, NEW n \in Nat \ {0} PROVE a % n \in 0 .. n - 1
OBVIOUS

LEMMA DivNat == ASSUME NEW a \in Nat, NEW n \in Nat \ {0} PROVE a \div n \in Nat
OBVIOUS

LEMMA DivBelow ==
  ASSUME NEW a \in Nat, NEW n \in Nat \ {0}, NEW m \in Nat, a < m * n
  PROVE  a \div n < m
OBVIOUS

LEMMA ModBelow == ASSUME NEW a \in Nat, NEW n \in Nat \ {0}, a < n PROVE a % n = a
OBVIOUS

LEMMA DivModUnique ==
  ASSUME NEW a \in Nat, NEW b \in Nat, NEW n \in Nat \ {0},
         a \div n = b \div n, a % n = b % n
  PROVE  a = b
OBVIOUS

LEMMA BlockMember ==
  ASSUME NEW a \in Nat, NEW b \in Nat, NEW n \in Nat \ {0}, a \div n = b \div n, b % n = 0
  PROVE  a = b + (a % n)
OBVIOUS

LEMMA ModOfSum ==
  ASSUME NEW a \in Nat, NEW n \in Nat \ {0}, NEW k \in 0 .. n - 1, a % n = 0
  PROVE  (a + k) % n = k
OBVIOUS

LEMMA DivOfSum ==
  ASSUME NEW a \in Nat, NEW n \in Nat \ {0}, NEW k \in 0 .. n - 1, a % n = 0
  PROVE  (a + k) \div n = a \div n
OBVIOUS

LEMMA IndexTypes ==
  ASSUME NEW i \in Nat
  PROVE  I1(i) \in L1Idx /\ I2(i) \in Idx /\ I3(i) \in Idx
<1>1. i \div Fanout \in Nat
  BY DivNat, Stage2Assumption
<1>2. (i \div Fanout) \div Fanout \in Nat
  BY <1>1, DivNat, Stage2Assumption
<1> QED BY <1>1, <1>2, ModRange, Stage2Assumption DEF I1, I2, I3, L1Idx, Idx

LEMMA SameBlock ==
  ASSUME NEW a \in Ipas, NEW b \in Ipas, I1(a) = I1(b), I2(a) = I2(b)
  PROVE  a \div Fanout = b \div Fanout
<1> USE Stage2Assumption
<1>0. /\ a \in Nat /\ b \in Nat
      /\ a < (L1Entries * Fanout) * Fanout /\ b < (L1Entries * Fanout) * Fanout
      /\ L1Entries * Fanout \in Nat
  BY DEF Ipas, CoveredPages
<1>1. a \div Fanout \in Nat /\ b \div Fanout \in Nat
  BY <1>0, DivNat
<1>2. a \div Fanout < L1Entries * Fanout /\ b \div Fanout < L1Entries * Fanout
  BY <1>0, DivBelow
<1>3. /\ (a \div Fanout) \div Fanout < L1Entries
      /\ (b \div Fanout) \div Fanout < L1Entries
  BY <1>1, <1>2, DivBelow
<1>4. (a \div Fanout) \div Fanout = (b \div Fanout) \div Fanout
  BY <1>1, <1>3, ModBelow, DivNat DEF I1
<1> QED BY <1>1, <1>4, DivModUnique DEF I2

------------------------------------------------------------------------------
(* The strengthening: where map_range is, the tables above are in place    *)
(* and the call is one the callers make.                                   *)

CallInv ==
  /\ mapCall.ipa + mapCall.size - 1 <= LastIpa
  /\ mapCall.ipa <= LastIpa
  /\ mapCall.pa <= LastPa

AskedInv == pc # "idle" => Wanted(mapCall) \subseteq asked

ProgressInv ==
  /\ pc \in {"l2", "block", "l3", "page"} => done < mapCall.size
  /\ pc = "block" => TakesBlock

TableInv ==
  /\ pc \in {"block", "l3", "page"} => I1(ipa) \in l1
  /\ pc = "page" => l2[Here] = Table

MapInv == MapTypes /\ CallInv /\ AskedInv /\ ProgressInv /\ TableInv

LEMMA LeafFacts ==
  ASSUME NEW p \in 0 .. LastPa + LastIpa, NEW k \in Kinds
  PROVE  Leaf(p, k) \notin {Unmapped, Table} /\ Leaf(p, k) \in Leaves
BY Stage2Assumption DEF Leaf, Leaves

(* The page the call is about to map.                                      *)
LEMMA HereFacts ==
  ASSUME Covered, MapTypes, CallInv, ProgressInv, pc \in {"l2", "block", "l3", "page"}
  PROVE  /\ ipa \in Ipas /\ ipa \in Nat /\ pa \in 0 .. LastPa + LastIpa
         /\ I1(ipa) \in L1Idx /\ I2(ipa) \in Idx /\ I3(ipa) \in Idx
         /\ Here \in L1Idx \X Idx
<1>1. ipa \in 0 .. LastIpa /\ pa \in 0 .. LastPa + LastIpa
  BY Stage2Assumption DEF MapTypes, CallInv, ProgressInv, ipa, pa
<1>2. ipa \in Ipas /\ ipa \in Nat
  BY <1>1, Stage2Assumption DEF Covered, Ipas, CoveredPages
<1> QED BY <1>1, <1>2, IndexTypes DEF Here

LEMMA TypeInit == MapInit => MapTypes
BY Stage2Assumption DEF MapInit, MapTypes, Leaf, Leaves

LEMMA MapStarts == MapInit => MapInv
<1> SUFFICES ASSUME MapInit PROVE MapInv
  OBVIOUS
<1>1. MapTypes
  BY TypeInit
<1>2. CallInv
  BY Stage2Assumption DEF MapInit, CallInv
<1> QED BY <1>1, <1>2
        DEF MapInit, MapInv, AskedInv, ProgressInv, TableInv

------------------------------------------------------------------------------
LEMMA MapStep ==
  ASSUME Covered, MapInv, [MapNext]_stage2Vars
  PROVE  MapInv'
<1> USE Stage2Assumption DEF MapInv, MapTypes, CallInv, AskedInv, ProgressInv, TableInv,
        Fail, ipa, pa, remaining
<1>1. ASSUME NEW c \in Calls, c.ipa + c.size - 1 <= LastIpa, MapRange(c) PROVE MapInv'
  BY <1>1 DEF MapRange, Calls
<1>2. CASE Loop
  BY <1>2 DEF Loop
<1>3. CASE UseL2Table
  BY <1>3, HereFacts DEF UseL2Table, AfterL2, TakesBlock, Here
<1>4. CASE NewL2Table
  <2>1. l2' \in [L1Idx \X Idx -> {Table, Unmapped} \cup Leaves]
    BY <1>4 DEF NewL2Table
  <2>2. l1' \subseteq L1Idx /\ I1(ipa) \in l1'
    BY <1>4, HereFacts DEF NewL2Table
  <2> QED BY <1>4, <2>1, <2>2 DEF NewL2Table, AfterL2, TakesBlock
<1>5. CASE NoL2Table
  BY <1>5 DEF NoL2Table
<1>6. CASE WriteBlock
  <2>1. pa - (pa % Fanout) \in Nat
    <3>1. pa \in Nat
      OBVIOUS
    <3>2. pa % Fanout = 0
      BY <1>6 DEF WriteBlock, TakesBlock
    <3> QED BY <3>1, <3>2
  <2>2. l2' \in [L1Idx \X Idx -> {Table, Unmapped} \cup Leaves]
    BY <1>6, <2>1 DEF WriteBlock, Leaf, Leaves
  <2> QED BY <1>6, <2>2 DEF WriteBlock
<1>7. CASE BlockTaken
  BY <1>7 DEF BlockTaken
<1>8. CASE UseL3Table
  BY <1>8 DEF UseL3Table, Here
<1>9. CASE NewL3Table
  <2>1. l3' \in [L1Idx \X Idx -> [Idx -> {Unmapped} \cup Leaves]]
    BY <1>9 DEF NewL3Table, EmptyTable
  <2>2. l2' \in [L1Idx \X Idx -> {Table, Unmapped} \cup Leaves] /\ l2'[Here] = Table
    BY <1>9, HereFacts DEF NewL3Table
  <2>3. Here' = Here
    BY <1>9 DEF NewL3Table, Here
  <2> QED BY <1>9, <2>1, <2>2, <2>3 DEF NewL3Table
<1>10. CASE NoL3Table
  BY <1>10 DEF NoL3Table
<1>11. CASE BlockInTheWay
  BY <1>11 DEF BlockInTheWay
<1>12. CASE WritePage
  <2>1. Leaf(pa, mapCall.kind) \in Leaves
    BY <1>12 DEF Leaf, Leaves
  <2>2. l3' \in [L1Idx \X Idx -> [Idx -> {Unmapped} \cup Leaves]]
    BY <1>12, <2>1 DEF WritePage
  <2> QED BY <1>12, <2>2 DEF WritePage
<1>13. CASE PageTaken
  BY <1>13 DEF PageTaken
<1>14. CASE UNCHANGED stage2Vars
  BY <1>14 DEF stage2Vars, TakesBlock, Here
<1> QED
  BY <1>1, <1>2, <1>3, <1>4, <1>5, <1>6, <1>7, <1>8, <1>9, <1>10, <1>11, <1>12, <1>13, <1>14
  DEF MapNext, Caller, Step, EnsureL2Table, MapL2Block, EnsureL3Table, MapL3Page

THEOREM Invariance == Covered /\ MapSpec => []MapInv
<1>1. ASSUME Covered PROVE MapSpec => []MapInv
  <2>1. MapInv /\ [MapNext]_stage2Vars => MapInv'
    BY <1>1, MapStep
  <2> QED BY <2>1, MapStarts, PTL DEF MapSpec
<1> QED BY <1>1

(* Type correctness while the callers stay below the reach of the root.    *)
THEOREM TypeCorrect == Covered /\ MapSpec => []MapTypes
<1>1. MapInv => MapTypes
  BY DEF MapInv
<1> QED BY <1>1, Invariance, PTL
------------------------------------------------------------------------------
(* What a step does to the translation of one page.                        *)

Grown(i) ==
  /\ Walk(i) = Unmapped
  /\ i \in mapCall.ipa .. mapCall.ipa + mapCall.size - 1
  /\ Walk(i)' = Leaf(i + (mapCall.pa - mapCall.ipa), mapCall.kind)

LEMMA WalkStep ==
  ASSUME Covered, MapInv, [MapNext]_stage2Vars, NEW i \in Ipas
  PROVE  Walk(i)' = Walk(i) \/ Grown(i)
<1>0. i \in Nat /\ I1(i) \in L1Idx /\ I2(i) \in Idx /\ I3(i) \in Idx
      /\ <<I1(i), I2(i)>> \in L1Idx \X Idx /\ i \in 0 .. CoveredPages - 1
  BY IndexTypes, Stage2Assumption DEF Ipas, CoveredPages
<1>a. MapTypes /\ CallInv /\ ProgressInv /\ TableInv
  BY DEF MapInv
<1> DEFINE at == <<I1(i), I2(i)>>
<1>b. Walk(i) = IF I1(i) \notin l1 THEN Unmapped
                ELSE IF l2[at] = Table THEN l3[at][I3(i)]
                ELSE IF l2[at] = Unmapped THEN Unmapped
                ELSE Leaf(l2[at].pa + I3(i), l2[at].kind)
  BY <1>0 DEF Walk
<1>c. Walk(i)' = IF I1(i) \notin l1' THEN Unmapped
                 ELSE IF l2'[at] = Table THEN l3'[at][I3(i)]
                 ELSE IF l2'[at] = Unmapped THEN Unmapped
                 ELSE Leaf(l2'[at].pa + I3(i), l2'[at].kind)
  BY <1>0 DEF Walk
<1>1. CASE l1' = l1 /\ l2' = l2 /\ l3' = l3
  BY <1>1, <1>b, <1>c
<1>2. CASE NewL2Table
  <2>1. CASE I1(i) = I1(ipa)
    <3>1. l2'[at] = Unmapped
      BY <1>2, <1>0, <1>a, <2>1 DEF NewL2Table, MapTypes
    <3> QED BY <1>2, <1>b, <1>c, <2>1, <3>1, Stage2Assumption DEF NewL2Table
  <2>2. CASE I1(i) # I1(ipa)
    <3>1. l2'[at] = l2[at]
      BY <1>2, <1>0, <1>a, <2>2 DEF NewL2Table, MapTypes
    <3> QED BY <1>2, <1>b, <1>c, <2>2, <3>1 DEF NewL2Table
  <2> QED BY <2>1, <2>2
<1>3. CASE WriteBlock
  <2>0. Here \in L1Idx \X Idx /\ ipa \in Ipas /\ pa \in 0 .. LastPa + LastIpa
    BY <1>3, <1>a, HereFacts DEF WriteBlock
  <2>1. CASE at = Here
    <3>1. I1(i) = I1(ipa) /\ I2(i) = I2(ipa)
      BY <2>1 DEF Here
    <3>2. ipa % Fanout = 0 /\ pa % Fanout = 0 /\ remaining >= Fanout
      BY <1>3, <1>a DEF WriteBlock, ProgressInv, TakesBlock
    <3>3. i = ipa + I3(i)
      BY <1>0, <2>0, <3>1, <3>2, SameBlock, BlockMember, Stage2Assumption
      DEF I3, Ipas
    <3>4. l2'[at] = Leaf(pa, mapCall.kind)
      BY <1>3, <1>0, <1>a, <2>0, <2>1, <3>2 DEF WriteBlock, MapTypes
    <3>5. Leaf(pa, mapCall.kind) \notin {Unmapped, Table}
      BY <2>0, <1>a, LeafFacts DEF MapTypes
    <3>6. I1(i) \in l1 /\ l1' = l1 /\ l2[at] = Unmapped
      BY <1>3, <1>a, <2>1, <3>1 DEF WriteBlock, TableInv
    <3>7. Walk(i) = Unmapped
      BY <1>b, <3>6, Stage2Assumption
    <3>8. Walk(i)' = Leaf(pa + I3(i), mapCall.kind)
      BY <1>c, <3>4, <3>5, <3>6 DEF Leaf
    <3>9. pa + I3(i) = i + (mapCall.pa - mapCall.ipa)
      BY <1>0, <1>a, <3>3 DEF ipa, pa, MapTypes, Idx
    <3>10. i \in mapCall.ipa .. mapCall.ipa + mapCall.size - 1
      <4>1. mapCall.ipa \in Nat /\ mapCall.size \in Nat /\ done \in Nat
        BY <1>a DEF MapTypes
      <4>2. I3(i) \in Nat /\ I3(i) < Fanout
        BY <1>0, Stage2Assumption DEF Idx
      <4>3. i = (mapCall.ipa + done) + I3(i) /\ mapCall.size - done >= Fanout
        BY <3>2, <3>3 DEF ipa, remaining
      <4> QED BY <4>1, <4>2, <4>3, Stage2Assumption
    <3> QED BY <3>7, <3>8, <3>9, <3>10 DEF Grown
  <2>2. CASE at # Here
    <3>1. l2'[at] = l2[at]
      BY <1>3, <1>0, <1>a, <2>0, <2>2 DEF WriteBlock, MapTypes
    <3> QED BY <1>3, <1>b, <1>c, <3>1 DEF WriteBlock
  <2> QED BY <2>1, <2>2
<1>4. CASE NewL3Table
  <2>0. Here \in L1Idx \X Idx
    BY <1>4, <1>a, HereFacts DEF NewL3Table
  <2>1. CASE at = Here
    <3>1. l2'[at] = Table /\ l3'[at] = EmptyTable /\ l2[at] = Unmapped /\ l1' = l1
      BY <1>4, <1>0, <1>a, <2>0, <2>1 DEF NewL3Table, MapTypes
    <3>2. l3'[at][I3(i)] = Unmapped
      BY <1>0, <3>1 DEF EmptyTable
    <3> QED BY <1>b, <1>c, <3>1, <3>2, Stage2Assumption
  <2>2. CASE at # Here
    <3>1. l2'[at] = l2[at] /\ l3'[at] = l3[at] /\ l1' = l1
      BY <1>4, <1>0, <1>a, <2>0, <2>2 DEF NewL3Table, MapTypes
    <3> QED BY <1>b, <1>c, <3>1
  <2> QED BY <2>1, <2>2
<1>5. CASE WritePage
  <2>0. /\ Here \in L1Idx \X Idx /\ I3(ipa) \in Idx /\ ipa \in Ipas
        /\ pa \in 0 .. LastPa + LastIpa
    BY <1>5, <1>a, HereFacts DEF WritePage
  <2>u. l1' = l1 /\ l2' = l2
    BY <1>5 DEF WritePage
  <2>1. CASE at = Here /\ I3(i) = I3(ipa)
    <3>1. I1(i) = I1(ipa) /\ I2(i) = I2(ipa)
      BY <2>1 DEF Here
    <3>2. i = ipa
      <4>1. i \div Fanout = ipa \div Fanout
        BY <2>0, <3>1, SameBlock
      <4>2. i % Fanout = ipa % Fanout
        BY <2>1 DEF I3
      <4>3. ipa \in Nat
        BY <2>0 DEF Ipas
      <4> QED BY <1>0, <4>1, <4>2, <4>3, DivModUnique, Stage2Assumption
    <3>3. l3'[at][I3(i)] = Leaf(pa, mapCall.kind)
      BY <1>5, <1>0, <1>a, <2>0, <2>1 DEF WritePage, MapTypes
    <3>4. I1(i) \in l1 /\ l2[at] = Table /\ l3[at][I3(i)] = Unmapped
      BY <1>5, <1>a, <2>1, <3>1 DEF WritePage, TableInv
    <3>5. Walk(i) = Unmapped /\ Walk(i)' = Leaf(pa, mapCall.kind)
      BY <1>b, <1>c, <2>u, <3>3, <3>4
    <3>6. pa = i + (mapCall.pa - mapCall.ipa) /\ i \in mapCall.ipa .. mapCall.ipa + mapCall.size - 1
      BY <1>5, <1>a, <3>2 DEF ipa, pa, MapTypes, ProgressInv, WritePage
    <3> QED BY <3>5, <3>6 DEF Grown
  <2>2. CASE ~(at = Here /\ I3(i) = I3(ipa))
    <3>1. l3'[at][I3(i)] = l3[at][I3(i)]
      BY <1>5, <1>0, <1>a, <2>0, <2>2 DEF WritePage, MapTypes
    <3> QED BY <1>b, <1>c, <2>u, <3>1
  <2> QED BY <2>1, <2>2
<1> QED
  BY <1>1, <1>2, <1>3, <1>4, <1>5
  DEF MapNext, Caller, Step, EnsureL2Table, MapL2Block, EnsureL3Table, MapL3Page, MapRange,
      Loop, UseL2Table, NoL2Table, BlockTaken, UseL3Table, NoL3Table, BlockInTheWay,
      PageTaken, stage2Vars

------------------------------------------------------------------------------
(* Whatever the allocator's pages held and wherever a call fails, a page   *)
(* translates only if some call asked for exactly that (map_range).        *)
THEOREM NothingUnasked == Covered /\ MapSpec => []OnlyAsked
<1>1. MapInit => OnlyAsked
  BY Stage2Assumption DEF MapInit, OnlyAsked, Walk
<1>2. ASSUME Covered, MapInv, OnlyAsked, [MapNext]_stage2Vars PROVE OnlyAsked'
  <2> SUFFICES ASSUME NEW i \in 0 .. LastIpa, Walk(i)' # Unmapped
               PROVE  <<i, Walk(i)'>> \in asked'
    BY DEF OnlyAsked
  <2>1. i \in Ipas
    BY <1>2, Stage2Assumption DEF Covered, Ipas, CoveredPages
  <2>2. asked \subseteq asked'
    BY <1>2
    DEF MapNext, Caller, Step, EnsureL2Table, MapL2Block, EnsureL3Table, MapL3Page, MapRange,
        Loop, UseL2Table, NewL2Table, NoL2Table, WriteBlock, BlockTaken, UseL3Table,
        NewL3Table, NoL3Table, BlockInTheWay, WritePage, PageTaken, stage2Vars
  <2>3. CASE Walk(i)' = Walk(i)
    BY <1>2, <2>2, <2>3 DEF OnlyAsked
  <2>4. CASE Grown(i) /\ Walk(i)' # Walk(i)
    <3>1. pc # "idle"
      BY <1>2, <2>4
      DEF MapNext, Caller, Step, EnsureL2Table, MapL2Block, EnsureL3Table, MapL3Page, MapRange,
          Loop, UseL2Table, NewL2Table, NoL2Table, WriteBlock, BlockTaken, UseL3Table,
          NewL3Table, NoL3Table, BlockInTheWay, WritePage, PageTaken, stage2Vars, Walk
    <3>2. Wanted(mapCall) \subseteq asked
      BY <1>2, <3>1 DEF MapInv, AskedInv
    <3> DEFINE n == i - mapCall.ipa
    <3>3. n \in 0 .. mapCall.size - 1 /\ i = mapCall.ipa + n
          /\ i + (mapCall.pa - mapCall.ipa) = mapCall.pa + n
      BY <1>2, <2>4 DEF Grown, MapInv, MapTypes
    <3>4. <<i, Walk(i)'>> \in Wanted(mapCall)
      BY <2>4, <3>3 DEF Grown, Wanted
    <3> QED BY <2>2, <3>2, <3>4
  <2> QED BY <1>2, <2>1, <2>3, <2>4, WalkStep
<1>3. ASSUME Covered PROVE MapSpec => []OnlyAsked
  <2>1. OnlyAsked /\ MapInv /\ [MapNext]_stage2Vars => OnlyAsked'
    BY <1>2, <1>3
  <2> QED BY <1>1, <1>3, <2>1, Invariance, PTL DEF MapSpec
<1> QED BY <1>3

(* map_range implements AddressSpace: no step changes a translation that   *)
(* the walker can already have cached.                                     *)
THEOREM Refinement == Covered /\ MapSpec => ImplementsAddressSpace
<1>1. MapInit => Abstract!Init
  BY DEF MapInit, Abstract!Init, spaceView, Walk
<1>2. ASSUME Covered, MapInv, [MapNext]_stage2Vars
      PROVE  [Abstract!Next]_spaceView
  <2> DEFINE offset == mapCall.pa - mapCall.ipa
  <2>1. \A i \in Ipas : spaceView[i] = Walk(i) /\ spaceView'[i] = Walk(i)'
    BY DEF spaceView
  <2>2. offset \in -LastIpa .. LastPa /\ mapCall.kind \in Kinds
    BY <1>2, Stage2Assumption DEF MapInv, MapTypes, CallInv
  <2>3. \A i \in Ipas : spaceView'[i] # spaceView[i] =>
          /\ spaceView[i] = Unmapped
          /\ spaceView'[i] = [pa |-> i + offset, kind |-> mapCall.kind]
    BY <1>2, <2>1, WalkStep DEF Grown, Leaf
  <2>4. spaceView' = [i \in Ipas |-> spaceView'[i]]
    BY DEF spaceView
  <2>5. Abstract!Extend(Abstract!Changed, offset, mapCall.kind)
    BY <2>3, <2>4 DEF Abstract!Extend, Abstract!Changed
  <2> QED BY <2>2, <2>5 DEF Abstract!Next
<1>3. ASSUME Covered PROVE MapSpec => Abstract!Spec
  <2>1. MapInv /\ [MapNext]_stage2Vars => [Abstract!Next]_spaceView
    BY <1>2, <1>3
  <2> QED BY <1>1, <1>3, <2>1, Invariance, PTL DEF MapSpec, Abstract!Spec
<1> QED BY <1>3 DEF ImplementsAddressSpace

------------------------------------------------------------------------------
(* How far a call has come: every page it has passed translates as it      *)
(* asked, which the later steps leave alone (WalkStep).                    *)
WrittenInv ==
  pc # "idle" =>
    /\ done <= mapCall.size
    /\ \A n \in 0 .. done - 1 : Walk(mapCall.ipa + n) = Leaf(mapCall.pa + n, mapCall.kind)

LEMMA CallPages ==
  ASSUME Covered, MapTypes, CallInv, NEW n \in 0 .. mapCall.size - 1
  PROVE  /\ mapCall.ipa + n \in Ipas /\ mapCall.ipa + n \in Nat
         /\ mapCall.pa + n \in 0 .. LastPa + LastIpa
         /\ Leaf(mapCall.pa + n, mapCall.kind) \notin {Unmapped, Table}
<1>1. mapCall.ipa + n \in 0 .. LastIpa /\ mapCall.pa + n \in 0 .. LastPa + LastIpa
  BY Stage2Assumption DEF MapTypes, CallInv
<1>2. mapCall.ipa + n \in Ipas /\ mapCall.ipa + n \in Nat
  BY <1>1, Stage2Assumption DEF Covered, Ipas, CoveredPages
<1> QED BY <1>1, <1>2, LeafFacts DEF MapTypes

(* The pages from an aligned one on share its descriptor.                  *)
LEMMA AlignedBlock ==
  ASSUME NEW i \in Nat, i % Fanout = 0, NEW k \in Idx
  PROVE  I1(i + k) = I1(i) /\ I2(i + k) = I2(i) /\ I3(i + k) = k
<1>1. (i + k) \div Fanout = i \div Fanout /\ (i + k) % Fanout = k
  <2>1. Fanout \in Nat \ {0} /\ k \in 0 .. Fanout - 1
    BY Stage2Assumption DEF Idx
  <2>2. (i + k) \div Fanout = i \div Fanout
    BY <2>1, DivOfSum, Zenon
  <2>3. (i + k) % Fanout = k
    BY <2>1, ModOfSum, Zenon
  <2> QED BY <2>2, <2>3
<1> QED BY <1>1 DEF I1, I2, I3

(* What a leaf write maps.                                                 *)
LEMMA LeafWritten ==
  ASSUME Covered, MapInv, WriteBlock \/ WritePage
  PROVE  /\ done' \in Nat /\ done' <= mapCall.size
         /\ \A n \in done .. done' - 1 : Walk(mapCall.ipa + n)' = Leaf(mapCall.pa + n, mapCall.kind)
<1> USE Stage2Assumption
<1>0. /\ MapTypes /\ CallInv /\ mapCall' = mapCall
      /\ {done, mapCall.ipa, mapCall.pa, mapCall.size, Fanout} \subseteq Nat /\ done < mapCall.size
      /\ Here \in L1Idx \X Idx /\ I3(ipa) \in Idx /\ ipa \in Nat
      /\ I1(ipa) \in l1'
  BY HereFacts DEF MapInv, MapTypes, ProgressInv, TableInv, WriteBlock, WritePage
<1>1. CASE WriteBlock
  <2>1. /\ ipa % Fanout = 0 /\ pa % Fanout = 0 /\ done + Fanout <= mapCall.size
        /\ done' = done + Fanout
    BY <1>0, <1>1 DEF WriteBlock, MapInv, ProgressInv, TakesBlock, remaining
  <2>2. l2'[Here] = Leaf(pa, mapCall.kind)
    BY <1>0, <1>1, <2>1 DEF WriteBlock, MapTypes, pa
  <2> SUFFICES ASSUME NEW n \in done .. done' - 1
               PROVE  Walk(mapCall.ipa + n)' = Leaf(mapCall.pa + n, mapCall.kind)
    BY <1>0, <2>1
  <2> DEFINE k == n - done
             i == mapCall.ipa + n
  <2>3. k \in Idx /\ i = ipa + k /\ mapCall.pa + n = pa + k
    BY <1>0, <2>1 DEF Idx, ipa, pa
  <2>4. n \in 0 .. mapCall.size - 1
    BY <1>0, <2>1
  <2>5. i \in Ipas /\ Leaf(pa, mapCall.kind) \notin {Unmapped, Table}
    BY <1>0, <2>4, CallPages DEF pa
  <2>6. I1(i) = I1(ipa) /\ I2(i) = I2(ipa) /\ I3(i) = k
    BY <1>0, <2>1, <2>3, AlignedBlock
  <2>7. Walk(i)' = Leaf(l2'[Here].pa + k, l2'[Here].kind)
    BY <1>0, <2>2, <2>5, <2>6 DEF Walk, Here, Ipas
  <2> QED BY <1>0, <2>2, <2>3, <2>7 DEF Leaf
<1>2. CASE WritePage
  <2>1. /\ done' = done + 1 /\ l2'[Here] = Table /\ l3'[Here][I3(ipa)] = Leaf(pa, mapCall.kind)
    BY <1>0, <1>2 DEF WritePage, MapInv, TableInv, MapTypes
  <2> SUFFICES ASSUME NEW n \in done .. done' - 1
               PROVE  Walk(mapCall.ipa + n)' = Leaf(mapCall.pa + n, mapCall.kind)
    BY <1>0, <2>1
  <2> DEFINE i == mapCall.ipa + n
  <2>2. n = done /\ n \in 0 .. mapCall.size - 1 /\ i = ipa
    BY <1>0, <2>1 DEF ipa
  <2>3. i \in Ipas /\ i' = i
    BY <1>0, <2>2, CallPages
  <2>4. /\ I1(i) \in l1' /\ l2'[<<I1(i), I2(i)>>] = Table
        /\ l3'[<<I1(i), I2(i)>>][I3(i)] = Leaf(pa, mapCall.kind)
    BY <1>0, <2>1, <2>2 DEF Here
  <2>5. Walk(i)' = Leaf(pa, mapCall.kind)
    BY <2>3, <2>4 DEF Walk, Ipas
  <2> QED BY <1>0, <2>2, <2>5 DEF pa
<1> QED BY <1>1, <1>2

LEMMA WrittenStep ==
  ASSUME Covered, MapInv, WrittenInv, [MapNext]_stage2Vars
  PROVE  WrittenInv'
<1>1. CASE pc' = "idle"
  BY <1>1 DEF WrittenInv
<1>2. CASE Caller
  BY <1>2 DEF Caller, MapRange, WrittenInv, Calls
<1>3. CASE pc' # "idle" /\ pc # "idle" /\ mapCall' = mapCall
  <2>1. {done, mapCall.size} \subseteq Nat /\ mapCall.size # 0 /\ done <= mapCall.size
    BY <1>3 DEF MapInv, MapTypes, WrittenInv
  <2>2. ASSUME NEW n \in 0 .. done - 1
        PROVE  Walk(mapCall.ipa + n)' = Leaf(mapCall.pa + n, mapCall.kind)
    <3>1. n \in 0 .. mapCall.size - 1
      BY <2>1
    <3>2. /\ mapCall.ipa + n \in Ipas /\ Leaf(mapCall.pa + n, mapCall.kind) # Unmapped
          /\ Walk(mapCall.ipa + n) = Leaf(mapCall.pa + n, mapCall.kind)
      BY <1>3, <3>1, CallPages DEF MapInv, WrittenInv
    <3> HIDE DEF WrittenInv, MapInv
    <3>3. Walk(mapCall.ipa + n)' = Walk(mapCall.ipa + n)
      BY <1>3, <3>2, WalkStep DEF Grown
    <3> QED BY <3>2, <3>3
  <2>3. CASE WriteBlock \/ WritePage
    <3>1. \A n \in 0 .. done' - 1 : n \in 0 .. done - 1 \/ n \in done .. done' - 1
      BY <2>1
    <3> QED BY <1>3, <2>2, <2>3, <3>1, LeafWritten DEF WrittenInv
  <2>4. CASE done' = done
    BY <1>3, <2>1, <2>2, <2>4 DEF WrittenInv
  <2> QED
    BY <1>3, <2>3, <2>4
    DEF MapNext, Caller, Step, EnsureL2Table, MapL2Block, EnsureL3Table, MapL3Page, MapRange,
        Loop, UseL2Table, NewL2Table, NoL2Table, BlockTaken, UseL3Table,
        NewL3Table, NoL3Table, BlockInTheWay, PageTaken, stage2Vars
<1> QED
  BY <1>1, <1>2, <1>3
  DEF MapNext, Step, EnsureL2Table, MapL2Block, EnsureL3Table, MapL3Page,
      Loop, UseL2Table, NewL2Table, NoL2Table, WriteBlock, BlockTaken, UseL3Table,
      NewL3Table, NoL3Table, BlockInTheWay, WritePage, PageTaken, stage2Vars

(* Ok is only returned when the whole region translates as asked, by       *)
(* blocks and by pages alike (map_range).                                  *)
THEOREM OkIsMapped == Covered /\ MapSpec => OkMeansMapped
<1>1. MapInit => WrittenInv
  BY DEF MapInit, WrittenInv
<1>2. ASSUME MapInv, WrittenInv, [MapNext]_stage2Vars
      PROVE  [(pc = "loop" /\ pc' = "idle") =>
                \A n \in 0 .. mapCall.size - 1 :
                   Walk(mapCall.ipa + n) = Leaf(mapCall.pa + n, mapCall.kind)]_stage2Vars
  <2> SUFFICES ASSUME pc = "loop", pc' = "idle", NEW n \in 0 .. mapCall.size - 1
               PROVE  Walk(mapCall.ipa + n) = Leaf(mapCall.pa + n, mapCall.kind)
    OBVIOUS
  <2>1. done >= mapCall.size
    BY <1>2
    DEF MapNext, Caller, Step, EnsureL2Table, MapL2Block, EnsureL3Table, MapL3Page, MapRange,
        Loop, UseL2Table, NewL2Table, NoL2Table, WriteBlock, BlockTaken, UseL3Table,
        NewL3Table, NoL3Table, BlockInTheWay, WritePage, PageTaken, stage2Vars, remaining,
        MapInv, MapTypes
  <2>2. n \in 0 .. done - 1
    BY <1>2, <2>1 DEF MapInv, MapTypes
  <2> QED BY <1>2, <2>2 DEF WrittenInv
<1>3. ASSUME Covered PROVE MapSpec => OkMeansMapped
  <2>1. MapInv /\ WrittenInv /\ [MapNext]_stage2Vars => WrittenInv'
    BY <1>3, WrittenStep
  <2> QED BY <1>1, <1>2, <1>3, <2>1, Invariance, PTL DEF MapSpec, OkMeansMapped
<1> QED BY <1>3

------------------------------------------------------------------------------
(* The allocator: a page that leaves it becomes a table that the root or   *)
(* an L2 entry points to, and no table is ever lost.                       *)

L3Tables == {h \in L1Idx \X Idx : h[1] \in l1 /\ l2[h] = Table}

LEMMA TablesFinite ==
  ASSUME MapTypes
  PROVE  /\ IsFiniteSet(l1) /\ IsFiniteSet(L3Tables)
         /\ Cardinality(l1) \in Nat /\ Cardinality(L3Tables) \in Nat
<1>1. IsFiniteSet(L1Idx) /\ IsFiniteSet(Idx)
  BY FS_Interval, Stage2Assumption DEF L1Idx, Idx
<1>2. IsFiniteSet(L1Idx \X Idx)
  BY <1>1, FS_Product
<1>3. IsFiniteSet(l1) /\ IsFiniteSet(L3Tables)
  BY <1>1, <1>2, FS_Subset DEF MapTypes, L3Tables
<1> QED BY <1>3, FS_CardinalityType

LEMMA AccountStep ==
  ASSUME Covered, MapInv, PagesAccounted, [MapNext]_stage2Vars
  PROVE  PagesAccounted'
<1>0. /\ MapTypes /\ CallInv /\ ProgressInv /\ TableInv
      /\ free \in Nat /\ free + Cardinality(l1) + Cardinality(L3Tables) = PoolPages
  BY Stage2Assumption DEF MapInv, MapTypes, PagesAccounted, L3Tables
<1> SUFFICES free' + Cardinality(l1') + Cardinality(L3Tables') = PoolPages
  BY DEF PagesAccounted, L3Tables
<1>1. CASE UNCHANGED <<l1, l2, free>>
  BY <1>0, <1>1 DEF L3Tables
<1>2. CASE NewL2Table
  <2>1. I1(ipa) \in L1Idx /\ I1(ipa) \notin l1 /\ l1' = l1 \cup {I1(ipa)}
        /\ free' = free - 1 /\ free > 0
    BY <1>0, <1>2, HereFacts DEF NewL2Table
  <2>2. Cardinality(l1') = Cardinality(l1) + 1
    BY <1>0, <2>1, TablesFinite, FS_AddElement
  <2>3. L3Tables' = L3Tables
    <3>1. \A h \in L1Idx \X Idx : l2'[h] = IF h[1] = I1(ipa) THEN Unmapped ELSE l2[h]
      BY <1>0, <1>2 DEF NewL2Table, MapTypes
    <3> QED BY <2>1, <3>1, Stage2Assumption DEF L3Tables
  <2> QED BY <1>0, <2>1, <2>2, <2>3, TablesFinite
<1>3. CASE NewL3Table
  <2>0. Here \in L1Idx \X Idx /\ Here[1] \in l1
    BY <1>0, <1>3, HereFacts DEF NewL3Table, TableInv, Here
  <2>1. l2[Here] = Unmapped /\ l2' = [l2 EXCEPT ![Here] = Table] /\ l1' = l1
        /\ free' = free - 1 /\ free > 0
    BY <1>3 DEF NewL3Table
  <2>2. L3Tables' = L3Tables \cup {Here} /\ Here \notin L3Tables
    <3>1. \A h \in L1Idx \X Idx : l2'[h] = IF h = Here THEN Table ELSE l2[h]
      BY <1>0, <2>0, <2>1 DEF MapTypes
    <3> HIDE DEF Here
    <3> QED BY <2>0, <2>1, <3>1, Stage2Assumption DEF L3Tables
  <2>3. Cardinality(L3Tables') = Cardinality(L3Tables) + 1
    BY <1>0, <2>2, TablesFinite, FS_AddElement
  <2> QED BY <1>0, <2>1, <2>3, TablesFinite
<1>4. CASE WriteBlock
  <2>0. Here \in L1Idx \X Idx /\ pa \in 0 .. LastPa + LastIpa
    BY <1>0, <1>4, HereFacts DEF WriteBlock
  <2>1. l2[Here] = Unmapped /\ l1' = l1 /\ free' = free
        /\ l2' = [l2 EXCEPT ![Here] = Leaf(pa, mapCall.kind)]
    <3>1. pa % Fanout = 0 /\ pa \in Nat
      BY <1>0, <1>4, <2>0, Stage2Assumption DEF WriteBlock, ProgressInv, TakesBlock
    <3>2. pa - (pa % Fanout) = pa
      BY <3>1
    <3> QED BY <1>4, <3>2 DEF WriteBlock
  <2>2. Leaf(pa, mapCall.kind) # Table
    BY <1>0, <2>0, LeafFacts DEF MapTypes
  <2>3. \A h \in L1Idx \X Idx : l2'[h] = IF h = Here THEN Leaf(pa, mapCall.kind) ELSE l2[h]
    BY <1>0, <2>0, <2>1 DEF MapTypes
  <2> HIDE DEF Here
  <2>4. L3Tables' = L3Tables
    BY <2>1, <2>2, <2>3, Stage2Assumption DEF L3Tables
  <2> QED BY <1>0, <2>1, <2>4
<1> QED
  BY <1>1, <1>2, <1>3, <1>4
  DEF MapNext, Caller, Step, EnsureL2Table, MapL2Block, EnsureL3Table, MapL3Page, MapRange,
      Loop, UseL2Table, NoL2Table, BlockTaken, UseL3Table,
      NoL3Table, BlockInTheWay, WritePage, PageTaken, stage2Vars

(* Every page of the allocator is free or is exactly one table, wherever   *)
(* calls failed (BumpAllocator, ensure_l2_table, ensure_l3_table).         *)
THEOREM EveryPageAccounted == Covered /\ MapSpec => []PagesAccounted
<1>1. MapInit => PagesAccounted
  <2> SUFFICES ASSUME MapInit PROVE PagesAccounted
    OBVIOUS
  <2>1. l1 = {} /\ L3Tables = {} /\ free = PoolPages
    BY DEF MapInit, L3Tables
  <2> QED BY <2>1, FS_EmptySet, Stage2Assumption DEF PagesAccounted, L3Tables
<1>2. ASSUME Covered PROVE MapSpec => []PagesAccounted
  <2>1. PagesAccounted /\ MapInv /\ [MapNext]_stage2Vars => PagesAccounted'
    BY <1>2, AccountStep
  <2> QED BY <1>1, <1>2, <2>1, Invariance, PTL DEF MapSpec
<1> QED BY <1>2

(* ----------------------------------------------------------------------- *)
(* The ACPI tables                                                         *)
(* ----------------------------------------------------------------------- *)

(* What a table set is, of what the proofs use. *)
IsSet(s) ==
  /\ s.cpus \in Nat /\ s.maint \in Nat /\ s.gicrLen \in Nat /\ s.buffer \in Nat
  /\ s.gicd \in Words /\ s.gicr \in Words /\ s.its \in Words /\ s.giccGicr \in Words

LEMMA Sets == \A s \in AcpiSets : IsSet(s)
BY AcpiAssumption DEF IsSet

(* A pair of words is put together again by its reader. *)
LEMMA PairOf == ASSUME NEW p \in Words PROVE p = <<p[1], p[2]>> /\ p[1] \in Nat /\ p[2] \in Nat /\ p # << >>
BY DEF Words

(* The entry of a CPU interface, as the walk reads it. *)
ReadsGicc(e, maint, gicr) ==
  /\ e.type = "GICC" /\ e.len = 80
  /\ e.word[14] = maint /\ U64(e, 15) = gicr /\ U64(e, 10) = Zero64

LEMMA Gicc ==
  ASSUME NEW maint \in Nat, NEW gicr \in Words, NEW mpidr \in Nat
  PROVE  ReadsGicc(GiccEntry([maint |-> maint, gicr |-> gicr, mpidr |-> mpidr]), maint, gicr)
<1> DEFINE g == [maint |-> maint, gicr |-> gicr, mpidr |-> mpidr]
           at == [w \in {14, 15, 16, 17} |->
                    CASE w = 14 -> g.maint [] w = 15 -> g.gicr[1] [] w = 16 -> g.gicr[2] [] w = 17 -> g.mpidr]
           e == Entry("GICC", at)
<1>1. GiccEntry(g) = e
  BY DEF GiccEntry
<1>2. at[14] = maint /\ at[15] = gicr[1] /\ at[16] = gicr[2] /\ DOMAIN at = {14, 15, 16, 17}
  OBVIOUS
<1>3. EntryLen["GICC"] = 80 /\ 80 \div 4 - 1 = 19
  BY DEF EntryLen
<1> HIDE DEF at
<1>4. e.type = "GICC" /\ e.len = 80
  BY <1>3 DEF Entry
<1>5. e.word = [w \in 1 .. 19 |-> IF w \in DOMAIN at THEN at[w] ELSE 0]
  BY <1>3 DEF Entry
<1> HIDE DEF e
<1>6. e.word[14] = maint /\ e.word[15] = gicr[1] /\ e.word[16] = gicr[2] /\ e.word[10] = 0 /\ e.word[11] = 0
  BY <1>2, <1>5
<1>7. U64(e, 15) = <<gicr[1], gicr[2]>> /\ U64(e, 10) = Zero64
  BY <1>6 DEF U64, Zero64
<1> QED BY <1>1, <1>4, <1>6, <1>7, PairOf DEF ReadsGicc

(* The distributor, the range of redistributors and the interrupt         *)
(* translation service.                                                    *)
LEMMA Gicd ==
  ASSUME NEW base \in Words, NEW version
  PROVE  LET e == GicdEntry(base, version) IN e.type = "GICD" /\ e.len = 24 /\ U64(e, 2) = base
<1> DEFINE at == [w \in {2, 3, 5} |-> CASE w = 2 -> base[1] [] w = 3 -> base[2] [] w = 5 -> version]
           e == Entry("GICD", at)
<1>1. GicdEntry(base, version) = e
  BY DEF GicdEntry
<1>2. at[2] = base[1] /\ at[3] = base[2] /\ DOMAIN at = {2, 3, 5}
  OBVIOUS
<1>3. EntryLen["GICD"] = 24 /\ 24 \div 4 - 1 = 5
  BY DEF EntryLen
<1> HIDE DEF at
<1>4. e.type = "GICD" /\ e.len = 24
  BY <1>3 DEF Entry
<1>5. e.word = [w \in 1 .. 5 |-> IF w \in DOMAIN at THEN at[w] ELSE 0]
  BY <1>3 DEF Entry
<1> HIDE DEF e
<1>6. U64(e, 2) = <<base[1], base[2]>>
  BY <1>2, <1>5 DEF U64
<1> QED BY <1>1, <1>4, <1>6, PairOf

LEMMA Gicr ==
  ASSUME NEW base \in Words, NEW length \in Nat
  PROVE  LET e == GicrEntry(base, length)
         IN  e.type = "GICR" /\ e.len = 16 /\ U64(e, 2) = <<base[2], length>>
<1> DEFINE at == [w \in {1, 2, 3} |-> CASE w = 1 -> base[1] [] w = 2 -> base[2] [] w = 3 -> length]
           e == Entry("GICR", at)
<1>1. GicrEntry(base, length) = e
  BY DEF GicrEntry
<1>2. at[2] = base[2] /\ at[3] = length /\ DOMAIN at = {1, 2, 3}
  OBVIOUS
<1>3. EntryLen["GICR"] = 16 /\ 16 \div 4 - 1 = 3
  BY DEF EntryLen
<1> HIDE DEF at
<1>4. e.type = "GICR" /\ e.len = 16
  BY <1>3 DEF Entry
<1>5. e.word = [w \in 1 .. 3 |-> IF w \in DOMAIN at THEN at[w] ELSE 0]
  BY <1>3 DEF Entry
<1> HIDE DEF e
<1>6. U64(e, 2) = <<base[2], length>>
  BY <1>2, <1>5 DEF U64
<1> QED BY <1>1, <1>4, <1>6

LEMMA GicIts ==
  ASSUME NEW base
  PROVE  GicItsEntry(base).type = "GIC_ITS" /\ GicItsEntry(base).len = 20
BY DEF GicItsEntry, Entry, EntryLen

(* The entries of a table: one of each CPU interface, then the three. *)
EntriesOf(s, b) ==
  /\ b \in Seq({b[i] : i \in 1 .. s.cpus + 3}) /\ Len(b) = s.cpus + 3
  /\ \A i \in 1 .. s.cpus : ReadsGicc(b[i], s.maint, s.giccGicr)
  /\ b[s.cpus + 1].type = "GICD" /\ b[s.cpus + 1].len = 24 /\ U64(b[s.cpus + 1], 2) = s.gicd
  /\ b[s.cpus + 2].type = "GICR" /\ b[s.cpus + 2].len = 16 /\ U64(b[s.cpus + 2], 2) = <<s.gicr[2], s.gicrLen>>
  /\ b[s.cpus + 3].type = "GIC_ITS" /\ b[s.cpus + 3].len = 20

LEMMA MadtEntries ==
  ASSUME NEW s, IsSet(s)
  PROVE  EntriesOf(s, madt_entries(s))
<1> DEFINE n == s.cpus
           G(i) == GiccEntry([maint |-> s.maint, gicr |-> s.giccGicr, mpidr |-> i - 1])
           u == [i \in 1 .. n |-> G(i)]
           x == GicdEntry(s.gicd, s.version)
           y == GicrEntry(s.gicr, s.gicrLen)
           z == GicItsEntry(s.its)
           b == u \o <<x, y, z>>
<1>1. madt_entries(s) = b
  BY DEF madt_entries
<1>2. \A i \in 1 .. n : ReadsGicc(G(i), s.maint, s.giccGicr)
  BY Gicc DEF IsSet
<1>3. x.type = "GICD" /\ x.len = 24 /\ U64(x, 2) = s.gicd
  BY Gicd DEF IsSet
<1>4. y.type = "GICR" /\ y.len = 16 /\ U64(y, 2) = <<s.gicr[2], s.gicrLen>>
  BY Gicr DEF IsSet
<1>5. z.type = "GIC_ITS" /\ z.len = 20
  BY GicIts
<1>6. n \in Nat
  BY DEF IsSet
<1> HIDE DEF n, x, y, z, G
<1> DEFINE T == {G(i) : i \in 1 .. n} \cup {x, y, z}
<1>7. u \in Seq(T) /\ Len(u) = n /\ \A i \in 1 .. n : u[i] = G(i)
  BY <1>6
<1>8. <<x, y, z>> \in Seq(T) /\ Len(<<x, y, z>>) = 3
  OBVIOUS
<1> HIDE DEF u, T
<1>9. b \in Seq(T) /\ Len(b) = n + 3
  BY <1>6, <1>7, <1>8
<1>10. \A i \in 1 .. n : b[i] = u[i]
  BY <1>6, <1>7, <1>8
<1>11. b[n + 1] = x /\ b[n + 2] = y /\ b[n + 3] = z
  BY <1>6, <1>7, <1>8
<1> HIDE DEF b
<1>12. b \in Seq({b[i] : i \in 1 .. n + 3})
  BY <1>9
<1>13. \A i \in 1 .. n : ReadsGicc(b[i], s.maint, s.giccGicr)
  BY <1>2, <1>7, <1>10
<1> QED BY <1>1, <1>3, <1>4, <1>5, <1>9, <1>11, <1>12, <1>13 DEF EntriesOf, n

(* A recursion over the entries of a table, by index. *)
SumTo(b, f) ==
  /\ f \in [0 .. Len(b) -> Nat]
  /\ f[0] = 0 /\ \A i \in 1 .. Len(b) : f[i] = f[i - 1] + b[i].len

LEMMA SizeBySteps ==
  ASSUME NEW T, NEW b \in Seq(T), \A i \in 1 .. Len(b) : b[i].len \in Nat
  PROVE  \E f : SumTo(b, f) /\ SizeOf(b) = f[Len(b)]
<1> DEFINE n == Len(b)
           F == [x \in (0 .. n) \X Nat |-> IF x[1] = 0 THEN 0 ELSE x[2] + b[x[1]].len]
           Body(g) == [i \in 0 .. n |-> IF i = 0 THEN 0 ELSE g[i - 1] + b[i].len]
           chosen == CHOOSE g : g = Body(g)
<1>1. n \in Nat
  OBVIOUS
<1>2. ASSUME NEW i \in 0 .. n, NEW v \in Nat
      PROVE  F[<<i, v>>] = (IF i = 0 THEN 0 ELSE v + b[i].len) /\ F[<<i, v>>] \in Nat
  <2>1. i # 0 => b[i].len \in Nat
    BY <1>1
  <2> QED BY <2>1
<1>3. F \in [(0 .. n) \X Nat -> Nat]
  <2>1. \A x \in (0 .. n) \X Nat : x = <<x[1], x[2]>> /\ x[1] \in 0 .. n /\ x[2] \in Nat
    OBVIOUS
  <2>2. \A x \in (0 .. n) \X Nat : F[x] \in Nat
    <3> HIDE DEF F
    <3> QED BY <1>2, <2>1
  <2>3. F = [x \in (0 .. n) \X Nat |-> F[x]]
    OBVIOUS
  <2> HIDE DEF F
  <2> QED BY <2>2, <2>3
<1> HIDE DEF F
<1>4. PICK f : FromItsStart(f, n, Nat, 0, F)
  <2> HIDE DEF n
  <2> QED BY <1>1, <1>3, UpRecursion
<1>5. f \in [0 .. n -> Nat] /\ f[0] = 0 /\ \A i \in 0 .. n : i # 0 => f[i] = F[<<i, f[i - 1]>>]
  BY <1>4 DEF FromItsStart
<1>6. ASSUME NEW i \in 1 .. n PROVE f[i] = f[i - 1] + b[i].len
  <2>1. i \in 0 .. n /\ i # 0 /\ i - 1 \in 0 .. n
    BY <1>1
  <2>2. f[i - 1] \in Nat
    BY <1>5, <2>1
  <2> HIDE DEF n
  <2> QED BY <1>2, <1>5, <2>1, <2>2
<1>7. f = Body(f)
  <2>1. \A i \in 0 .. n : f[i] = IF i = 0 THEN 0 ELSE f[i - 1] + b[i].len
    BY <1>1, <1>5, <1>6
  <2> HIDE DEF n
  <2> QED BY <1>5, <2>1
<1> DEFINE Fixed(g) == g = Body(g)
<1>8. chosen = Body(chosen)
  <2>1. Fixed(f)
    BY <1>7
  <2> HIDE DEF Fixed
  <2>2. Fixed(CHOOSE g : Fixed(g))
    BY <2>1
  <2> QED BY <2>2 DEF Fixed
<1>9. chosen = f
  <2> HIDE DEF chosen
  <2>1. DOMAIN chosen = 0 .. n
    BY <1>8
  <2>2. \A i \in 0 .. n : chosen[i] = IF i = 0 THEN 0 ELSE chosen[i - 1] + b[i].len
    BY <1>8
  <2>3. \A i \in 0 .. n : chosen[i] = f[i]
    <3> DEFINE D == {i \in 0 .. n : chosen[i] # f[i]}
    <3>1. SUFFICES ASSUME D # {} PROVE FALSE
      OBVIOUS
    <3>2. PICK i \in D : \A j \in D : i <= j
      <4>1. D \subseteq Nat
        OBVIOUS
      <4> HIDE DEF D
      <4> QED BY <3>1, <4>1, LeastOf
    <3>3. i \in 0 .. n /\ chosen[i] # f[i]
      BY <3>2
    <3>4. i # 0
      BY <1>1, <1>5, <2>2, <3>3
    <3>5. i - 1 \in 0 .. n /\ ~ i <= i - 1 /\ i \in 1 .. n
      BY <1>1, <3>3, <3>4
    <3>6. chosen[i - 1] = f[i - 1]
      BY <3>2, <3>5
    <3>7. chosen[i] = f[i - 1] + b[i].len
      BY <2>2, <3>3, <3>4, <3>6
    <3> QED BY <1>6, <3>3, <3>5, <3>7
  <2>4. chosen = [i \in 0 .. n |-> chosen[i]]
    BY <1>8
  <2> HIDE DEF n
  <2> QED BY <1>5, <2>3, <2>4
<1>10. SizeOf(b) = chosen[n]
  BY DEF SizeOf
<1>11. SumTo(b, f)
  BY <1>5, <1>6 DEF SumTo
<1> HIDE DEF chosen
<1> QED BY <1>9, <1>10, <1>11

(* Sums of what equal steps add. *)
LEMMA SizeOfMadt ==
  ASSUME NEW s, IsSet(s), NEW b, EntriesOf(s, b)
  PROVE  SizeOf(b) = 80 * s.cpus + 60
<1> DEFINE n == s.cpus
<1>1. n \in Nat /\ Len(b) = n + 3
  BY DEF IsSet, EntriesOf
<1>2. \A i \in 1 .. n : b[i].len = 80
  BY DEF EntriesOf, ReadsGicc
<1>3. b[n + 1].len = 24 /\ b[n + 2].len = 16 /\ b[n + 3].len = 20
  BY DEF EntriesOf
<1> HIDE DEF n
<1>4. \A i \in 1 .. n + 3 : b[i].len \in Nat
  <2> SUFFICES ASSUME NEW i \in 1 .. n + 3 PROVE b[i].len \in Nat
    OBVIOUS
  <2>1. i \in 1 .. n \/ i = n + 1 \/ i = n + 2 \/ i = n + 3
    BY <1>1
  <2> QED BY <1>2, <1>3, <2>1
<1>5. PICK f : SumTo(b, f) /\ SizeOf(b) = f[Len(b)]
  <2>1. b \in Seq({b[i] : i \in 1 .. n + 3})
    BY DEF EntriesOf, n
  <2> DEFINE T == {b[i] : i \in 1 .. n + 3}
  <2> HIDE DEF T
  <2> QED BY <1>1, <1>4, <2>1, SizeBySteps DEF T
<1>6. f[0] = 0 /\ \A i \in 1 .. n + 3 : f[i] = f[i - 1] + b[i].len
  BY <1>1, <1>5 DEF SumTo
<1>7. \A i \in 0 .. n : f[i] = 80 * i
  <2> DEFINE D == {i \in 0 .. n : f[i] # 80 * i}
  <2>1. SUFFICES ASSUME D # {} PROVE FALSE
    OBVIOUS
  <2>2. PICK i \in D : \A j \in D : i <= j
    <3>1. D \subseteq Nat
      BY <1>1
    <3> HIDE DEF D
    <3> QED BY <2>1, <3>1, LeastOf
  <2>3. i \in 0 .. n /\ f[i] # 80 * i /\ i # 0
    BY <1>6, <2>2
  <2>4. i - 1 \in 0 .. n /\ ~ i <= i - 1 /\ i \in 1 .. n /\ i \in 1 .. n + 3
    BY <1>1, <2>3
  <2>5. f[i - 1] = 80 * (i - 1)
    BY <2>2, <2>4
  <2>6. f[i] = 80 * (i - 1) + 80
    BY <1>2, <1>6, <2>4, <2>5
  <2> QED BY <1>1, <2>3, <2>6
<1>8. f[n] = 80 * n
  BY <1>1, <1>7
<1> DEFINE p == n + 1
           q == n + 2
           r == n + 3
<1>9. f[p] = f[n] + 24 /\ f[q] = f[p] + 16 /\ f[r] = f[q] + 20
  <2>1. /\ p \in 1 .. n + 3 /\ q \in 1 .. n + 3 /\ r \in 1 .. n + 3
        /\ p - 1 = n /\ q - 1 = p /\ r - 1 = q
    BY <1>1
  <2>2. b[p].len = 24 /\ b[q].len = 16 /\ b[r].len = 20
    BY <1>3
  <2> HIDE DEF p, q, r
  <2>3. f[p] = f[p - 1] + b[p].len /\ f[q] = f[q - 1] + b[q].len /\ f[r] = f[r - 1] + b[r].len
    BY <1>6, <2>1
  <2> QED BY <2>1, <2>2, <2>3
<1>10. f[n + 3] = 80 * n + 60
  BY <1>1, <1>8, <1>9
<1> QED BY <1>1, <1>5, <1>10 DEF n

(* ------------------------------ the walk ------------------------------ *)

Gics == [gicd : Words \cup {<< >>}, gicr : Words \cup {<< >>}, gicv : Words, maint : Nat]

WalkOf(b, f) ==
  /\ f \in [0 .. Len(b) -> Gics]
  /\ f[0] = NoGic /\ \A i \in 1 .. Len(b) : f[i] = EntryRead(f[i - 1], b[i])

LEMMA LenEntries ==
  ASSUME NEW s, IsSet(s), NEW b, EntriesOf(s, b)
  PROVE  Len(b) \in Nat /\ s.cpus \in Nat /\ Len(b) = s.cpus + 3
BY DEF IsSet, EntriesOf

(* What an entry of each kind does to what was found. *)
LEMMA ReadDistributor ==
  ASSUME NEW g \in Gics, NEW e, e.type = "GICD", U64(e, 2) \in Words
  PROVE  EntryRead(g, e) \in Gics /\ EntryRead(g, e) = [g EXCEPT !.gicd = U64(e, 2)]
<1>1. EntryRead(g, e) = [g EXCEPT !.gicd = U64(e, 2)]
  BY DEF EntryRead
<1> DEFINE w == U64(e, 2)
<1> HIDE DEF w
<1>2. w \in Words => [g EXCEPT !.gicd = w] \in Gics
  BY DEF Gics
<1> QED BY <1>1, <1>2 DEF w

LEMMA ReadRange ==
  ASSUME NEW g \in Gics, NEW e, e.type = "GICR", U64(e, 2) \in Words
  PROVE  /\ EntryRead(g, e) \in Gics
         /\ EntryRead(g, e) = IF g.gicr = << >> THEN [g EXCEPT !.gicr = U64(e, 2)] ELSE g
<1>1. EntryRead(g, e) = IF g.gicr = << >> THEN [g EXCEPT !.gicr = U64(e, 2)] ELSE g
  BY DEF EntryRead
<1> DEFINE w == U64(e, 2)
<1> HIDE DEF w
<1>2. w \in Words => [g EXCEPT !.gicr = w] \in Gics
  BY DEF Gics
<1> QED BY <1>1, <1>2 DEF w

LEMMA ReadOther ==
  ASSUME NEW g \in Gics, NEW e, e.type = "GIC_ITS"
  PROVE  EntryRead(g, e) = g
BY DEF EntryRead

LEMMA ReadInterface ==
  ASSUME NEW g \in Gics, NEW e, NEW m \in Nat, NEW r \in Words, ReadsGicc(e, m, r)
  PROVE  /\ EntryRead(g, e) \in Gics
         /\ EntryRead(g, e).gicd = g.gicd
         /\ EntryRead(g, e).maint = IF m # 0 THEN m ELSE g.maint
         /\ EntryRead(g, e).gicr = IF g.gicr = << >> /\ r # Zero64 THEN r ELSE g.gicr
<1> DEFINE R == IF g.gicr = << >> /\ r # Zero64 THEN r ELSE g.gicr
           V == IF g.gicv = Zero64 THEN U64(e, 10) ELSE g.gicv
           M == IF m # 0 THEN m ELSE g.maint
<1>1. EntryRead(g, e) = [g EXCEPT !.gicr = R, !.gicv = V, !.maint = M]
  BY DEF EntryRead, ReadsGicc
<1>2. R \in Words \cup {<< >>} /\ V \in Words /\ M \in Nat
  <2>1. Zero64 \in Words
    BY DEF Zero64, Words
  <2> QED BY <2>1 DEF Gics, ReadsGicc
<1> DEFINE h == [g EXCEPT !.gicr = R, !.gicv = V, !.maint = M]
<1> HIDE DEF R, V, M
<1>3. h \in Gics
  BY <1>2 DEF Gics
<1>4. h.gicd = g.gicd /\ h.maint = M /\ h.gicr = R
  BY DEF Gics
<1> QED BY <1>1, <1>3, <1>4 DEF R, M

LEMMA ReadsTyped ==
  ASSUME NEW s, IsSet(s), NEW b, EntriesOf(s, b), NEW i \in 1 .. Len(b), NEW g \in Gics
  PROVE  EntryRead(g, b[i]) \in Gics
<1>1. s.cpus \in Nat /\ Len(b) = s.cpus + 3 /\ s.maint \in Nat /\ s.giccGicr \in Words
      /\ s.gicd \in Words /\ <<s.gicr[2], s.gicrLen>> \in Words
  BY DEF IsSet, EntriesOf, Words
<1>2. i \in 1 .. s.cpus \/ i = s.cpus + 1 \/ i = s.cpus + 2 \/ i = s.cpus + 3
  BY <1>1
<1>3. CASE i \in 1 .. s.cpus
  BY <1>1, <1>3, ReadInterface DEF EntriesOf
<1>4. CASE i = s.cpus + 1
  BY <1>1, <1>4, ReadDistributor DEF EntriesOf
<1>5. CASE i = s.cpus + 2
  BY <1>1, <1>5, ReadRange DEF EntriesOf
<1>6. CASE i = s.cpus + 3
  BY <1>1, <1>6, ReadOther DEF EntriesOf
<1> QED BY <1>2, <1>3, <1>4, <1>5, <1>6

LEMMA WalkBySteps ==
  ASSUME NEW s, IsSet(s), NEW table, EntriesOf(s, table.body)
  PROVE  \E f : /\ WalkOf(table.body, f)
                /\ discover_gic_from_madt(table) =
                     [f[s.cpus + 3] EXCEPT !.gicr = IF @ = << >> THEN Zero64 ELSE @]
<1> DEFINE b == table.body
           n == Len(b)
           F == [x \in (0 .. n) \X Gics |-> IF x[1] = 0 THEN NoGic ELSE EntryRead(x[2], b[x[1]])]
           Body(g) == [i \in 0 .. n |-> IF i = 0 THEN NoGic ELSE EntryRead(g[i - 1], b[i])]
           chosen == CHOOSE g : g = Body(g)
<1>1. n \in Nat /\ n = s.cpus + 3 /\ NoGic \in Gics
  <2>1. n \in Nat /\ n = s.cpus + 3
    BY LenEntries
  <2>2. NoGic \in Gics
    BY DEF NoGic, Gics, Words, Zero64
  <2> QED BY <2>1, <2>2
<1>2. ASSUME NEW i \in 0 .. n, NEW v \in Gics
      PROVE  F[<<i, v>>] = (IF i = 0 THEN NoGic ELSE EntryRead(v, b[i])) /\ F[<<i, v>>] \in Gics
  <2>1. i # 0 => i \in 1 .. Len(b)
    BY <1>1
  <2>2. i # 0 => EntryRead(v, b[i]) \in Gics
    BY <2>1, ReadsTyped
  <2>3. F[<<i, v>>] = (IF i = 0 THEN NoGic ELSE EntryRead(v, b[i]))
    OBVIOUS
  <2> HIDE DEF F
  <2> QED BY <1>1, <2>2, <2>3
<1>3. F \in [(0 .. n) \X Gics -> Gics]
  <2>1. \A x \in (0 .. n) \X Gics : x = <<x[1], x[2]>> /\ x[1] \in 0 .. n /\ x[2] \in Gics
    OBVIOUS
  <2>2. \A x \in (0 .. n) \X Gics : F[x] \in Gics
    <3> HIDE DEF F, n
    <3> QED BY <1>2, <2>1
  <2>3. F = [x \in (0 .. n) \X Gics |-> F[x]]
    OBVIOUS
  <2> HIDE DEF F
  <2> QED BY <2>2, <2>3
<1> HIDE DEF F
<1>4. PICK f : FromItsStart(f, n, Gics, NoGic, F)
  <2> HIDE DEF n
  <2> QED BY <1>1, <1>3, UpRecursion
<1>5. f \in [0 .. n -> Gics] /\ f[0] = NoGic /\ \A i \in 0 .. n : i # 0 => f[i] = F[<<i, f[i - 1]>>]
  BY <1>4 DEF FromItsStart
<1>6. ASSUME NEW i \in 1 .. n PROVE f[i] = EntryRead(f[i - 1], b[i])
  <2>1. i \in 0 .. n /\ i # 0 /\ i - 1 \in 0 .. n
    BY <1>1
  <2>2. f[i - 1] \in Gics
    BY <1>5, <2>1
  <2> HIDE DEF n
  <2> QED BY <1>2, <1>5, <2>1, <2>2
<1>7. f = Body(f)
  <2>1. \A i \in 0 .. n : f[i] = IF i = 0 THEN NoGic ELSE EntryRead(f[i - 1], b[i])
    BY <1>1, <1>5, <1>6
  <2> HIDE DEF n
  <2> QED BY <1>5, <2>1
<1> DEFINE Fixed(g) == g = Body(g)
<1>8. chosen = Body(chosen)
  <2>1. Fixed(f)
    BY <1>7
  <2> HIDE DEF Fixed
  <2>2. Fixed(CHOOSE g : Fixed(g))
    BY <2>1
  <2> QED BY <2>2 DEF Fixed
<1>9. chosen = f
  <2> HIDE DEF chosen
  <2>1. \A i \in 0 .. n : chosen[i] = IF i = 0 THEN NoGic ELSE EntryRead(chosen[i - 1], b[i])
    BY <1>8
  <2>2. \A i \in 0 .. n : chosen[i] = f[i]
    <3> DEFINE D == {i \in 0 .. n : chosen[i] # f[i]}
    <3>1. SUFFICES ASSUME D # {} PROVE FALSE
      OBVIOUS
    <3>2. PICK i \in D : \A j \in D : i <= j
      <4>1. D \subseteq Nat
        OBVIOUS
      <4> HIDE DEF D
      <4> QED BY <3>1, <4>1, LeastOf
    <3>3. i \in 0 .. n /\ chosen[i] # f[i]
      BY <3>2
    <3>4. i # 0
      BY <1>1, <1>5, <2>1, <3>3
    <3>5. i - 1 \in 0 .. n /\ ~ i <= i - 1 /\ i \in 1 .. n
      BY <1>1, <3>3, <3>4
    <3>6. chosen[i - 1] = f[i - 1]
      BY <3>2, <3>5
    <3>7. chosen[i] = EntryRead(f[i - 1], b[i])
      BY <2>1, <3>3, <3>4, <3>6
    <3> QED BY <1>6, <3>3, <3>5, <3>7
  <2>3. chosen = [i \in 0 .. n |-> chosen[i]]
    BY <1>8
  <2> HIDE DEF n
  <2> QED BY <1>5, <2>2, <2>3
<1>10. discover_gic_from_madt(table) = [chosen[n] EXCEPT !.gicr = IF @ = << >> THEN Zero64 ELSE @]
  BY DEF discover_gic_from_madt
<1>11. WalkOf(b, f)
  BY <1>5, <1>6 DEF WalkOf
<1> HIDE DEF chosen, b
<1> QED BY <1>1, <1>9, <1>10, <1>11 DEF b

(* What the walk has found after the entries of the CPU interfaces.       *)
LEMMA AfterInterfaces ==
  ASSUME NEW s, IsSet(s), NEW b, EntriesOf(s, b), NEW f, WalkOf(b, f), NEW i \in 1 .. s.cpus
  PROVE  /\ s.maint # 0 => f[i].maint = s.maint
         /\ s.giccGicr # Zero64 => f[i].gicr = s.giccGicr
<1> DEFINE n == s.cpus
           Good(k) == /\ s.maint # 0 => f[k].maint = s.maint
                      /\ s.giccGicr # Zero64 => f[k].gicr = s.giccGicr
           D == {k \in 1 .. n : ~ Good(k)}
<1>1. SUFFICES ASSUME D # {} PROVE FALSE
  OBVIOUS
<1>2. n \in Nat /\ Len(b) = n + 3 /\ s.maint \in Nat /\ s.giccGicr \in Words
  BY DEF IsSet, EntriesOf
<1>3. PICK k \in D : \A j \in D : k <= j
  <2>1. D \subseteq Nat
    BY <1>2
  <2> HIDE DEF D
  <2> QED BY <1>1, <2>1, LeastOf
<1>4. k \in 1 .. n /\ ~ Good(k)
  BY <1>3
<1>5. k \in 1 .. Len(b) /\ k - 1 \in 0 .. Len(b)
  BY <1>2, <1>4
<1>6. f[k - 1] \in Gics /\ f[k] = EntryRead(f[k - 1], b[k])
  BY <1>5 DEF WalkOf
<1>7. ReadsGicc(b[k], s.maint, s.giccGicr)
  BY <1>4 DEF EntriesOf
<1>8. /\ f[k].maint = IF s.maint # 0 THEN s.maint ELSE f[k - 1].maint
      /\ f[k].gicr = IF f[k - 1].gicr = << >> /\ s.giccGicr # Zero64 THEN s.giccGicr ELSE f[k - 1].gicr
  BY <1>2, <1>6, <1>7, ReadInterface
<1>9. CASE k = 1
  <2>1. f[k - 1].gicr = << >>
    BY <1>9 DEF WalkOf, NoGic
  <2> QED BY <1>4, <1>8, <2>1
<1>10. CASE k # 1
  <2>1. k - 1 \in 1 .. n /\ ~ k <= k - 1
    BY <1>2, <1>4, <1>10
  <2>2. Good(k - 1)
    BY <1>3, <2>1
  <2>3. s.giccGicr # << >>
    BY <1>2, PairOf
  <2> QED BY <1>4, <1>8, <2>2, <2>3
<1> QED BY <1>9, <1>10

(* The walk finds what the writer was given.                               *)
LEMMA MadtReads ==
  ASSUME NEW s, IsSet(s), s.cpus # 0, NEW table, EntriesOf(s, table.body)
  PROVE  LET found == discover_gic_from_madt(table) IN
         /\ GicFound(found) /\ found.gicd = s.gicd
         /\ s.maint # 0 => found.maint = s.maint
         /\ s.giccGicr # Zero64 => found.gicr = s.giccGicr
<1> DEFINE n == s.cpus
           b == table.body
<1>1. n \in Nat /\ Len(b) = n + 3 /\ n # 0 /\ s.gicd \in Words /\ s.giccGicr \in Words
  BY DEF IsSet, EntriesOf
<1>2. PICK f : /\ WalkOf(b, f)
               /\ discover_gic_from_madt(table) =
                    [f[n + 3] EXCEPT !.gicr = IF @ = << >> THEN Zero64 ELSE @]
  BY WalkBySteps
<1> DEFINE p == n + 1
           q == n + 2
           r == n + 3
<1>3. /\ p \in 1 .. Len(b) /\ q \in 1 .. Len(b) /\ r \in 1 .. Len(b) /\ n \in 1 .. n
      /\ p - 1 = n /\ q - 1 = p /\ r - 1 = q
      /\ n \in 0 .. Len(b) /\ p \in 0 .. Len(b) /\ q \in 0 .. Len(b)
  BY <1>1
<1>4. /\ s.maint # 0 => f[n].maint = s.maint
      /\ s.giccGicr # Zero64 => f[n].gicr = s.giccGicr
  BY <1>2, <1>3, AfterInterfaces
<1>5. /\ b[p].type = "GICD" /\ U64(b[p], 2) = s.gicd
      /\ b[q].type = "GICR" /\ U64(b[q], 2) \in Words
      /\ b[r].type = "GIC_ITS"
  <2>1. U64(b[q], 2) = <<s.gicr[2], s.gicrLen>> /\ b[q].type = "GICR"
    BY DEF EntriesOf
  <2>2. <<s.gicr[2], s.gicrLen>> \in Words
    BY DEF IsSet, Words
  <2>3. b[p].type = "GICD" /\ U64(b[p], 2) = s.gicd /\ b[r].type = "GIC_ITS"
    BY DEF EntriesOf
  <2> QED BY <2>1, <2>2, <2>3
<1> HIDE DEF n, b, p, q, r
<1>6. f[n] \in Gics /\ f[p] \in Gics /\ f[q] \in Gics
  BY <1>2, <1>3 DEF WalkOf
<1>7. f[p] = EntryRead(f[n], b[p]) /\ f[q] = EntryRead(f[p], b[q]) /\ f[r] = EntryRead(f[q], b[r])
  <2>1. \A i \in 1 .. Len(b) : f[i] = EntryRead(f[i - 1], b[i])
    BY <1>2 DEF WalkOf
  <2> QED BY <1>3, <2>1
<1>8. f[p] = [f[n] EXCEPT !.gicd = s.gicd]
  BY <1>1, <1>5, <1>6, <1>7, ReadDistributor
<1>9. \/ f[q] = [f[p] EXCEPT !.gicr = U64(b[q], 2)] /\ f[p].gicr = << >>
      \/ f[q] = f[p]
  BY <1>5, <1>6, <1>7, ReadRange
<1>10. f[r] = f[q]
  BY <1>5, <1>6, <1>7, ReadOther
<1>11. f[q].gicd = s.gicd /\ f[q].maint = f[n].maint /\ (f[n].gicr # << >> => f[q].gicr = f[n].gicr)
  <2>1. f[p].gicd = s.gicd /\ f[p].maint = f[n].maint /\ f[p].gicr = f[n].gicr
    BY <1>6, <1>8 DEF Gics
  <2> QED BY <1>6, <1>9, <2>1 DEF Gics
<1>12. s.giccGicr # Zero64 => f[q].gicr = s.giccGicr /\ s.giccGicr # << >>
  BY <1>1, <1>4, <1>11, PairOf
<1> DEFINE found == discover_gic_from_madt(table)
<1>13. found = [f[q] EXCEPT !.gicr = IF @ = << >> THEN Zero64 ELSE @]
  BY <1>2, <1>10 DEF r, n
<1> HIDE DEF found
<1>14. found.gicd = s.gicd /\ found.maint = f[n].maint /\ (f[q].gicr # << >> => found.gicr = f[q].gicr)
  BY <1>6, <1>11, <1>13 DEF Gics
<1>15. s.gicd # << >>
  BY <1>1, PairOf
<1>16. /\ GicFound(found) /\ found.gicd = s.gicd
       /\ s.maint # 0 => found.maint = s.maint
       /\ s.giccGicr # Zero64 => found.gicr = s.giccGicr
  BY <1>4, <1>12, <1>14, <1>15 DEF GicFound
<1> QED BY <1>16 DEF found

(* ---------------------------- building the set ---------------------------- *)

(* Where the next table goes: after those already placed.                  *)
AfterFadt == FADT_TOTAL_LEN
AfterMadt(s) == AfterFadt + madt_size(s.cpus)
AfterGtdt(s) == AfterMadt(s) + GTDT_TOTAL_LEN
AfterIort(s) == AfterGtdt(s) + IORT_MIN_LEN
AfterXsdt(s) == AfterIort(s) + xsdt_size(4)

PlacedSoFar ==
  LET s == acpi.set IN
  CASE acpi.at = "FADT" -> acpi.off = 0
    [] acpi.at = "MADT" -> acpi.off = AfterFadt
    [] acpi.at = "GTDT" -> acpi.off = AfterMadt(s)
    [] acpi.at = "IORT" -> acpi.off = AfterGtdt(s)
    [] acpi.at = "XSDT" -> acpi.off = AfterIort(s)
    [] acpi.at = "RSDP" -> acpi.off = AfterXsdt(s)
    [] acpi.at = "done" -> acpi.off = total_size(s)
    [] OTHER -> TRUE

Stages == {"FADT", "MADT", "GTDT", "IORT", "XSDT", "RSDP", "done", "refused"}
TableNames == {"FADT", "MADT", "GTDT", "IORT", "XSDT"}
Records ==
  [set : AcpiSets, at : Stages,
   err : {"none", "TooManyEntries", "InvalidGicVersion", "InvalidTimerInterrupt", "BufferTooSmall"},
   off : Nat, memory : {acpi.memory}]

(* Each stage finds the tables of the earlier ones in place.               *)
AcpiInv ==
  /\ acpi \in Records
  /\ acpi.at # "refused" => set_validate(acpi.set) = "none" /\ acpi.err = "none"
  /\ acpi.err = "BufferTooSmall" => acpi.set.buffer < total_size(acpi.set)
  /\ PlacedSoFar
  /\ acpi.memory = [t \in TableNames |-> acpi.memory[t]]
  /\ acpi.at \in {"GTDT", "IORT", "XSDT", "RSDP", "done"} =>
       acpi.memory["MADT"].body = madt_entries(acpi.set)

(* Every part of it that does not depend on the stage.                     *)
Sound ==
  /\ acpi \in Records
  /\ acpi.at # "refused" => set_validate(acpi.set) = "none" /\ acpi.err = "none"
  /\ acpi.err = "BufferTooSmall" => acpi.set.buffer < total_size(acpi.set)
  /\ acpi.memory = [t \in TableNames |-> acpi.memory[t]]

LEMMA ValidCpus ==
  ASSUME NEW s, IsSet(s), set_validate(s) = "none"
  PROVE  s.cpus \in 1 .. 16
<1>1. ~ (s.cpus = 0 \/ s.cpus > MAX_GICC_ENTRIES)
  BY DEF set_validate
<1> QED BY <1>1 DEF IsSet, MAX_GICC_ENTRIES

LEMMA Lengths ==
  ASSUME NEW s, IsSet(s)
  PROVE  /\ AfterFadt \in Nat /\ AfterMadt(s) \in Nat /\ AfterGtdt(s) \in Nat
         /\ AfterIort(s) \in Nat /\ AfterXsdt(s) \in Nat /\ total_size(s) \in Nat
         /\ AfterFadt <= AfterMadt(s) /\ AfterMadt(s) <= AfterGtdt(s) /\ AfterGtdt(s) <= AfterIort(s)
         /\ AfterIort(s) <= AfterXsdt(s) /\ AfterXsdt(s) + RSDP_V2_LEN = total_size(s)
         /\ FADT_TOTAL_LEN \in Nat /\ madt_size(s.cpus) \in Nat /\ GTDT_TOTAL_LEN \in Nat
         /\ IORT_MIN_LEN \in Nat /\ xsdt_size(4) \in Nat /\ RSDP_V2_LEN \in Nat
<1>1. s.cpus \in Nat
  BY DEF IsSet
<1> QED BY <1>1 DEF AfterFadt, AfterMadt, AfterGtdt, AfterIort, AfterXsdt, total_size, FADT_TOTAL_LEN,
          madt_size, GTDT_TOTAL_LEN, IORT_MIN_LEN, xsdt_size, RSDP_V2_LEN, ACPI_HEADER_LEN, MADT_FIXED_BODY_LEN

(* What a builder does to a sound state: refuse, or place its table.       *)
Refuses == acpi'.at = "refused"
Places(t, next, len, body) ==
  /\ acpi'.at = next /\ acpi'.off = acpi.off + len
  /\ acpi'.memory[t].body = body
  /\ \A u \in TableNames : u # t => acpi'.memory[u] = acpi.memory[u]

LEMMA PlacedOutcome ==
  ASSUME AcpiInv, NEW t \in TableNames, NEW next \in Stages \ {"refused", "done"}, NEW len \in Nat, NEW body,
         Placed(t, next, len, body), acpi.off + len <= total_size(acpi.set)
  PROVE  /\ Sound' /\ acpi'.set = acpi.set
         /\ Refuses \/ Places(t, next, len, body)
<1> DEFINE s == acpi.set
           x == SdtTable(t, len, body)
           m == [acpi.memory EXCEPT ![t] = x]
<1>1. acpi \in Records /\ IsSet(s) /\ s \in AcpiSets /\ acpi.off \in Nat /\ acpi.at = t /\ t # "refused"
  BY Sets DEF AcpiInv, Records, Placed, TableNames
<1>2. x.body = body
  BY DEF SdtTable
<1>3. s.buffer \in Nat /\ total_size(s) \in Nat
  BY <1>1, Lengths DEF IsSet
<1> HIDE DEF x
<1>4. CASE acpi.off + len > s.buffer
  <2>1. acpi' = [acpi EXCEPT !.at = "refused", !.err = "BufferTooSmall"]
    BY <1>4 DEF Placed
  <2>2. /\ acpi'.set = s /\ acpi'.at = "refused" /\ acpi'.err = "BufferTooSmall"
        /\ acpi'.memory = acpi.memory /\ acpi' \in Records'
    BY <1>1, <2>1 DEF Records, Stages
  <2>3. s.buffer < total_size(s)
    BY <1>1, <1>3, <1>4
  <2> QED BY <2>2, <2>3 DEF Sound, Refuses, AcpiInv
<1>5. CASE ~ acpi.off + len > s.buffer
  <2>1. acpi' = [acpi EXCEPT !.at = next, !.off = acpi.off + len, !.memory[t] = x]
    BY <1>5 DEF Placed, x
  <2>2. acpi' = [acpi EXCEPT !.at = next, !.off = acpi.off + len, !.memory = m]
    BY <1>1, <2>1 DEF Records
  <2> HIDE DEF m
  <2> DEFINE o == acpi.off + len
  <2>3. /\ acpi'.set = s /\ acpi'.at = next /\ acpi'.err = acpi.err /\ acpi'.off = acpi.off + len
        /\ acpi'.memory = m /\ acpi' \in Records'
    <3>1. o \in Nat
      BY <1>1
    <3>2. acpi' = [acpi EXCEPT !.at = next, !.off = o, !.memory = m]
      BY <2>2
    <3> HIDE DEF o
    <3> QED BY <1>1, <3>1, <3>2 DEF Records, o
  <2>4. m = [u \in TableNames |-> m[u]] /\ m[t] = x /\ \A u \in TableNames : u # t => m[u] = acpi.memory[u]
    BY DEF m, AcpiInv
  <2>5. acpi.at # "refused" /\ set_validate(s) = "none" /\ acpi.err = "none"
    BY <1>1 DEF AcpiInv
  <2> QED BY <1>2, <2>3, <2>4, <2>5 DEF Sound, Places
<1> QED BY <1>4, <1>5

LEMMA StartsSound == ASSUME AcpiInit PROVE AcpiInv
<1>1. PICK s \in AcpiSets : AcpiOf(s)
  BY DEF AcpiInit
<1> DEFINE e == set_validate(s)
           m == [t \in TableNames |-> NoTable]
<1>2. acpi = [set |-> s, at |-> IF e = "none" THEN "FADT" ELSE "refused", err |-> e, off |-> 0,
              memory |-> m]
  BY <1>1 DEF AcpiOf, TableNames
<1>3. e \in {"none", "TooManyEntries", "InvalidGicVersion", "InvalidTimerInterrupt"}
  BY DEF set_validate
<1> HIDE DEF e
<1>4. m = [t \in TableNames |-> m[t]]
  OBVIOUS
<1> HIDE DEF m
<1>5. acpi.set = s /\ acpi.err = e /\ acpi.off = 0 /\ acpi.memory = m /\ acpi \in Records
      /\ acpi.at \in {"FADT", "refused"} /\ (acpi.at # "refused" => e = "none")
  BY <1>2, <1>3 DEF Records, Stages
<1>6. Sound
  BY <1>3, <1>4, <1>5 DEF Sound, e
<1>7. PlacedSoFar
  BY <1>5 DEF PlacedSoFar
<1> QED BY <1>5, <1>6, <1>7 DEF Sound, AcpiInv

LEMMA StepsSound == ASSUME AcpiInv, AcpiNext PROVE AcpiInv'
<1> DEFINE s == acpi.set
<1>1. IsSet(s) /\ acpi \in Records /\ acpi.off \in Nat
  BY Sets DEF AcpiInv, Records
<1>2. /\ AfterFadt \in Nat /\ AfterMadt(s) \in Nat /\ AfterGtdt(s) \in Nat
      /\ AfterIort(s) \in Nat /\ AfterXsdt(s) \in Nat /\ total_size(s) \in Nat
      /\ AfterFadt <= AfterMadt(s) /\ AfterMadt(s) <= AfterGtdt(s) /\ AfterGtdt(s) <= AfterIort(s)
      /\ AfterIort(s) <= AfterXsdt(s) /\ AfterXsdt(s) + RSDP_V2_LEN = total_size(s)
      /\ FADT_TOTAL_LEN \in Nat /\ madt_size(s.cpus) \in Nat /\ GTDT_TOTAL_LEN \in Nat
      /\ IORT_MIN_LEN \in Nat /\ xsdt_size(4) \in Nat /\ RSDP_V2_LEN \in Nat
  <2> HIDE DEF s
  <2> QED BY <1>1, Lengths
<1> HIDE DEF s
<1>3. CASE build_fadt
  <2>1. acpi.at = "FADT" /\ acpi.off = 0
    BY <1>3 DEF build_fadt, Placed, AcpiInv, PlacedSoFar
  <2>2. acpi.off + FADT_TOTAL_LEN = AfterFadt /\ AfterFadt <= total_size(s)
    BY <1>2, <2>1 DEF AfterFadt
  <2>3. /\ Sound' /\ acpi'.set = s
        /\ Refuses \/ Places("FADT", "MADT", FADT_TOTAL_LEN, << >>)
    BY <1>2, <1>3, <2>2, PlacedOutcome DEF build_fadt, TableNames, Stages, s
  <2>4. PlacedSoFar'
    BY <2>2, <2>3 DEF PlacedSoFar, Refuses, Places
  <2>5. acpi'.at \notin {"GTDT", "IORT", "XSDT", "RSDP", "done"}
    BY <2>3 DEF Refuses, Places
  <2> QED BY <2>3, <2>4, <2>5 DEF Sound, AcpiInv
<1>4. CASE build_madt
  <2> DEFINE body == madt_entries(s)
  <2>1. acpi.at = "MADT" /\ acpi.off = AfterFadt
    BY <1>4 DEF build_madt, Placed, AcpiInv, PlacedSoFar
  <2>2. SizeOf(body) = 80 * s.cpus + 60
    BY <1>1, MadtEntries, SizeOfMadt
  <2>3. ACPI_HEADER_LEN + MADT_FIXED_BODY_LEN + SizeOf(body) = madt_size(s.cpus)
    <3>1. s.cpus \in Nat
      BY <1>1 DEF IsSet
    <3> HIDE DEF body
    <3> QED BY <2>2, <3>1 DEF madt_size, ACPI_HEADER_LEN, MADT_FIXED_BODY_LEN
  <2>4. Placed("MADT", "GTDT", madt_size(s.cpus), body)
    BY <1>4, <2>3 DEF build_madt, s
  <2>5. acpi.off + madt_size(s.cpus) = AfterMadt(s) /\ AfterMadt(s) <= total_size(s)
    BY <1>2, <2>1 DEF AfterMadt
  <2> HIDE DEF body
  <2>6. /\ Sound' /\ acpi'.set = s
        /\ Refuses \/ Places("MADT", "GTDT", madt_size(s.cpus), body)
    <3> DEFINE len == madt_size(s.cpus)
    <3>1. len \in Nat /\ acpi.off + len <= total_size(acpi.set) /\ Placed("MADT", "GTDT", len, body)
      BY <1>2, <2>4, <2>5 DEF s
    <3> HIDE DEF len
    <3>2. "MADT" \in TableNames /\ "GTDT" \in Stages \ {"refused", "done"}
      BY DEF TableNames, Stages
    <3>3. /\ Sound' /\ acpi'.set = acpi.set
          /\ Refuses \/ Places("MADT", "GTDT", len, body)
      BY <3>1, <3>2, PlacedOutcome
    <3> QED BY <3>3 DEF s, len
  <2>7. PlacedSoFar'
    BY <2>5, <2>6 DEF PlacedSoFar, Refuses, Places
  <2>8. acpi'.at # "refused" => acpi'.memory["MADT"].body = madt_entries(acpi'.set)
    BY <2>6 DEF Refuses, Places, body
  <2> QED BY <2>6, <2>7, <2>8 DEF Sound, AcpiInv
<1>5. CASE build_gtdt
  <2>1. acpi.at = "GTDT" /\ acpi.off = AfterMadt(s) /\ acpi.memory["MADT"].body = madt_entries(s)
    BY <1>5 DEF build_gtdt, Placed, AcpiInv, PlacedSoFar, s
  <2>2. acpi.off + GTDT_TOTAL_LEN = AfterGtdt(s) /\ AfterGtdt(s) <= total_size(s)
    BY <1>2, <2>1 DEF AfterGtdt
  <2>3. /\ Sound' /\ acpi'.set = s
        /\ Refuses \/ Places("GTDT", "IORT", GTDT_TOTAL_LEN, s.timer)
    BY <1>2, <1>5, <2>2, PlacedOutcome DEF build_gtdt, TableNames, Stages, s
  <2>4. PlacedSoFar'
    BY <2>2, <2>3 DEF PlacedSoFar, Refuses, Places
  <2>5. acpi'.at # "refused" => acpi'.memory["MADT"].body = madt_entries(acpi'.set)
    BY <2>1, <2>3 DEF Refuses, Places, TableNames
  <2> QED BY <2>3, <2>4, <2>5 DEF Sound, AcpiInv
<1>6. CASE build_iort
  <2>1. acpi.at = "IORT" /\ acpi.off = AfterGtdt(s) /\ acpi.memory["MADT"].body = madt_entries(s)
    BY <1>6 DEF build_iort, Placed, AcpiInv, PlacedSoFar, s
  <2>2. acpi.off + IORT_MIN_LEN = AfterIort(s) /\ AfterIort(s) <= total_size(s)
    BY <1>2, <2>1 DEF AfterIort
  <2>3. /\ Sound' /\ acpi'.set = s
        /\ Refuses \/ Places("IORT", "XSDT", IORT_MIN_LEN, << >>)
    BY <1>2, <1>6, <2>2, PlacedOutcome DEF build_iort, TableNames, Stages, s
  <2>4. PlacedSoFar'
    BY <2>2, <2>3 DEF PlacedSoFar, Refuses, Places
  <2>5. acpi'.at # "refused" => acpi'.memory["MADT"].body = madt_entries(acpi'.set)
    BY <2>1, <2>3 DEF Refuses, Places, TableNames
  <2> QED BY <2>3, <2>4, <2>5 DEF Sound, AcpiInv
<1>7. CASE build_xsdt
  <2>1. acpi.at = "XSDT" /\ acpi.off = AfterIort(s) /\ acpi.memory["MADT"].body = madt_entries(s)
    BY <1>7 DEF build_xsdt, Placed, AcpiInv, PlacedSoFar, s
  <2>2. acpi.off + xsdt_size(4) = AfterXsdt(s) /\ AfterXsdt(s) <= total_size(s)
    BY <1>2, <2>1 DEF AfterXsdt
  <2>3. /\ Sound' /\ acpi'.set = s
        /\ Refuses \/ Places("XSDT", "RSDP", xsdt_size(4), <<1, 2, 3, 4>>)
    BY <1>2, <1>7, <2>2, PlacedOutcome DEF build_xsdt, TableNames, Stages, s
  <2>4. PlacedSoFar'
    BY <2>2, <2>3 DEF PlacedSoFar, Refuses, Places
  <2>5. acpi'.at # "refused" => acpi'.memory["MADT"].body = madt_entries(acpi'.set)
    BY <2>1, <2>3 DEF Refuses, Places, TableNames
  <2> QED BY <2>3, <2>4, <2>5 DEF Sound, AcpiInv
<1>8. CASE place_rsdp
  <2>1. acpi.at = "RSDP" /\ acpi.off = AfterXsdt(s) /\ acpi.memory["MADT"].body = madt_entries(s)
    BY <1>8 DEF place_rsdp, AcpiInv, PlacedSoFar, s
  <2>2. acpi.off + RSDP_V2_LEN = total_size(s) /\ s.buffer \in Nat
    BY <1>1, <1>2, <2>1 DEF IsSet
  <2>3. CASE acpi.off + RSDP_V2_LEN > s.buffer
    <3>1. acpi' = [acpi EXCEPT !.at = "refused", !.err = "BufferTooSmall"]
      BY <1>8, <2>3 DEF place_rsdp, s
    <3>2. /\ acpi'.set = s /\ acpi'.at = "refused" /\ acpi'.err = "BufferTooSmall"
          /\ acpi'.memory = acpi.memory /\ acpi' \in Records'
      BY <1>1, <3>1 DEF Records, Stages, s
    <3>3. s.buffer < total_size(s)
      BY <2>2, <2>3, <1>2
    <3>4. Sound'
      BY <3>2, <3>3 DEF Sound, AcpiInv
    <3>5. PlacedSoFar'
      BY <3>2 DEF PlacedSoFar
    <3> QED BY <3>2, <3>4, <3>5 DEF Sound, AcpiInv
  <2>4. CASE ~ acpi.off + RSDP_V2_LEN > s.buffer
    <3>1. acpi' = [acpi EXCEPT !.at = "done", !.off = acpi.off + RSDP_V2_LEN]
      BY <1>8, <2>4 DEF place_rsdp, s
    <3>2. /\ acpi'.set = s /\ acpi'.at = "done" /\ acpi'.err = acpi.err /\ acpi'.off = total_size(s)
          /\ acpi'.memory = acpi.memory /\ acpi' \in Records'
      BY <1>1, <1>2, <2>2, <3>1 DEF Records, Stages, s
    <3>3. set_validate(s) = "none" /\ acpi.err = "none"
      BY <2>1 DEF AcpiInv, s
    <3>4. Sound'
      BY <3>2, <3>3 DEF Sound, AcpiInv
    <3>5. PlacedSoFar'
      BY <3>2 DEF PlacedSoFar
    <3> QED BY <2>1, <3>2, <3>4, <3>5 DEF Sound, AcpiInv
  <2> QED BY <2>3, <2>4
<1> QED BY <1>3, <1>4, <1>5, <1>6, <1>7, <1>8 DEF AcpiNext

LEMMA SoundReads == ASSUME AcpiInv PROVE AcpiSetReads
<1> DEFINE s == acpi.set
           table == acpi.memory["MADT"]
<1>1. IsSet(s)
  BY Sets DEF AcpiInv, Records
<1>2. acpi.err # "LengthMismatch"
  BY DEF AcpiInv, Records
<1>3. ASSUME acpi.at = "done"
      PROVE  /\ GicFound(Found) /\ Found.gicd = s.gicd
             /\ s.maint # 0 => Found.maint = s.maint
             /\ s.giccGicr # Zero64 => Found.gicr = s.giccGicr
  <2>1. table.body = madt_entries(s) /\ set_validate(s) = "none"
    BY <1>3 DEF AcpiInv
  <2> HIDE DEF s, table
  <2>2. EntriesOf(s, table.body)
    BY <1>1, <2>1, MadtEntries
  <2>3. s.cpus # 0
    BY <1>1, <2>1, ValidCpus
  <2> QED BY <1>1, <2>2, <2>3, MadtReads DEF Found, table
<1>4. acpi.at = "done" => acpi.off = total_size(s)
  BY DEF AcpiInv, PlacedSoFar
<1> HIDE DEF table
<1> QED BY <1>2, <1>3, <1>4 DEF AcpiInv, AcpiSetReads

(* The tables of a set fill the buffer asked for to its last byte, and the *)
(* walk of the MADT finds the distributor and the maintenance interrupt    *)
(* where they were written, and a redistributor that the writer gave when  *)
(* the CPU interfaces name theirs (acpi.rs, gic.rs).                       *)
THEOREM TablesRead == AcpiSpec => []AcpiSetReads
<1>1. AcpiInit => AcpiInv
  BY StartsSound
<1>2. AcpiInv /\ [AcpiNext]_acpi => AcpiInv'
  <2> SUFFICES ASSUME AcpiInv, [AcpiNext]_acpi PROVE AcpiInv'
    OBVIOUS
  <2>1. CASE AcpiNext
    BY <2>1, StepsSound
  <2>2. CASE UNCHANGED acpi
    BY <2>2 DEF AcpiInv, Records, PlacedSoFar
  <2> QED BY <2>1, <2>2
<1>3. AcpiInv => AcpiSetReads
  BY SoundReads
<1> QED BY <1>1, <1>2, <1>3, PTL DEF AcpiSpec

(* ----------------------------------------------------------------------- *)
(* The device trees                                                        *)
(* ----------------------------------------------------------------------- *)

(* A sequence, whatever its elements.                                      *)
Listed(k) == k \in Seq({k[i] : i \in 1 .. Len(k)})

LEMMA ListOf == ASSUME NEW S, NEW k \in Seq(S) PROVE Listed(k)
BY DEF Listed

LEMMA Joined ==
  ASSUME NEW p, NEW q, Listed(p), Listed(q)
  PROVE  /\ Listed(p \o q) /\ Len(p) \in Nat /\ Len(q) \in Nat /\ Len(p \o q) = Len(p) + Len(q)
         /\ \A i \in 1 .. Len(p) : (p \o q)[i] = p[i]
         /\ \A i \in 1 .. Len(q) : (p \o q)[Len(p) + i] = q[i]
<1> DEFINE P == {p[i] : i \in 1 .. Len(p)}
           Q == {q[i] : i \in 1 .. Len(q)}
           T == P \cup Q
<1>1. p \in Seq(P) /\ q \in Seq(Q)
  BY DEF Listed
<1> HIDE DEF P, Q
<1>2. p \in Seq(T) /\ q \in Seq(T)
  BY <1>1
<1> HIDE DEF T
<1>3. p \o q \in Seq(T)
  BY <1>2
<1>4. /\ Len(p) \in Nat /\ Len(q) \in Nat /\ Len(p \o q) = Len(p) + Len(q)
      /\ \A i \in 1 .. Len(p) : (p \o q)[i] = p[i]
      /\ \A i \in 1 .. Len(q) : (p \o q)[Len(p) + i] = q[i]
  BY <1>2
<1> QED BY <1>3, <1>4, ListOf

(* ---------------------- what a part of a tree does ---------------------- *)

IsCall(c) ==
  /\ c.op \in {"begin", "end", "prop"} /\ c.len \in Nat /\ c.val \in Nat

(* Reading the call c leads from the open nodes a to b, and finds `reg` in *)
(* order.                                                                  *)
ReadsCall(c, a, b) ==
  /\ IsCall(c)
  /\ b = ReadToken(a, c, IF c.op = "prop" THEN c.name ELSE "")
  /\ c.op = "prop" /\ c.name = "reg" => RegFits(b, c.len)

(* Reading the calls k leads from the open nodes a to b, with an open node *)
(* all the way.                                                            *)
Run(k, f) ==
  /\ f = [i \in 0 .. Len(k) |-> f[i]]
  /\ \A i \in 1 .. Len(k) : ReadsCall(k[i], f[i - 1], f[i])
  /\ \A i \in 1 .. Len(k) - 1 : f[i] # << >>
Reads(k, a, b) == Listed(k) /\ \E f : Run(k, f) /\ f[0] = a /\ f[Len(k)] = b

LEMMA ReadsJoined ==
  ASSUME NEW p, NEW q, NEW a, NEW b, NEW c, Reads(p, a, b), Reads(q, b, c), b # << >>
  PROVE  Reads(p \o q, a, c)
<1> DEFINE k == p \o q
           n == Len(p)
           m == Len(q)
<1>1. Listed(p) /\ Listed(q)
  BY DEF Reads
<1>2. /\ Listed(k) /\ n \in Nat /\ m \in Nat /\ Len(k) = n + m
      /\ \A i \in 1 .. n : k[i] = p[i]
      /\ \A i \in 1 .. m : k[n + i] = q[i]
  BY <1>1, Joined
<1>3. PICK f : Run(p, f) /\ f[0] = a /\ f[n] = b
  BY DEF Reads
<1>4. PICK g : Run(q, g) /\ g[0] = b /\ g[m] = c
  BY DEF Reads
<1> DEFINE h == [i \in 0 .. n + m |-> IF i <= n THEN f[i] ELSE g[i - n]]
<1> HIDE DEF k, n, m
<1>5. \A i \in 0 .. n : h[i] = f[i]
  BY <1>2
<1>6. \A i \in 0 .. m : h[n + i] = g[i]
  <2> SUFFICES ASSUME NEW i \in 0 .. m PROVE h[n + i] = g[i]
    OBVIOUS
  <2>1. CASE i = 0
    BY <1>2, <1>3, <1>4, <2>1
  <2>2. CASE i # 0
    BY <1>2, <2>2
  <2> QED BY <2>1, <2>2
<1>7. h = [i \in 0 .. n + m |-> h[i]]
  OBVIOUS
<1> HIDE DEF h
<1>8. ASSUME NEW i \in 1 .. n + m
      PROVE  ReadsCall(k[i], h[i - 1], h[i])
  <2>1. CASE i <= n
    <3>1. i \in 1 .. n /\ i \in 0 .. n /\ i - 1 \in 0 .. n
      BY <1>2, <2>1
    <3>2. ReadsCall(p[i], f[i - 1], f[i])
      BY <1>3, <3>1 DEF Run, n
    <3> QED BY <1>2, <1>5, <3>1, <3>2
  <2>2. CASE ~ i <= n
    <3> DEFINE j == i - n
    <3>1. j \in 1 .. m /\ j \in 0 .. m /\ j - 1 \in 0 .. m /\ i = n + j /\ i - 1 = n + (j - 1)
      BY <1>2, <2>2
    <3> HIDE DEF j
    <3>2. ReadsCall(q[j], g[j - 1], g[j])
      BY <1>4, <3>1 DEF Run, m
    <3>3. k[i] = q[j] /\ h[i] = g[j] /\ h[i - 1] = g[j - 1]
      BY <1>2, <1>6, <3>1
    <3> QED BY <3>2, <3>3
  <2> QED BY <2>1, <2>2
<1>9. ASSUME NEW i \in 1 .. n + m - 1 PROVE h[i] # << >>
  <2>1. CASE i < n
    <3>1. i \in 1 .. n - 1 /\ i \in 0 .. n
      BY <1>2, <2>1
    <3>2. f[i] # << >>
      BY <1>3, <3>1 DEF Run, n
    <3> QED BY <1>5, <3>1, <3>2
  <2>2. CASE i = n
    BY <1>2, <1>3, <1>5, <2>2
  <2>3. CASE i > n
    <3> DEFINE j == i - n
    <3>1. j \in 1 .. m - 1 /\ j \in 0 .. m /\ i = n + j
      BY <1>2, <2>3
    <3> HIDE DEF j
    <3>2. g[j] # << >>
      BY <1>4, <3>1 DEF Run, m
    <3> QED BY <1>6, <3>1, <3>2
  <2> QED BY <1>2, <2>1, <2>2, <2>3
<1>10. Run(k, h)
  <2>1. \A i \in 1 .. Len(k) - 1 : h[i] # << >>
    BY <1>2, <1>9
  <2>2. \A i \in 1 .. Len(k) : ReadsCall(k[i], h[i - 1], h[i])
    BY <1>2, <1>8
  <2>3. h = [i \in 0 .. Len(k) |-> h[i]]
    BY <1>2, <1>7
  <2> QED BY <2>1, <2>2, <2>3 DEF Run
<1>11. h[0] = a /\ h[n + m] = c
  <2>1. 0 \in 0 .. n /\ m \in 0 .. m
    BY <1>2
  <2> QED BY <1>3, <1>4, <1>5, <1>6, <2>1
<1> QED BY <1>2, <1>10, <1>11 DEF Reads, k

LEMMA ReadsOne ==
  ASSUME NEW c, NEW a, NEW b, ReadsCall(c, a, b)
  PROVE  Reads(<<c>>, a, b)
<1> DEFINE k == <<c>>
           f == [i \in 0 .. 1 |-> IF i = 0 THEN a ELSE b]
<1>1. Len(k) = 1 /\ k[1] = c /\ Listed(k)
  BY DEF Listed
<1>2. f[0] = a /\ f[1] = b /\ f = [i \in 0 .. 1 |-> f[i]]
  OBVIOUS
<1> HIDE DEF k, f
<1>3. \A i \in 1 .. 1 : i = 1 /\ i - 1 = 0
  OBVIOUS
<1>4. \A i \in 1 .. 1 - 1 : FALSE
  OBVIOUS
<1>5. Run(k, f)
  BY <1>1, <1>2, <1>3, <1>4 DEF Run
<1> QED BY <1>1, <1>2, <1>5 DEF Reads, k

LEMMA ReadsNothing == ASSUME NEW a PROVE Reads(<< >>, a, a)
<1> DEFINE k == << >>
           f == [i \in 0 .. 0 |-> a]
<1>1. Len(k) = 0 /\ Listed(k)
  BY DEF Listed
<1>2. f[0] = a /\ f = [i \in 0 .. 0 |-> f[i]]
  OBVIOUS
<1> HIDE DEF k, f
<1>3. \A i \in 1 .. 0 : FALSE
  OBVIOUS
<1>4. \A i \in 1 .. 0 - 1 : FALSE
  OBVIOUS
<1>5. Run(k, f)
  BY <1>1, <1>2, <1>3, <1>4 DEF Run
<1> QED BY <1>1, <1>2, <1>5 DEF Reads, k

(* Properties that leave the open nodes alone, and nodes within a node.    *)
Keeps(c, a) == ReadsCall(c, a, a)
AllKeep(ps, a) == Listed(ps) /\ \A i \in 1 .. Len(ps) : Keeps(ps[i], a)
AllRead(kids, a) == Listed(kids) /\ \A i \in 1 .. Len(kids) : Reads(kids[i], a, a)

LEMMA PropsRead ==
  ASSUME NEW ps, NEW a, AllKeep(ps, a), a # << >>
  PROVE  Reads(ps, a, a)
<1> DEFINE n == Len(ps)
           f == [i \in 0 .. n |-> a]
<1>1. n \in Nat /\ Listed(ps)
  BY DEF AllKeep, Listed
<1>2. \A i \in 0 .. n : f[i] = a
  OBVIOUS
<1>3. f = [i \in 0 .. n |-> f[i]]
  OBVIOUS
<1> HIDE DEF f
<1>4. \A i \in 1 .. n : ReadsCall(ps[i], f[i - 1], f[i])
  <2> SUFFICES ASSUME NEW i \in 1 .. n PROVE ReadsCall(ps[i], f[i - 1], f[i])
    OBVIOUS
  <2>1. i \in 0 .. n /\ i - 1 \in 0 .. n
    BY <1>1
  <2>2. ReadsCall(ps[i], a, a)
    BY DEF AllKeep, Keeps
  <2> HIDE DEF n
  <2> QED BY <1>2, <2>1, <2>2
<1>5. Run(ps, f)
  <2>1. \A i \in 1 .. n - 1 : i \in 0 .. n
    BY <1>1
  <2> QED BY <1>2, <1>3, <1>4, <2>1 DEF Run
<1>6. 0 \in 0 .. n /\ n \in 0 .. n
  BY <1>1
<1> QED BY <1>1, <1>2, <1>5, <1>6 DEF Reads

LEMMA AllKeepJoined ==
  ASSUME NEW p, NEW q, NEW a, AllKeep(p, a), AllKeep(q, a)
  PROVE  AllKeep(p \o q, a)
<1> DEFINE k == p \o q
           n == Len(p)
           m == Len(q)
<1>1. Listed(p) /\ Listed(q)
  BY DEF AllKeep
<1>2. /\ Listed(k) /\ n \in Nat /\ m \in Nat /\ Len(k) = n + m
      /\ \A i \in 1 .. n : k[i] = p[i]
      /\ \A i \in 1 .. m : k[n + i] = q[i]
  BY <1>1, Joined
<1>3. /\ \A i \in 1 .. n : Keeps(p[i], a)
      /\ \A i \in 1 .. m : Keeps(q[i], a)
  BY DEF AllKeep
<1> HIDE DEF k, n, m
<1>4. ASSUME NEW i \in 1 .. n + m PROVE Keeps(k[i], a)
  <2>1. CASE i <= n
    BY <1>2, <1>3, <2>1
  <2>2. CASE ~ i <= n
    <3> DEFINE j == i - n
    <3>1. j \in 1 .. m /\ i = n + j
      BY <1>2, <2>2
    <3> HIDE DEF j
    <3> QED BY <1>2, <1>3, <3>1
  <2> QED BY <2>1, <2>2
<1> QED BY <1>2, <1>4 DEF AllKeep, k

LEMMA AllReadJoined ==
  ASSUME NEW p, NEW q, NEW a, AllRead(p, a), AllRead(q, a)
  PROVE  AllRead(p \o q, a)
<1> DEFINE k == p \o q
           n == Len(p)
           m == Len(q)
<1>1. Listed(p) /\ Listed(q)
  BY DEF AllRead
<1>2. /\ Listed(k) /\ n \in Nat /\ m \in Nat /\ Len(k) = n + m
      /\ \A i \in 1 .. n : k[i] = p[i]
      /\ \A i \in 1 .. m : k[n + i] = q[i]
  BY <1>1, Joined
<1>3. /\ \A i \in 1 .. n : Reads(p[i], a, a)
      /\ \A i \in 1 .. m : Reads(q[i], a, a)
  BY DEF AllRead
<1> HIDE DEF k, n, m
<1>4. ASSUME NEW i \in 1 .. n + m PROVE Reads(k[i], a, a)
  <2>1. CASE i <= n
    BY <1>2, <1>3, <2>1
  <2>2. CASE ~ i <= n
    <3> DEFINE j == i - n
    <3>1. j \in 1 .. m /\ i = n + j
      BY <1>2, <2>2
    <3> HIDE DEF j
    <3> QED BY <1>2, <1>3, <3>1
  <2> QED BY <2>1, <2>2
<1> QED BY <1>2, <1>4 DEF AllRead, k

(* One node after the other.                                               *)
LEMMA KidsRead ==
  ASSUME NEW kids, NEW a, AllRead(kids, a), a # << >>
  PROVE  Reads(FlattenSeq(kids), a, a)
<1> DEFINE n == Len(kids)
<1>1. n \in Nat /\ Listed(kids) /\ \A i \in 1 .. n : Reads(kids[i], a, a)
  BY DEF AllRead, Listed
<1>2. CASE n = 0
  <2>1. FlattenSeq(kids) = kids
    BY <1>2 DEF FlattenSeq
  <2>2. kids = << >>
    BY <1>1, <1>2 DEF Listed
  <2> QED BY <2>1, <2>2, ReadsNothing
<1>3. CASE n # 0
  <2> DEFINE E == UNION {{kids[i][j] : j \in 1 .. Len(kids[i])} : i \in 1 .. n}
             S == {k \in Seq(E) : Reads(k, a, a)}
             F == [x \in (0 .. n) \X S |-> IF x[1] = 0 THEN << >> ELSE x[2] \o kids[x[1]]]
             Body(g) == [i \in 1 .. n |-> IF i = 1 THEN kids[i] ELSE g[i - 1] \o kids[i]]
             chosen == CHOOSE g : g = Body(g)
  <2>1. << >> \in S
    BY ReadsNothing
  <2>2. \A i \in 1 .. n : kids[i] \in Seq(E)
    <3> SUFFICES ASSUME NEW i \in 1 .. n PROVE kids[i] \in Seq(E)
      OBVIOUS
    <3> DEFINE P == {kids[i][j] : j \in 1 .. Len(kids[i])}
    <3>1. kids[i] \in Seq(P)
      BY <1>1 DEF Reads, Listed
    <3>2. P \subseteq E
      OBVIOUS
    <3> HIDE DEF P, E
    <3> QED BY <3>1, <3>2
  <2>3. \A i \in 1 .. n, k \in S : k \o kids[i] \in S
    <3> SUFFICES ASSUME NEW i \in 1 .. n, NEW k \in S PROVE k \o kids[i] \in S
      OBVIOUS
    <3>1. k \in Seq(E) /\ kids[i] \in Seq(E) /\ Reads(k, a, a) /\ Reads(kids[i], a, a)
      BY <1>1, <2>2
    <3> HIDE DEF E
    <3>2. k \o kids[i] \in Seq(E)
      BY <3>1
    <3>3. Reads(k \o kids[i], a, a)
      BY <3>1, ReadsJoined
    <3> QED BY <3>2, <3>3
  <2> HIDE DEF E, S
  <2>4. ASSUME NEW i \in 0 .. n, NEW v \in S
        PROVE  F[<<i, v>>] = (IF i = 0 THEN << >> ELSE v \o kids[i]) /\ F[<<i, v>>] \in S
    <3>1. i # 0 => i \in 1 .. n
      BY <1>1
    <3>2. F[<<i, v>>] = (IF i = 0 THEN << >> ELSE v \o kids[i])
      OBVIOUS
    <3> HIDE DEF F, n
    <3> QED BY <2>1, <2>3, <3>1, <3>2
  <2>5. F \in [(0 .. n) \X S -> S]
    <3>1. \A x \in (0 .. n) \X S : x = <<x[1], x[2]>> /\ x[1] \in 0 .. n /\ x[2] \in S
      OBVIOUS
    <3>2. \A x \in (0 .. n) \X S : F[x] \in S
      <4> HIDE DEF F, n
      <4> QED BY <2>4, <3>1
    <3>3. F = [x \in (0 .. n) \X S |-> F[x]]
      OBVIOUS
    <3> HIDE DEF F
    <3> QED BY <3>2, <3>3
  <2> HIDE DEF F
  <2>6. PICK f : FromItsStart(f, n, S, << >>, F)
    <3> HIDE DEF n
    <3> QED BY <1>1, <2>1, <2>5, UpRecursion
  <2>7. f \in [0 .. n -> S] /\ f[0] = << >> /\ \A i \in 0 .. n : i # 0 => f[i] = F[<<i, f[i - 1]>>]
    BY <2>6 DEF FromItsStart
  <2>8. ASSUME NEW i \in 1 .. n PROVE f[i] = f[i - 1] \o kids[i]
    <3>1. i \in 0 .. n /\ i # 0 /\ i - 1 \in 0 .. n
      BY <1>1
    <3>2. f[i - 1] \in S
      BY <2>7, <3>1
    <3> HIDE DEF n
    <3> QED BY <2>4, <2>7, <3>1, <3>2
  <2> DEFINE g == [i \in 1 .. n |-> f[i]]
  <2>9. g = Body(g)
    <3>1. \A i \in 1 .. n : g[i] = IF i = 1 THEN kids[i] ELSE g[i - 1] \o kids[i]
      <4> SUFFICES ASSUME NEW i \in 1 .. n PROVE g[i] = IF i = 1 THEN kids[i] ELSE g[i - 1] \o kids[i]
        OBVIOUS
      <4>1. CASE i = 1
        <5>1. f[i] = << >> \o kids[i]
          <6>1. i - 1 = 0
            BY <4>1
          <6>2. f[i] = f[i - 1] \o kids[i]
            BY <2>8
          <6> QED BY <2>7, <6>1, <6>2
        <5>2. << >> \o kids[i] = kids[i]
          <6>1. kids[i] \in Seq(E)
            BY <2>2
          <6> QED BY <6>1
        <5> QED BY <4>1, <5>1, <5>2
      <4>2. CASE i # 1
        <5>1. i - 1 \in 1 .. n
          BY <1>1, <4>2
        <5> QED BY <2>8, <4>2, <5>1
      <4> QED BY <4>1, <4>2
    <3>2. g = [i \in 1 .. n |-> g[i]]
      OBVIOUS
    <3> HIDE DEF g, n
    <3> QED BY <3>1, <3>2
  <2> DEFINE Fixed(h) == h = Body(h)
  <2>10. chosen = Body(chosen)
    <3>1. Fixed(g)
      BY <2>9
    <3> HIDE DEF Fixed, g
    <3>2. Fixed(CHOOSE h : Fixed(h))
      BY <3>1
    <3> QED BY <3>2 DEF Fixed
  <2>11. \A i \in 1 .. n : chosen[i] = f[i]
    <3> HIDE DEF chosen
    <3>1. \A i \in 1 .. n : chosen[i] = IF i = 1 THEN kids[i] ELSE chosen[i - 1] \o kids[i]
      BY <2>10
    <3>2. \A i \in 1 .. n : g[i] = (IF i = 1 THEN kids[i] ELSE g[i - 1] \o kids[i]) /\ g[i] = f[i]
      BY <2>9
    <3> HIDE DEF g
    <3> DEFINE D == {i \in 1 .. n : chosen[i] # g[i]}
    <3>3. D = {}
      <4>1. SUFFICES ASSUME D # {} PROVE FALSE
        OBVIOUS
      <4>2. PICK i \in D : \A j \in D : i <= j
        <5>1. D \subseteq Nat
          OBVIOUS
        <5> HIDE DEF D
        <5> QED BY <4>1, <5>1, LeastOf
      <4>3. i \in 1 .. n /\ chosen[i] # g[i]
        BY <4>2
      <4>4. i # 1
        BY <3>1, <3>2, <4>3
      <4>5. i - 1 \in 1 .. n /\ ~ i <= i - 1
        BY <1>1, <4>3, <4>4
      <4>6. chosen[i - 1] = g[i - 1]
        BY <4>2, <4>5
      <4> QED BY <3>1, <3>2, <4>3, <4>4, <4>6
    <3> QED BY <3>2, <3>3
  <2>12. FlattenSeq(kids) = chosen[n]
    BY <1>3 DEF FlattenSeq
  <2>13. n \in 1 .. n /\ n \in 0 .. n
    BY <1>1, <1>3
  <2>14. f[n] \in S
    BY <2>7, <2>13
  <2> HIDE DEF chosen, n
  <2> QED BY <2>11, <2>12, <2>13, <2>14 DEF S
<1> QED BY <1>2, <1>3

(* -------------------------- the nodes of the trees -------------------------- *)

Cells == [address : Nat, size : Nat]
Unsaid == [address |-> 2, size |-> 1]

LEMMA Pushed ==
  ASSUME NEW open \in Seq(Cells), NEW c \in Cells
  PROVE  LET a == Append(open, c) IN
         /\ a \in Seq(Cells) /\ Len(a) = Len(open) + 1 /\ a # << >> /\ a[Len(a)] = c
         /\ Front(a) = open
<1> DEFINE a == Append(open, c)
<1>1. a \in Seq(Cells) /\ Len(a) = Len(open) + 1 /\ a[Len(open) + 1] = c
      /\ \A i \in 1 .. Len(open) : a[i] = open[i]
  OBVIOUS
<1>2. Len(open) \in Nat
  OBVIOUS
<1>3. a # << >>
  BY <1>1, <1>2
<1>4. Front(a) = open
  <2>1. Front(a) = SubSeq(a, 1, Len(a) - 1)
    BY DEF Front
  <2>2. Len(a) - 1 = Len(open)
    BY <1>1, <1>2
  <2>3. SubSeq(a, 1, Len(open)) \in Seq(Cells) /\ Len(SubSeq(a, 1, Len(open))) = Len(open)
        /\ \A i \in 1 .. Len(open) : SubSeq(a, 1, Len(open))[i] = a[i]
    <3> HIDE DEF a
    <3> QED BY <1>1, <1>2
  <2> DEFINE b == SubSeq(a, 1, Len(open))
  <2> HIDE DEF a, b
  <2>4. b \in Seq(Cells) /\ Len(b) = Len(open) /\ \A i \in 1 .. Len(open) : b[i] = open[i]
    BY <1>1, <2>3 DEF b
  <2>5. b = open
    BY <2>4
  <2> QED BY <2>1, <2>2, <2>5 DEF b
<1> QED BY <1>1, <1>2, <1>3, <1>4

(* A node whose properties say c, with nodes in it that c suits.           *)
LEMMA NodeReads ==
  ASSUME NEW open \in Seq(Cells), NEW c \in Cells, NEW name, NEW props, NEW kids,
         Reads(props, Append(open, Unsaid), Append(open, c)),
         AllRead(kids, Append(open, c))
  PROVE  /\ Reads(Node(name, props, kids), open, open)
         /\ Node(name, props, kids) # << >> /\ Node(name, props, kids)[1].op = "begin"
<1> DEFINE a == Append(open, Unsaid)
           b == Append(open, c)
           body == FlattenSeq(kids)
           bn == begin_node(name)
           en == end_node
<1>1. Unsaid \in Cells
  BY DEF Unsaid, Cells
<1>2. a # << >> /\ b # << >> /\ Front(b) = open
  BY <1>1, Pushed
<1>3. ReadsCall(bn, open, a)
  <2>1. bn.op = "begin" /\ bn.len = Len(name) + 1 /\ bn.val = 0
    BY DEF begin_node
  <2>2. bn.len \in Nat
    <3>1. Len(name) \in Nat
      OBVIOUS
    <3> QED BY <2>1, <3>1
  <2> HIDE DEF bn
  <2> QED BY <2>1, <2>2 DEF ReadsCall, IsCall, ReadToken, Unsaid
<1>4. ReadsCall(en, b, open)
  <2>1. en.op = "end" /\ en.len = 0 /\ en.val = 0
    BY DEF end_node
  <2> HIDE DEF en, b
  <2> QED BY <1>2, <2>1 DEF ReadsCall, IsCall, ReadToken
<1> HIDE DEF a, b, bn, en
<1>5. Reads(<<bn>>, open, a) /\ Reads(<<en>>, b, open)
  BY <1>3, <1>4, ReadsOne
<1>6. Reads(props, a, b) /\ Reads(body, b, b)
  BY <1>2, KidsRead DEF a, b
<1> HIDE DEF body
<1>7. Reads(<<bn>> \o props, open, b)
  BY <1>2, <1>5, <1>6, ReadsJoined
<1>8. Reads((<<bn>> \o props) \o body, open, b)
  BY <1>2, <1>6, <1>7, ReadsJoined
<1>9. Reads(((<<bn>> \o props) \o body) \o <<en>>, open, open)
  BY <1>2, <1>5, <1>8, ReadsJoined
<1>10. Node(name, props, kids) = ((<<bn>> \o props) \o body) \o <<en>>
  BY DEF Node, bn, en, body
<1>11. /\ ((<<bn>> \o props) \o body) \o <<en>> # << >>
       /\ (((<<bn>> \o props) \o body) \o <<en>>)[1] = bn
  <2> DEFINE u == <<bn>>
             v == u \o props
             w == v \o body
             z == w \o <<en>>
  <2>1. Len(u) = 1 /\ u[1] = bn
    OBVIOUS
  <2>2. Listed(u) /\ Listed(props) /\ Listed(v) /\ Listed(body) /\ Listed(w) /\ Listed(<<en>>)
    BY <1>5, <1>6, <1>7, <1>8 DEF Reads
  <2> HIDE DEF u
  <2>3. Len(v) \in Nat /\ 1 <= Len(v) /\ v[1] = bn
    <3>1. /\ Len(u) \in Nat /\ Len(props) \in Nat /\ Len(v) = Len(u) + Len(props)
          /\ \A i \in 1 .. Len(u) : v[i] = u[i]
      BY <2>2, Joined
    <3> HIDE DEF v
    <3> QED BY <2>1, <3>1
  <2> HIDE DEF v
  <2>4. Len(w) \in Nat /\ 1 <= Len(w) /\ w[1] = bn
    BY <2>2, <2>3, Joined
  <2> HIDE DEF w
  <2>5. 1 <= Len(z) /\ z[1] = bn
    BY <2>2, <2>4, Joined
  <2> HIDE DEF z
  <2>6. z # << >>
    BY <2>5
  <2> QED BY <2>5, <2>6 DEF z, w, v, u
<1>12. bn.op = "begin"
  BY DEF begin_node, bn
<1> QED BY <1>9, <1>10, <1>11, <1>12

(* A node with nothing in it, and no cells said.                           *)
LEMMA NoKids == ASSUME NEW a PROVE AllRead(<< >>, a)
<1>1. Len(<< >>) = 0 /\ \A i \in 1 .. 0 : FALSE
  OBVIOUS
<1>2. Listed(<< >>)
  BY DEF Listed
<1> DEFINE k == << >>
<1> HIDE DEF k
<1> QED BY <1>1, <1>2 DEF AllRead, k

LEMMA LeafReads ==
  ASSUME NEW open \in Seq(Cells), NEW name, NEW props, AllKeep(props, Append(open, Unsaid))
  PROVE  Reads(Node(name, props, << >>), open, open)
<1>1. Unsaid \in Cells
  BY DEF Unsaid, Cells
<1>2. Append(open, Unsaid) # << >>
  BY <1>1, Pushed
<1>3. Reads(props, Append(open, Unsaid), Append(open, Unsaid))
  BY <1>2, PropsRead
<1> QED BY <1>1, <1>3, NoKids, NodeReads

LEMMA TwoOnes == ASSUME NEW p, NEW q PROVE <<p>> \o <<q>> = <<p, q>>
<1> DEFINE u == <<p>>
           v == <<q>>
           w == <<p, q>>
           E == {p, q}
<1>1. u \in Seq(E) /\ v \in Seq(E) /\ Len(u) = 1 /\ Len(v) = 1 /\ u[1] = p /\ v[1] = q
  OBVIOUS
<1>2. w \in Seq(E) /\ Len(w) = 2 /\ w[1] = p /\ w[2] = q
  OBVIOUS
<1> HIDE DEF u, v, w, E
<1> DEFINE z == u \o v
<1>3. z \in Seq(E) /\ Len(z) = 2 /\ z[1] = u[1] /\ z[2] = v[1]
  <2>1. Listed(u) /\ Listed(v)
    BY <1>1, ListOf
  <2>2. /\ Len(z) = Len(u) + Len(v) /\ \A i \in 1 .. Len(u) : z[i] = u[i]
        /\ \A i \in 1 .. Len(v) : z[Len(u) + i] = v[i]
    BY <2>1, Joined
  <2>3. z \in Seq(E)
    BY <1>1
  <2> HIDE DEF z
  <2>4. z[1] = u[1] /\ z[1 + 1] = v[1]
    BY <1>1, <2>2
  <2> QED BY <1>1, <2>2, <2>3, <2>4
<1> HIDE DEF z
<1>4. \A i \in 1 .. 2 : z[i] = w[i]
  <2>1. \A i \in 1 .. 2 : i = 1 \/ i = 2
    OBVIOUS
  <2> QED BY <1>1, <1>2, <1>3, <2>1 DEF z
<1>5. z = w
  BY <1>2, <1>3, <1>4 DEF z
<1> QED BY <1>5 DEF z, u, v, w

(* The two cell counts of a node.                                          *)
LEMMA CellsSaid ==
  ASSUME NEW open \in Seq(Cells), NEW c \in Cells, NEW x \in Nat, NEW y \in Nat
  PROVE  Reads(AddressCells(x, y), Append(open, c), Append(open, [address |-> x, size |-> y]))
<1> DEFINE u == [address |-> x, size |-> c.size]
           v == [address |-> x, size |-> y]
           n == Len(open) + 1
           p == prop_u32("#address-cells", x)
           q == prop_u32("#size-cells", y)
           A == Append(open, c)
           B == Append(open, u)
           C == Append(open, v)
<1>1. u \in Cells /\ v \in Cells /\ Len(open) \in Nat
  BY DEF Cells
<1>2. /\ Len(A) = n /\ Len(B) = n /\ A # << >> /\ B # << >> /\ C # << >>
      /\ A[n] = c /\ B[n] = u
      /\ A \in Seq(Cells) /\ B \in Seq(Cells) /\ C \in Seq(Cells) /\ Len(C) = n /\ C[n] = v
      /\ \A i \in 1 .. Len(open) : A[i] = open[i] /\ B[i] = open[i] /\ C[i] = open[i]
  <2>1. /\ Len(A) = n /\ A # << >> /\ A[n] = c /\ A \in Seq(Cells)
        /\ \A i \in 1 .. Len(open) : A[i] = open[i]
    BY <1>1, Pushed
  <2>2. /\ Len(B) = n /\ B # << >> /\ B[n] = u /\ B \in Seq(Cells)
        /\ \A i \in 1 .. Len(open) : B[i] = open[i]
    <3> HIDE DEF u
    <3> QED BY <1>1, Pushed
  <2>3. /\ Len(C) = n /\ C # << >> /\ C[n] = v /\ C \in Seq(Cells)
        /\ \A i \in 1 .. Len(open) : C[i] = open[i]
    <3> HIDE DEF v
    <3> QED BY <1>1, Pushed
  <2> HIDE DEF A, B, C, u, v
  <2> QED BY <2>1, <2>2, <2>3
<1> HIDE DEF A, B, C
<1>3. [A EXCEPT ![n].address = x] = B
  <2>1. n \in 1 .. Len(A)
    BY <1>1, <1>2
  <2>2. [c EXCEPT !.address = x] = u
    BY DEF Cells
  <2>3. [A EXCEPT ![n].address = x] = [A EXCEPT ![n] = u]
    BY <1>2, <2>1, <2>2
  <2> DEFINE D == [A EXCEPT ![n] = u]
  <2>4. D \in Seq(Cells) /\ Len(D) = n /\ D[n] = u /\ \A i \in 1 .. n : i # n => D[i] = A[i]
    <3> HIDE DEF u, n
    <3> QED BY <1>1, <1>2, <2>1
  <2> HIDE DEF D, u
  <2>5. \A i \in 1 .. n : D[i] = B[i]
    BY <1>1, <1>2, <2>4
  <2>6. D = B
    BY <1>2, <2>4, <2>5
  <2> QED BY <2>3, <2>6 DEF D
<1>4. [B EXCEPT ![n].size = y] = C
  <2>1. n \in 1 .. Len(B)
    BY <1>1, <1>2
  <2>2. [u EXCEPT !.size = y] = v
    OBVIOUS
  <2>3. [B EXCEPT ![n].size = y] = [B EXCEPT ![n] = v]
    <3> HIDE DEF u, v
    <3> QED BY <1>2, <2>1, <2>2
  <2> DEFINE D == [B EXCEPT ![n] = v]
  <2>4. D \in Seq(Cells) /\ Len(D) = n /\ D[n] = v /\ \A i \in 1 .. n : i # n => D[i] = B[i]
    <3> HIDE DEF u, v, n
    <3> QED BY <1>1, <1>2, <2>1
  <2> HIDE DEF D, u, v
  <2>5. \A i \in 1 .. n : D[i] = C[i]
    BY <1>1, <1>2, <2>4
  <2>6. D = C
    BY <1>2, <2>4, <2>5
  <2> QED BY <2>3, <2>6 DEF D
<1>5. p.op = "prop" /\ p.name = "#address-cells" /\ p.len = 4 /\ p.val = x
      /\ q.op = "prop" /\ q.name = "#size-cells" /\ q.len = 4 /\ q.val = y
  BY DEF prop_u32
<1> HIDE DEF p, q, u, v
<1>6. ReadsCall(p, A, B)
  <2>1. ReadToken(A, p, p.name) = [A EXCEPT ![Len(A)].address = p.val]
    BY <1>5 DEF ReadToken
  <2> QED BY <1>2, <1>3, <1>5, <2>1 DEF ReadsCall, IsCall
<1>7. ReadsCall(q, B, C)
  <2>1. ReadToken(B, q, q.name) = [B EXCEPT ![Len(B)].size = q.val]
    BY <1>5 DEF ReadToken
  <2>2. ReadToken(B, q, q.name) = C
    BY <1>2, <1>4, <1>5, <2>1
  <2> HIDE DEF n
  <2> QED BY <1>5, <2>2 DEF ReadsCall, IsCall
<1>8. Reads(<<p>> \o <<q>>, A, C)
  BY <1>2, <1>6, <1>7, ReadsOne, ReadsJoined
<1>9. <<p>> \o <<q>> = <<p, q>>
  BY TwoOnes
<1>10. AddressCells(x, y) = <<p, q>>
  BY DEF AddressCells, p, q
<1> QED BY <1>8, <1>9, <1>10 DEF A, C, v

Special == {"#address-cells", "#size-cells", "reg"}

LEMMA PlainKept ==
  ASSUME NEW p, NEW a, p.op = "prop", p.len \in Nat, p.val \in Nat, p.name \notin Special
  PROVE  Keeps(p, a)
<1>1. ReadToken(a, p, p.name) = a
  BY DEF ReadToken, Special
<1> QED BY <1>1 DEF Keeps, ReadsCall, IsCall, Special

LEMMA DataKept ==
  ASSUME NEW name, name \notin Special, NEW len \in Nat, NEW a
  PROVE  Keeps(prop_data(name, len), a)
<1> DEFINE p == prop_data(name, len)
<1>1. p.op = "prop" /\ p.len = len /\ p.val = 0 /\ p.name = name
  BY DEF prop_data
<1> HIDE DEF p
<1> QED BY <1>1, PlainKept DEF p

LEMMA CellsKept ==
  ASSUME NEW name, name \notin Special, NEW cells \in Nat, NEW a
  PROVE  Keeps(prop_cells(name, cells), a)
BY DataKept DEF prop_cells

LEMMA StrKept ==
  ASSUME NEW name, name \notin Special, NEW val, NEW a
  PROVE  Keeps(prop_str(name, val), a)
<1>1. Len(val) \in Nat
  OBVIOUS
<1> QED BY <1>1, DataKept DEF prop_str

LEMMA U32Kept ==
  ASSUME NEW name, name \notin Special, NEW val \in Nat, NEW a
  PROVE  Keeps(prop_u32(name, val), a)
<1> DEFINE p == prop_u32(name, val)
<1>1. p.op = "prop" /\ p.len = 4 /\ p.val = val /\ p.name = name
  BY DEF prop_u32
<1> HIDE DEF p
<1> QED BY <1>1, PlainKept DEF p

LEMMA EmptyKept == ASSUME NEW name, name \notin Special, NEW a PROVE Keeps(prop_empty(name), a)
BY DataKept DEF prop_empty

LEMMA U64Kept == ASSUME NEW name, name \notin Special, NEW a PROVE Keeps(prop_u64(name), a)
BY DataKept DEF prop_u64

(* A `reg` of whole entries, as the innermost node around says.            *)
Under(open, x, y) ==
  /\ open \in Seq(Cells) /\ open # << >> /\ open[Len(open)] = [address |-> x, size |-> y]

LEMMA RegKept ==
  ASSUME NEW x \in Nat, NEW y \in Nat, NEW open, Under(open, x, y), NEW c \in Cells,
         NEW n \in Nat, x + y # 0, (4 * n) % (4 * (x + y)) = 0
  PROVE  Keeps(prop_cells("reg", n), Append(open, c))
<1> DEFINE p == prop_cells("reg", n)
           a == Append(open, c)
           k == [address |-> x, size |-> y]
<1>1. p.op = "prop" /\ p.len = 4 * n /\ p.val = 0 /\ p.name = "reg"
  BY DEF prop_cells, prop_data
<1>2. open \in Seq(Cells) /\ Len(open) \in Nat /\ Len(open) # 0 /\ open[Len(open)] = k
  BY DEF Under
<1>3. Len(a) = Len(open) + 1 /\ a[Len(open)] = k
  BY <1>2
<1>4. k.address = x /\ k.size = y
  OBVIOUS
<1> HIDE DEF p, a, k
<1>5. RegFits(a, 4 * n)
  <2>1. Len(a) > 1 /\ Len(a) - 1 = Len(open)
    BY <1>2, <1>3
  <2>2. 4 * (x + y) # 0
    OBVIOUS
  <2>3. a[Len(a) - 1] = k
    BY <1>3, <2>1
  <2> QED BY <1>4, <2>1, <2>2, <2>3 DEF RegFits
<1>6. ReadToken(a, p, p.name) = a
  BY <1>1 DEF ReadToken
<1>7. 4 * n \in Nat
  OBVIOUS
<1> QED BY <1>1, <1>5, <1>6, <1>7 DEF Keeps, ReadsCall, IsCall, p, a

(* Short lists.                                                            *)
LEMMA NoneKept == ASSUME NEW a PROVE AllKeep(<< >>, a)
<1>1. Len(<< >>) = 0 /\ \A i \in 1 .. 0 : FALSE
  OBVIOUS
<1>2. Listed(<< >>)
  BY DEF Listed
<1> DEFINE k == << >>
<1> HIDE DEF k
<1> QED BY <1>1, <1>2 DEF AllKeep, k

LEMMA Keep1 == ASSUME NEW a, NEW p, Keeps(p, a) PROVE AllKeep(<<p>>, a)
<1> DEFINE k == <<p>>
<1>1. Len(k) = 1 /\ k[1] = p /\ Listed(k)
  BY DEF Listed
<1>2. \A i \in 1 .. 1 : i = 1
  OBVIOUS
<1> HIDE DEF k
<1> QED BY <1>1, <1>2 DEF AllKeep, k

LEMMA Keep2 == ASSUME NEW a, NEW p, NEW q, Keeps(p, a), Keeps(q, a) PROVE AllKeep(<<p, q>>, a)
<1> DEFINE k == <<p, q>>
<1>1. Len(k) = 2 /\ k[1] = p /\ k[2] = q /\ Listed(k)
  BY DEF Listed
<1>2. \A i \in 1 .. 2 : i = 1 \/ i = 2
  OBVIOUS
<1> HIDE DEF k
<1> QED BY <1>1, <1>2 DEF AllKeep, k

LEMMA Keep3 ==
  ASSUME NEW a, NEW p, NEW q, NEW r, Keeps(p, a), Keeps(q, a), Keeps(r, a)
  PROVE  AllKeep(<<p, q, r>>, a)
<1> DEFINE k == <<p, q, r>>
<1>1. Len(k) = 3 /\ k[1] = p /\ k[2] = q /\ k[3] = r /\ Listed(k)
  BY DEF Listed
<1>2. \A i \in 1 .. 3 : i = 1 \/ i = 2 \/ i = 3
  OBVIOUS
<1> HIDE DEF k
<1> QED BY <1>1, <1>2 DEF AllKeep, k

LEMMA Keep4 ==
  ASSUME NEW a, NEW p, NEW q, NEW r, NEW s, Keeps(p, a), Keeps(q, a), Keeps(r, a), Keeps(s, a)
  PROVE  AllKeep(<<p, q, r, s>>, a)
<1> DEFINE k == <<p, q, r, s>>
<1>1. Len(k) = 4 /\ k[1] = p /\ k[2] = q /\ k[3] = r /\ k[4] = s /\ Listed(k)
  BY DEF Listed
<1>2. \A i \in 1 .. 4 : i = 1 \/ i = 2 \/ i = 3 \/ i = 4
  OBVIOUS
<1> HIDE DEF k
<1> QED BY <1>1, <1>2 DEF AllKeep, k

LEMMA Keep5 ==
  ASSUME NEW a, NEW p, NEW q, NEW r, NEW s, NEW t,
         Keeps(p, a), Keeps(q, a), Keeps(r, a), Keeps(s, a), Keeps(t, a)
  PROVE  AllKeep(<<p, q, r, s, t>>, a)
<1> DEFINE k == <<p, q, r, s, t>>
<1>1. Len(k) = 5 /\ k[1] = p /\ k[2] = q /\ k[3] = r /\ k[4] = s /\ k[5] = t /\ Listed(k)
  BY DEF Listed
<1>2. \A i \in 1 .. 5 : i = 1 \/ i = 2 \/ i = 3 \/ i = 4 \/ i = 5
  OBVIOUS
<1> HIDE DEF k
<1> QED BY <1>1, <1>2 DEF AllKeep, k

LEMMA Kids1 == ASSUME NEW a, NEW p, Reads(p, a, a) PROVE AllRead(<<p>>, a)
<1> DEFINE k == <<p>>
<1>1. Len(k) = 1 /\ k[1] = p /\ Listed(k)
  BY DEF Listed
<1>2. \A i \in 1 .. 1 : i = 1
  OBVIOUS
<1> HIDE DEF k
<1> QED BY <1>1, <1>2 DEF AllRead, k

LEMMA Kids2 == ASSUME NEW a, NEW p, NEW q, Reads(p, a, a), Reads(q, a, a) PROVE AllRead(<<p, q>>, a)
<1> DEFINE k == <<p, q>>
<1>1. Len(k) = 2 /\ k[1] = p /\ k[2] = q /\ Listed(k)
  BY DEF Listed
<1>2. \A i \in 1 .. 2 : i = 1 \/ i = 2
  OBVIOUS
<1> HIDE DEF k
<1> QED BY <1>1, <1>2 DEF AllRead, k

LEMMA Kids7 ==
  ASSUME NEW a, NEW p, NEW q, NEW r, NEW s, NEW t, NEW u, NEW v,
         Reads(p, a, a), Reads(q, a, a), Reads(r, a, a), Reads(s, a, a), Reads(t, a, a),
         Reads(u, a, a), Reads(v, a, a)
  PROVE  AllRead(<<p, q, r, s, t, u, v>>, a)
<1> DEFINE k == <<p, q, r, s, t, u, v>>
<1>1. Len(k) = 7 /\ k[1] = p /\ k[2] = q /\ k[3] = r /\ k[4] = s /\ k[5] = t /\ k[6] = u /\ k[7] = v
      /\ Listed(k)
  BY DEF Listed
<1>2. \A i \in 1 .. 7 : i = 1 \/ i = 2 \/ i = 3 \/ i = 4 \/ i = 5 \/ i = 6 \/ i = 7
  OBVIOUS
<1> HIDE DEF k
<1> QED BY <1>1, <1>2 DEF AllRead, k

LEMMA UnsaidCells == Unsaid \in Cells
BY DEF Unsaid, Cells

LEMMA UnderSeq == ASSUME NEW open, NEW x, NEW y, Under(open, x, y) PROVE open \in Seq(Cells)
BY DEF Under

LEMMA MemoryReads == ASSUME NEW open, Under(open, 2, 2) PROVE Reads(Memory, open, open)
<1> DEFINE a == Append(open, Unsaid)
<1>1. Keeps(prop_str("device_type", "memory"), a)
  BY StrKept DEF Special
<1>2. Keeps(prop_cells("reg", 4), a)
  BY RegKept, UnsaidCells
<1> HIDE DEF a
<1>3. AllKeep(<<prop_str("device_type", "memory"), prop_cells("reg", 4)>>, a)
  BY <1>1, <1>2, Keep2
<1> QED BY <1>3, LeafReads, UnderSeq DEF Memory, a

LEMMA CpuReads == ASSUME NEW i, NEW open, Under(open, 2, 0) PROVE Reads(Cpu(i), open, open)
<1> DEFINE a == Append(open, Unsaid)
<1>1. /\ Keeps(prop_str("compatible", "arm,armv8"), a)
      /\ Keeps(prop_str("device_type", "cpu"), a)
      /\ Keeps(prop_str("enable-method", "psci"), a)
  BY StrKept DEF Special
<1>2. Keeps(prop_cells("reg", 2), a)
  BY RegKept, UnsaidCells
<1> HIDE DEF a
<1>3. AllKeep(<<prop_str("compatible", "arm,armv8"), prop_str("device_type", "cpu"),
                prop_cells("reg", 2), prop_str("enable-method", "psci")>>, a)
  BY <1>1, <1>2, Keep4
<1> QED BY <1>3, LeafReads, UnderSeq DEF Cpu, a

LEMMA UnderSaid ==
  ASSUME NEW open \in Seq(Cells), NEW x \in Nat, NEW y \in Nat
  PROVE  Under(Append(open, [address |-> x, size |-> y]), x, y)
<1> DEFINE c == [address |-> x, size |-> y]
<1>1. c \in Cells
  BY DEF Cells
<1> HIDE DEF c
<1>2. LET a == Append(open, c) IN a \in Seq(Cells) /\ a # << >> /\ a[Len(a)] = c
  BY <1>1, Pushed
<1> QED BY <1>2 DEF Under, c

LEMMA CpusRead ==
  ASSUME NEW n \in Nat, NEW open \in Seq(Cells)
  PROVE  Reads(Cpus(n), open, open)
<1> DEFINE c == [address |-> 2, size |-> 0]
           kids == [i \in 1 .. n |-> Cpu(i - 1)]
           a == Append(open, c)
<1>1. c \in Cells /\ Under(a, 2, 0)
  BY UnderSaid DEF Cells
<1>2. Reads(AddressCells(2, 0), Append(open, Unsaid), a)
  BY CellsSaid, UnsaidCells
<1> HIDE DEF a
<1>3. Listed(kids) /\ Len(kids) = n /\ \A i \in 1 .. n : kids[i] = Cpu(i - 1)
  <2> DEFINE V == {Cpu(i - 1) : i \in 1 .. n}
  <2>1. \A i \in 1 .. n : kids[i] = Cpu(i - 1) /\ kids[i] \in V
    OBVIOUS
  <2>2. kids = [i \in 1 .. n |-> kids[i]]
    OBVIOUS
  <2> HIDE DEF kids, V
  <2>3. kids \in [1 .. n -> V]
    BY <2>1, <2>2
  <2>4. kids \in Seq(V) /\ Len(kids) = n
    BY <2>3
  <2> QED BY <2>1, <2>4, ListOf
<1> HIDE DEF kids
<1>4. AllRead(kids, a)
  <2>1. \A i \in 1 .. n : Reads(kids[i], a, a)
    BY <1>1, <1>3, CpuReads
  <2> QED BY <1>3, <2>1 DEF AllRead
<1> HIDE DEF c
<1>5. Reads(Node("cpus", AddressCells(2, 0), kids), open, open)
  BY <1>1, <1>2, <1>4, NodeReads DEF a
<1> QED BY <1>5 DEF Cpus, kids

LEMMA PsciReads == ASSUME NEW prod \in BOOLEAN, NEW open \in Seq(Cells) PROVE Reads(Psci(prod), open, open)
<1> DEFINE a == Append(open, Unsaid)
           head == <<prop_str("compatible", "arm,psci-1.0"), prop_str("method", "hvc"),
                     prop_cells("cpu_on", 1), prop_cells("cpu_off", 1), prop_cells("cpu_suspend", 1)>>
           tail == IF prod THEN << >> ELSE <<prop_cells("migrate", 1)>>
<1>1. /\ Keeps(prop_str("compatible", "arm,psci-1.0"), a) /\ Keeps(prop_str("method", "hvc"), a)
      /\ Keeps(prop_cells("cpu_on", 1), a) /\ Keeps(prop_cells("cpu_off", 1), a)
      /\ Keeps(prop_cells("cpu_suspend", 1), a) /\ Keeps(prop_cells("migrate", 1), a)
  BY StrKept, CellsKept DEF Special
<1> HIDE DEF a
<1>2. AllKeep(head, a)
  BY <1>1, Keep5
<1>3. AllKeep(tail, a)
  BY <1>1, Keep1, NoneKept
<1> HIDE DEF head, tail
<1>4. AllKeep(head \o tail, a)
  BY <1>2, <1>3, AllKeepJoined
<1> QED BY <1>4, LeafReads DEF Psci, a, head, tail

LEMMA IntcReads == ASSUME NEW prod \in BOOLEAN, NEW open, Under(open, 2, 2) PROVE Reads(Intc(prod), open, open)
<1> DEFINE c == [address |-> 2, size |-> 2]
           a == Append(open, Unsaid)
           b == Append(open, c)
           head == <<prop_str("compatible", "arm,gic-v3"), prop_u32("#interrupt-cells", 3),
                     prop_empty("interrupt-controller")>>
           reg == <<prop_cells("reg", 8)>>
           cells == AddressCells(2, 2)
           tail == IF prod THEN cells \o reg ELSE reg \o cells
<1>1. open \in Seq(Cells) /\ c \in Cells /\ Unsaid \in Cells
  BY UnderSeq, UnsaidCells DEF Cells
<1>2. a # << >> /\ b # << >>
  <2> HIDE DEF c
  <2> QED BY <1>1, Pushed
<1>3. Keeps(prop_cells("reg", 8), a) /\ Keeps(prop_cells("reg", 8), b)
  <2> HIDE DEF c
  <2> QED BY <1>1, RegKept
<1>4. Reads(cells, a, b)
  BY <1>1, CellsSaid
<1>5. /\ Keeps(prop_str("compatible", "arm,gic-v3"), a) /\ Keeps(prop_u32("#interrupt-cells", 3), a)
      /\ Keeps(prop_empty("interrupt-controller"), a)
  BY StrKept, U32Kept, EmptyKept DEF Special
<1> HIDE DEF a, b, cells
<1>6. Reads(reg, a, a) /\ Reads(reg, b, b)
  BY <1>2, <1>3, Keep1, PropsRead
<1>7. Reads(head, a, a)
  BY <1>2, <1>5, Keep3, PropsRead
<1> HIDE DEF head, reg
<1>8. Reads(tail, a, b)
  BY <1>2, <1>4, <1>6, ReadsJoined
<1> HIDE DEF tail, c
<1>9. Reads(head \o tail, a, b)
  BY <1>2, <1>7, <1>8, ReadsJoined
<1>10. Reads(Node("interrupt-controller@8000000", head \o tail, << >>), open, open)
  BY <1>1, <1>9, NoKids, NodeReads DEF a, b
<1> QED BY <1>10 DEF Intc, head, tail, reg, cells

LEMMA TimerReads == ASSUME NEW open \in Seq(Cells) PROVE Reads(Timer, open, open)
<1> DEFINE a == Append(open, Unsaid)
<1>1. /\ Keeps(prop_str("compatible", "arm,armv8-timer"), a) /\ Keeps(prop_cells("interrupts", 12), a)
      /\ Keeps(prop_empty("always-on"), a)
  BY StrKept, CellsKept, EmptyKept DEF Special
<1> HIDE DEF a
<1>2. AllKeep(<<prop_str("compatible", "arm,armv8-timer"), prop_cells("interrupts", 12),
                prop_empty("always-on")>>, a)
  BY <1>1, Keep3
<1> QED BY <1>2, LeafReads DEF Timer, a

LEMMA SerialReads ==
  ASSUME NEW prod \in BOOLEAN, NEW open, Under(open, 2, 2)
  PROVE  Reads(Serial(prod), open, open)
<1> DEFINE a == Append(open, Unsaid)
           head == <<prop_cells("reg", 4), prop_cells("interrupts", 3)>>
           pl011 == <<prop_str("compatible", "arm,pl011")>>
           cell == <<prop_str("compatible", "arm,pl011 arm,primecell")>>
           clock == <<prop_cells("clock-frequency", 1), prop_str("clock-names", "uartclk")>>
           parent == <<prop_empty("interrupt-parent")>>
           props == IF prod THEN (cell \o head) \o clock ELSE (pl011 \o head) \o parent
<1>1. /\ Keeps(prop_str("compatible", "arm,pl011 arm,primecell"), a)
      /\ Keeps(prop_str("compatible", "arm,pl011"), a)
      /\ Keeps(prop_cells("interrupts", 3), a) /\ Keeps(prop_cells("clock-frequency", 1), a)
      /\ Keeps(prop_str("clock-names", "uartclk"), a) /\ Keeps(prop_empty("interrupt-parent"), a)
  BY StrKept, CellsKept, EmptyKept DEF Special
<1>2. Keeps(prop_cells("reg", 4), a)
  BY RegKept, UnsaidCells
<1> HIDE DEF a
<1>3. AllKeep(head, a) /\ AllKeep(clock, a)
  BY <1>1, <1>2, Keep2
<1>4. AllKeep(pl011, a) /\ AllKeep(cell, a) /\ AllKeep(parent, a)
  BY <1>1, Keep1
<1> HIDE DEF head, pl011, cell, clock, parent
<1>5. AllKeep((cell \o head) \o clock, a) /\ AllKeep((pl011 \o head) \o parent, a)
  BY <1>3, <1>4, AllKeepJoined
<1>6. AllKeep(props, a)
  BY <1>5
<1> HIDE DEF props
<1>7. Reads(Node("serial@9000000", props, << >>), open, open)
  BY <1>6, LeafReads, UnderSeq DEF a
<1> QED BY <1>7 DEF Serial, props, cell, pl011, head, clock, parent

LEMMA ChosenReads ==
  ASSUME NEW c, c.prod \in BOOLEAN, c.cmdline \in Nat, NEW open \in Seq(Cells)
  PROVE  Reads(Chosen(c), open, open)
<1> DEFINE a == Append(open, Unsaid)
           fixed == <<prop_data("bootargs", c.cmdline), prop_data("stdout-path", Len(StdoutPath))>>
           initrd == <<prop_u64("linux,initrd-start"), prop_u64("linux,initrd-end")>>
           tail == IF c.initrd[1] = 0 THEN << >> ELSE initrd
           first == <<prop_data("bootargs", c.cmdline + 1), prop_str("stdout-path", StdoutPath)>>
           props == IF c.prod THEN fixed \o tail ELSE first
<1>1. /\ Keeps(prop_data("bootargs", c.cmdline), a) /\ Keeps(prop_data("bootargs", c.cmdline + 1), a)
      /\ Keeps(prop_data("stdout-path", Len(StdoutPath)), a)
      /\ Keeps(prop_str("stdout-path", StdoutPath), a)
  <2>1. Len(StdoutPath) \in Nat /\ c.cmdline + 1 \in Nat
    OBVIOUS
  <2> QED BY <2>1, StrKept, DataKept DEF Special
<1>2. Keeps(prop_u64("linux,initrd-start"), a) /\ Keeps(prop_u64("linux,initrd-end"), a)
  BY U64Kept DEF Special
<1> HIDE DEF a
<1>3. AllKeep(fixed, a) /\ AllKeep(initrd, a) /\ AllKeep(first, a) /\ AllKeep(<< >>, a)
  BY <1>1, <1>2, Keep2, NoneKept
<1> HIDE DEF fixed, initrd, first
<1>4. AllKeep(tail, a)
  BY <1>3
<1> HIDE DEF tail
<1>5. AllKeep(fixed \o tail, a)
  BY <1>3, <1>4, AllKeepJoined
<1>6. AllKeep(props, a)
  BY <1>3, <1>5
<1> HIDE DEF props
<1>7. Reads(Node("chosen", props, << >>), open, open)
  BY <1>6, LeafReads DEF a
<1> QED BY <1>7 DEF Chosen, props, fixed, tail, initrd, first

LEMMA FstabReads == ASSUME NEW part, NEW open \in Seq(Cells) PROVE Reads(Fstab(part), open, open)
<1> DEFINE a == Append(open, Unsaid)
           k == <<prop_str("compatible", "android," \o part), prop_str("dev", "/dev/block/by-name/" \o part),
                  prop_str("type", "ext4"), prop_str("mntflags", "ro,barrier=1,discard"),
                  prop_str("fsmgr_flags", "wait,slotselect,avb,first_stage_mount")>>
<1>1. /\ Keeps(prop_str("compatible", "android," \o part), a)
      /\ Keeps(prop_str("dev", "/dev/block/by-name/" \o part), a)
      /\ Keeps(prop_str("type", "ext4"), a) /\ Keeps(prop_str("mntflags", "ro,barrier=1,discard"), a)
      /\ Keeps(prop_str("fsmgr_flags", "wait,slotselect,avb,first_stage_mount"), a)
  BY StrKept DEF Special
<1> HIDE DEF a
<1>2. AllKeep(k, a)
  BY <1>1, Keep5
<1> HIDE DEF k
<1> QED BY <1>2, LeafReads DEF Fstab, a, k

LEMMA FirmwareReads == ASSUME NEW open \in Seq(Cells) PROVE Reads(Firmware, open, open)
<1> DEFINE a == Append(open, Unsaid)
           b == Append(a, Unsaid)
           d == Append(b, Unsaid)
           tab == Node("fstab", <<prop_str("compatible", "android,fstab")>>, <<Fstab("system"), Fstab("vendor")>>)
           droid == Node("android", <<prop_str("compatible", "android,firmware")>>, <<tab>>)
<1>1. a \in Seq(Cells) /\ b \in Seq(Cells) /\ d \in Seq(Cells) /\ a # << >> /\ b # << >> /\ d # << >>
  BY UnsaidCells, Pushed
<1>2. Keeps(prop_str("compatible", "android,fstab"), d) /\ Keeps(prop_str("compatible", "android,firmware"), b)
  BY StrKept DEF Special
<1>3. Reads(<<prop_str("compatible", "android,fstab")>>, d, d)
      /\ Reads(<<prop_str("compatible", "android,firmware")>>, b, b)
  <2> HIDE DEF a, b, d
  <2> QED BY <1>1, <1>2, Keep1, PropsRead
<1>4. AllRead(<<Fstab("system"), Fstab("vendor")>>, d)
  <2> HIDE DEF a, b, d
  <2> QED BY <1>1, FstabReads, Kids2
<1>5. Reads(tab, b, b)
  <2> HIDE DEF a, b
  <2> QED BY <1>1, <1>3, <1>4, UnsaidCells, NodeReads
<1> HIDE DEF tab
<1>6. AllRead(<<tab>>, b)
  BY <1>5, Kids1
<1>7. Reads(droid, a, a)
  <2> HIDE DEF a
  <2> QED BY <1>1, <1>3, <1>6, UnsaidCells, NodeReads
<1> HIDE DEF droid
<1>8. AllRead(<<droid>>, a)
  BY <1>7, Kids1
<1>9. Reads(<< >>, a, a)
  BY ReadsNothing
<1>10. Reads(Node("firmware", << >>, <<droid>>), open, open)
  BY <1>8, <1>9, UnsaidCells, NodeReads
<1> QED BY <1>10 DEF Firmware, droid, tab

LEMMA ReservedReads == ASSUME NEW open \in Seq(Cells) PROVE Reads(ReservedMemory, open, open)
<1> DEFINE c == [address |-> 2, size |-> 2]
           b == Append(open, c)
           d == Append(b, Unsaid)
           ram == <<prop_str("compatible", "ramoops"), prop_cells("reg", 4), prop_cells("record-size", 1),
                    prop_cells("console-size", 1), prop_empty("no-map")>>
           oops == Node("ramoops@bfe00000", ram, << >>)
           cells == AddressCells(2, 2)
           ranges == <<prop_empty("ranges")>>
<1>1. c \in Cells /\ Under(b, 2, 2)
  BY UnderSaid DEF Cells
<1>2. b \in Seq(Cells) /\ b # << >>
  BY <1>1 DEF Under
<1>3. Reads(cells, Append(open, Unsaid), b)
  BY CellsSaid, UnsaidCells
<1> HIDE DEF b, cells
<1>4. /\ Keeps(prop_str("compatible", "ramoops"), d) /\ Keeps(prop_cells("record-size", 1), d)
      /\ Keeps(prop_cells("console-size", 1), d) /\ Keeps(prop_empty("no-map"), d)
  BY StrKept, CellsKept, EmptyKept DEF Special
<1>5. Keeps(prop_cells("reg", 4), d)
  BY <1>1, RegKept, UnsaidCells
<1>6. AllKeep(ram, d)
  <2> HIDE DEF d
  <2> QED BY <1>4, <1>5, Keep5
<1> HIDE DEF ram
<1>7. Reads(oops, b, b)
  BY <1>2, <1>6, LeafReads
<1> HIDE DEF oops
<1>8. AllRead(<<oops>>, b)
  BY <1>7, Kids1
<1>9. Reads(ranges, b, b)
  <2>1. Keeps(prop_empty("ranges"), b)
    BY EmptyKept DEF Special
  <2> QED BY <1>2, <2>1, Keep1, PropsRead
<1> HIDE DEF ranges, c
<1>10. Reads(cells \o ranges, Append(open, Unsaid), b)
  BY <1>2, <1>3, <1>9, ReadsJoined
<1>11. Reads(Node("reserved-memory", cells \o ranges, <<oops>>), open, open)
  BY <1>1, <1>8, <1>10, NodeReads DEF b
<1> QED BY <1>11 DEF ReservedMemory, cells, ranges, oops, ram

(* The whole tree, from no open node to none.                              *)
LEMMA TreeReads ==
  ASSUME NEW c, c.prod \in BOOLEAN, c.cmdline \in Nat, c.cpus \in Nat
  PROVE  Reads(Tree(c), << >>, << >>) /\ Tree(c) # << >> /\ Tree(c)[1].op = "begin"
<1> DEFINE c2 == [address |-> 2, size |-> 2]
           none == << >>
           a == Append(none, Unsaid)
           b == Append(none, c2)
           cells == AddressCells(2, 2)
           compatible == <<prop_str("compatible", "aether,android-partition")>>
           first == <<Memory, Cpus(c.cpus), Psci(c.prod), Intc(c.prod), Timer, Serial(c.prod), Chosen(c)>>
           more == IF c.prod THEN <<Firmware, ReservedMemory>> ELSE << >>
<1>1. none \in Seq(Cells) /\ c2 \in Cells
  BY DEF Cells
<1> HIDE DEF none
<1>2. Under(b, 2, 2)
  BY <1>1, UnderSaid
<1>3. b \in Seq(Cells) /\ b # << >>
  BY <1>2 DEF Under
<1>4. Reads(cells, a, b)
  BY <1>1, CellsSaid, UnsaidCells
<1> HIDE DEF b, a, cells
<1>5. Reads(compatible, b, b)
  <2>1. Keeps(prop_str("compatible", "aether,android-partition"), b)
    BY StrKept DEF Special
  <2> QED BY <1>3, <2>1, Keep1, PropsRead
<1>6. /\ Reads(Memory, b, b) /\ Reads(Cpus(c.cpus), b, b) /\ Reads(Psci(c.prod), b, b)
      /\ Reads(Intc(c.prod), b, b) /\ Reads(Timer, b, b) /\ Reads(Serial(c.prod), b, b)
      /\ Reads(Chosen(c), b, b)
  BY <1>2, <1>3, MemoryReads, CpusRead, PsciReads, IntcReads, TimerReads, SerialReads, ChosenReads
<1>7. AllRead(first, b)
  BY <1>6, Kids7
<1>8. AllRead(more, b)
  BY <1>3, FirmwareReads, ReservedReads, Kids2, NoKids
<1> HIDE DEF first, more, compatible
<1>9. AllRead(first \o more, b)
  BY <1>7, <1>8, AllReadJoined
<1>10. Reads(cells \o compatible, a, b)
  BY <1>3, <1>4, <1>5, ReadsJoined
<1> HIDE DEF c2
<1>11. LET k == Node("", cells \o compatible, first \o more) IN
       Reads(k, none, none) /\ k # << >> /\ k[1].op = "begin"
  BY <1>1, <1>9, <1>10, NodeReads DEF a, b
<1> QED BY <1>11 DEF Tree, cells, compatible, first, more, none

(* ------------------------- reading back what is built ------------------------- *)

CallName(c) == IF c.op = "prop" THEN c.name ELSE ""

(* The tokens s and the strings t hold the calls k.                        *)
Copied(k, s, t) ==
  \A i \in 1 .. Len(s) :
    /\ s[i].op = k[i].op /\ s[i].len = k[i].len /\ s[i].val = k[i].val
    /\ k[i].op = "prop" => s[i].off \in 1 .. Len(t) /\ t[s[i].off] = k[i].name

(* The open nodes a reader goes through are those the calls lead through.  *)
Follows(blob, n, f) ==
  /\ n \in Nat /\ n = Len(blob.struct) /\ f = [i \in 0 .. n |-> f[i]] /\ f[0] = << >>
  /\ \A i \in 1 .. n : f[i] = ReadToken(f[i - 1], blob.struct[i], NameOf(blob, blob.struct[i]))

LEMMA ReadingFollows ==
  ASSUME NEW blob, NEW n, NEW f, Follows(blob, n, f)
  PROVE  \A i \in 0 .. n : Reading(blob)[i] = f[i]
<1> DEFINE s == blob.struct
           name(i) == NameOf(blob, s[i])
           Body(g) == [i \in 0 .. Len(s) |-> IF i = 0 THEN << >> ELSE ReadToken(g[i - 1], s[i], name(i))]
           Fixed(h) == h = Body(h)
           r == CHOOSE h : h = Body(h)
<1>0. /\ n \in Nat /\ n = Len(s) /\ f = [i \in 0 .. n |-> f[i]] /\ f[0] = << >>
      /\ \A i \in 1 .. n : f[i] = ReadToken(f[i - 1], s[i], name(i))
  BY DEF Follows
<1>1. \A i \in 0 .. n : f[i] = IF i = 0 THEN << >> ELSE ReadToken(f[i - 1], s[i], name(i))
  <2> SUFFICES ASSUME NEW i \in 0 .. n, i # 0 PROVE f[i] = ReadToken(f[i - 1], s[i], name(i))
    BY <1>0
  <2>1. i \in 1 .. n
    BY <1>0
  <2> QED BY <1>0, <2>1
<1> HIDE DEF name
<1>2. Fixed(f)
  <2> HIDE DEF s
  <2> QED BY <1>0, <1>1
<1>3. r = Body(r)
  <2> HIDE DEF Fixed
  <2>1. Fixed(CHOOSE h : Fixed(h))
    BY <1>2
  <2> QED BY <2>1 DEF Fixed
<1> HIDE DEF Fixed, r
<1>4. \A i \in 0 .. n : r[i] = IF i = 0 THEN << >> ELSE ReadToken(r[i - 1], s[i], name(i))
  BY <1>0, <1>3
<1> HIDE DEF s
<1> DEFINE D == {i \in 0 .. n : r[i] # f[i]}
<1>5. D = {}
  <2>1. SUFFICES ASSUME D # {} PROVE FALSE
    OBVIOUS
  <2>2. PICK i \in D : \A j \in D : i <= j
    <3>1. D \subseteq Nat
      OBVIOUS
    <3> HIDE DEF D
    <3> QED BY <2>1, <3>1, LeastOf
  <2>3. i \in 0 .. n /\ r[i] # f[i]
    BY <2>2
  <2>4. i # 0
    BY <1>1, <1>4, <2>3
  <2>5. i - 1 \in 0 .. n /\ ~ i <= i - 1
    BY <1>0, <2>3, <2>4
  <2>6. r[i - 1] = f[i - 1]
    BY <2>2, <2>5
  <2> QED BY <1>1, <1>4, <2>3, <2>4, <2>6
<1>6. Reading(blob) = r
  BY DEF Reading, r, s, name
<1> QED BY <1>5, <1>6

(* A blob that holds the calls of a well-formed tree can be read back.     *)
LEMMA CopyReadable ==
  ASSUME NEW k, NEW blob, Reads(k, << >>, << >>), k # << >>, k[1].op = "begin",
         NEW S, blob.struct \in Seq(S), Len(blob.struct) = Len(k), Copied(k, blob.struct, blob.strings),
         NEW N, blob.strings \in Seq(N),
         blob.off_dt_strings = blob.off_dt_struct + blob.size_dt_struct,
         blob.totalsize = blob.off_dt_strings + blob.size_dt_strings
  PROVE  ReadBack(blob) = CallsMade(k) /\ Readable(blob)
<1> DEFINE s == blob.struct
           t == blob.strings
           n == Len(s)
<1>1. PICK f : Run(k, f) /\ f[0] = << >> /\ f[Len(k)] = << >>
  BY DEF Reads
<1>2. /\ Listed(k) /\ n \in Nat /\ Len(k) = n /\ n # 0 /\ s # << >>
      /\ DOMAIN s = 1 .. n /\ DOMAIN k = 1 .. n /\ DOMAIN t = 1 .. Len(t)
  <2>1. Listed(k)
    BY DEF Reads
  <2>2. DOMAIN k = 1 .. Len(k) /\ Len(k) \in Nat /\ Len(k) # 0
    BY <2>1 DEF Listed
  <2>3. DOMAIN s = 1 .. n /\ n \in Nat /\ (n # 0 => s # << >>)
    OBVIOUS
  <2>4. DOMAIN t = 1 .. Len(t)
    OBVIOUS
  <2> QED BY <2>1, <2>2, <2>3, <2>4
<1>3. \A i \in 1 .. n : s[i].op = k[i].op /\ s[i].len = k[i].len /\ s[i].val = k[i].val
  BY DEF Copied
<1>4. \A i \in 1 .. n : k[i].op = "prop" => s[i].off \in 1 .. Len(t) /\ t[s[i].off] = k[i].name
  BY DEF Copied
<1> HIDE DEF n
<1>5. ASSUME NEW i \in 1 .. n PROVE NameOf(blob, s[i]) = CallName(k[i])
  BY <1>2, <1>3, <1>4 DEF NameOf, CallName
<1>6. ASSUME NEW i \in 1 .. n
      PROVE  /\ f[i] = ReadToken(f[i - 1], s[i], NameOf(blob, s[i]))
             /\ CallName(k[i]) = "reg" => RegFits(f[i], s[i].len)
  <2>1. ReadsCall(k[i], f[i - 1], f[i])
    BY <1>1, <1>2 DEF Run
  <2>2. f[i] = ReadToken(f[i - 1], k[i], CallName(k[i]))
    BY <2>1 DEF ReadsCall, CallName
  <2>3. \A o, nm : ReadToken(o, s[i], nm) = ReadToken(o, k[i], nm)
    BY <1>3 DEF ReadToken
  <2>4. CallName(k[i]) = "reg" => k[i].op = "prop" /\ k[i].name = "reg"
    BY DEF CallName
  <2>5. CallName(k[i]) = "reg" => RegFits(f[i], k[i].len)
    BY <2>1, <2>4 DEF ReadsCall
  <2> QED BY <1>3, <1>5, <2>2, <2>3, <2>5
<1>7. \A i \in 0 .. n : Reading(blob)[i] = f[i]
  <2>1. f = [i \in 0 .. n |-> f[i]]
    BY <1>1, <1>2 DEF Run
  <2>2. Len(blob.struct) = n
    BY DEF n
  <2>3. \A i \in 1 .. n : f[i] = ReadToken(f[i - 1], blob.struct[i], NameOf(blob, blob.struct[i]))
    BY <1>6
  <2>4. f[0] = << >> /\ n \in Nat
    BY <1>1, <1>2
  <2>5. Follows(blob, n, f)
    BY <2>1, <2>2, <2>3, <2>4 DEF Follows
  <2> QED BY <2>5, ReadingFollows
<1>8. ReadBack(blob) = CallsMade(k)
  <2> DEFINE g(i) == [op |-> s[i].op, len |-> s[i].len, val |-> s[i].val, name |-> NameOf(blob, s[i])]
             h(i) == [op |-> k[i].op, len |-> k[i].len, val |-> k[i].val,
                      name |-> IF k[i].op = "prop" THEN k[i].name ELSE ""]
  <2>1. \A i \in 1 .. n : g(i) = h(i)
    <3> SUFFICES ASSUME NEW i \in 1 .. n PROVE g(i) = h(i)
      OBVIOUS
    <3>1. NameOf(blob, s[i]) = IF k[i].op = "prop" THEN k[i].name ELSE ""
      BY <1>5 DEF CallName
    <3> QED BY <1>3, <3>1
  <2>2. ReadBack(blob) = [i \in DOMAIN s |-> g(i)] /\ CallsMade(k) = [i \in DOMAIN k |-> h(i)]
    BY DEF ReadBack, CallsMade
  <2> HIDE DEF g, h
  <2>3. [i \in 1 .. n |-> g(i)] = [i \in 1 .. n |-> h(i)]
    BY <2>1
  <2> QED BY <1>2, <2>2, <2>3
<1>9. Readable(blob)
  <2> DEFINE after == Reading(blob)
  <2>1. s # << >> /\ s[1].op = "begin" /\ after[Len(s)] = << >>
    <3>1. 1 \in 1 .. n /\ n \in 0 .. n
      BY <1>2
    <3>2. after[n] = << >>
      BY <1>1, <1>2, <1>7, <3>1
    <3> QED BY <1>2, <1>3, <3>1, <3>2 DEF n
  <2>2. \A i \in 1 .. Len(s) - 1 : after[i] # << >>
    <3>1. ASSUME NEW i \in 1 .. n - 1 PROVE after[i] # << >>
      <4>1. i \in 0 .. n
        BY <1>2
      <4>2. f[i] # << >>
        BY <1>1, <1>2 DEF Run
      <4> QED BY <1>7, <4>1, <4>2
    <3> QED BY <3>1 DEF n
  <2>3. ASSUME NEW i \in DOMAIN s, s[i].op = "prop"
        PROVE  s[i].off \in DOMAIN t /\ (NameOf(blob, s[i]) = "reg" => RegFits(after[i], s[i].len))
    <3>1. i \in 1 .. n /\ i \in 0 .. n
      BY <1>2
    <3>2. s[i].off \in DOMAIN t
      BY <1>2, <1>3, <1>4, <2>3, <3>1
    <3>3. NameOf(blob, s[i]) = "reg" => RegFits(after[i], s[i].len)
      BY <1>5, <1>6, <1>7, <3>1
    <3> QED BY <3>2, <3>3
  <2> HIDE DEF after
  <2>4. \A i \in DOMAIN s : s[i].op = "prop" =>
          s[i].off \in DOMAIN t /\ (NameOf(blob, s[i]) = "reg" => RegFits(after[i], s[i].len))
    BY <2>3
  <2> QED BY <2>1, <2>2, <2>4 DEF Readable, after
<1> QED BY <1>8, <1>9

(* ------------------------------- the builder ------------------------------- *)

Tokens == [op : {"begin", "end", "prop"}, off : Nat, len : Nat, val : Nat]
CallsOf(c) == {Tree(c)[i] : i \in 1 .. Len(Tree(c))}
NamesOf(c) == {Tree(c)[i].name : i \in 1 .. Len(Tree(c))}

(* The calls of the tree are written one by one, in order, and the calls   *)
(* that are left are the rest of it.                                       *)
HalfWritten(d) ==
  LET k == Tree(d.cfg)
      n == Len(d.struct)
  IN
  /\ d.struct \in Seq(Tokens) /\ d.strings \in Seq(NamesOf(d.cfg)) /\ d.calls \in Seq(CallsOf(d.cfg))
  /\ d.struct_len \in Nat /\ d.strings_len \in Nat /\ d.open_nodes \in Nat
  /\ n + Len(d.calls) = Len(k)
  /\ \A i \in 1 .. Len(d.calls) : d.calls[i] = k[n + i]
  /\ Copied(k, d.struct, d.strings)

(* What is copied out at the end.                                          *)
Finished(d) ==
  d.out # << >> =>
    /\ d.calls = << >> /\ d.open_nodes = 0
    /\ LET blob == d.out[1] IN
       /\ blob.struct = d.struct /\ blob.strings = d.strings
       /\ blob.off_dt_strings = blob.off_dt_struct + blob.size_dt_struct
       /\ blob.totalsize = blob.off_dt_strings + blob.size_dt_strings
       /\ blob.totalsize <= d.cfg.out

DtbFields == {"cfg", "err", "calls", "struct", "struct_len", "strings", "strings_len", "open_nodes", "out"}

DtbSound(d) ==
  /\ d = [x \in DtbFields |-> d[x]]
  /\ d.cfg \in DtbConfigs
  /\ d.err = "none" => HalfWritten(d) /\ Finished(d)
  /\ d.err # "none" => d.out = << >>
DtbInv == DtbSound(dtb)

(* The tree of a configuration is a list of calls a kernel can follow.     *)
LEMMA TreeCalls ==
  ASSUME NEW c \in DtbConfigs
  PROVE  /\ Reads(Tree(c), << >>, << >>) /\ Tree(c) # << >> /\ Tree(c)[1].op = "begin"
         /\ Tree(c) \in Seq(CallsOf(c)) /\ Len(Tree(c)) \in Nat
         /\ \A i \in 1 .. Len(Tree(c)) : IsCall(Tree(c)[i])
<1> DEFINE k == Tree(c)
<1>1. c.prod \in BOOLEAN /\ c.cmdline \in Nat /\ c.cpus \in Nat
  BY DtbAssumption
<1>2. Reads(k, << >>, << >>) /\ k # << >> /\ k[1].op = "begin"
  BY <1>1, TreeReads
<1> HIDE DEF k
<1>3. Listed(k) /\ \A i \in 1 .. Len(k) : IsCall(k[i])
  BY <1>2 DEF Reads, Run, ReadsCall
<1>4. k \in Seq(CallsOf(c))
  BY <1>3 DEF Listed, CallsOf, k
<1> QED BY <1>2, <1>3, <1>4 DEF k

LEMMA DtbInitSound == ASSUME DtbInit PROVE DtbInv
<1>1. PICK c \in DtbConfigs : DtbOf(c)
  BY DEF DtbInit
<1> DEFINE d == dtb
<1>2. /\ d.cfg = c /\ d.err = DtbValidate(c) /\ d.struct = << >> /\ d.struct_len = 0 /\ d.strings = << >>
      /\ d.calls = (IF DtbValidate(c) = "none" THEN Tree(c) ELSE << >>)
      /\ d.strings_len = 0 /\ d.open_nodes = 0 /\ d.out = << >>
  <2> HIDE DEF d
  <2>1. d = [cfg |-> c, err |-> DtbValidate(c), calls |-> IF DtbValidate(c) = "none" THEN Tree(c) ELSE << >>,
         struct |-> << >>, struct_len |-> 0, strings |-> << >>, strings_len |-> 0,
         open_nodes |-> 0, out |-> << >>]
    BY <1>1 DEF DtbOf, d
  <2> QED BY <2>1
<1>3. d = [x \in DtbFields |-> d[x]]
  BY <1>1 DEF DtbOf, DtbFields
<1> HIDE DEF d
<1>4. ASSUME d.err = "none" PROVE HalfWritten(d)
  <2> DEFINE k == Tree(c)
  <2>1. d.calls = k /\ k \in Seq(CallsOf(c)) /\ Len(k) \in Nat
    BY <1>2, <1>4, TreeCalls
  <2> HIDE DEF k
  <2>2. Len(d.struct) = 0 /\ \A i \in 1 .. 0 : FALSE
    BY <1>2
  <2>3. Copied(k, d.struct, d.strings)
    BY <2>2 DEF Copied
  <2>4. d.struct \in Seq(Tokens) /\ d.strings \in Seq(NamesOf(c))
    BY <1>2
  <2>5. 0 + Len(d.calls) = Len(k) /\ \A i \in 1 .. Len(d.calls) : d.calls[i] = k[0 + i]
    BY <2>1
  <2> QED BY <1>2, <2>1, <2>2, <2>3, <2>4, <2>5 DEF HalfWritten, k
<1>5. Finished(d)
  BY <1>2 DEF Finished
<1> QED BY <1>2, <1>3, <1>4, <1>5 DEF DtbInv, DtbSound, d

(* The first use of a name that is there.                                  *)
LEMMA NamePlace ==
  ASSUME NEW N, dtb.strings \in Seq(N), NEW name, Interned(name)
  PROVE  NameOff(name) \in 1 .. Len(dtb.strings) /\ dtb.strings[NameOff(name)] = name
<1> DEFINE s == dtb.strings
           I == {i \in 1 .. Len(s) : s[i] = name}
           Least(x) == x \in I /\ \A y \in I : x <= y
           p == CHOOSE x \in I : \A y \in I : x =< y
<1>1. DOMAIN s = 1 .. Len(s)
  OBVIOUS
<1>2. I # {}
  BY <1>1 DEF Interned
<1>3. \E x : Least(x)
  <2>1. I \subseteq Nat
    OBVIOUS
  <2> HIDE DEF I
  <2> QED BY <1>2, <2>1, LeastOf
<1>4. p \in I
  <2> HIDE DEF I
  <2> QED BY <1>3
<1>5. NameOff(name) = p
  BY <1>2 DEF NameOff, SelectInSeq, Min
<1> QED BY <1>4, <1>5

LEMMA CopyGrows ==
  ASSUME NEW k, NEW S, NEW s \in Seq(S), NEW N, NEW t \in Seq(N), NEW u \in Seq(N), Copied(k, s, t),
         Len(t) <= Len(u), \A i \in 1 .. Len(t) : u[i] = t[i],
         NEW x \in S, LET c == k[Len(s) + 1] IN
                      /\ x.op = c.op /\ x.len = c.len /\ x.val = c.val
                      /\ c.op = "prop" => x.off \in 1 .. Len(u) /\ u[x.off] = c.name
  PROVE  Copied(k, Append(s, x), u)
<1> DEFINE n == Len(s)
           a == Append(s, x)
           m == n + 1
<1>1. n \in Nat /\ Len(a) = m /\ a[m] = x /\ \A i \in 1 .. n : a[i] = s[i]
  OBVIOUS
<1>2. Len(t) \in Nat /\ Len(u) \in Nat
  OBVIOUS
<1>3. \A i \in 1 .. m : i = m \/ i \in 1 .. n
  BY <1>1
<1> HIDE DEF m, a
<1>4. ASSUME NEW i \in 1 .. n
      PROVE  /\ a[i].op = k[i].op /\ a[i].len = k[i].len /\ a[i].val = k[i].val
             /\ k[i].op = "prop" => a[i].off \in 1 .. Len(u) /\ u[a[i].off] = k[i].name
  <2>1. /\ s[i].op = k[i].op /\ s[i].len = k[i].len /\ s[i].val = k[i].val
        /\ k[i].op = "prop" => s[i].off \in 1 .. Len(t) /\ t[s[i].off] = k[i].name
    BY DEF Copied
  <2>2. \A j \in 1 .. Len(t) : j \in 1 .. Len(u) /\ u[j] = t[j]
    BY <1>2
  <2>3. k[i].op = "prop" => s[i].off \in 1 .. Len(u) /\ u[s[i].off] = k[i].name
    BY <2>1, <2>2
  <2> QED BY <1>1, <2>1, <2>3
<1>5. /\ a[m].op = k[m].op /\ a[m].len = k[m].len /\ a[m].val = k[m].val
      /\ k[m].op = "prop" => a[m].off \in 1 .. Len(u) /\ u[a[m].off] = k[m].name
  BY <1>1 DEF m
<1>6. Copied(k, a, u)
  <2> HIDE DEF n
  <2> QED BY <1>1, <1>3, <1>4, <1>5 DEF Copied
<1> QED BY <1>6 DEF a

LEMMA Dropped ==
  ASSUME NEW S, NEW q \in Seq(S), q # << >>
  PROVE  /\ Len(q) \in Nat /\ Len(q) # 0 /\ Head(q) = q[1] /\ Tail(q) \in Seq(S)
         /\ Len(Tail(q)) \in Nat /\ Len(q) = Len(Tail(q)) + 1
         /\ \A i \in 1 .. Len(Tail(q)) : Tail(q)[i] = q[i + 1]
OBVIOUS

LEMMA NextIndex ==
  ASSUME NEW n \in Nat, NEW r \in Nat, NEW i \in 1 .. r
  PROVE  i + 1 \in 1 .. r + 1 /\ n + (i + 1) = (n + 1) + i
OBVIOUS

(* Writing the next call of a tree, with what it adds to the strings.      *)
LEMMA TokenWritten ==
  ASSUME NEW d, DtbSound(d), d.err = "none", d.calls # << >>,
         NEW off \in Nat, NEW strings \in Seq(NamesOf(d.cfg)),
         Len(d.strings) <= Len(strings), \A i \in 1 .. Len(d.strings) : strings[i] = d.strings[i],
         Head(d.calls).op = "prop" => off \in 1 .. Len(strings) /\ strings[off] = Head(d.calls).name,
         NEW more \in Nat, NEW wide \in Nat, NEW open \in Nat,
         NEW e, e = [d EXCEPT !.calls = Tail(@), !.struct = Append(@, Token(Head(d.calls), off)),
                              !.struct_len = more, !.strings = strings, !.strings_len = wide,
                              !.open_nodes = open]
  PROVE  DtbSound(e)
<1> DEFINE k == Tree(d.cfg)
           n == Len(d.struct)
           m == n + 1
           first == Head(d.calls)
           tok == Token(first, off)
           rest == Tail(d.calls)
           w == Append(d.struct, tok)
<1>1. d = [x \in DtbFields |-> d[x]] /\ d.cfg \in DtbConfigs /\ HalfWritten(d) /\ Finished(d)
  BY DEF DtbSound
<1>2. d.out = << >>
  BY <1>1 DEF Finished
<1>3. /\ e = [x \in DtbFields |-> e[x]]
      /\ e.cfg = d.cfg /\ e.err = d.err /\ e.calls = rest /\ e.struct = w /\ e.struct_len = more
      /\ e.strings = strings /\ e.strings_len = wide /\ e.open_nodes = open /\ e.out = d.out
  <2> HIDE DEF rest, w
  <2>1. e = [d EXCEPT !.calls = rest, !.struct = w, !.struct_len = more, !.strings = strings,
                      !.strings_len = wide, !.open_nodes = open]
    BY DEF rest, w, tok, first
  <2> QED BY <1>1, <2>1 DEF DtbFields
<1>4. /\ d.struct \in Seq(Tokens) /\ d.strings \in Seq(NamesOf(d.cfg)) /\ d.calls \in Seq(CallsOf(d.cfg))
      /\ n + Len(d.calls) = Len(k) /\ \A i \in 1 .. Len(d.calls) : d.calls[i] = k[n + i]
      /\ Copied(k, d.struct, d.strings)
  BY <1>1 DEF HalfWritten
<1>5. /\ n \in Nat /\ Len(d.calls) \in Nat /\ Len(d.calls) # 0 /\ first = d.calls[1]
      /\ rest \in Seq(CallsOf(d.cfg)) /\ Len(rest) \in Nat /\ Len(d.calls) = Len(rest) + 1
      /\ \A i \in 1 .. Len(rest) : rest[i] = d.calls[i + 1]
  <2>1. d.calls \in Seq(CallsOf(d.cfg)) /\ d.struct \in Seq(Tokens)
    BY <1>4
  <2>2. n \in Nat
    BY <2>1
  <2> HIDE DEF n
  <2> QED BY <2>1, <2>2, Dropped
<1>6. first = k[m] /\ m \in 1 .. Len(k) /\ IsCall(first)
  <2>1. first = k[m]
    <3>1. 1 \in 1 .. Len(d.calls)
      BY <1>5
    <3> QED BY <1>4, <1>5, <3>1
  <2>2. m \in 1 .. Len(k)
    <3>1. n \in Nat /\ Len(rest) \in Nat /\ Len(k) = n + (Len(rest) + 1)
      BY <1>4, <1>5
    <3> HIDE DEF n, rest, k
    <3> QED BY <3>1
  <2> HIDE DEF m, first
  <2>3. IsCall(k[m])
    BY <1>1, <2>2, TreeCalls
  <2> QED BY <2>1, <2>2, <2>3
<1> HIDE DEF k, first
<1>7. tok \in Tokens /\ tok.op = first.op /\ tok.len = first.len /\ tok.val = first.val /\ tok.off = off
  BY <1>6 DEF IsCall, Tokens, Token
<1> HIDE DEF tok, n, rest
<1>8. w \in Seq(Tokens) /\ Len(w) = m
  BY <1>4, <1>7 DEF n
<1>9. Copied(k, w, strings)
  <2>1. LET c == k[Len(d.struct) + 1] IN
        /\ tok.op = c.op /\ tok.len = c.len /\ tok.val = c.val
        /\ c.op = "prop" => tok.off \in 1 .. Len(strings) /\ strings[tok.off] = c.name
    BY <1>6, <1>7 DEF n, first
  <2> QED BY <1>4, <1>7, <2>1, CopyGrows
<1>10. m + Len(rest) = Len(k) /\ \A i \in 1 .. Len(rest) : rest[i] = k[m + i]
  <2>1. m + Len(rest) = Len(k)
    <3>1. n \in Nat /\ Len(rest) \in Nat /\ Len(k) = n + (Len(rest) + 1)
      BY <1>4, <1>5
    <3> QED BY <3>1
  <2>2. ASSUME NEW i \in 1 .. Len(rest) PROVE rest[i] = k[m + i]
    <3>1. i + 1 \in 1 .. Len(d.calls) /\ n + (i + 1) = m + i
      <4>1. n \in Nat /\ Len(rest) \in Nat /\ Len(d.calls) = Len(rest) + 1
        BY <1>5
      <4> HIDE DEF w
      <4> QED BY <4>1, NextIndex
    <3>2. d.calls[i + 1] = k[n + (i + 1)]
      BY <1>4, <3>1
    <3> QED BY <1>5, <3>1, <3>2
  <2> QED BY <2>1, <2>2
<1> HIDE DEF w, m
<1>11. HalfWritten(e)
  BY <1>3, <1>5, <1>8, <1>9, <1>10 DEF HalfWritten, k
<1>12. Finished(e)
  BY <1>2, <1>3 DEF Finished
<1> QED BY <1>1, <1>3, <1>11, <1>12 DEF DtbSound

LEMMA DtbFailed == ASSUME DtbInv, NEW e, e # "none", dtb.out = << >>, Failed(e) PROVE DtbInv'
<1> DEFINE d == dtb
           f == [d EXCEPT !.err = e, !.calls = << >>]
<1>1. d = [x \in DtbFields |-> d[x]] /\ d.cfg \in DtbConfigs
  BY DEF DtbInv, DtbSound
<1>2. dtb' = f
  BY DEF Failed
<1>3. d.out = << >>
  OBVIOUS
<1> HIDE DEF d
<1>4. f = [x \in DtbFields |-> f[x]] /\ f.cfg = d.cfg /\ f.err = e /\ f.out = d.out
  BY <1>1 DEF DtbFields
<1> HIDE DEF f
<1>5. DtbSound(f)
  BY <1>1, <1>3, <1>4 DEF DtbSound
<1>6. DtbSound(dtb')
  BY <1>2, <1>5
<1> QED BY <1>6 DEF DtbInv

(* Nothing is copied out while there are calls left.                       *)
LEMMA StillBuilding == ASSUME DtbInv, NEW op, Building(op) PROVE dtb.out = << >>
BY DEF DtbInv, DtbSound, Finished, Building

(* One call of the builder that goes through.                              *)
WithCall(d, off, strings, more, wide, open) ==
  [d EXCEPT !.calls = Tail(@), !.struct = Append(@, Token(Head(d.calls), off)),
            !.struct_len = more, !.strings = strings, !.strings_len = wide, !.open_nodes = open]

LEMMA DtbWritten ==
  ASSUME DtbInv, dtb.err = "none", dtb.calls # << >>,
         NEW off \in Nat, NEW strings \in Seq(NamesOf(dtb.cfg)),
         Len(dtb.strings) <= Len(strings), \A i \in 1 .. Len(dtb.strings) : strings[i] = dtb.strings[i],
         Head(dtb.calls).op = "prop" => off \in 1 .. Len(strings) /\ strings[off] = Head(dtb.calls).name,
         NEW more \in Nat, NEW wide \in Nat, NEW open \in Nat,
         dtb' = WithCall(dtb, off, strings, more, wide, open)
  PROVE  DtbInv'
<1> DEFINE d == dtb
<1>1. DtbSound(d) /\ d.err = "none" /\ d.calls # << >>
  BY DEF DtbInv
<1> DEFINE e == [d EXCEPT !.calls = Tail(@), !.struct = Append(@, Token(Head(d.calls), off)),
                          !.struct_len = more, !.strings = strings, !.strings_len = wide,
                          !.open_nodes = open]
<1>2. dtb' = e
  BY DEF WithCall
<1>3. DtbSound(e)
  BY <1>1, TokenWritten
<1> HIDE DEF e
<1> QED BY <1>2, <1>3 DEF DtbInv

(* The call at the head, and what it takes.                                *)
LEMMA NextCall ==
  ASSUME DtbInv, NEW op, Building(op)
  PROVE  /\ dtb.err = "none" /\ dtb.calls # << >> /\ HalfWritten(dtb)
         /\ Head(dtb.calls) \in CallsOf(dtb.cfg) /\ Head(dtb.calls).op = op
         /\ IsCall(Head(dtb.calls)) /\ TokenLen(Head(dtb.calls)) \in Nat
         /\ op = "prop" => Head(dtb.calls).name \in NamesOf(dtb.cfg)
<1> DEFINE d == dtb
           first == Head(d.calls)
<1>1. d.err = "none" /\ d.calls # << >> /\ first.op = op
  BY DEF Building
<1>2. d.cfg \in DtbConfigs /\ HalfWritten(d)
  BY <1>1 DEF DtbInv, DtbSound
<1>3. d.calls \in Seq(CallsOf(d.cfg))
  BY <1>2 DEF HalfWritten
<1> HIDE DEF d
<1>4. first \in CallsOf(d.cfg)
  <2>1. first = d.calls[1] /\ Len(d.calls) \in Nat /\ Len(d.calls) # 0
    BY <1>1, <1>3, Dropped
  <2> QED BY <1>3, <2>1
<1> HIDE DEF first
<1>5. PICK i \in 1 .. Len(Tree(d.cfg)) : first = Tree(d.cfg)[i]
  BY <1>4 DEF CallsOf
<1>6. IsCall(first) /\ first.name \in NamesOf(d.cfg)
  BY <1>2, <1>5, TreeCalls DEF NamesOf
<1>7. TokenLen(first) \in Nat
  <2>1. first.len \in Nat
    BY <1>6 DEF IsCall
  <2>2. (first.len + 3) \div 4 \in Nat
    BY <2>1
  <2>3. Pad4(first.len) \in Nat
    BY <2>2 DEF Pad4
  <2> QED BY <2>3 DEF TokenLen
<1> QED BY <1>1, <1>2, <1>4, <1>6, <1>7 DEF d, first

(* A call that leaves the strings alone.                                   *)
LEMMA DtbNodeWritten ==
  ASSUME DtbInv, NEW op \in {"begin", "end"}, Building(op), NEW open \in Nat,
         dtb' = [Written(Head(dtb.calls), 0) EXCEPT !.open_nodes = open]
  PROVE  DtbInv'
<1> DEFINE first == Head(dtb.calls)
           more == dtb.struct_len + TokenLen(first)
<1>1. /\ dtb.err = "none" /\ dtb.calls # << >> /\ HalfWritten(dtb) /\ first.op = op
      /\ TokenLen(first) \in Nat
  BY NextCall
<1>2. /\ dtb.strings \in Seq(NamesOf(dtb.cfg)) /\ dtb.struct_len \in Nat /\ dtb.strings_len \in Nat
      /\ dtb = [x \in DtbFields |-> dtb[x]]
  BY <1>1 DEF HalfWritten, DtbInv, DtbSound
<1>3. more \in Nat /\ Len(dtb.strings) \in Nat
  BY <1>1, <1>2
<1>4. dtb' = WithCall(dtb, 0, dtb.strings, more, dtb.strings_len, open)
  <2> DEFINE rest == Tail(dtb.calls)
             w == Append(dtb.struct, Token(first, 0))
  <2> HIDE DEF rest, w, more
  <2>1. dtb' = [[dtb EXCEPT !.calls = rest, !.struct = w, !.struct_len = more] EXCEPT !.open_nodes = open]
    BY DEF Written, rest, w, more
  <2> DEFINE d == dtb
  <2>2. d = [x \in DtbFields |-> d[x]]
    BY <1>2
  <2> HIDE DEF d
  <2>3. [[d EXCEPT !.calls = rest, !.struct = w, !.struct_len = more] EXCEPT !.open_nodes = open]
        = [d EXCEPT !.calls = rest, !.struct = w, !.struct_len = more, !.strings = d.strings,
                    !.strings_len = d.strings_len, !.open_nodes = open]
    BY <2>2 DEF DtbFields
  <2>4. dtb' = [dtb EXCEPT !.calls = rest, !.struct = w, !.struct_len = more, !.strings = dtb.strings,
                           !.strings_len = dtb.strings_len, !.open_nodes = open]
    BY <2>1, <2>3 DEF d
  <2> QED BY <2>4 DEF rest, w, WithCall
<1> DEFINE s == dtb.strings
           off == 0
<1>5. /\ Len(dtb.strings) <= Len(s) /\ \A i \in 1 .. Len(dtb.strings) : s[i] = dtb.strings[i]
      /\ Head(dtb.calls).op = "prop" => off \in 1 .. Len(s) /\ s[off] = Head(dtb.calls).name
  BY <1>1, <1>3
<1>6. off \in Nat /\ s \in Seq(NamesOf(dtb.cfg)) /\ dtb.strings_len \in Nat
  BY <1>2
<1>7. dtb' = WithCall(dtb, off, s, more, dtb.strings_len, open)
  BY <1>4
<1> HIDE DEF more, s, off
<1> QED BY <1>1, <1>3, <1>5, <1>6, <1>7, DtbWritten

LEMMA DtbPropWritten == ASSUME DtbInv, build_prop, dtb'.err = "none" PROVE DtbInv'
<1> DEFINE first == Head(dtb.calls)
           s == dtb.strings
           bytes == IF Interned(first.name) THEN 0 ELSE Len(first.name) + 1
           off == NameOff(first.name)
           u == IF bytes = 0 THEN s ELSE Append(s, first.name)
           more == dtb.struct_len + TokenLen(first)
           wide == dtb.strings_len + bytes
           N == NamesOf(dtb.cfg)
<1>1. Building("prop")
  BY DEF build_prop
<1>2. /\ dtb.err = "none" /\ dtb.calls # << >> /\ HalfWritten(dtb)
      /\ TokenLen(first) \in Nat /\ first.name \in N
  BY <1>1, NextCall
<1>3. /\ s \in Seq(N) /\ dtb.struct_len \in Nat /\ dtb.strings_len \in Nat /\ dtb.open_nodes \in Nat
      /\ dtb = [x \in DtbFields |-> dtb[x]]
  BY <1>2 DEF HalfWritten, DtbInv, DtbSound
<1>4. bytes \in Nat /\ (Interned(first.name) <=> bytes = 0)
  <2>1. Len(first.name) \in Nat
    OBVIOUS
  <2> QED BY <2>1
<1>5. more \in Nat /\ wide \in Nat /\ Len(s) \in Nat
  <2> HIDE DEF bytes
  <2> QED BY <1>2, <1>3, <1>4
<1>6. /\ u \in Seq(N) /\ Len(s) <= Len(u) /\ \A i \in 1 .. Len(s) : u[i] = s[i]
      /\ off \in 1 .. Len(u) /\ u[off] = first.name /\ off \in Nat
  <2>1. CASE Interned(first.name)
    <3>1. off \in 1 .. Len(s) /\ s[off] = first.name
      BY <1>3, <2>1, NamePlace
    <3>2. u = s
      BY <1>4, <2>1
    <3> HIDE DEF u, off
    <3> QED BY <1>3, <1>5, <3>1, <3>2
  <2>2. CASE ~ Interned(first.name)
    <3>1. off = Len(s) + 1
      BY <2>2 DEF NameOff
    <3>2. u = Append(s, first.name)
      BY <1>4, <2>2
    <3> DEFINE nm == first.name
    <3>3. nm \in N
      BY <1>2
    <3> HIDE DEF u, off, s, N, nm
    <3>4. Append(s, nm) \in Seq(N) /\ Len(Append(s, nm)) = Len(s) + 1 /\ Append(s, nm)[Len(s) + 1] = nm
          /\ \A i \in 1 .. Len(s) : Append(s, nm)[i] = s[i]
      BY <1>3, <3>3
    <3> QED BY <1>5, <3>1, <3>2, <3>4 DEF nm
  <2> QED BY <2>1, <2>2
<1>7. dtb' = WithCall(dtb, off, u, more, wide, dtb.open_nodes)
  <2> DEFINE rest == Tail(dtb.calls)
             w == Append(dtb.struct, Token(first, off))
  <2>1. dtb' = [Written(first, off) EXCEPT !.strings = u, !.strings_len = wide]
    <3>1. ASSUME NEW x, Failed(x), x # "none" PROVE FALSE
      <4>1. dtb' = [dtb EXCEPT !.err = x, !.calls = << >>]
        BY <3>1 DEF Failed
      <4> DEFINE d == dtb
      <4>2. d = [y \in DtbFields |-> d[y]] /\ dtb' = [d EXCEPT !.err = x, !.calls = << >>]
        BY <1>3, <4>1
      <4> HIDE DEF d
      <4>3. dtb'.err = x
        BY <4>2 DEF DtbFields
      <4> QED BY <3>1, <4>3
    <3>2. \/ Failed("DtbPropertyOutsideNode") \/ Failed("DtbStringsFull") \/ Failed("DtbStructFull")
          \/ dtb' = [Written(first, off) EXCEPT !.strings = IF bytes = 0 THEN @ ELSE Append(@, first.name),
                                               !.strings_len = @ + bytes]
      BY DEF build_prop
    <3> HIDE DEF bytes, off, first
    <3>3. dtb' = [Written(first, off) EXCEPT !.strings = IF bytes = 0 THEN @ ELSE Append(@, first.name),
                                           !.strings_len = @ + bytes]
      BY <3>1, <3>2
    <3>4. Written(first, off).strings = s /\ Written(first, off).strings_len = dtb.strings_len
      <4> DEFINE d == dtb
                 t == Append(d.struct, Token(first, off))
                 l == d.struct_len + TokenLen(first)
                 r == Tail(d.calls)
      <4>1. d = [y \in DtbFields |-> d[y]] /\ Written(first, off) = [d EXCEPT !.calls = r, !.struct = t, !.struct_len = l]
        BY <1>3 DEF Written
      <4> HIDE DEF d, t, l, r
      <4>2. Written(first, off).strings = d.strings /\ Written(first, off).strings_len = d.strings_len
        BY <4>1 DEF DtbFields
      <4> QED BY <4>2 DEF d
    <3> QED BY <3>3, <3>4
  <2> HIDE DEF rest, w, more, u, wide
  <2>2. Written(first, off) = [dtb EXCEPT !.calls = rest, !.struct = w, !.struct_len = more]
    BY DEF Written, rest, w, more
  <2> DEFINE d == dtb
  <2>3. d = [x \in DtbFields |-> d[x]]
    BY <1>3
  <2> HIDE DEF d
  <2>4. [[d EXCEPT !.calls = rest, !.struct = w, !.struct_len = more] EXCEPT !.strings = u, !.strings_len = wide]
        = [d EXCEPT !.calls = rest, !.struct = w, !.struct_len = more, !.strings = u,
                    !.strings_len = wide, !.open_nodes = d.open_nodes]
    BY <2>3 DEF DtbFields
  <2>5. dtb' = [dtb EXCEPT !.calls = rest, !.struct = w, !.struct_len = more, !.strings = u,
                           !.strings_len = wide, !.open_nodes = dtb.open_nodes]
    BY <2>1, <2>2, <2>4 DEF d
  <2> QED BY <2>5 DEF rest, w, WithCall, first
<1>8. /\ Len(dtb.strings) <= Len(u) /\ \A i \in 1 .. Len(dtb.strings) : u[i] = dtb.strings[i]
      /\ Head(dtb.calls).op = "prop" => off \in 1 .. Len(u) /\ u[off] = Head(dtb.calls).name
      /\ u \in Seq(NamesOf(dtb.cfg))
  BY <1>6
<1>9. off \in Nat
  BY <1>6
<1> HIDE DEF off, u, more, wide
<1> QED BY <1>2, <1>3, <1>5, <1>7, <1>8, <1>9, DtbWritten

LEMMA DtbNodeStep ==
  ASSUME DtbInv, build_begin_node \/ build_end_node
  PROVE  DtbInv'
<1> DEFINE first == Head(dtb.calls)
<1>1. PICK op \in {"begin", "end"} : Building(op)
  BY DEF build_begin_node, build_end_node
<1>2. dtb.out = << >> /\ HalfWritten(dtb) /\ dtb = [x \in DtbFields |-> dtb[x]]
  BY <1>1, StillBuilding, NextCall DEF DtbInv, DtbSound
<1>3. dtb.open_nodes \in Nat
  BY <1>2 DEF HalfWritten
<1>4. Written(first, 0).open_nodes = dtb.open_nodes
  <2> DEFINE d == dtb
             t == Append(d.struct, Token(first, 0))
             l == d.struct_len + TokenLen(first)
             r == Tail(d.calls)
  <2>1. d = [y \in DtbFields |-> d[y]] /\ Written(first, 0) = [d EXCEPT !.calls = r, !.struct = t, !.struct_len = l]
    BY <1>2 DEF Written
  <2> HIDE DEF d, t, l, r
  <2>2. Written(first, 0).open_nodes = d.open_nodes
    BY <2>1 DEF DtbFields
  <2> QED BY <2>2 DEF d
<1>5. \/ Failed("DtbNoOpenNode") \/ Failed("DtbStructFull")
      \/ \E open \in Nat : dtb' = [Written(first, 0) EXCEPT !.open_nodes = open]
  <2>1. CASE build_begin_node
    <3>1. Failed("DtbStructFull") \/ dtb' = [Written(first, 0) EXCEPT !.open_nodes = @ + 1]
      BY <2>1 DEF build_begin_node
    <3> HIDE DEF first
    <3>2. dtb.open_nodes + 1 \in Nat
      BY <1>3
    <3> QED BY <1>4, <3>1, <3>2
  <2>2. CASE build_end_node
    <3>1. \/ Failed("DtbNoOpenNode") \/ Failed("DtbStructFull")
          \/ dtb.open_nodes # 0 /\ dtb' = [Written(first, 0) EXCEPT !.open_nodes = @ - 1]
      BY <2>2 DEF build_end_node
    <3> HIDE DEF first
    <3>2. dtb.open_nodes # 0 => dtb.open_nodes - 1 \in Nat
      BY <1>3
    <3> QED BY <1>4, <3>1, <3>2
  <2> QED BY <2>1, <2>2
<1>6. ASSUME NEW open \in Nat, dtb' = [Written(first, 0) EXCEPT !.open_nodes = open] PROVE DtbInv'
  BY <1>1, <1>6, DtbNodeWritten
<1>7. ASSUME NEW x, x # "none", Failed(x) PROVE DtbInv'
  BY <1>2, <1>7, DtbFailed
<1> QED BY <1>5, <1>6, <1>7

LEMMA DtbPropStep == ASSUME DtbInv, build_prop PROVE DtbInv'
<1>1. CASE dtb'.err = "none"
  BY <1>1, DtbPropWritten
<1>2. CASE dtb'.err # "none"
  <2> DEFINE first == Head(dtb.calls)
             off == NameOff(first.name)
             bytes == IF Interned(first.name) THEN 0 ELSE Len(first.name) + 1
  <2>1. Building("prop")
    BY DEF build_prop
  <2>2. dtb.out = << >> /\ dtb.err = "none" /\ dtb = [x \in DtbFields |-> dtb[x]]
    BY <2>1, StillBuilding, NextCall DEF DtbInv, DtbSound
  <2>3. \/ Failed("DtbPropertyOutsideNode") \/ Failed("DtbStringsFull") \/ Failed("DtbStructFull")
        \/ dtb' = [Written(first, off) EXCEPT !.strings = IF bytes = 0 THEN @ ELSE Append(@, first.name),
                                             !.strings_len = @ + bytes]
    BY DEF build_prop
  <2> DEFINE d == dtb
             t == Append(d.struct, Token(first, off))
             l == d.struct_len + TokenLen(first)
             r == Tail(d.calls)
             w == Written(first, off)
  <2>4. d = [y \in DtbFields |-> d[y]] /\ w = [d EXCEPT !.calls = r, !.struct = t, !.struct_len = l]
    BY <2>2 DEF Written
  <2> HIDE DEF d, t, l, r, w, bytes, off, first
  <2>5. w.err = d.err /\ w = [y \in DtbFields |-> w[y]]
    BY <2>4 DEF DtbFields
  <2>6. \A u, v : [w EXCEPT !.strings = u, !.strings_len = v].err = w.err
    BY <2>5 DEF DtbFields
  <2>7. dtb' # [Written(first, off) EXCEPT !.strings = IF bytes = 0 THEN @ ELSE Append(@, first.name),
                                          !.strings_len = @ + bytes]
    <3> DEFINE u == IF bytes = 0 THEN w.strings ELSE Append(w.strings, first.name)
               v == w.strings_len + bytes
    <3>1. w.err = "none"
      BY <2>2, <2>5 DEF d
    <3>2. [w EXCEPT !.strings = u, !.strings_len = v].err = "none"
      <4> HIDE DEF u, v
      <4> QED BY <2>6, <3>1
    <3>3. dtb' # [w EXCEPT !.strings = u, !.strings_len = v]
      BY <1>2, <3>2
    <3> QED BY <3>3 DEF w
  <2> QED BY <2>2, <2>3, <2>7, DtbFailed
<1> QED BY <1>1, <1>2

LEMMA FinalizeStep == ASSUME DtbInv, finalize_into PROVE DtbInv'
<1> DEFINE blob == [totalsize |-> TotalSize, off_dt_struct |-> FDT_STRUCT_OFFSET,
                    off_dt_strings |-> FDT_STRUCT_OFFSET + dtb.struct_len + 4,
                    size_dt_struct |-> dtb.struct_len + 4, size_dt_strings |-> dtb.strings_len,
                    struct |-> dtb.struct, strings |-> dtb.strings]
           e == [dtb EXCEPT !.out = <<blob>>]
<1>1. dtb.err = "none" /\ dtb.calls = << >> /\ dtb.out = << >>
  BY DEF finalize_into
<1>2. \/ Failed("DtbOpenNodesRemain") \/ Failed("DtbOutputTooSmall")
      \/ dtb.open_nodes = 0 /\ ~ dtb.cfg.out < TotalSize /\ dtb' = e
  BY DEF finalize_into
<1>3. CASE Failed("DtbOpenNodesRemain") \/ Failed("DtbOutputTooSmall")
  BY <1>1, <1>3, DtbFailed
<1>4. CASE dtb.open_nodes = 0 /\ ~ dtb.cfg.out < TotalSize /\ dtb' = e
  <2>1. dtb = [x \in DtbFields |-> dtb[x]] /\ dtb.cfg \in DtbConfigs /\ HalfWritten(dtb)
    BY <1>1 DEF DtbInv, DtbSound
  <2>2. dtb.struct_len \in Nat /\ dtb.strings_len \in Nat /\ dtb.cfg.out \in Nat
    BY <2>1, DtbAssumption DEF HalfWritten
  <2>3. /\ blob.struct = dtb.struct /\ blob.strings = dtb.strings
        /\ blob.off_dt_strings = blob.off_dt_struct + blob.size_dt_struct
        /\ blob.totalsize = blob.off_dt_strings + blob.size_dt_strings
        /\ blob.totalsize <= dtb.cfg.out
    BY <1>4, <2>2 DEF TotalSize, FDT_STRUCT_OFFSET
  <2> HIDE DEF blob
  <2> DEFINE d == dtb
  <2>4. d = [x \in DtbFields |-> d[x]] /\ e = [d EXCEPT !.out = <<blob>>]
    BY <2>1
  <2> HIDE DEF d, e
  <2>5. /\ e = [x \in DtbFields |-> e[x]] /\ e.out = <<blob>>
        /\ e.cfg = d.cfg /\ e.err = d.err /\ e.calls = d.calls /\ e.struct = d.struct
        /\ e.struct_len = d.struct_len /\ e.strings = d.strings /\ e.strings_len = d.strings_len
        /\ e.open_nodes = d.open_nodes
    BY <2>4 DEF DtbFields
  <2>6. HalfWritten(e)
    BY <2>1, <2>5 DEF HalfWritten, d
  <2>7. Finished(e)
    <3>1. e.out[1] = blob
      BY <2>5
    <3> QED BY <1>1, <1>4, <2>3, <2>5, <3>1 DEF Finished, d
  <2>8. DtbSound(e)
    BY <1>1, <2>1, <2>5, <2>6, <2>7 DEF DtbSound, d
  <2>9. dtb' = e
    BY <1>4 DEF e
  <2> QED BY <2>8, <2>9 DEF DtbInv
<1> QED BY <1>2, <1>3, <1>4

(* Every step of the builder keeps what is left of the tree in step with   *)
(* what is written of it, and no step gives a blob up once it is out.      *)
LEMMA DtbStep == ASSUME DtbInv, [DtbNext]_dtb PROVE DtbInv'
<1>1. CASE build_begin_node \/ build_end_node
  BY <1>1, DtbNodeStep
<1>2. CASE build_prop
  BY <1>2, DtbPropStep
<1>3. CASE finalize_into
  BY <1>3, FinalizeStep
<1>4. CASE UNCHANGED dtb
  BY <1>4 DEF DtbInv
<1> QED BY <1>1, <1>2, <1>3, <1>4 DEF DtbNext

LEMMA BuiltReadable == ASSUME DtbInv PROVE DtbReadable
<1> SUFFICES ASSUME dtb.out # << >>
             PROVE  LET blob == dtb.out[1] IN
                    /\ dtb.err = "none" /\ dtb.open_nodes = 0
                    /\ blob.totalsize <= dtb.cfg.out
                    /\ ReadBack(blob) = CallsMade(Tree(dtb.cfg))
                    /\ Readable(blob)
  BY DEF DtbReadable
<1> DEFINE blob == dtb.out[1]
           k == Tree(dtb.cfg)
<1>1. dtb.err = "none" /\ dtb.cfg \in DtbConfigs /\ HalfWritten(dtb) /\ Finished(dtb)
  BY DEF DtbInv, DtbSound
<1>2. /\ dtb.calls = << >> /\ dtb.open_nodes = 0 /\ blob.struct = dtb.struct /\ blob.strings = dtb.strings
      /\ blob.off_dt_strings = blob.off_dt_struct + blob.size_dt_struct
      /\ blob.totalsize = blob.off_dt_strings + blob.size_dt_strings
      /\ blob.totalsize <= dtb.cfg.out
  BY <1>1 DEF Finished
<1> HIDE DEF blob
<1>3. /\ blob.struct \in Seq(Tokens) /\ blob.strings \in Seq(NamesOf(dtb.cfg))
      /\ Copied(k, blob.struct, blob.strings) /\ Len(blob.struct) + Len(dtb.calls) = Len(k)
  BY <1>1, <1>2 DEF HalfWritten
<1>4. Reads(k, << >>, << >>) /\ k # << >> /\ k[1].op = "begin"
  BY <1>1, TreeCalls
<1> HIDE DEF k
<1>5. Len(blob.struct) = Len(k)
  BY <1>2, <1>3
<1>6. ReadBack(blob) = CallsMade(k) /\ Readable(blob)
  BY <1>2, <1>3, <1>4, <1>5, CopyReadable
<1> QED BY <1>1, <1>2, <1>6 DEF blob, k

(* A tree that is built is one a kernel can read, whatever the number of   *)
(* cores, the command line and the sizes of the output and of the two      *)
(* blocks: every call of the builder is read back from it, and every `reg` *)
(* has whole entries (DtbReadable).                                        *)
THEOREM TreeReadable == DtbSpec => []DtbReadable
<1>1. DtbInit => DtbInv
  BY DtbInitSound
<1>2. DtbInv /\ [DtbNext]_dtb => DtbInv'
  BY DtbStep
<1>3. DtbInv => DtbReadable
  BY BuiltReadable
<1> QED BY <1>1, <1>2, <1>3, PTL DEF DtbSpec
===============================================================================
