----------------------------- MODULE PlatformProofs -----------------------------
(***************************************************************************)
(* Proofs about the parts of the platform that share no state: the memory  *)
(* of the translator, for tables, regions and numbers of cores of any      *)
(* size; the modem's mailbox; the tiers on x86 processors; the event ring, *)
(* for rings of any length; the boot from the firmware to the guest, for   *)
(* every memory map and number of cores; the boot monitors, for lines with *)
(* any of the signatures and behaviours of any length; the phone bridge,   *)
(* for every stream and every way to cut it.                               *)
(***************************************************************************)
EXTENDS BootMonitors, BridgeData, FexCache, GuestIo, HostBoot, X86Tier, EventRing, LeastNumber,
        FiniteSetTheorems, SequenceTheorems, TLAPS

(***************************************************************************)
(* The translator's memory.                                                *)
(***************************************************************************)

AnEntry == [va : Nat, pa : Nat, len : Nat, valid : BOOLEAN]

FexTypes ==
  /\ jit \in [base : Nat, size : Nat, used : Nat]
  /\ arena \in [base : Nat, size : Nat, used : Nat]
  /\ lock \in FexCores \cup {NoCore}
  /\ blocks \in [FexSlots -> AnEntry]
  /\ emitting \in [FexCores -> [va : Nat, pa : Nat, len : Nat]]
  /\ newest \in [FexBlocks -> [va : Nat, pa : Nat, len : Nat]]
  /\ scratch \subseteq [pa : Nat, len : Nat, align : Nat]

Used(region) == region.base + region.used
Apart(a, b) == a.pa + a.len <= b.pa \/ b.pa + b.len <= a.pa
Within(a, region) == a.len > 0 /\ region.base <= a.pa /\ a.pa + a.len <= Used(region)

RegionInv ==
  /\ jit.used <= jit.size /\ arena.used <= arena.size
  /\ jit.base + jit.size <= arena.base \/ arena.base + arena.size <= jit.base

Busy(c) == emitting[c] # NoCode

(* Only the holder of the lock is in the middle of an insertion.           *)
StoredInv == stored # {} => lock \in FexCores /\ Busy(lock)

(* An entry for an address translated since the last reset.                *)
Current(s) == blocks[s].valid /\ newest[blocks[s].va] # NoCode

EmitInv ==
  \A c \in FexCores : Busy(c) =>
    /\ lock = c /\ emitting[c].va \in FexBlocks /\ Within(emitting[c], jit)
    /\ \A s \in FexSlots : Current(s) => Apart(blocks[s], emitting[c])

BlockInv ==
  \A s \in FexSlots :
    /\ ~ blocks[s].valid => blocks[s] = NoBlock
    /\ Current(s) => Within(blocks[s], jit)
    /\ \A t \in FexSlots \ {s} : Current(s) /\ Current(t) => Apart(blocks[s], blocks[t])

ScratchInv ==
  /\ \A a \in scratch : Within(a, arena)
  /\ \A a, b \in scratch : a = b \/ Apart(a, b)

(* An entry lies in the window of its address, behind entries of other     *)
(* addresses only, so that an insertion of that address meets it first.    *)
Reached(table, va, j) ==
  \A i \in FexProbed : i < j => table[Probe(va, i)].valid /\ table[Probe(va, i)].va # va
PlaceInv ==
  \A s \in FexSlots : blocks[s].valid =>
    \E j \in FexProbed : s = Probe(blocks[s].va, j) /\ Reached(blocks, blocks[s].va, j)

NewestInv ==
  \A s \in FexSlots : blocks[s].valid =>
    /\ blocks[s].va \in FexBlocks
    /\ newest[blocks[s].va] # NoCode => blocks[s] = FexEntry(newest[blocks[s].va])

FexCacheInv ==
  /\ FexTypes /\ RegionInv /\ StoredInv /\ EmitInv /\ BlockInv /\ ScratchInv
  /\ PlaceInv /\ NewestInv

-------------------------------------------------------------------------------

LEMMA RoundUpBounds ==
  ASSUME NEW n \in Nat, NEW a \in Nat \ {0}
  PROVE  RoundUp(n, a) \in Nat /\ RoundUp(n, a) >= n
<1> DEFINE x == n + (a - 1)
<1>1. x \in Nat
  OBVIOUS
<1>2. x \div a \in Nat /\ x = a * (x \div a) + (x % a) /\ x % a \in 0 .. a - 1
  BY <1>1
<1> QED BY <1>2 DEF RoundUp

LEMMA ProbeInTable ==
  ASSUME NEW va \in Nat, NEW i \in FexProbed
  PROVE  Probe(va, i) \in FexSlots
<1>1. bucket_for(va) \in Nat
  BY FexCacheAssumption DEF bucket_for
<1> QED BY <1>1, FexCacheAssumption DEF Probe, FexSlots, FexProbed

LEMMA ProbesDiffer ==
  ASSUME NEW va \in Nat, NEW i \in FexProbed, NEW j \in FexProbed, i # j
  PROVE  Probe(va, i) # Probe(va, j)
<1> DEFINE B == FexBuckets
           b == bucket_for(va)
<1>1. B \in Nat \ {0} /\ b \in 0 .. B - 1
  BY FexCacheAssumption DEF bucket_for
<1>2. i \in 0 .. B - 1 /\ j \in 0 .. B - 1
  BY FexCacheAssumption DEF FexProbed
<1> HIDE DEF B, b
<1>3. \A x \in 0 .. 2 * B - 1 : x % B = IF x < B THEN x ELSE x - B
  BY <1>1
<1>4. (b + i) % B # (b + j) % B
  BY <1>1, <1>2, <1>3
<1> QED BY <1>4 DEF Probe, B, b

LEMMA FirstStopIsFirst ==
  ASSUME NEW table, NEW va \in Nat, Stops(table, va) # {}
  PROVE  /\ FirstStop(table, va) \in Stops(table, va)
         /\ \A j \in Stops(table, va) : FirstStop(table, va) <= j
<1>1. Stops(table, va) \subseteq Nat
  BY DEF Stops, FexProbed
<1>2. \E i \in Stops(table, va) : \A j \in Stops(table, va) : i <= j
  BY <1>1, LeastOf
<1> QED BY <1>2 DEF FirstStop

(* Where an insertion goes: behind entries of other addresses, and onto    *)
(* the entry of its own address if there is one.                           *)
PlacedAt(va) == IF Stops(blocks, va) = {} THEN 0 ELSE FirstStop(blocks, va)

LEMMA InsertionPlace ==
  ASSUME FexTypes, PlaceInv, NEW va \in Nat
  PROVE  /\ PlacedAt(va) \in FexProbed
         /\ Reached(blocks, va, PlacedAt(va))
         /\ \A s \in FexSlots : blocks[s].valid /\ blocks[s].va = va => s = Probe(va, PlacedAt(va))
<1>1. CASE Stops(blocks, va) = {}
  <2>1. PlacedAt(va) = 0 /\ 0 \in FexProbed
    BY <1>1, FexCacheAssumption DEF PlacedAt, FexProbed
  <2>2. Reached(blocks, va, 0)
    BY DEF Reached, FexProbed
  <2>3. ASSUME NEW s \in FexSlots, blocks[s].valid, blocks[s].va = va PROVE FALSE
    <3>1. PICK j \in FexProbed : s = Probe(va, j)
      BY <2>3 DEF PlaceInv
    <3>2. j \in Stops(blocks, va)
      BY <2>3, <3>1 DEF Stops
    <3> QED BY <1>1, <3>2
  <2> QED BY <2>1, <2>2, <2>3
<1>2. CASE Stops(blocks, va) # {}
  <2> DEFINE f == FirstStop(blocks, va)
  <2>1. f \in Stops(blocks, va) /\ \A j \in Stops(blocks, va) : f <= j
    BY <1>2, FirstStopIsFirst
  <2>2. PlacedAt(va) = f /\ f \in FexProbed
    BY <1>2, <2>1 DEF PlacedAt, Stops
  <2>3. Reached(blocks, va, f)
    BY <2>1, <2>2 DEF Reached, Stops, FexProbed
  <2>4. ASSUME NEW s \in FexSlots, blocks[s].valid, blocks[s].va = va PROVE s = Probe(va, f)
    <3>1. PICK j \in FexProbed : s = Probe(va, j) /\ Reached(blocks, va, j)
      BY <2>4 DEF PlaceInv
    <3>2. j \in Stops(blocks, va) /\ f <= j
      BY <2>1, <2>4, <3>1 DEF Stops
    <3>3. ~ (f < j)
      BY <2>1, <2>2, <3>1 DEF Reached, Stops
    <3> QED BY <2>2, <3>1, <3>2, <3>3 DEF FexProbed
  <2> HIDE DEF f
  <2> QED BY <2>2, <2>3, <2>4
<1> QED BY <1>1, <1>2

-------------------------------------------------------------------------------

LEMMA InitEstablishes == FexCacheInit => FexCacheInv
<1> SUFFICES ASSUME FexCacheInit PROVE FexCacheInv
  OBVIOUS
<1>1. PICK c \in FexConfigs : FexCacheOf(c)
  BY DEF FexCacheInit
<1>2. {c.jitBase, c.jitSize, c.arenaBase, c.arenaSize} \subseteq Nat
  BY FexBootAssumption
<1>3. FexTypes
  BY <1>1, <1>2 DEF FexTypes, FexCacheOf, NoBlock, NoCode, AnEntry
<1>4. RegionInv
  BY <1>1, <1>2 DEF RegionInv, FexCacheOf, FexValid, RegionsOverlap
<1>5. StoredInv /\ EmitInv /\ BlockInv /\ ScratchInv /\ PlaceInv /\ NewestInv
  BY <1>1 DEF FexCacheOf, StoredInv, EmitInv, Busy, BlockInv, Current, ScratchInv, PlaceInv,
              NewestInv, NoBlock
<1> QED BY <1>3, <1>4, <1>5 DEF FexCacheInv

LEMMA LockStep ==
  ASSUME FexCacheInv, NEW c \in FexCores, fex_lock(c) \/ fex_unlock(c)
  PROVE  FexCacheInv'
<1> USE DEF fex_lock, fex_unlock
<1>1. FexTypes'
  BY DEF FexCacheInv, FexTypes
<1>2. EmitInv' /\ StoredInv'
  BY FexCacheAssumption
  DEF FexCacheInv, EmitInv, Busy, StoredInv, Current, Within, Used, Apart
<1>3. (RegionInv /\ BlockInv /\ ScratchInv /\ PlaceInv /\ NewestInv)'
  BY DEF FexCacheInv, RegionInv, BlockInv, Current, ScratchInv, PlaceInv, Reached, Probe,
         NewestInv, Within, Used, Apart
<1> QED BY <1>1, <1>2, <1>3 DEF FexCacheInv

LEMMA AllocateStep ==
  ASSUME FexCacheInv, NEW c \in FexCores, NEW va \in FexBlocks, NEW len \in FexLengths,
         jit_allocate(c, va, len)
  PROVE  FexCacheInv'
<1> DEFINE more == RoundUp(len, FexAlign)
<1>0. PICK pa : pa = jit.base + jit.used
  OBVIOUS
<1> DEFINE w == [va |-> va, pa |-> pa, len |-> len]
<1>1. len \in Nat \ {0} /\ va \in Nat /\ more \in Nat /\ more >= len
  BY FexCacheAssumption, RoundUpBounds
<1>2. jit' = [jit EXCEPT !.used = @ + more] /\ jit.used + more <= jit.size
  BY DEF jit_allocate, Allocated, CanAllocate
<1>3. emitting' = [emitting EXCEPT ![c] = w] /\ lock = c /\ emitting[c] = NoCode
      /\ UNCHANGED <<arena, lock, blocks, stored, newest, scratch>>
  BY <1>0 DEF jit_allocate
<1> HIDE DEF more
<1>4. FexTypes'
  BY <1>0, <1>1, <1>2, <1>3 DEF FexCacheInv, FexTypes
<1>5. jit'.base = jit.base /\ jit'.size = jit.size /\ jit'.used = jit.used + more
  BY <1>2 DEF FexCacheInv, FexTypes
<1>6. RegionInv'
  BY <1>1, <1>2, <1>3, <1>5 DEF FexCacheInv, FexTypes, RegionInv
<1>7. BlockInv'
  BY <1>1, <1>3, <1>5
  DEF FexCacheInv, FexTypes, BlockInv, Current, Within, Used, Apart, AnEntry
<1>8. EmitInv'
  <2>1. \A d \in FexCores \ {c} : ~ Busy(d)
    BY <1>3 DEF FexCacheInv, EmitInv
  <2>2. emitting' = [emitting EXCEPT ![c] = w] /\ emitting'[c] = w
        /\ \A d \in FexCores \ {c} : emitting'[d] = emitting[d]
    BY <1>3 DEF FexCacheInv, FexTypes
  <2>3. Within(w, jit)'
    BY <1>0, <1>1, <1>5 DEF Within, Used, FexCacheInv, FexTypes
  <2>4. ASSUME NEW s \in FexSlots, Current(s) PROVE Apart(blocks[s], w)
    BY <2>4, <1>0, <1>1 DEF Apart, Within, Used, FexCacheInv, FexTypes, BlockInv, AnEntry
  <2>5. \A s \in FexSlots : Current(s)' = Current(s)
    BY <1>3 DEF Current
  <2> QED BY <1>3, <2>1, <2>2, <2>3, <2>4, <2>5 DEF EmitInv, Busy
<1>9. StoredInv'
  BY <1>1, <1>3 DEF FexCacheInv, StoredInv, Busy, FexTypes
<1>10. (ScratchInv /\ PlaceInv /\ NewestInv)'
  BY <1>3 DEF FexCacheInv, ScratchInv, PlaceInv, Reached, Probe, NewestInv, Within, Used, Apart
<1> QED BY <1>4, <1>6, <1>7, <1>8, <1>9, <1>10 DEF FexCacheInv

LEMMA EnterStep ==
  ASSUME FexCacheInv, NEW c \in FexCores, fex_enter(c)
  PROVE  FexCacheInv'
<1>0. PICK w : w = emitting[c]
  OBVIOUS
<1> DEFINE s == Probe(w.va, PlacedAt(w.va))
           e == [va |-> w.va, pa |-> w.pa, len |-> w.len, valid |-> TRUE]
<1>1. lock = c /\ Busy(c) /\ w.va \in FexBlocks /\ w \in [va : Nat, pa : Nat, len : Nat]
      /\ Within(w, jit) /\ \A t \in FexSlots : Current(t) => Apart(blocks[t], w)
  BY <1>0 DEF fex_enter, Busy, FexCacheInv, FexTypes, EmitInv
<1>2. blocks' = [blocks EXCEPT ![s] = e] /\ newest' = [newest EXCEPT ![w.va] = w]
      /\ emitting' = [emitting EXCEPT ![c] = NoCode] /\ stored' = {}
      /\ UNCHANGED <<jit, arena, lock, scratch>>
  BY <1>0 DEF fex_enter, block_insert, PlaceFor, FexEntry, PlacedAt
<1>3. /\ PlacedAt(w.va) \in FexProbed
      /\ Reached(blocks, w.va, PlacedAt(w.va))
      /\ \A t \in FexSlots : blocks[t].valid /\ blocks[t].va = w.va => t = s
  BY <1>1, InsertionPlace DEF FexCacheInv
<1>4. s \in FexSlots
  BY <1>1, <1>3, ProbeInTable
<1>5. blocks'[s] = e /\ \A t \in FexSlots \ {s} : blocks'[t] = blocks[t]
  BY <1>2, <1>4 DEF FexCacheInv, FexTypes
<1> HIDE DEF s
<1>6. FexTypes'
  BY <1>1, <1>2, <1>4 DEF FexCacheInv, FexTypes, AnEntry, NoCode
<1>7. RegionInv' /\ ScratchInv' /\ StoredInv'
  BY <1>2 DEF FexCacheInv, RegionInv, ScratchInv, StoredInv, Within, Used, Apart
<1>8. EmitInv'
  <2>1. \A d \in FexCores : emitting'[d] = NoCode
    BY <1>1, <1>2 DEF FexCacheInv, FexTypes, EmitInv, Busy
  <2> QED BY <2>1 DEF EmitInv, Busy
<1>9. ASSUME NEW t \in FexSlots \ {s}, Current(t)' PROVE Current(t)
  <2>1. blocks'[t] = blocks[t] /\ blocks[t].valid
    BY <1>5, <1>9 DEF Current
  <2>2. blocks[t].va \in FexBlocks /\ blocks[t].va # w.va
    BY <1>3, <2>1 DEF FexCacheInv, NewestInv
  <2>3. newest'[blocks[t].va] = newest[blocks[t].va]
    BY <1>2, <2>2 DEF FexCacheInv, FexTypes
  <2> QED BY <1>9, <2>1, <2>3 DEF Current
<1>10. BlockInv'
  <2>1. Within(e, jit)'
    BY <1>1, <1>2 DEF Within, Used
  <2>2. \A t \in FexSlots : Current(t) => Apart(blocks[t], e) /\ Apart(e, blocks[t])
    BY <1>1 DEF Apart
  <2>3. \A t \in FexSlots \ {s} : Current(t) => Within(blocks[t], jit)'
    BY <1>2 DEF FexCacheInv, BlockInv, Within, Used
  <2>4. e.valid
    OBVIOUS
  <2> HIDE DEF e
  <2> QED
    <3>1. \A t \in FexSlots : ~ blocks'[t].valid => blocks'[t] = NoBlock
      BY <1>5, <2>4 DEF FexCacheInv, BlockInv
    <3>2. \A t \in FexSlots : Current(t)' => Within(blocks[t], jit)'
      BY <1>5, <1>9, <2>1, <2>3
    <3>3. ASSUME NEW t \in FexSlots, NEW u \in FexSlots \ {t}, Current(t)', Current(u)'
          PROVE  Apart(blocks[t], blocks[u])'
      BY <1>5, <1>9, <2>2, <3>3 DEF FexCacheInv, BlockInv, Apart
    <3> QED BY <3>1, <3>2, <3>3 DEF BlockInv
<1>11. PlaceInv'
  <2> SUFFICES ASSUME NEW t \in FexSlots, blocks'[t].valid
               PROVE  \E j \in FexProbed : t = Probe(blocks'[t].va, j)
                                          /\ Reached(blocks', blocks'[t].va, j)
    BY DEF PlaceInv
  <2>1. CASE t = s
    <3>1. ASSUME NEW i \in FexProbed, i < PlacedAt(w.va)
          PROVE  blocks'[Probe(w.va, i)] = blocks[Probe(w.va, i)]
      BY <3>1, <1>1, <1>3, <1>5, ProbesDiffer, ProbeInTable DEF s, FexProbed
    <3>2. Reached(blocks', w.va, PlacedAt(w.va))
      BY <1>3, <3>1 DEF Reached
    <3> QED BY <1>3, <1>5, <2>1, <3>2 DEF s
  <2>2. CASE t # s
    <3>1. blocks'[t] = blocks[t] /\ blocks[t].valid /\ blocks[t].va # w.va /\ blocks[t].va \in Nat
      BY <1>3, <1>5, <2>2 DEF FexCacheInv, FexTypes, AnEntry
    <3>2. PICK j \in FexProbed : t = Probe(blocks[t].va, j) /\ Reached(blocks, blocks[t].va, j)
      BY <3>1 DEF FexCacheInv, PlaceInv
    <3>3. Reached(blocks', blocks[t].va, j)
      BY <1>5, <3>1, <3>2, ProbeInTable DEF Reached
    <3> QED BY <3>1, <3>2, <3>3
  <2> QED BY <2>1, <2>2
<1>12. NewestInv'
  <2> SUFFICES ASSUME NEW t \in FexSlots, blocks'[t].valid
               PROVE  /\ blocks'[t].va \in FexBlocks
                      /\ newest'[blocks'[t].va] # NoCode => blocks'[t] = FexEntry(newest'[blocks'[t].va])
    BY DEF NewestInv
  <2>1. CASE t = s
    BY <1>1, <1>2, <1>5, <2>1 DEF FexCacheInv, FexTypes, FexEntry
  <2>2. CASE t # s
    BY <1>1, <1>2, <1>3, <1>5, <2>2 DEF FexCacheInv, FexTypes, NewestInv
  <2> QED BY <2>1, <2>2
<1> QED BY <1>6, <1>7, <1>8, <1>10, <1>11, <1>12 DEF FexCacheInv

(* A field stored changes nothing but what the memory shows half-way.      *)
LEMMA StoreStep ==
  ASSUME FexCacheInv, NEW c \in FexCores, fex_store(c)
  PROVE  FexCacheInv'
<1>1. StoredInv'
  BY DEF fex_store, FexCacheInv, StoredInv, Busy
<1> QED
  BY <1>1 DEF fex_store, FexCacheInv, FexTypes, RegionInv, EmitInv, Busy, BlockInv, Current, ScratchInv,
              PlaceInv, Reached, Probe, NewestInv, Within, Used, Apart

LEMMA BumpStep ==
  ASSUME FexCacheInv, NEW c \in FexCores, NEW len \in FexLengths, NEW align \in {1, FexAlign},
         bump_alloc(c, len, align)
  PROVE  FexCacheInv'
<1>0. PICK off : off = RoundUp(arena.used, align)
  OBVIOUS
<1>1. PICK a : a = [pa |-> arena.base + off, len |-> len, align |-> align]
  OBVIOUS
<1>2. off \in Nat /\ arena.used <= off /\ len \in Nat \ {0} /\ align \in Nat
  BY <1>0, FexCacheAssumption, RoundUpBounds DEF FexCacheInv, FexTypes
<1>3. /\ off + len <= arena.size
      /\ arena' = [arena EXCEPT !.used = off + len] /\ scratch' = scratch \cup {a}
      /\ UNCHANGED <<jit, lock, blocks, stored, emitting, newest>>
  BY <1>0, <1>1 DEF bump_alloc
<1>4. arena'.base = arena.base /\ arena'.size = arena.size /\ arena'.used = off + len
  BY <1>3 DEF FexCacheInv, FexTypes
<1>5. FexTypes'
  BY <1>1, <1>2, <1>3 DEF FexCacheInv, FexTypes
<1>6. RegionInv'
  BY <1>2, <1>3, <1>4 DEF FexCacheInv, FexTypes, RegionInv
<1>7. ScratchInv'
  <2>1. Within(a, arena)'
    BY <1>1, <1>2, <1>4 DEF Within, Used, FexCacheInv, FexTypes
  <2>2. ASSUME NEW b \in scratch PROVE Within(b, arena)' /\ Apart(a, b) /\ Apart(b, a)
    BY <2>2, <1>1, <1>2, <1>4 DEF Within, Used, Apart, FexCacheInv, FexTypes, ScratchInv
  <2> QED BY <1>3, <2>1, <2>2 DEF FexCacheInv, ScratchInv
<1>8. (StoredInv /\ EmitInv /\ BlockInv /\ PlaceInv /\ NewestInv)'
  BY <1>3 DEF FexCacheInv, StoredInv, EmitInv, Busy, BlockInv, Current, PlaceInv, Reached, Probe,
              NewestInv, Within, Used, Apart
<1> QED BY <1>5, <1>6, <1>7, <1>8 DEF FexCacheInv

(* A reset forgets every translation, so no entry of the table is current. *)
LEMMA ResetStep ==
  ASSUME FexCacheInv, jit_reset
  PROVE  FexCacheInv'
<1>1. /\ jit' = [jit EXCEPT !.used = 0] /\ newest' = [b \in FexBlocks |-> NoCode]
      /\ lock = NoCore /\ UNCHANGED <<arena, lock, blocks, stored, emitting, scratch>>
  BY DEF jit_reset
<1>2. FexTypes'
  BY <1>1 DEF FexCacheInv, FexTypes, NoCode
<1>3. RegionInv'
  BY <1>1 DEF FexCacheInv, FexTypes, RegionInv
<1>4. EmitInv' /\ StoredInv'
  BY <1>1, FexCacheAssumption DEF FexCacheInv, EmitInv, StoredInv, Busy
<1>5. \A s \in FexSlots : ~ Current(s)'
  BY <1>1 DEF Current, FexCacheInv, NewestInv
<1>6. (BlockInv /\ PlaceInv /\ NewestInv)'
  BY <1>1, <1>5 DEF FexCacheInv, BlockInv, PlaceInv, Reached, Probe, NewestInv
<1>7. ScratchInv'
  BY <1>1 DEF FexCacheInv, ScratchInv, Within, Used, Apart
<1> QED BY <1>2, <1>3, <1>4, <1>6, <1>7 DEF FexCacheInv

LEMMA NextPreserves == FexCacheInv /\ [FexCacheNext]_cacheVars => FexCacheInv'
<1> SUFFICES ASSUME FexCacheInv, [FexCacheNext]_cacheVars PROVE FexCacheInv'
  OBVIOUS
<1>1. ASSUME NEW c \in FexCores, fex_lock(c) \/ fex_unlock(c) PROVE FexCacheInv'
  BY <1>1, LockStep
<1>2. ASSUME NEW c \in FexCores, fex_enter(c) PROVE FexCacheInv'
  BY <1>2, EnterStep
<1>3. ASSUME NEW c \in FexCores, NEW va \in FexBlocks, NEW len \in FexLengths,
             jit_allocate(c, va, len)
      PROVE  FexCacheInv'
  BY <1>3, AllocateStep
<1>4. ASSUME NEW c \in FexCores, NEW len \in FexLengths, NEW align \in {1, FexAlign},
             bump_alloc(c, len, align)
      PROVE  FexCacheInv'
  BY <1>4, BumpStep
<1>5. CASE jit_reset
  BY <1>5, ResetStep
<1>6. ASSUME NEW c \in FexCores, fex_store(c) PROVE FexCacheInv'
  BY <1>6, StoreStep
<1>7. CASE UNCHANGED cacheVars
  BY <1>7 DEF cacheVars, FexCacheInv, FexTypes, RegionInv, StoredInv, EmitInv, Busy, BlockInv,
              Current, ScratchInv, PlaceInv, Reached, Probe, NewestInv, Within, Used, Apart
<1> QED BY <1>1, <1>2, <1>3, <1>4, <1>5, <1>6, <1>7 DEF FexCacheNext

-------------------------------------------------------------------------------

LEMMA ApartAreas ==
  ASSUME NEW a, NEW b, {a.pa, a.len, b.pa, b.len} \subseteq Nat, Apart(a, b)
  PROVE  Area(a.pa, a.len) \cap Area(b.pa, b.len) = {}
BY DEF Apart, Area

(* Away from the entry that is being stored the memory is the table.       *)
LEMMA SettledEntries ==
  ASSUME FexCacheInv, NEW s \in Settled
  PROVE  s \in FexSlots /\ Entries[s] = blocks[s]
BY DEF Settled, Entries, FexCacheInv, FexTypes

LEMMA LookupFinds ==
  ASSUME FexCacheInv, NEW va \in FexBlocks, newest[va] # NoCode,
         Stops(Entries, va) # {} => LookupAt(Entries, va) \in Settled
  PROVE  block_lookup(Entries, va) \in {NoBlock, FexEntry(newest[va])}
<1>0. va \in Nat
  BY FexCacheAssumption
<1>1. CASE Stops(Entries, va) = {}
  BY <1>1 DEF block_lookup
<1>2. CASE Stops(Entries, va) # {}
  <2>1. FirstStop(Entries, va) \in Stops(Entries, va)
    BY <1>0, <1>2, FirstStopIsFirst
  <2>2. PICK s \in Settled : s = LookupAt(Entries, va)
    BY <1>2
  <2>3. block_lookup(Entries, va) = blocks[s] /\ s \in FexSlots /\ Entries[s] = blocks[s]
    BY <1>2, <2>2, SettledEntries DEF block_lookup
  <2>4. ~ blocks[s].valid \/ blocks[s].va = va
    BY <2>1, <2>2, <2>3 DEF Stops, LookupAt
  <2> QED BY <2>3, <2>4 DEF FexCacheInv, BlockInv, NewestInv
<1> QED BY <1>1, <1>2

LEMMA InvImpliesLive == FexCacheInv => BlocksLive
<1> SUFFICES ASSUME FexCacheInv PROVE BlocksLive
  OBVIOUS
<1> DEFINE current == {s \in Settled : Entries[s].valid /\ newest[Entries[s].va] # NoCode}
           fromTable == {[va |-> Entries[s].va, pa |-> Entries[s].pa, len |-> Entries[s].len] : s \in current}
           fromCores == {emitting[c] : c \in {d \in FexCores : emitting[d] # NoCode}}
<1>1. \A va \in FexBlocks :
        newest[va] # NoCode /\ (Stops(Entries, va) # {} => LookupAt(Entries, va) \in Settled)
          => block_lookup(Entries, va) \in {NoBlock, FexEntry(newest[va])}
  BY LookupFinds
<1>2. \A a \in fromTable : \E s \in FexSlots :
         Current(s) /\ a = [va |-> blocks[s].va, pa |-> blocks[s].pa, len |-> blocks[s].len]
  BY SettledEntries DEF Current
<1>3. \A a \in fromCores : \E c \in FexCores :
         Busy(c) /\ a = emitting[c]
  BY DEF Busy
<1>4. \A a \in fromTable \cup fromCores : a.pa \in Nat /\ a.len \in Nat /\ Within(a, jit)
  <2>1. \A a \in fromTable : a.pa \in Nat /\ a.len \in Nat /\ Within(a, jit)
    BY <1>2 DEF FexCacheInv, FexTypes, BlockInv, Within, AnEntry
  <2>2. \A a \in fromCores : a.pa \in Nat /\ a.len \in Nat /\ Within(a, jit)
    BY <1>3 DEF FexCacheInv, FexTypes, EmitInv, Within
  <2> QED BY <2>1, <2>2
<1>5. \A a \in scratch : a.pa \in Nat /\ a.len \in Nat /\ Within(a, arena)
  BY DEF FexCacheInv, FexTypes, ScratchInv, Within
<1>6. \A a, b \in fromTable \cup fromCores : a = b \/ Apart(a, b)
  <2>1. \A a, b \in fromTable : a = b \/ Apart(a, b)
    BY <1>2 DEF FexCacheInv, BlockInv, Apart
  <2>2. \A a \in fromTable, b \in fromCores : Apart(a, b) /\ Apart(b, a)
    BY <1>2, <1>3 DEF FexCacheInv, EmitInv, Apart
  <2>3. \A a, b \in fromCores : a = b
    BY <1>3 DEF FexCacheInv, EmitInv
  <2> QED BY <2>1, <2>2, <2>3
<1>7. \A a, b \in scratch : a = b \/ Apart(a, b)
  BY DEF FexCacheInv, ScratchInv
<1>8. \A a \in fromTable \cup fromCores, b \in scratch : Apart(a, b)
  BY <1>4, <1>5 DEF FexCacheInv, FexTypes, RegionInv, Within, Used, Apart
<1> DEFINE Disjoint(a, b) == Area(a.pa, a.len) \cap Area(b.pa, b.len) = {}
<1>9. \A a \in fromTable \cup fromCores : Area(a.pa, a.len) \subseteq Area(jit.base, jit.used)
  BY <1>4 DEF Area, Within, Used, FexCacheInv, FexTypes
<1>10. /\ \A a, b \in fromTable \cup fromCores : a = b \/ Disjoint(a, b)
       /\ \A a \in fromTable \cup fromCores, b \in scratch : Disjoint(a, b)
       /\ \A a, b \in scratch : a = b \/ Disjoint(a, b)
  <2>1. \A a, b : {a.pa, a.len, b.pa, b.len} \subseteq Nat /\ Apart(a, b) => Disjoint(a, b)
    BY ApartAreas
  <2> HIDE DEF fromTable, fromCores, Disjoint
  <2>2. \A a, b \in fromTable \cup fromCores : a = b \/ Disjoint(a, b)
    BY <1>4, <1>6, <2>1
  <2>3. \A a \in fromTable \cup fromCores, b \in scratch : Disjoint(a, b)
    BY <1>4, <1>5, <1>8, <2>1
  <2>4. \A a, b \in scratch : a = b \/ Disjoint(a, b)
    BY <1>5, <1>7, <2>1
  <2> QED BY <2>2, <2>3, <2>4
<1> QED BY <1>1, <1>9, <1>10 DEF BlocksLive

(* For an address translated since the last FexJitCache::reset, lookup     *)
(* finds the newest translation or nothing, also while an insert stores    *)
(* another entry; and no two areas handed out since then by allocate and   *)
(* FexHostBindings::alloc overlap while they are in use.  Entries from     *)
(* before a reset stay in the table and are left out.                      *)
THEOREM TranslationsLive == FexCacheSpec => []BlocksLive
<1>1. FexCacheInit => FexCacheInv
  BY InitEstablishes
<1>2. FexCacheInv /\ [FexCacheNext]_cacheVars => FexCacheInv'
  BY NextPreserves
<1>3. FexCacheInv => BlocksLive
  BY InvImpliesLive
<1> QED BY <1>1, <1>2, <1>3, PTL DEF FexCacheSpec

-------------------------------------------------------------------------------

(***************************************************************************)
(* The modem's mailbox in the guest's shared page.                         *)
(***************************************************************************)

Commands == [n : Nat, at : AtCommands \cup {""}]
AnswerTexts == {AtTable[at].text \o " OK" : at \in DOMAIN AtTable} \cup {"ERROR", ""}
Answers == [n : Nat, text : AnswerTexts]
Modes == {"model", "phone"}
X0Values == Hypercalls \cup Modes \cup {"", "1.1", "success", "not_supported", "invalid"}
Vcpus == [at : {"guest", "read", "cleared", "written"},
          insn : {"plain", "hvc", "smc", "wfi", "abort"}, x0 : X0Values, cmd : Commands]

GuestIoTypes ==
  /\ vcpu \in [GuestCores -> Vcpus]
  /\ port \in [cmdReady : BOOLEAN, cmd : Commands, respReady : BOOLEAN, resp : Answers]
  /\ ril \in [state : {"idle", "waiting", "unanswered"}, cmd : Commands, got : Answers]
  /\ pv \in [on : BOOLEAN, mode : Modes, operator : OperatorSizes]
  /\ overtaken \in BOOLEAN

OwnAnswer == [n |-> ril.cmd.n, text |-> process_command(ril.cmd.at)]

(* A core in the middle of a poll has the command that was sent last.      *)
PollInv ==
  \A c \in GuestCores :
    /\ vcpu[c].at # "guest" => vcpu[c].cmd = ril.cmd /\ ril.state # "idle"
    /\ vcpu[c].at \in {"cleared", "written"} => ril.state = "waiting" /\ ~ port.cmdReady
    /\ vcpu[c].at = "written" => port.resp = OwnAnswer

PortInv ==
  /\ port.cmdReady => port.cmd = ril.cmd /\ ril.state # "idle" /\ ~ port.respReady
  /\ port.respReady => port.resp = OwnAnswer /\ ril.state = "waiting"
  /\ ril.state = "unanswered" => ril.cmd.at = ""
  /\ ril.state = "waiting" => ril.cmd.at # ""

(* The mailbox, as long as the radio interface has overtaken no poll.      *)
MailInv == ~ overtaken => PollInv /\ PortInv /\ AnswersOwnCommand

GuestIoInv == GuestIoTypes /\ MailInv

-------------------------------------------------------------------------------

(* The response page holds one of the modem's texts (process_command).     *)
LEMMA OneOfTheTexts ==
  ASSUME NEW at
  PROVE  process_command(at) \in AnswerTexts
BY DEF process_command, AnswerTexts

LEMMA SameAnswer ==
  ASSUME ril'.cmd = ril.cmd, pv'.operator = pv.operator
  PROVE  OwnAnswer' = OwnAnswer
BY DEF OwnAnswer, process_command, AnswerSize

LEMMA SameMailbox ==
  ASSUME GuestIoInv, GuestIoTypes', UNCHANGED <<port, ril, overtaken>>,
         pv'.operator = pv.operator,
         \A c \in GuestCores : vcpu'[c].at = vcpu[c].at /\ vcpu'[c].cmd = vcpu[c].cmd
  PROVE  GuestIoInv'
<1> SUFFICES ASSUME ~ overtaken PROVE PollInv' /\ PortInv' /\ AnswersOwnCommand'
  BY DEF GuestIoInv, MailInv
<1>0. PollInv /\ PortInv /\ AnswersOwnCommand
  BY DEF GuestIoInv, MailInv
<1>1. OwnAnswer' = OwnAnswer
  BY SameAnswer
<1>2. PollInv'
  BY <1>0, <1>1 DEF PollInv
<1>3. PortInv'
  BY <1>0, <1>1 DEF PortInv
<1>4. AnswersOwnCommand'
  BY <1>0, <1>1 DEF AnswersOwnCommand, OwnAnswer
<1> QED BY <1>2, <1>3, <1>4

LEMMA GuestIoStarts == GuestIoInit => GuestIoInv
<1> SUFFICES ASSUME GuestIoInit PROVE GuestIoInv
  OBVIOUS
<1>1. PICK size \in OperatorSizes : GuestIoOf(size)
  BY DEF GuestIoInit
<1>2. GuestIoTypes
  BY <1>1 DEF GuestIoTypes, GuestIoOf, Vcpus, X0Values, Commands, NoCommand, NoAnswer, Answers,
              AnswerTexts, Modes
<1>3. PollInv /\ PortInv /\ AnswersOwnCommand
  BY <1>1 DEF GuestIoOf, PollInv, PortInv, AnswersOwnCommand, NoAnswer
<1> QED BY <1>2, <1>3 DEF GuestIoInv, MailInv

(* What the traps that do not touch the mailbox do.                        *)
GuestTrap(c) ==
  guest_runs(c) \/ guest_idles(c) \/ guest_woken(c) \/ handle_hvc(c) \/ handle_smc(c) \/ handle_fault(c)

LEMMA TrapsKeepMailbox ==
  ASSUME GuestIoInv, NEW c \in GuestCores, GuestTrap(c)
  PROVE  GuestIoInv'
<1>t. GuestIoTypes
  BY DEF GuestIoInv
<1>0. vcpu[c] \in Vcpus
  BY <1>t DEF GuestIoTypes
<1>1. CASE guest_runs(c)
  <2>0. PICK insn \in {"hvc", "smc", "abort"}, fn \in Hypercalls :
            vcpu' = [vcpu EXCEPT ![c].insn = insn, ![c].x0 = fn] /\ UNCHANGED <<port, ril, pv, overtaken>>
    BY <1>t, <1>1 DEF guest_runs
  <2>1. fn \in X0Values
    BY DEF X0Values
  <2>2. GuestIoTypes'
    BY <1>t, <1>0, <2>0, <2>1 DEF GuestIoTypes, Vcpus
  <2> QED BY <1>t, <1>0, <2>0, <2>2, SameMailbox DEF GuestIoTypes, Vcpus
<1>2. CASE guest_idles(c)
  <2>1. GuestIoTypes'
    BY <1>t, <1>2, <1>0 DEF guest_idles, GuestIoTypes, Vcpus
  <2> QED BY <1>t, <1>0, <1>2, <2>1, SameMailbox DEF guest_idles, GuestIoTypes, Vcpus
<1>3. CASE guest_woken(c)
  <2>1. GuestIoTypes'
    BY <1>t, <1>3, <1>0 DEF guest_woken, GuestIoTypes, Vcpus
  <2> QED BY <1>t, <1>0, <1>3, <2>1, SameMailbox DEF guest_woken, GuestIoTypes, Vcpus
<1>4. CASE handle_hvc(c)
  <2> DEFINE fn == vcpu[c].x0
             answer == IF fn \in AetherCalls THEN dispatch_aether_hvc(fn) ELSE PsciAnswer(fn)
  <2>1. answer \in X0Values
    BY <1>t DEF GuestIoTypes, X0Values, dispatch_aether_hvc, PsciAnswer, handle_sensor_read,
           handle_bridge_mode_get, handle_bridge_mode_set, AetherCalls
  <2>2. ModeAfter(fn) \in Modes
    BY <1>t DEF GuestIoTypes, ModeAfter, Modes
  <2>3. /\ vcpu' = [vcpu EXCEPT ![c].x0 = answer, ![c].insn = "plain"]
        /\ pv' = [pv EXCEPT !.mode = ModeAfter(fn)]
        /\ UNCHANGED <<port, ril, overtaken>>
    BY <1>t, <1>4 DEF handle_hvc, Resumed
  <2> HIDE DEF answer, fn
  <2>4. GuestIoTypes'
    BY <1>t, <1>0, <2>1, <2>2, <2>3 DEF GuestIoTypes, Vcpus
  <2>5. pv'.operator = pv.operator
    BY <1>t, <2>3 DEF GuestIoTypes
  <2> QED BY <1>t, <1>0, <2>3, <2>4, <2>5, SameMailbox DEF GuestIoTypes, Vcpus
<1>5. CASE handle_smc(c)
  <2>1. PsciAnswer(vcpu[c].x0) \in X0Values
    BY DEF PsciAnswer, X0Values
  <2>2. GuestIoTypes'
    BY <1>t, <1>5, <1>0, <2>1 DEF handle_smc, Resumed, GuestIoTypes, Vcpus
  <2> QED BY <1>t, <1>0, <1>5, <2>2, SameMailbox DEF handle_smc, GuestIoTypes, Vcpus
<1>6. CASE handle_fault(c)
  <2>1. GuestIoTypes'
    BY <1>t, <1>6, <1>0 DEF handle_fault, Resumed, GuestIoTypes, Vcpus
  <2> QED BY <1>t, <1>0, <1>6, <2>1, SameMailbox DEF handle_fault, GuestIoTypes, Vcpus
<1> QED BY <1>1, <1>2, <1>3, <1>4, <1>5, <1>6 DEF GuestTrap

LEMMA PollKeepsMailbox ==
  ASSUME GuestIoInv, NEW c \in GuestCores, poll_modem_on_wfi(c)
  PROVE  GuestIoInv'
<1>t. GuestIoTypes
  BY DEF GuestIoInv
<1>0. vcpu[c] \in Vcpus /\ UNCHANGED <<ril, pv, overtaken>>
  BY <1>t DEF GuestIoTypes, poll_modem_on_wfi, poll_command, clear_command, write_response,
              response_ready
<1>a. OwnAnswer' = OwnAnswer
  BY <1>0, SameAnswer
<1>c. NoCommand \in Commands
  BY DEF NoCommand, Commands
<1>T. GuestIoTypes'
  <2>1. CASE poll_command(c)
    BY <1>0, <1>t, <2>1 DEF poll_command, GuestIoTypes, Vcpus
  <2>2. CASE clear_command(c)
    BY <1>0, <1>t, <1>c, <2>2 DEF clear_command, GuestIoTypes, Vcpus
  <2>3. CASE write_response(c)
    <3>1. [n |-> vcpu[c].cmd.n, text |-> process_command(vcpu[c].cmd.at)] \in Answers
      BY <1>0, OneOfTheTexts DEF Answers, Vcpus, Commands
    <3> QED BY <1>0, <1>t, <2>3, <3>1 DEF write_response, GuestIoTypes, Vcpus
  <2>4. CASE response_ready(c)
    BY <1>0, <1>t, <1>c, <2>4 DEF response_ready, GuestIoTypes, Vcpus
  <2> QED BY <2>1, <2>2, <2>3, <2>4 DEF poll_modem_on_wfi
<1> SUFFICES ASSUME ~ overtaken PROVE PollInv' /\ PortInv' /\ AnswersOwnCommand'
  BY <1>0, <1>T DEF GuestIoInv, MailInv
<1>i. PollInv /\ PortInv /\ AnswersOwnCommand
  BY DEF GuestIoInv, MailInv
<1>b. AnswersOwnCommand'
  BY <1>0, <1>a, <1>i DEF AnswersOwnCommand, OwnAnswer
<1>1. CASE poll_command(c)
  <2>2. /\ vcpu'[c].at = "read" /\ vcpu'[c].cmd = port.cmd
        /\ port' = port /\ port.cmdReady
        /\ \A d \in GuestCores \ {c} : vcpu'[d] = vcpu[d]
    BY <1>0, <1>1, <1>t DEF poll_command, GuestIoTypes, Vcpus
  <2>4. PollInv'
    BY <1>0, <1>a, <1>i, <2>2 DEF PollInv, PortInv
  <2>3. PortInv'
    BY <1>0, <1>a, <1>i, <2>2 DEF PortInv
  <2> QED BY <2>3, <2>4, <1>b
<1>2. CASE clear_command(c)
  <2>2. /\ vcpu'[c].at = IF vcpu[c].cmd.at = "" THEN "guest" ELSE "cleared"
        /\ vcpu[c].cmd.at # "" => vcpu'[c].cmd = vcpu[c].cmd
        /\ \A d \in GuestCores \ {c} : vcpu'[d] = vcpu[d]
        /\ port' = [port EXCEPT !.cmdReady = FALSE]
    BY <1>0, <1>2, <1>t DEF clear_command, GuestIoTypes, Vcpus
  <2>3. ~ port'.cmdReady /\ port'.respReady = port.respReady /\ port'.resp = port.resp
    BY <1>t, <2>2 DEF GuestIoTypes
  <2>4. vcpu[c].cmd = ril.cmd /\ ril.state # "idle"
    BY <1>2, <1>i DEF clear_command, PollInv
  <2>5. ril.cmd.at # "" => ril.state = "waiting"
    BY <1>i, <1>t, <2>4 DEF PortInv, GuestIoTypes
  <2>6. PollInv'
    BY <1>0, <1>a, <1>i, <2>2, <2>3, <2>4, <2>5 DEF PollInv
  <2>7. PortInv'
    BY <1>0, <1>a, <1>i, <2>3 DEF PortInv
  <2> QED BY <2>6, <2>7, <1>b
<1>3. CASE write_response(c)
  <2>0. vcpu[c].cmd = ril.cmd /\ ril.state = "waiting" /\ ~ port.cmdReady
    BY <1>3, <1>i DEF write_response, PollInv
  <2>1. port' = [port EXCEPT !.resp = OwnAnswer]
    BY <1>3, <2>0 DEF write_response, OwnAnswer
  <2>2. ~ port'.cmdReady /\ port'.respReady = port.respReady /\ port'.resp = OwnAnswer
    BY <1>t, <2>0, <2>1 DEF GuestIoTypes
  <2>3. /\ vcpu'[c].at = "written" /\ vcpu'[c].cmd = vcpu[c].cmd
        /\ \A d \in GuestCores \ {c} : vcpu'[d] = vcpu[d]
    BY <1>0, <1>3, <1>t DEF write_response, GuestIoTypes, Vcpus
  <2>4. PollInv'
    BY <1>0, <1>a, <1>i, <2>0, <2>2, <2>3 DEF PollInv
  <2>5. PortInv'
    BY <1>0, <1>a, <1>i, <2>0, <2>2 DEF PortInv
  <2> QED BY <2>4, <2>5, <1>b
<1>4. CASE response_ready(c)
  <2>0. ril.state = "waiting" /\ ~ port.cmdReady /\ port.resp = OwnAnswer
    BY <1>4, <1>i DEF response_ready, PollInv
  <2>1. port' = [port EXCEPT !.respReady = TRUE]
    BY <1>4 DEF response_ready
  <2>2. ~ port'.cmdReady /\ port'.resp = OwnAnswer
    BY <1>t, <2>0, <2>1 DEF GuestIoTypes
  <2>3. vcpu'[c].at = "guest" /\ \A d \in GuestCores \ {c} : vcpu'[d] = vcpu[d]
    BY <1>0, <1>4, <1>t DEF response_ready, GuestIoTypes, Vcpus
  <2>4. PollInv'
    BY <1>0, <1>a, <1>i, <2>0, <2>2, <2>3 DEF PollInv
  <2>5. PortInv'
    BY <1>0, <1>a, <1>i, <2>0, <2>2 DEF PortInv
  <2> QED BY <2>4, <2>5, <1>b
<1> QED BY <1>1, <1>2, <1>3, <1>4 DEF poll_modem_on_wfi

LEMMA RilKeepsMailbox ==
  ASSUME GuestIoInv, (\E at \in AtCommands : ril_send(at)) \/ ril_receive \/ ril_continue
  PROVE  GuestIoInv'
<1>t. GuestIoTypes
  BY DEF GuestIoInv
<1>i. ~ overtaken => PollInv /\ PortInv /\ AnswersOwnCommand
  BY DEF GuestIoInv, MailInv
<1>1. ASSUME NEW at \in AtCommands, ril_send(at) PROVE GuestIoInv'
  <2> DEFINE cmd == [n |-> ril.cmd.n + 1, at |-> at]
  <2>n. ril.cmd \in Commands
    BY <1>t DEF GuestIoTypes
  <2>m. ril.cmd.n \in Nat
    BY <2>n, Zenon DEF Commands
  <2>p. ril.cmd.n + 1 \in Nat
    BY <2>m
  <2>l. \A k \in Nat : [n |-> k, at |-> at] \in Commands
    BY DEF Commands
  <2>a. cmd \in Commands
    BY <2>l, <2>p
  <2>b. "" \in AnswerTexts
    BY DEF AnswerTexts
  <2>0. cmd \in Commands /\ NoAnswer \in Answers
    BY <2>a, <2>b DEF NoAnswer, Answers
  <2>1. /\ ril.state = "idle" /\ UNCHANGED <<vcpu, pv, overtaken>>
        /\ port' = [port EXCEPT !.cmd = cmd, !.cmdReady = TRUE]
        /\ ril' = [state |-> IF at = "" THEN "unanswered" ELSE "waiting", cmd |-> cmd, got |-> NoAnswer]
    BY <1>1 DEF ril_send
  <2>c. cmd.at = at
    OBVIOUS
  <2> HIDE DEF cmd
  <2>2. GuestIoTypes'
    BY <1>t, <2>0, <2>1 DEF GuestIoTypes
  <2> SUFFICES ASSUME ~ overtaken PROVE PollInv' /\ PortInv' /\ AnswersOwnCommand'
    BY <2>1, <2>2 DEF GuestIoInv, MailInv
  <2>3. ~ port.respReady /\ \A c \in GuestCores : vcpu[c].at = "guest"
    BY <1>i, <2>1 DEF PortInv, PollInv
  <2>4. PollInv'
    BY <2>1, <2>3 DEF PollInv
  <2>5. port'.cmdReady /\ port'.cmd = cmd /\ ~ port'.respReady
    BY <1>t, <2>1, <2>3 DEF GuestIoTypes
  <2>6. PortInv'
    BY <2>1, <2>5, <2>c DEF PortInv
  <2>7. AnswersOwnCommand'
    BY <2>1 DEF AnswersOwnCommand
  <2> QED BY <2>4, <2>6, <2>7
<1>2. CASE ril_receive
  <2>1. OwnAnswer' = OwnAnswer
    BY <1>2, <1>t, SameAnswer DEF ril_receive, GuestIoTypes
  <2>2. GuestIoTypes'
    BY <1>2, <1>t DEF ril_receive, Overtakes, GuestIoTypes
  <2> SUFFICES ASSUME ~ overtaken' PROVE PollInv' /\ PortInv' /\ AnswersOwnCommand'
    BY <2>2 DEF GuestIoInv, MailInv
  <2>3. ~ overtaken /\ \A c \in GuestCores : vcpu[c].at = "guest"
    BY <1>2 DEF ril_receive, Overtakes, InGuest
  <2>4. PollInv'
    BY <1>2, <2>3 DEF ril_receive, PollInv
  <2>5. ~ port.cmdReady /\ port.resp = OwnAnswer
    BY <1>2, <1>i, <2>3 DEF ril_receive, PortInv
  <2>6. /\ ~ port'.cmdReady /\ ~ port'.respReady
        /\ ril'.state = "idle" /\ ril'.got = OwnAnswer /\ ril'.cmd = ril.cmd
    BY <1>2, <1>t, <2>5 DEF ril_receive, GuestIoTypes
  <2>7. PortInv'
    BY <2>6 DEF PortInv
  <2>8. AnswersOwnCommand'
    BY <2>1, <2>6 DEF AnswersOwnCommand, OwnAnswer
  <2> QED BY <2>4, <2>7, <2>8
<1>3. CASE ril_continue
  <2>1. OwnAnswer' = OwnAnswer
    BY <1>3, <1>t, SameAnswer DEF ril_continue, GuestIoTypes
  <2>2. GuestIoTypes'
    BY <1>3, <1>t DEF ril_continue, Overtakes, GuestIoTypes
  <2> SUFFICES ASSUME ~ overtaken' PROVE PollInv' /\ PortInv' /\ AnswersOwnCommand'
    BY <2>2 DEF GuestIoInv, MailInv
  <2>3. ~ overtaken /\ \A c \in GuestCores : vcpu[c].at = "guest"
    BY <1>3 DEF ril_continue, Overtakes, InGuest
  <2>4. PollInv'
    BY <1>3, <2>3 DEF ril_continue, PollInv
  <2>5. /\ port' = port /\ ~ port.cmdReady /\ ~ port.respReady
        /\ ril'.state = "idle" /\ ril'.got = ril.got
    BY <1>3, <1>i, <1>t, <2>3 DEF ril_continue, PortInv, GuestIoTypes
  <2>6. PortInv'
    BY <2>5 DEF PortInv
  <2>7. AnswersOwnCommand'
    BY <1>i, <2>1, <2>3, <2>5 DEF AnswersOwnCommand, OwnAnswer
  <2> QED BY <2>4, <2>6, <2>7
<1> QED BY <1>1, <1>2, <1>3

LEMMA GuestIoStep ==
  ASSUME GuestIoInv, [GuestIoNext]_guestIoVars
  PROVE  GuestIoInv'
<1>1. CASE init_paravirt
  <2>1. GuestIoTypes' /\ pv'.operator = pv.operator
    BY <1>1 DEF init_paravirt, GuestIoTypes, GuestIoInv
  <2> QED BY <1>1, <2>1, SameMailbox DEF init_paravirt
<1>2. CASE \E c \in GuestCores : GuestTrap(c)
  BY <1>2, TrapsKeepMailbox
<1>3. CASE \E c \in GuestCores : poll_modem_on_wfi(c)
  BY <1>3, PollKeepsMailbox
<1>4. CASE (\E at \in AtCommands : ril_send(at)) \/ ril_receive \/ ril_continue
  BY <1>4, RilKeepsMailbox
<1>5. CASE UNCHANGED guestIoVars
  <2>1. GuestIoTypes'
    BY <1>5 DEF GuestIoInv, GuestIoTypes, guestIoVars
  <2> QED BY <1>5, <2>1, SameMailbox DEF guestIoVars
<1> QED BY <1>1, <1>2, <1>3, <1>4, <1>5 DEF GuestIoNext, GuestTrap

(* With any number of cores polling the shared page as their idle times    *)
(* fall (poll_modem_on_wfi), the answer the radio interface takes is the   *)
(* modem's to the command it sent, until it takes one while another core   *)
(* is still in its poll.                                                   *)
THEOREM AnswersAreOwn == GuestIoSpec => []AnswersOwnCommand
<1>1. GuestIoInit => GuestIoInv
  BY GuestIoStarts
<1>2. GuestIoInv /\ [GuestIoNext]_guestIoVars => GuestIoInv'
  BY GuestIoStep
<1>3. GuestIoInv => AnswersOwnCommand
  BY DEF GuestIoInv, MailInv, AnswersOwnCommand
<1> QED BY <1>1, <1>2, <1>3, PTL DEF GuestIoSpec

-------------------------------------------------------------------------------

(***************************************************************************)
(* The tiers on x86 processors.                                            *)
(***************************************************************************)

Insns == DOMAIN InsnLen
X86Running == {"ready", "exit", "terminated"}

X86Types ==
  /\ x86cpu \in Processors
  /\ DOMAIN x86 = {"cfg", "at", "err", "phase", "gate", "fault", "written", "guest", "eptp", "flushed"}
  /\ DOMAIN guestx = {"rip", "insn", "exits"}
  /\ x86.cfg \in X86Configs /\ x86.gate \subseteq X86Gate
  /\ x86.written \subseteq {"host", "guest", "controls"}
  /\ guestx.rip \in Nat /\ guestx.exits \in Seq(Insns)
  /\ x86.fault \in BOOLEAN

(* What has been set up by the time a step is reached.                     *)
X86StageInv ==
  /\ x86.at \in {"load", "host", "guest", "controls", "flush"} \cup X86Running => x86cpu.on
  /\ x86.at \in {"host", "guest", "controls", "flush"} \cup X86Running => x86cpu.current
  /\ x86.at \in {"guest", "controls", "flush"} \cup X86Running => "host" \in x86.written
  /\ x86.at \in {"controls", "flush"} \cup X86Running =>
       "guest" \in x86.written /\ x86.guest = <<GuestState(x86.cfg)>>
  /\ x86.at \in {"flush"} \cup X86Running => "controls" \in x86.written
  /\ x86.at \in X86Running => x86.flushed
  /\ "second_stage" \in x86.gate \/ guestx.exits # << >> => x86.at \in X86Running

CannotRead == Vtx /\ ~ Instruction("vmread")

(* What the exits say of the gate: the exit that is still to be handled is *)
(* the last; a fault is seen, or waits, or was what could not be read.     *)
X86ExitInv ==
  /\ x86.at = "exit" =>
       /\ guestx.exits # << >> /\ guestx.insn \in Intercepted
       /\ guestx.exits[Len(guestx.exits)] = guestx.insn
  /\ x86.at = "terminated" => guestx.exits # << >>
  /\ "hlt_handled" \in x86.gate => ~ CannotRead /\ \E i \in DOMAIN guestx.exits : guestx.exits[i] = "hlt"
  /\ \A i \in DOMAIN guestx.exits : guestx.exits[i] = "fault" =>
       \/ x86.fault
       \/ x86.at = "exit" /\ i = Len(guestx.exits)
       \/ CannotRead

HandledExits ==
  IF X86At("exit") \/ X86At("terminated") THEN SubSeq(guestx.exits, 1, Len(guestx.exits) - 1)
  ELSE guestx.exits

RipInv == guestx.rip = x86.cfg.entry + AdvancedBy(HandledExits)

X86Inv == X86Types /\ X86StageInv /\ X86ExitInv /\ RipInv

(* AdvancedBy, of a tier: what is handled is a matter of the flavor.       *)
HandledOn(vtx, insn) ==
  IF vtx THEN insn \in {"hlt", "cpuid"} ELSE insn \in {"hlt", "cpuid", "vmmcall"}
AdvancedOn(vtx, exits) ==
  LET Of(insn) == IF HandledOn(vtx, insn) THEN InsnLen[insn] * Times(exits, insn) ELSE 0
  IN Of("hlt") + Of("cpuid") + Of("vmmcall")

LEMMA AdvanceOfTier == \A exits : AdvancedBy(exits) = AdvancedOn(Vtx, exits)
  BY DEF AdvancedBy, AdvancedOn, Handled, HandledOn

LEMMA LengthsAre ==
  /\ Insns = {"hlt", "cpuid", "vmmcall", "rdmsr", "shutdown", "fault", "invalid"}
  /\ InsnLen["hlt"] = 1 /\ InsnLen["cpuid"] = 2 /\ InsnLen["vmmcall"] = 3
  BY DEF Insns, InsnLen

LEMMA TimesIsNat ==
  ASSUME NEW exits \in Seq(Insns), NEW insn
  PROVE  IsFiniteSet({i \in DOMAIN exits : exits[i] = insn}) /\ Times(exits, insn) \in Nat
<1> DEFINE I == {i \in DOMAIN exits : exits[i] = insn}
<1>1. Len(exits) \in Nat /\ DOMAIN exits = 1 .. Len(exits)
  OBVIOUS
<1>2. IsFiniteSet(1 .. Len(exits))
  BY <1>1, FS_Interval
<1>3. I \subseteq 1 .. Len(exits)
  BY <1>1
<1>4. IsFiniteSet(I)
  BY <1>2, <1>3, FS_Subset
<1> QED BY <1>4, FS_CardinalityType DEF Times

(* One more exit counts once, for what it is.                              *)
LEMMA OneMoreTime ==
  ASSUME NEW exits \in Seq(Insns), NEW x \in Insns, NEW insn
  PROVE  Times(Append(exits, x), insn) = Times(exits, insn) + (IF x = insn THEN 1 ELSE 0)
<1> DEFINE more == Append(exits, x)
           I == {i \in DOMAIN exits : exits[i] = insn}
           J == {i \in DOMAIN more : more[i] = insn}
           n == Len(exits) + 1
<1>1. /\ Len(exits) \in Nat /\ DOMAIN exits = 1 .. Len(exits)
      /\ DOMAIN more = 1 .. n /\ more[n] = x
      /\ \A i \in DOMAIN exits : more[i] = exits[i]
  OBVIOUS
<1>2. IsFiniteSet(I) /\ Cardinality(I) \in Nat
  BY TimesIsNat DEF Times
<1> HIDE DEF more
<1>3. CASE x = insn
  <2>1. J = I \cup {n} /\ n \notin I
    BY <1>1, <1>3
  <2>2. Cardinality(J) = Cardinality(I) + 1
    <3> HIDE DEF I, J, n
    <3> QED BY <1>2, <2>1, FS_AddElement
  <2> QED BY <1>3, <2>2 DEF Times, more
<1>4. CASE x # insn
  <2>1. J = I
    BY <1>1, <1>4
  <2>2. Times(more, insn) = Times(exits, insn)
    BY <2>1 DEF Times
  <2>3. Times(exits, insn) \in Nat
    BY TimesIsNat
  <2> QED BY <1>4, <2>2, <2>3 DEF more
<1> QED BY <1>3, <1>4

LEMMA OneMoreAdvance ==
  ASSUME NEW vtx \in BOOLEAN, NEW exits \in Seq(Insns), NEW x \in Insns
  PROVE  /\ AdvancedOn(vtx, exits) \in Nat
         /\ AdvancedOn(vtx, Append(exits, x)) =
              AdvancedOn(vtx, exits) + (IF HandledOn(vtx, x) THEN InsnLen[x] ELSE 0)
<1> DEFINE T(insn) == Times(exits, insn)
           M(insn) == Times(Append(exits, x), insn)
<1>1. \A insn : T(insn) \in Nat /\ M(insn) = T(insn) + (IF x = insn THEN 1 ELSE 0)
  BY TimesIsNat, OneMoreTime
<1>2. /\ AdvancedOn(vtx, exits) = T("hlt") + 2 * T("cpuid") + (IF vtx THEN 0 ELSE 3 * T("vmmcall"))
      /\ AdvancedOn(vtx, Append(exits, x)) = M("hlt") + 2 * M("cpuid") + (IF vtx THEN 0 ELSE 3 * M("vmmcall"))
  <2>1. ASSUME NEW s \in {exits, Append(exits, x)}
        PROVE  AdvancedOn(vtx, s) = Times(s, "hlt") + 2 * Times(s, "cpuid") + (IF vtx THEN 0 ELSE 3 * Times(s, "vmmcall"))
    <3>1. Times(s, "hlt") \in Nat /\ Times(s, "cpuid") \in Nat /\ Times(s, "vmmcall") \in Nat
      <4>1. s \in Seq(Insns)
        OBVIOUS
      <4> QED BY <4>1, TimesIsNat
    <3> HIDE DEF T, M
    <3> QED BY <3>1, LengthsAre DEF AdvancedOn, HandledOn
  <2> QED BY <2>1
<1> HIDE DEF T, M
<1>3. HandledOn(vtx, x) <=> (x = "hlt" \/ x = "cpuid" \/ (~ vtx /\ x = "vmmcall"))
  BY DEF HandledOn
<1>4. /\ T("hlt") \in Nat /\ M("hlt") = T("hlt") + (IF x = "hlt" THEN 1 ELSE 0)
      /\ T("cpuid") \in Nat /\ M("cpuid") = T("cpuid") + (IF x = "cpuid" THEN 1 ELSE 0)
      /\ T("vmmcall") \in Nat /\ M("vmmcall") = T("vmmcall") + (IF x = "vmmcall" THEN 1 ELSE 0)
  BY <1>1
<1>5. CASE x = "hlt"
  <2>1. M("hlt") = T("hlt") + 1 /\ M("cpuid") = T("cpuid") /\ M("vmmcall") = T("vmmcall")
    BY <1>4, <1>5
  <2>2. InsnLen[x] = 1 /\ (HandledOn(vtx, x) <=> TRUE)
    BY <1>3, <1>5, LengthsAre
  <2> DEFINE V == IF vtx THEN 0 ELSE 3 * T("vmmcall")
  <2>3. V \in Nat
    BY <1>4
  <2>4. AdvancedOn(vtx, exits) = T("hlt") + 2 * T("cpuid") + V
    BY <1>2
  <2>5. AdvancedOn(vtx, Append(exits, x)) = (T("hlt") + 1) + 2 * T("cpuid") + V
    BY <1>2, <2>1
  <2>6. (IF HandledOn(vtx, x) THEN InsnLen[x] ELSE 0) = 1
    BY <2>2
  <2>7. T("hlt") \in Nat /\ T("cpuid") \in Nat
    BY <1>4
  <2> HIDE DEF V
  <2> QED BY <2>3, <2>4, <2>5, <2>6, <2>7
<1>6. CASE x = "cpuid"
  <2>1. M("hlt") = T("hlt") /\ M("cpuid") = T("cpuid") + 1 /\ M("vmmcall") = T("vmmcall")
    BY <1>4, <1>6
  <2>2. InsnLen[x] = 2 /\ (HandledOn(vtx, x) <=> TRUE)
    BY <1>3, <1>6, LengthsAre
  <2> DEFINE V == IF vtx THEN 0 ELSE 3 * T("vmmcall")
  <2>3. V \in Nat
    BY <1>4
  <2>4. AdvancedOn(vtx, exits) = T("hlt") + 2 * T("cpuid") + V
    BY <1>2
  <2>5. AdvancedOn(vtx, Append(exits, x)) = T("hlt") + 2 * (T("cpuid") + 1) + V
    BY <1>2, <2>1
  <2>6. (IF HandledOn(vtx, x) THEN InsnLen[x] ELSE 0) = 2
    BY <2>2
  <2>7. T("hlt") \in Nat /\ T("cpuid") \in Nat
    BY <1>4
  <2> HIDE DEF V
  <2> QED BY <2>3, <2>4, <2>5, <2>6, <2>7
<1>7. CASE x = "vmmcall"
  <2>1. M("hlt") = T("hlt") /\ M("cpuid") = T("cpuid") /\ M("vmmcall") = T("vmmcall") + 1
    BY <1>4, <1>7
  <2>2. InsnLen[x] = 3 /\ (HandledOn(vtx, x) <=> ~ vtx)
    BY <1>3, <1>7, LengthsAre
  <2>3. CASE vtx
    BY <1>2, <1>4, <2>1, <2>2, <2>3
  <2>4. CASE ~ vtx
    <3>1. AdvancedOn(vtx, exits) = T("hlt") + 2 * T("cpuid") + 3 * T("vmmcall")
      BY <1>2, <2>4
    <3>2. AdvancedOn(vtx, Append(exits, x)) = T("hlt") + 2 * T("cpuid") + 3 * (T("vmmcall") + 1)
      BY <1>2, <2>1, <2>4
    <3>3. HandledOn(vtx, x) /\ InsnLen[x] = 3
      BY <2>2, <2>4
    <3> QED BY <1>4, <3>1, <3>2, <3>3
  <2> QED BY <2>3, <2>4
<1>8. CASE x \notin {"hlt", "cpuid", "vmmcall"}
  BY <1>2, <1>3, <1>4, <1>8
<1> QED BY <1>5, <1>6, <1>7, <1>8

LEMMA X86Starts == X86Init => X86Inv
<1>1. SUFFICES ASSUME X86Init PROVE X86Inv
  OBVIOUS
<1>2. PICK p \in X86Processors, c \in X86Configs : X86Of(p, c)
  BY <1>1 DEF X86Init
<1>3. p \in Processors /\ c.entry \in Nat
  BY X86Assumption
<1>4. x86cpu \in Processors
  <2>1. x86cpu = [p EXCEPT !.on = FALSE]
    BY <1>2 DEF X86Of
  <2> QED BY <1>3, <2>1 DEF Processors
<1>5. /\ DOMAIN x86 = {"cfg", "at", "err", "phase", "gate", "fault", "written", "guest", "eptp", "flushed"}
      /\ x86.cfg = c /\ x86.at = "validate" /\ x86.gate = {} /\ x86.written = {} /\ x86.fault = FALSE
  BY <1>2 DEF X86Of
<1>6. DOMAIN guestx = {"rip", "insn", "exits"} /\ guestx.rip = c.entry /\ guestx.exits = << >>
  BY <1>2 DEF X86Of
<1>7. X86Types
  <2>1. guestx.rip \in Nat /\ guestx.exits \in Seq(Insns)
    BY <1>3, <1>6
  <2> QED BY <1>4, <1>5, <1>6, <2>1 DEF X86Types
<1>8. X86StageInv /\ X86ExitInv
  BY <1>5, <1>6 DEF X86StageInv, X86ExitInv, X86Running
<1>9. RipInv
  <2>1. HandledExits = << >>
    BY <1>5, <1>6 DEF HandledExits, X86At
  <2>2. \A insn : Times(<< >>, insn) = 0
    <3>1. \A insn : {i \in DOMAIN << >> : << >>[i] = insn} = {}
      OBVIOUS
    <3> QED BY <3>1, FS_EmptySet DEF Times
  <2>3. AdvancedBy(<< >>) = 0
    BY <2>2, LengthsAre DEF AdvancedBy
  <2> QED BY <1>3, <1>5, <1>6, <2>1, <2>3 DEF RipInv
<1> QED BY <1>7, <1>8, <1>9 DEF X86Inv

(* A step that leaves the guest alone, before it runs.                     *)
LEMMA SetupKeeps ==
  ASSUME X86Types, X86ExitInv, RipInv, guestx' = guestx, x86'.cfg = x86.cfg,
         x86.at \notin X86Running, x86'.at \notin X86Running \ {"ready"}, x86'.fault = x86.fault,
         x86cpu'.flavor = x86cpu.flavor, x86cpu'.fails = x86cpu.fails,
         "hlt_handled" \in x86'.gate <=> "hlt_handled" \in x86.gate
  PROVE  X86ExitInv' /\ RipInv'
<1>1. X86ExitInv'
  BY DEF X86ExitInv, X86Running, CannotRead, Vtx, Instruction
<1>2. HandledExits' = HandledExits
  BY DEF HandledExits, X86At, X86Running
<1>3. Vtx' = Vtx
  BY DEF Vtx
<1>4. AdvancedBy(HandledExits)' = AdvancedBy(HandledExits)
  <2>1. AdvancedBy(HandledExits)' = AdvancedOn(Vtx', HandledExits')
    BY DEF AdvancedBy, AdvancedOn, Handled, HandledOn
  <2> QED BY <1>2, <1>3, <2>1, AdvanceOfTier
<1>5. RipInv'
  BY <1>4 DEF RipInv
<1> QED BY <1>1, <1>5

LEMMA FailKeeps ==
  ASSUME X86Inv, NEW e, X86Fails(e), x86.at \notin X86Running
  PROVE  X86Inv'
<1>1. /\ x86cpu' = x86cpu /\ guestx' = guestx /\ DOMAIN x86' = DOMAIN x86 /\ x86'.at = "failed"
      /\ x86'.cfg = x86.cfg /\ x86'.gate = x86.gate /\ x86'.written = x86.written
      /\ x86'.guest = x86.guest /\ x86'.flushed = x86.flushed /\ x86'.fault = x86.fault
  BY DEF X86Inv, X86Types, X86Fails
<1>2. X86Types'
  BY <1>1 DEF X86Inv, X86Types
<1>3. X86StageInv'
  BY <1>1 DEF X86Inv, X86StageInv, X86Running
<1>4. X86ExitInv' /\ RipInv'
  BY <1>1, SetupKeeps DEF X86Inv, X86Running
<1> QED BY <1>2, <1>3, <1>4 DEF X86Inv

LEMMA X86Step == X86Inv /\ [X86Next]_x86vars => X86Inv'
<1>1. SUFFICES ASSUME X86Inv, [X86Next]_x86vars PROVE X86Inv'
  OBVIOUS
<1>t. X86Types /\ X86StageInv /\ X86ExitInv /\ RipInv
  BY <1>1 DEF X86Inv
<1>2. CASE x86_detect
  <2>1. CASE \E e : X86Fails(e)
    BY <1>1, <1>2, <2>1, FailKeeps DEF x86_detect, X86At, X86Running
  <2>2. CASE X86Goes([x86 EXCEPT !.at = "enable", !.phase = "Detected"])
    <3>1. /\ x86cpu' = x86cpu /\ guestx' = guestx /\ DOMAIN x86' = DOMAIN x86 /\ x86'.at = "enable"
          /\ x86'.cfg = x86.cfg /\ x86'.gate = x86.gate /\ x86'.written = x86.written
          /\ x86'.guest = x86.guest /\ x86'.flushed = x86.flushed /\ x86'.fault = x86.fault
      BY <1>t, <2>2 DEF X86Types, X86Goes
    <3>2. x86.at = "validate"
      BY <1>2 DEF x86_detect, X86At
    <3>3. X86Types'
      BY <1>t, <3>1 DEF X86Types
    <3>4. X86StageInv'
      BY <1>t, <3>1, <3>2 DEF X86StageInv, X86Running
    <3>5. X86ExitInv' /\ RipInv'
      BY <1>t, <3>1, <3>2, SetupKeeps DEF X86Running
    <3> QED BY <3>3, <3>4, <3>5 DEF X86Inv
  <2>3. (\E e : X86Fails(e)) \/ X86Goes([x86 EXCEPT !.at = "enable", !.phase = "Detected"])
    <3> HIDE DEF X86Fails, X86Goes
    <3> QED BY <1>2 DEF x86_detect
  <2> QED BY <2>1, <2>2, <2>3
<1>3. CASE enable_and_lock
  <2>0. x86.at = "enable"
    BY <1>3 DEF enable_and_lock, X86At
  <2>1. CASE X86Fails("Locked")
    BY <1>1, <2>0, <2>1, FailKeeps DEF X86Running
  <2>2. CASE ~ X86Fails("Locked")
    <3>1. /\ x86' = [x86 EXCEPT !.at = "on", !.phase = IF Vtx THEN "FeatureControlSet" ELSE @]
          /\ x86cpu' = [x86cpu EXCEPT !.lock = IF Vtx THEN "locked on" ELSE @]
          /\ guestx' = guestx
      BY <1>3, <2>2 DEF enable_and_lock
    <3>2. /\ DOMAIN x86' = DOMAIN x86 /\ x86'.at = "on"
          /\ x86'.cfg = x86.cfg /\ x86'.gate = x86.gate /\ x86'.written = x86.written
          /\ x86'.guest = x86.guest /\ x86'.flushed = x86.flushed /\ x86'.fault = x86.fault
      BY <1>t, <3>1 DEF X86Types
    <3>3. /\ x86cpu' \in Processors /\ x86cpu'.on = x86cpu.on /\ x86cpu'.current = x86cpu.current
          /\ x86cpu'.flavor = x86cpu.flavor /\ x86cpu'.fails = x86cpu.fails
      BY <1>t, <3>1 DEF X86Types, Processors
    <3>4. X86Types'
      BY <1>t, <3>1, <3>2, <3>3 DEF X86Types
    <3>5. X86StageInv'
      BY <1>t, <2>0, <3>1, <3>2, <3>3 DEF X86StageInv, X86Running
    <3>6. X86ExitInv' /\ RipInv'
      BY <1>t, <2>0, <3>1, <3>2, <3>3, SetupKeeps DEF X86Running
    <3> QED BY <3>4, <3>5, <3>6 DEF X86Inv
  <2> QED BY <2>1, <2>2
<1>4. CASE mode_on
  <2>0. x86.at = "on"
    BY <1>4 DEF mode_on, X86At
  <2>1. CASE X86Fails("VmxonFailed")
    BY <1>1, <2>0, <2>1, FailKeeps DEF X86Running
  <2>2. CASE ~ X86Fails("VmxonFailed")
    <3>1. /\ x86' = [x86 EXCEPT !.at = "load", !.gate = @ \cup {"mode_on"},
                                !.phase = IF Vtx THEN "VmxonComplete" ELSE "HsaveConfigured"]
          /\ x86cpu' = [x86cpu EXCEPT !.on = TRUE]
          /\ guestx' = guestx
      BY <1>4, <2>2 DEF mode_on
    <3>2. /\ DOMAIN x86' = DOMAIN x86 /\ x86'.at = "load"
          /\ x86'.cfg = x86.cfg /\ x86'.gate = x86.gate \cup {"mode_on"} /\ x86'.written = x86.written
          /\ x86'.guest = x86.guest /\ x86'.flushed = x86.flushed /\ x86'.fault = x86.fault
      BY <1>t, <3>1 DEF X86Types
    <3>3. /\ x86cpu' \in Processors /\ x86cpu'.on = TRUE /\ x86cpu'.current = x86cpu.current
          /\ x86cpu'.flavor = x86cpu.flavor /\ x86cpu'.fails = x86cpu.fails
      BY <1>t, <3>1 DEF X86Types, Processors
    <3>4. X86Types'
      BY <1>t, <3>1, <3>2, <3>3 DEF X86Types, X86Gate
    <3>5. X86StageInv'
      BY <1>t, <2>0, <3>1, <3>2, <3>3 DEF X86StageInv, X86Running
    <3>6. X86ExitInv' /\ RipInv'
      BY <1>t, <2>0, <3>1, <3>2, <3>3, SetupKeeps DEF X86Running
    <3> QED BY <3>4, <3>5, <3>6 DEF X86Inv
  <2> QED BY <2>1, <2>2
<1>5. CASE load_vmcs
  <2>0. x86.at = "load"
    BY <1>5 DEF load_vmcs, X86At
  <2>1. CASE \E e : X86Fails(e)
    BY <1>1, <2>0, <2>1, FailKeeps DEF X86Running
  <2>2. CASE ~ \E e : X86Fails(e)
    <3>1. /\ x86' = [x86 EXCEPT !.at = "host", !.phase = IF Vtx THEN "VmcsInitialized" ELSE @,
                                !.eptp = IF Vtx THEN Eptp(x86.cfg.tables) ELSE x86.cfg.tables]
          /\ x86cpu' = [x86cpu EXCEPT !.current = TRUE]
          /\ guestx' = guestx
      <4> HIDE DEF X86Fails
      <4> QED BY <1>5, <2>2 DEF load_vmcs
    <3>2. /\ DOMAIN x86' = DOMAIN x86 /\ x86'.at = "host"
          /\ x86'.cfg = x86.cfg /\ x86'.gate = x86.gate /\ x86'.written = x86.written
          /\ x86'.guest = x86.guest /\ x86'.flushed = x86.flushed /\ x86'.fault = x86.fault
      BY <1>t, <3>1 DEF X86Types
    <3>3. /\ x86cpu' \in Processors /\ x86cpu'.on = x86cpu.on /\ x86cpu'.current = TRUE
          /\ x86cpu'.flavor = x86cpu.flavor /\ x86cpu'.fails = x86cpu.fails
      BY <1>t, <3>1 DEF X86Types, Processors
    <3>4. X86Types'
      BY <1>t, <3>1, <3>2, <3>3 DEF X86Types
    <3>5. X86StageInv'
      BY <1>t, <2>0, <3>1, <3>2, <3>3 DEF X86StageInv, X86Running
    <3>6. X86ExitInv' /\ RipInv'
      BY <1>t, <2>0, <3>1, <3>2, <3>3, SetupKeeps DEF X86Running
    <3> QED BY <3>4, <3>5, <3>6 DEF X86Inv
  <2> QED BY <2>1, <2>2
<1>6. CASE write_host_state
  <2>0. x86.at = "host"
    BY <1>6 DEF write_host_state, X86At
  <2>1. CASE \E e : X86Fails(e)
    BY <1>1, <2>0, <2>1, FailKeeps DEF X86Running
  <2>2. CASE ~ \E e : X86Fails(e)
    <3>1. X86Goes([x86 EXCEPT !.at = "guest", !.written = @ \cup {"host"}])
      BY <1>6, <2>2 DEF write_host_state
    <3>2. /\ x86cpu' = x86cpu /\ guestx' = guestx /\ DOMAIN x86' = DOMAIN x86 /\ x86'.at = "guest"
          /\ x86'.cfg = x86.cfg /\ x86'.gate = x86.gate /\ x86'.written = x86.written \cup {"host"}
          /\ x86'.guest = x86.guest /\ x86'.flushed = x86.flushed /\ x86'.fault = x86.fault
      BY <1>t, <3>1 DEF X86Types, X86Goes
    <3>4. X86Types'
      BY <1>t, <3>2 DEF X86Types
    <3>5. X86StageInv'
      BY <1>t, <2>0, <3>2 DEF X86StageInv, X86Running
    <3>6. X86ExitInv' /\ RipInv'
      BY <1>t, <2>0, <3>2, SetupKeeps DEF X86Running
    <3> QED BY <3>4, <3>5, <3>6 DEF X86Inv
  <2> QED BY <2>1, <2>2
<1>7. CASE write_guest_state
  <2>0. x86.at = "guest"
    BY <1>7 DEF write_guest_state, X86At
  <2>1. CASE \E e : X86Fails(e)
    BY <1>1, <2>0, <2>1, FailKeeps DEF X86Running
  <2>2. CASE ~ \E e : X86Fails(e)
    <3>1. X86Goes([x86 EXCEPT !.at = "controls", !.written = @ \cup {"guest"},
                              !.guest = <<GuestState(x86.cfg)>>])
      BY <1>7, <2>2 DEF write_guest_state
    <3>2. /\ x86cpu' = x86cpu /\ guestx' = guestx /\ DOMAIN x86' = DOMAIN x86 /\ x86'.at = "controls"
          /\ x86'.cfg = x86.cfg /\ x86'.gate = x86.gate /\ x86'.written = x86.written \cup {"guest"}
          /\ x86'.guest = <<GuestState(x86.cfg)>> /\ x86'.flushed = x86.flushed /\ x86'.fault = x86.fault
      BY <1>t, <3>1 DEF X86Types, X86Goes
    <3>3. GuestState(x86.cfg)' = GuestState(x86.cfg)
      BY <3>2 DEF GuestState
    <3>4. X86Types'
      BY <1>t, <3>2 DEF X86Types
    <3>5. X86StageInv'
      BY <1>t, <2>0, <3>2, <3>3 DEF X86StageInv, X86Running
    <3>6. X86ExitInv' /\ RipInv'
      BY <1>t, <2>0, <3>2, SetupKeeps DEF X86Running
    <3> QED BY <3>4, <3>5, <3>6 DEF X86Inv
  <2> QED BY <2>1, <2>2
<1>8. CASE write_exec_controls
  <2>0. x86.at = "controls"
    BY <1>8 DEF write_exec_controls, X86At
  <2>1. CASE \E e : X86Fails(e)
    BY <1>1, <2>0, <2>1, FailKeeps DEF X86Running
  <2>2. CASE ~ \E e : X86Fails(e)
    <3>1. X86Goes([x86 EXCEPT !.at = "flush", !.written = @ \cup {"controls"},
                              !.phase = IF Vtx THEN @ ELSE "VmcbInitialized"])
      BY <1>8, <2>2 DEF write_exec_controls
    <3>2. /\ x86cpu' = x86cpu /\ guestx' = guestx /\ DOMAIN x86' = DOMAIN x86 /\ x86'.at = "flush"
          /\ x86'.cfg = x86.cfg /\ x86'.gate = x86.gate /\ x86'.written = x86.written \cup {"controls"}
          /\ x86'.guest = x86.guest /\ x86'.flushed = x86.flushed /\ x86'.fault = x86.fault
      BY <1>t, <3>1 DEF X86Types, X86Goes
    <3>4. X86Types'
      BY <1>t, <3>2 DEF X86Types
    <3>5. X86StageInv'
      BY <1>t, <2>0, <3>2 DEF X86StageInv, X86Running
    <3>6. X86ExitInv' /\ RipInv'
      BY <1>t, <2>0, <3>2, SetupKeeps DEF X86Running
    <3> QED BY <3>4, <3>5, <3>6 DEF X86Inv
  <2> QED BY <2>1, <2>2
<1>9. CASE second_stage_active
  <2>0. x86.at = "flush"
    BY <1>9 DEF second_stage_active, X86At
  <2>1. X86Goes([x86 EXCEPT !.at = "ready", !.flushed = TRUE, !.gate = @ \cup {"second_stage"},
                         !.phase = IF Vtx THEN "EptActive" ELSE "NptActive"])
    BY <1>9 DEF second_stage_active
  <2>2. /\ x86cpu' = x86cpu /\ guestx' = guestx /\ DOMAIN x86' = DOMAIN x86 /\ x86'.at = "ready"
        /\ x86'.cfg = x86.cfg /\ x86'.gate = x86.gate \cup {"second_stage"} /\ x86'.written = x86.written
        /\ x86'.guest = x86.guest /\ x86'.flushed = TRUE /\ x86'.fault = x86.fault
    BY <1>t, <2>1 DEF X86Types, X86Goes
  <2>4. X86Types'
    BY <1>t, <2>2 DEF X86Types, X86Gate
  <2>5. X86StageInv'
    BY <1>t, <2>0, <2>2 DEF X86StageInv, X86Running
  <2>6. X86ExitInv' /\ RipInv'
    BY <1>t, <2>0, <2>2, SetupKeeps DEF X86Running
  <2> QED BY <2>4, <2>5, <2>6 DEF X86Inv
<1>10. CASE \E insn \in Insns : guest_exits(insn)
  <2>1. PICK insn \in Insns : guest_exits(insn)
    BY <1>10
  <2>2. /\ x86.at = "ready" /\ insn \in Intercepted /\ x86cpu' = x86cpu
        /\ DOMAIN guestx' = DOMAIN guestx /\ guestx'.rip = guestx.rip /\ guestx'.insn = insn
        /\ guestx'.exits = Append(guestx.exits, insn)
        /\ DOMAIN x86' = DOMAIN x86 /\ x86'.at = "exit"
        /\ x86'.cfg = x86.cfg /\ x86'.gate = x86.gate /\ x86'.written = x86.written
        /\ x86'.guest = x86.guest /\ x86'.flushed = x86.flushed /\ x86'.fault = x86.fault
    BY <1>t, <2>1 DEF guest_exits, X86At, X86Types
  <2> DEFINE old == guestx.exits
             new == guestx'.exits
  <2>3. /\ old \in Seq(Insns) /\ new \in Seq(Insns) /\ Len(old) \in Nat /\ Len(new) = Len(old) + 1
        /\ DOMAIN old = 1 .. Len(old) /\ DOMAIN new = 1 .. Len(new)
        /\ new[Len(new)] = insn /\ \A i \in DOMAIN old : new[i] = old[i]
        /\ SubSeq(new, 1, Len(new) - 1) = old
    <3>1. old \in Seq(Insns) /\ new = Append(old, insn)
      BY <1>t, <2>2 DEF X86Types
    <3> HIDE DEF old, new
    <3>2. /\ new \in Seq(Insns) /\ Len(old) \in Nat /\ Len(new) = Len(old) + 1
          /\ DOMAIN old = 1 .. Len(old) /\ DOMAIN new = 1 .. Len(new)
          /\ new[Len(new)] = insn /\ \A i \in DOMAIN old : new[i] = old[i]
      BY <3>1
    <3>3. SubSeq(new, 1, Len(new) - 1) = old
      BY <3>1, <3>2
    <3> QED BY <3>1, <3>2, <3>3
  <2>4. X86Types'
    BY <1>t, <2>2, <2>3 DEF X86Types
  <2>5. X86StageInv'
    BY <1>t, <2>2 DEF X86StageInv, X86Running
  <2>6. CannotRead' = CannotRead /\ Intercepted' = Intercepted /\ Vtx' = Vtx
    BY <2>2 DEF CannotRead, Vtx, Instruction, Intercepted
  <2>7. X86ExitInv'
    <3> HIDE DEF CannotRead, Intercepted
    <3>1. new # << >>
      BY <2>3
    <3>2. "hlt_handled" \in x86'.gate => ~ CannotRead /\ \E i \in DOMAIN new : new[i] = "hlt"
      BY <1>t, <2>2, <2>3 DEF X86ExitInv
    <3>3. \A i \in DOMAIN new : new[i] = "fault" => x86'.fault \/ i = Len(new) \/ CannotRead
      <4>1. \A i \in DOMAIN new : i = Len(new) \/ i \in DOMAIN old
        BY <2>3
      <4> QED BY <1>t, <2>2, <2>3, <4>1 DEF X86ExitInv
    <3> QED BY <2>2, <2>3, <2>6, <3>1, <3>2, <3>3 DEF X86ExitInv
  <2>8. HandledExits' = old /\ HandledExits = old
    BY <2>2, <2>3 DEF HandledExits, X86At
  <2>9. RipInv'
    <3>1. AdvancedBy(HandledExits)' = AdvancedOn(Vtx', HandledExits')
      BY DEF AdvancedBy, AdvancedOn, Handled, HandledOn
    <3>2. AdvancedBy(HandledExits)' = AdvancedBy(HandledExits)
      BY <2>6, <2>8, <3>1, AdvanceOfTier
    <3> QED BY <1>t, <2>2, <3>2 DEF RipInv
  <2> QED BY <2>4, <2>5, <2>7, <2>9 DEF X86Inv
<1>11. CASE handle_vm_exit
  <2> DEFINE insn == guestx.insn
             e == guestx.exits
             front == SubSeq(e, 1, Len(e) - 1)
  <2>1. x86.at = "exit" /\ e # << >> /\ insn \in Intercepted /\ e[Len(e)] = insn /\ e \in Seq(Insns)
    BY <1>11, <1>t DEF handle_vm_exit, X86At, X86ExitInv, X86Types
  <2>2. /\ Len(e) \in Nat /\ Len(e) > 0 /\ DOMAIN e = 1 .. Len(e) /\ insn \in Insns
        /\ front \in Seq(Insns) /\ e = Append(front, insn)
    <3> HIDE DEF e, insn
    <3>1. Len(e) \in Nat /\ Len(e) > 0 /\ DOMAIN e = 1 .. Len(e) /\ insn \in Insns
      BY <2>1
    <3>2. front \in Seq(Insns) /\ Len(front) = Len(e) - 1 /\ \A i \in 1 .. Len(e) - 1 : front[i] = e[i]
      BY <2>1, <3>1
    <3> HIDE DEF front
    <3>3. e = Append(front, insn)
      <4>1. /\ Append(front, insn) \in Seq(Insns) /\ Len(Append(front, insn)) = Len(e)
            /\ \A i \in 1 .. Len(e) : Append(front, insn)[i] = e[i]
        <5>1. front \in Seq(Insns) /\ insn \in Insns /\ Len(front) \in Nat
          BY <3>1, <3>2
        <5>2. /\ Append(front, insn) \in Seq(Insns) /\ Len(Append(front, insn)) = Len(front) + 1
              /\ \A i \in 1 .. Len(front) : Append(front, insn)[i] = front[i]
              /\ Append(front, insn)[Len(front) + 1] = insn
          BY <5>1
        <5>3. Len(front) + 1 = Len(e)
          BY <3>1, <3>2
        <5>4. \A i \in 1 .. Len(e) : i \in 1 .. Len(front) \/ i = Len(front) + 1
          BY <3>1, <5>1, <5>3
        <5> QED BY <2>1, <3>1, <3>2, <5>2, <5>3, <5>4
      <4> QED BY <2>1, <4>1
    <3> QED BY <3>1, <3>2, <3>3
  <2>3. RipInv => guestx.rip = x86.cfg.entry + AdvancedOn(Vtx, front)
    BY <2>1, AdvanceOfTier DEF RipInv, HandledExits, X86At
  <2>4. /\ AdvancedOn(Vtx, front) \in Nat
        /\ AdvancedOn(Vtx, e) = AdvancedOn(Vtx, front) + (IF HandledOn(Vtx, insn) THEN InsnLen[insn] ELSE 0)
    <3>1. Vtx \in BOOLEAN
      BY DEF Vtx
    <3> HIDE DEF e, front, insn
    <3> QED BY <2>2, <3>1, OneMoreAdvance
  <2>5. CASE /\ ~ CannotRead /\ HandledOn(Vtx, insn)
             /\ guestx' = Skipped(insn) /\ x86cpu' = x86cpu
             /\ x86' = [x86 EXCEPT !.at = "ready",
                          !.gate = IF insn = "hlt" THEN @ \cup {"hlt_handled", "entry_succeeded"} ELSE @]
    <3>1. /\ DOMAIN x86' = DOMAIN x86 /\ x86'.at = "ready"
          /\ x86'.gate = (IF insn = "hlt" THEN x86.gate \cup {"hlt_handled", "entry_succeeded"} ELSE x86.gate)
          /\ x86'.cfg = x86.cfg /\ x86'.written = x86.written
          /\ x86'.guest = x86.guest /\ x86'.flushed = x86.flushed /\ x86'.fault = x86.fault
      BY <1>t, <2>5 DEF X86Types
    <3>2. /\ DOMAIN guestx' = DOMAIN guestx /\ guestx'.rip = guestx.rip + InsnLen[insn]
          /\ guestx'.exits = guestx.exits
      BY <1>t, <2>5 DEF X86Types, Skipped
    <3>3. InsnLen[insn] \in Nat
      BY <2>2 DEF InsnLen, Insns
    <3>4. X86Types'
      BY <1>t, <2>5, <3>1, <3>2, <3>3 DEF X86Types, X86Gate
    <3>5. X86StageInv'
      BY <1>t, <2>1, <2>5, <3>1, <3>2 DEF X86StageInv, X86Running
    <3>6. CannotRead' = CannotRead /\ Vtx' = Vtx
      BY <2>5 DEF CannotRead, Vtx, Instruction
    <3>7. insn # "fault"
      BY <2>5 DEF HandledOn
    <3>8. X86ExitInv'
      <4>1. "hlt_handled" \in x86'.gate => \E i \in DOMAIN e : e[i] = "hlt"
        BY <1>t, <2>1, <2>2, <3>1 DEF X86ExitInv
      <4>2. \A i \in DOMAIN e : e[i] = "fault" => x86.fault
        BY <1>t, <2>1, <2>5, <3>7 DEF X86ExitInv
      <4> HIDE DEF CannotRead
      <4> QED BY <2>5, <3>1, <3>2, <3>6, <4>1, <4>2 DEF X86ExitInv
    <3>9. RipInv'
      <4>1. AdvancedBy(HandledExits)' = AdvancedOn(Vtx', HandledExits')
        BY DEF AdvancedBy, AdvancedOn, Handled, HandledOn
      <4>2. HandledExits' = e
        BY <3>1, <3>2 DEF HandledExits, X86At
      <4>3. AdvancedBy(HandledExits)' = AdvancedOn(Vtx, front) + InsnLen[insn]
        BY <2>4, <2>5, <3>6, <4>1, <4>2
      <4>4. x86.cfg.entry \in Nat
        BY <1>t, X86Assumption DEF X86Types
      <4> HIDE DEF front
      <4> QED BY <1>t, <2>3, <2>4, <3>1, <3>2, <3>3, <4>3, <4>4 DEF RipInv
    <3> QED BY <3>4, <3>5, <3>8, <3>9 DEF X86Inv
  <2>6. CASE \E f \in BOOLEAN :
               /\ x86' = [x86 EXCEPT !.at = "terminated", !.fault = f]
               /\ guestx' = guestx /\ x86cpu' = x86cpu
               /\ x86.fault => f
               /\ insn = "fault" => f \/ CannotRead
    <3>0. PICK f \in BOOLEAN :
               /\ x86' = [x86 EXCEPT !.at = "terminated", !.fault = f]
               /\ guestx' = guestx /\ x86cpu' = x86cpu
               /\ x86.fault => f
               /\ insn = "fault" => f \/ CannotRead
      BY <2>6
    <3>1. /\ DOMAIN x86' = DOMAIN x86 /\ x86'.at = "terminated" /\ x86'.gate = x86.gate
          /\ x86'.cfg = x86.cfg /\ x86'.written = x86.written
          /\ x86'.guest = x86.guest /\ x86'.flushed = x86.flushed /\ x86'.fault = f
      BY <1>t, <3>0 DEF X86Types
    <3>4. X86Types'
      BY <1>t, <3>0, <3>1 DEF X86Types
    <3>5. X86StageInv'
      BY <1>t, <2>1, <3>0, <3>1 DEF X86StageInv, X86Running
    <3>6. CannotRead' = CannotRead /\ Vtx' = Vtx
      BY <3>0 DEF CannotRead, Vtx, Instruction
    <3>8. X86ExitInv'
      <4>1. \A i \in DOMAIN e : e[i] = "fault" => f \/ CannotRead
        BY <1>t, <2>1, <3>0 DEF X86ExitInv
      <4> HIDE DEF CannotRead
      <4> QED BY <1>t, <2>1, <3>0, <3>1, <3>6, <4>1 DEF X86ExitInv
    <3>9. RipInv'
      <4>1. AdvancedBy(HandledExits)' = AdvancedOn(Vtx', HandledExits')
        BY DEF AdvancedBy, AdvancedOn, Handled, HandledOn
      <4>2. HandledExits' = front
        BY <3>0, <3>1 DEF HandledExits, X86At
      <4> HIDE DEF front
      <4> QED BY <1>t, <2>3, <3>0, <3>1, <3>6, <4>1, <4>2 DEF RipInv
    <3> QED BY <3>4, <3>5, <3>8, <3>9 DEF X86Inv
  <2>7. CASE /\ x86' = [x86 EXCEPT !.at = "ready"] /\ guestx' = guestx /\ x86cpu' = x86cpu
             /\ ~ HandledOn(Vtx, insn) /\ insn # "fault"
    <3>1. /\ DOMAIN x86' = DOMAIN x86 /\ x86'.at = "ready" /\ x86'.gate = x86.gate
          /\ x86'.cfg = x86.cfg /\ x86'.written = x86.written
          /\ x86'.guest = x86.guest /\ x86'.flushed = x86.flushed /\ x86'.fault = x86.fault
      BY <1>t, <2>7 DEF X86Types
    <3>4. X86Types'
      BY <1>t, <2>7, <3>1 DEF X86Types
    <3>5. X86StageInv'
      BY <1>t, <2>1, <2>7, <3>1 DEF X86StageInv, X86Running
    <3>6. CannotRead' = CannotRead /\ Vtx' = Vtx
      BY <2>7 DEF CannotRead, Vtx, Instruction
    <3>8. X86ExitInv'
      <4>1. \A i \in DOMAIN e : e[i] = "fault" => x86.fault \/ CannotRead
        BY <1>t, <2>1, <2>7 DEF X86ExitInv
      <4> HIDE DEF CannotRead
      <4> QED BY <1>t, <2>1, <2>7, <3>1, <3>6, <4>1 DEF X86ExitInv
    <3>9. RipInv'
      <4>1. AdvancedBy(HandledExits)' = AdvancedOn(Vtx', HandledExits')
        BY DEF AdvancedBy, AdvancedOn, Handled, HandledOn
      <4>2. HandledExits' = e
        BY <2>7, <3>1 DEF HandledExits, X86At
      <4>3. AdvancedBy(HandledExits)' = AdvancedOn(Vtx, front)
        BY <2>4, <2>7, <3>6, <4>1, <4>2
      <4> HIDE DEF front
      <4> QED BY <1>t, <2>3, <2>7, <3>1, <4>3 DEF RipInv
    <3> QED BY <3>4, <3>5, <3>8, <3>9 DEF X86Inv
  <2>8. \/ /\ ~ CannotRead /\ HandledOn(Vtx, insn)
           /\ guestx' = Skipped(insn) /\ x86cpu' = x86cpu
           /\ x86' = [x86 EXCEPT !.at = "ready",
                        !.gate = IF insn = "hlt" THEN @ \cup {"hlt_handled", "entry_succeeded"} ELSE @]
        \/ X86Goes([x86 EXCEPT !.at = "terminated"]) /\ (CannotRead \/ insn = "invalid")
        \/ X86Goes([x86 EXCEPT !.at = "terminated", !.fault = TRUE])
        \/ X86Goes([x86 EXCEPT !.at = "ready"]) /\ ~ HandledOn(Vtx, insn) /\ insn # "fault"
    <3>1. Handled(insn) <=> HandledOn(Vtx, insn)
      BY DEF Handled, HandledOn
    <3>2. CannotRead <=> Vtx /\ ~ Instruction("vmread")
      BY DEF CannotRead
    <3> HIDE DEF X86Goes, Skipped, Instruction, Vtx, HandledOn, Handled, CannotRead
    <3> QED BY <1>11, <3>1, <3>2 DEF handle_vm_exit
  <2>9. ASSUME X86Goes([x86 EXCEPT !.at = "terminated"])
        PROVE  x86' = [x86 EXCEPT !.at = "terminated", !.fault = x86.fault]
    BY <1>t, <2>9 DEF X86Goes, X86Types
  <2>10. x86.fault \in BOOLEAN
    BY <1>t DEF X86Types
  <2> QED BY <2>5, <2>6, <2>7, <2>8, <2>9, <2>10 DEF X86Goes
<1>12. CASE UNCHANGED x86vars
  <2>1. x86cpu' = x86cpu /\ x86' = x86 /\ guestx' = guestx
    BY <1>12 DEF x86vars
  <2>2. X86Types' /\ X86StageInv'
    BY <1>t, <2>1 DEF X86Types, X86StageInv
  <2>3. X86ExitInv'
    BY <1>t, <2>1 DEF X86ExitInv, CannotRead, Vtx, Instruction, Intercepted
  <2>4. RipInv'
    <3>1. AdvancedBy(HandledExits)' = AdvancedOn(Vtx', HandledExits')
      BY DEF AdvancedBy, AdvancedOn, Handled, HandledOn
    <3>2. HandledExits' = HandledExits /\ Vtx' = Vtx
      BY <2>1 DEF HandledExits, X86At, Vtx
    <3> QED BY <1>t, <2>1, <3>1, <3>2, AdvanceOfTier DEF RipInv
  <2> QED BY <2>2, <2>3, <2>4 DEF X86Inv
<1> QED BY <1>1, <1>2, <1>3, <1>4, <1>5, <1>6, <1>7, <1>8, <1>9, <1>10, <1>11, <1>12 DEF X86Next, Insns

(* The gate passes only on what the guest has done, and the guest is where *)
(* its exits have brought it, on any processor and with any configuration. *)
THEOREM GatesEarned == X86Spec => []X86GateEarned
<1>1. X86Inv => X86GateEarned
  <2>1. SUFFICES ASSUME X86Inv
        PROVE /\ gate_passes =>
                   /\ x86cpu.on /\ x86cpu.current /\ x86.flushed
                   /\ x86.written = {"host", "guest", "controls"}
                   /\ "hlt" \in {guestx.exits[i] : i \in DOMAIN guestx.exits}
                   /\ x86.at # "exit" => "fault" \notin {guestx.exits[i] : i \in DOMAIN guestx.exits}
              /\ guestx.exits # << >> => x86.flushed /\ x86.guest = <<GuestState(x86.cfg)>>
              /\ guestx.rip = x86.cfg.entry + AdvancedBy(HandledExits)
    BY DEF X86GateEarned, HandledExits
  <2>2. X86Types /\ X86StageInv /\ X86ExitInv /\ RipInv
    BY <2>1 DEF X86Inv
  <2>3. guestx.exits # << >> => x86.flushed /\ x86.guest = <<GuestState(x86.cfg)>>
    BY <2>2 DEF X86StageInv
  <2>4. ASSUME gate_passes
        PROVE  /\ x86cpu.on /\ x86cpu.current /\ x86.flushed
               /\ x86.written = {"host", "guest", "controls"}
               /\ "hlt" \in {guestx.exits[i] : i \in DOMAIN guestx.exits}
               /\ x86.at # "exit" => "fault" \notin {guestx.exits[i] : i \in DOMAIN guestx.exits}
    <3>1. "second_stage" \in x86.gate /\ "hlt_handled" \in x86.gate /\ ~ x86.fault
      BY <2>4 DEF gate_passes, X86Gate
    <3>2. x86.at \in X86Running
      BY <2>2, <3>1 DEF X86StageInv
    <3>3. x86cpu.on /\ x86cpu.current /\ x86.flushed /\ x86.written = {"host", "guest", "controls"}
      BY <2>2, <3>2 DEF X86StageInv, X86Types
    <3>4. ~ CannotRead /\ \E i \in DOMAIN guestx.exits : guestx.exits[i] = "hlt"
      BY <2>2, <3>1 DEF X86ExitInv
    <3>5. x86.at # "exit" => \A i \in DOMAIN guestx.exits : guestx.exits[i] # "fault"
      BY <2>2, <3>1, <3>4 DEF X86ExitInv
    <3> QED BY <3>3, <3>4, <3>5
  <2> QED BY <2>2, <2>3, <2>4 DEF RipInv
<1> QED BY <1>1, X86Starts, X86Step, PTL DEF X86Spec

-------------------------------------------------------------------------------

(***************************************************************************)
(* The event ring of the USB controller.                                   *)
(***************************************************************************)

Slot(deq, i) == (deq + i) % RingDepth
CycleAt(deq, cycle, i) == IF deq + i < RingDepth THEN cycle ELSE 1 - cycle
ReportIn(slot) == IF slot.event.kind = "report" THEN <<slot.event.report>> ELSE << >>
Holds(deq, cycle, ring, i) == i # RingDepth /\ ring[Slot(deq, i)].cycle = CycleAt(deq, cycle, i)

Events == {Free} \cup [kind : {"report"}, report : HidReports] \cup [kind : {"error", "other"}]
TrbValues == [cycle : {0, 1}, event : Events]
Rings == [Slots -> TrbValues]
HoldsAsFarAs(deq, cycle, ring, n) ==
  \A i \in 0 .. RingDepth - 1 : Holds(deq, cycle, ring, i) <=> i < n

Filled(ring2, ring, s, new) == ring2 = [ring EXCEPT ![s] = new]

LEMMA DepthIsNat == RingDepth \in Nat /\ RingDepth > 1 /\ RingDepth # 0
  BY EventRingAssumption

LEMMA SlotIs ==
  ASSUME NEW deq \in Slots, NEW i \in 0 .. RingDepth
  PROVE  Slot(deq, i) = (IF deq + i < RingDepth THEN deq + i ELSE deq + i - RingDepth)
         /\ Slot(deq, i) \in Slots
<1>1. deq \in Nat /\ deq < RingDepth /\ i \in Nat /\ i <= RingDepth
  BY DepthIsNat DEF Slots
<1>2. CASE deq + i < RingDepth
  <2>1. (deq + i) % RingDepth = deq + i
    BY <1>1, <1>2, DepthIsNat
  <2> QED BY <1>1, <1>2, <2>1, DepthIsNat DEF Slot, Slots
<1>3. CASE ~ deq + i < RingDepth
  <2>1. (deq + i) % RingDepth = deq + i - RingDepth
    BY <1>1, <1>3, DepthIsNat
  <2> QED BY <1>1, <1>3, <2>1, DepthIsNat DEF Slot, Slots
<1> QED BY <1>2, <1>3

LEMMA ReportTyped ==
  ASSUME NEW ring \in Rings, NEW s \in Slots
  PROVE  ReportIn(ring[s]) \in Seq(HidReports)
<1>1. ring[s].event \in Events
  BY DEF Rings, TrbValues
<1>2. ring[s].event.kind = "report" => ring[s].event.report \in HidReports
  BY <1>1 DEF Free, Events
<1> QED BY <1>2 DEF ReportIn

(* What is pending, as a function of the place that is looked at.          *)
Ahead(f, deq, cycle, ring) ==
  /\ f \in [0 .. RingDepth -> Seq(HidReports)]
  /\ f[0] = Pending(deq, cycle, ring)
  /\ f[RingDepth] = << >>
  /\ \A i \in 0 .. RingDepth : ~ Holds(deq, cycle, ring, i) => f[i] = << >>
  /\ \A i \in 0 .. RingDepth : Holds(deq, cycle, ring, i) => f[i] = ReportIn(ring[Slot(deq, i)]) \o f[i + 1]

LEMMA PendingIsAhead ==
  ASSUME NEW deq \in Slots, NEW cycle \in {0, 1}, NEW ring \in Rings
  PROVE  \E f : Ahead(f, deq, cycle, ring)
<1> DEFINE R == Seq(HidReports)
           N == RingDepth
           H(i) == Holds(deq, cycle, ring, i)
           P(i) == ReportIn(ring[Slot(deq, i)])
           Body(g) == [i \in 0 .. N |-> IF ~ H(i) THEN << >> ELSE P(i) \o g[i + 1]]
           F == [x \in (0 .. N) \X R |-> IF ~ H(x[1]) THEN << >> ELSE P(x[1]) \o x[2]]
<1>1. \A i \in 0 .. N : P(i) \in R
  BY SlotIs, ReportTyped
<1>2. << >> \in R /\ \A s, t \in R : s \o t \in R
  BY ConcatProperties
<1>3. F \in [(0 .. N) \X R -> R]
  <2> HIDE DEF R, H, P
  <2> QED BY <1>1, <1>2
<1>4. PICK f \in [0 .. N -> R] : f[N] = << >> /\ \A i \in 0 .. N : i # N => f[i] = F[<<i, f[i + 1]>>]
  <2> DEFINE e == << >>
  <2>1. N \in Nat /\ e \in R
    BY <1>2, DepthIsNat
  <2> HIDE DEF R, F, N, e
  <2>2. \E f : FromItsEnd(f, N, R, e, F)
    BY <1>3, <2>1, DownRecursion
  <2> QED BY <2>2 DEF e, FromItsEnd
<1>5. \A i \in 0 .. N : f[i] = IF ~ H(i) THEN << >> ELSE P(i) \o f[i + 1]
  <2>1. ASSUME NEW i \in 0 .. N, i # N PROVE f[i] = IF ~ H(i) THEN << >> ELSE P(i) \o f[i + 1]
    <3>1. i + 1 \in 0 .. N
      BY <2>1, DepthIsNat
    <3>2. f[i + 1] \in R
      BY <3>1
    <3> HIDE DEF R, H, P
    <3> QED BY <1>4, <2>1, <3>2
  <2>2. ~ H(N)
    BY DEF Holds
  <2> HIDE DEF H, P
  <2> QED BY <1>4, <2>1, <2>2
<1>6. f = Body(f)
  <2> HIDE DEF H, P
  <2> QED BY <1>5
<1> DEFINE a == CHOOSE g : g = Body(g)
<1>7. a = Body(a)
  <2> HIDE DEF Body
  <2> QED BY <1>6
<1>8. Pending(deq, cycle, ring) = a[0]
  BY DEF Pending, Holds, Slot, CycleAt, ReportIn
<1> HIDE DEF a
<1>9. \A i \in 0 .. N : a[i] = IF ~ H(i) THEN << >> ELSE P(i) \o a[i + 1]
  <2> HIDE DEF H, P
  <2> QED BY <1>7
<1>10. \A i \in 0 .. N : a[i] \in R
  <2> DEFINE T == {k \in 0 .. N : a[N - k] \notin R}
  <2>1. T = {}
    <3>1. SUFFICES ASSUME T # {} PROVE FALSE
      OBVIOUS
    <3>2. PICK k \in T : \A y \in T : k <= y
      <4>1. T \subseteq Nat
        BY DepthIsNat
      <4> HIDE DEF T
      <4> QED BY <3>1, <4>1, LeastOf
    <3>3. k \in 0 .. N /\ a[N - k] \notin R /\ N - k \in 0 .. N
      BY <3>2, DepthIsNat
    <3>4. H(N - k)
      <4> HIDE DEF H, P
      <4> QED BY <1>2, <1>9, <3>3
    <3>5. k # 0
      BY <3>3, <3>4, DepthIsNat DEF Holds
    <3>6. k - 1 \in 0 .. N /\ N - (k - 1) = N - k + 1
      BY <3>3, <3>5, DepthIsNat
    <3>7. a[N - k + 1] \in R
      <4>1. k - 1 \notin T
        <5> HIDE DEF T
        <5> QED BY <3>2, <3>3, <3>6
      <4> QED BY <3>6, <4>1
    <3> HIDE DEF H, P, R
    <3> QED BY <1>1, <1>2, <1>9, <3>3, <3>4, <3>7
  <2>2. ASSUME NEW i \in 0 .. N PROVE a[i] \in R
    <3>1. N - i \in 0 .. N /\ N - (N - i) = i
      BY DepthIsNat
    <3> QED BY <2>1, <3>1
  <2> QED BY <2>2
<1>11. a \in [0 .. N -> R]
  <2> HIDE DEF H, P, R
  <2> QED BY <1>7, <1>10
<1>12. a[N] = << >>
  BY <1>9, DepthIsNat DEF Holds
<1>13. Ahead(a, deq, cycle, ring)
  BY <1>8, <1>9, <1>11, <1>12 DEF Ahead
<1> QED BY <1>13

(* The consumer one slot on looks at the same slots, but for the last one, *)
(* which is the one it has just taken.                                     *)
LEMMA OneOn ==
  ASSUME NEW deq \in Slots, NEW cycle \in {0, 1}, NEW ring \in Rings
  PROVE  LET deq2 == Slot(deq, 1) cycle2 == CycleAt(deq, cycle, 1)
         IN /\ deq2 \in Slots /\ cycle2 \in {0, 1}
            /\ \A i \in 0 .. RingDepth - 2 :
                 /\ Slot(deq2, i) = Slot(deq, i + 1)
                 /\ CycleAt(deq2, cycle2, i) = CycleAt(deq, cycle, i + 1)
                 /\ Holds(deq2, cycle2, ring, i) <=> Holds(deq, cycle, ring, i + 1)
            /\ Slot(deq2, RingDepth - 1) = deq
            /\ CycleAt(deq2, cycle2, RingDepth - 1) = 1 - cycle
<1> DEFINE N == RingDepth
           deq2 == Slot(deq, 1)
           cycle2 == CycleAt(deq, cycle, 1)
<1>1. deq \in Nat /\ deq < N /\ N \in Nat /\ N > 1 /\ 1 \in 0 .. N
  BY DepthIsNat DEF Slots
<1>2. deq2 = (IF deq + 1 < N THEN deq + 1 ELSE 0) /\ deq2 \in Slots
  BY <1>1, SlotIs
<1>3. cycle2 = (IF deq + 1 < N THEN cycle ELSE 1 - cycle) /\ cycle2 \in {0, 1}
  BY DEF CycleAt
<1> HIDE DEF deq2, cycle2
<1>4. ASSUME NEW i \in 0 .. N - 2
      PROVE  /\ Slot(deq2, i) = Slot(deq, i + 1)
             /\ CycleAt(deq2, cycle2, i) = CycleAt(deq, cycle, i + 1)
             /\ Holds(deq2, cycle2, ring, i) <=> Holds(deq, cycle, ring, i + 1)
  <2>1. i \in 0 .. N /\ i + 1 \in 0 .. N /\ i # N /\ i + 1 # N
    BY <1>1
  <2>2. Slot(deq2, i) = Slot(deq, i + 1)
    <3>1. Slot(deq2, i) = (IF deq2 + i < N THEN deq2 + i ELSE deq2 + i - N)
      BY <1>2, <2>1, SlotIs
    <3>2. Slot(deq, i + 1) = (IF deq + (i + 1) < N THEN deq + (i + 1) ELSE deq + (i + 1) - N)
      BY <2>1, SlotIs
    <3> QED BY <1>1, <1>2, <2>1, <3>1, <3>2
  <2>3. CycleAt(deq2, cycle2, i) = CycleAt(deq, cycle, i + 1)
    BY <1>1, <1>2, <1>3, <2>1 DEF CycleAt
  <2> QED BY <2>1, <2>2, <2>3 DEF Holds
<1>5. Slot(deq2, N - 1) = deq
  <2>1. N - 1 \in 0 .. N
    BY <1>1
  <2>2. Slot(deq2, N - 1) = (IF deq2 + (N - 1) < N THEN deq2 + (N - 1) ELSE deq2 + (N - 1) - N)
    BY <1>2, <2>1, SlotIs
  <2> QED BY <1>1, <1>2, <2>2
<1>6. CycleAt(deq2, cycle2, N - 1) = 1 - cycle
  BY <1>1, <1>2, <1>3 DEF CycleAt
<1> QED BY <1>2, <1>3, <1>4, <1>5, <1>6 DEF deq2, cycle2

LEMMA PollTakesFirst ==
  ASSUME NEW deq \in Slots, NEW cycle \in {0, 1}, NEW ring \in Rings, ring[deq].cycle = cycle
  PROVE  Pending(deq, cycle, ring)
           = ReportIn(ring[deq]) \o Pending(Slot(deq, 1), CycleAt(deq, cycle, 1), ring)
<1> DEFINE N == RingDepth
           deq2 == Slot(deq, 1)
           cycle2 == CycleAt(deq, cycle, 1)
<1>1. N \in Nat /\ N > 1 /\ 0 \in 0 .. N /\ 0 # N
  BY DepthIsNat
<1>2. /\ deq2 \in Slots /\ cycle2 \in {0, 1}
      /\ \A i \in 0 .. N - 2 :
           /\ Slot(deq2, i) = Slot(deq, i + 1)
           /\ Holds(deq2, cycle2, ring, i) <=> Holds(deq, cycle, ring, i + 1)
      /\ Slot(deq2, N - 1) = deq
      /\ CycleAt(deq2, cycle2, N - 1) = 1 - cycle
  BY OneOn
<1> HIDE DEF deq2, cycle2
<1>3. PICK f : Ahead(f, deq, cycle, ring)
  BY PendingIsAhead
<1>4. PICK g : Ahead(g, deq2, cycle2, ring)
  BY <1>2, PendingIsAhead
<1>5. ~ Holds(deq2, cycle2, ring, N - 1)
  BY <1>2 DEF Holds
<1>6. Slot(deq, 0) = deq
  BY <1>1, SlotIs DEF Slots
<1>7. Holds(deq, cycle, ring, 0)
  <2>1. deq \in Nat /\ deq < N
    BY DepthIsNat DEF Slots
  <2> QED BY <1>1, <1>6, <2>1 DEF Holds, CycleAt
<1> DEFINE T == {k \in 0 .. N - 1 : g[N - 1 - k] # f[N - k]}
<1>8. T = {}
  <2>1. SUFFICES ASSUME T # {} PROVE FALSE
    OBVIOUS
  <2>2. PICK k \in T : \A y \in T : k <= y
    <3>1. T \subseteq Nat
      BY <1>1
    <3> HIDE DEF T
    <3> QED BY <2>1, <3>1, LeastOf
  <2> DEFINE i == N - 1 - k
  <2>3. k \in 0 .. N - 1 /\ g[i] # f[i + 1] /\ i \in 0 .. N - 1 /\ i + 1 = N - k
    BY <1>1, <2>2
  <2>4. CASE k = 0
    <3>1. g[N - 1] = << >> /\ f[N] = << >>
      BY <1>1, <1>3, <1>4, <1>5 DEF Ahead
    <3>2. i = N - 1 /\ i + 1 = N
      BY <1>1, <2>4
    <3> QED BY <2>3, <3>1, <3>2
  <2>5. CASE k # 0
    <3>1. k - 1 \in 0 .. N - 1 /\ N - 1 - (k - 1) = i + 1 /\ N - (k - 1) = i + 2
      BY <1>1, <2>3, <2>5
    <3>2. g[i + 1] = f[i + 2]
      <4>1. k - 1 \notin T
        <5>1. ~ k <= k - 1
          BY <2>3
        <5> HIDE DEF T
        <5> QED BY <2>2, <5>1
      <4> HIDE DEF i
      <4> QED BY <3>1, <4>1
    <3>3. i \in 0 .. N - 2 /\ i \in 0 .. N /\ i + 1 \in 0 .. N /\ (i + 1) + 1 = i + 2
      BY <1>1, <2>3, <2>5
    <3>4. Slot(deq2, i) = Slot(deq, i + 1) /\ (Holds(deq2, cycle2, ring, i) <=> Holds(deq, cycle, ring, i + 1))
      BY <1>2, <3>3
    <3> HIDE DEF i
    <3>5. CASE Holds(deq, cycle, ring, i + 1)
      <4>1. g[i] = ReportIn(ring[Slot(deq2, i)]) \o g[i + 1]
        BY <1>4, <3>3, <3>4, <3>5 DEF Ahead
      <4>2. f[i + 1] = ReportIn(ring[Slot(deq, i + 1)]) \o f[(i + 1) + 1]
        BY <1>3, <3>3, <3>5 DEF Ahead
      <4> QED BY <2>3, <3>2, <3>3, <3>4, <4>1, <4>2
    <3>6. CASE ~ Holds(deq, cycle, ring, i + 1)
      BY <1>3, <1>4, <2>3, <3>3, <3>4, <3>6 DEF Ahead
    <3> QED BY <3>5, <3>6
  <2> QED BY <2>4, <2>5
<1>9. g[0] = f[1]
  <2>1. N - 1 \in 0 .. N - 1 /\ N - 1 - (N - 1) = 0 /\ N - (N - 1) = 1
    BY <1>1
  <2> QED BY <1>8, <2>1
<1>10. f[0] = ReportIn(ring[deq]) \o f[0 + 1]
  BY <1>1, <1>3, <1>6, <1>7 DEF Ahead
<1>11. f[0] = Pending(deq, cycle, ring) /\ g[0] = Pending(deq2, cycle2, ring)
  BY <1>3, <1>4 DEF Ahead
<1>12. f[0] = ReportIn(ring[deq]) \o g[0]
  BY <1>9, <1>10
<1> QED BY <1>11, <1>12 DEF deq2, cycle2

LEMMA JoinAssociative == \A s, t, u \in Seq(HidReports) : (s \o t) \o u = s \o (t \o u)
  OBVIOUS

(* `new` is put behind the `A` pending slots of a ring that has room.      *)
Pushed(ring2, deq, cycle, ring, A, new) ==
  /\ deq \in Slots /\ cycle \in {0, 1} /\ ring \in Rings /\ A \in 0 .. RingDepth - 2
  /\ HoldsAsFarAs(deq, cycle, ring, A)
  /\ new \in TrbValues /\ new.cycle = CycleAt(deq, cycle, A)
  /\ Filled(ring2, ring, Slot(deq, A), new)

(* A slot filled behind the pending ones is pending after them.            *)
LEMMA PushAddsLast ==
  ASSUME NEW deq, NEW cycle, NEW ring, NEW A, NEW new, NEW ring2, Pushed(ring2, deq, cycle, ring, A, new)
  PROVE  /\ ring2 \in Rings
         /\ HoldsAsFarAs(deq, cycle, ring2, A + 1)
         /\ Pending(deq, cycle, ring2) = Pending(deq, cycle, ring) \o ReportIn(new)
<1> DEFINE N == RingDepth
<1>0. /\ deq \in Slots /\ cycle \in {0, 1} /\ ring \in Rings /\ A \in 0 .. RingDepth - 2
      /\ HoldsAsFarAs(deq, cycle, ring, A)
      /\ new \in TrbValues /\ new.cycle = CycleAt(deq, cycle, A)
      /\ Filled(ring2, ring, Slot(deq, A), new)
  BY DEF Pushed
<1> USE <1>0
<1>1. N \in Nat /\ N > 1 /\ deq \in Nat /\ deq < N /\ A \in Nat /\ A <= N - 2
  BY DepthIsNat DEF Slots
<1>2. A \in 0 .. N /\ A # N /\ Slot(deq, A) \in Slots
  BY <1>1, SlotIs
<1>3. ring2 \in Rings
  BY <1>2 DEF Filled, Rings
<1>4. \A s \in Slots : ring2[s] = IF s = Slot(deq, A) THEN new ELSE ring[s]
  BY <1>2 DEF Filled, Rings
<1>5. ASSUME NEW i \in 0 .. N - 1, i # A
      PROVE  Slot(deq, i) \in Slots /\ ring2[Slot(deq, i)] = ring[Slot(deq, i)]
  <2>1. i \in 0 .. N
    BY <1>1
  <2>2. /\ Slot(deq, i) = (IF deq + i < N THEN deq + i ELSE deq + i - N)
        /\ Slot(deq, A) = (IF deq + A < N THEN deq + A ELSE deq + A - N)
        /\ Slot(deq, i) \in Slots
    BY <1>2, <2>1, SlotIs
  <2>3. Slot(deq, i) # Slot(deq, A)
    BY <1>1, <1>5, <2>1, <2>2
  <2> QED BY <1>4, <2>2, <2>3
<1>6. ring2[Slot(deq, A)] = new
  BY <1>2, <1>4
<1>7. Holds(deq, cycle, ring2, A)
  BY <1>2, <1>6 DEF Holds
<1>8. ASSUME NEW i \in 0 .. N - 1 PROVE Holds(deq, cycle, ring2, i) <=> i < A + 1
  <2>1. CASE i = A
    BY <1>1, <1>7, <2>1
  <2>2. CASE i # A
    <3>1. Holds(deq, cycle, ring2, i) <=> Holds(deq, cycle, ring, i)
      BY <1>5, <2>2 DEF Holds
    <3> QED BY <1>1, <2>2, <3>1 DEF HoldsAsFarAs
  <2> QED BY <2>1, <2>2
<1>9. PICK f : Ahead(f, deq, cycle, ring)
  BY PendingIsAhead
<1>10. PICK g : Ahead(g, deq, cycle, ring2)
  BY <1>3, PendingIsAhead
<1> DEFINE r == ReportIn(new)
<1>11. r \in Seq(HidReports)
  <2>1. ReportIn(ring2[Slot(deq, A)]) \in Seq(HidReports)
    BY <1>2, <1>3, ReportTyped
  <2> QED BY <1>6, <2>1
<1> HIDE DEF r
<1>12. \A s \in Seq(HidReports) : << >> \o s = s /\ s \o << >> = s
  BY ConcatEmptySeq
<1>16. \A s, t, u \in Seq(HidReports) : (s \o t) \o u = s \o (t \o u)
  BY JoinAssociative
<1>13. g[A] = r /\ f[A] = << >>
  <2>1. A + 1 \in 0 .. N - 1 /\ A + 1 \in 0 .. N /\ A \in 0 .. N - 1 /\ ~ A < A /\ ~ A + 1 < A + 1
    BY <1>1
  <2>2. ~ Holds(deq, cycle, ring2, A + 1) /\ ~ Holds(deq, cycle, ring, A)
    BY <1>8, <2>1 DEF HoldsAsFarAs
  <2>3. g[A + 1] = << >> /\ f[A] = << >>
    BY <1>2, <1>9, <1>10, <2>1, <2>2 DEF Ahead
  <2>4. g[A] = ReportIn(ring2[Slot(deq, A)]) \o g[A + 1]
    BY <1>2, <1>7, <1>10 DEF Ahead
  <2>5. g[A] = r \o << >>
    BY <1>6, <2>3, <2>4 DEF r
  <2> QED BY <1>11, <1>12, <2>3, <2>5
<1> DEFINE T == {k \in 0 .. A : g[A - k] # f[A - k] \o r}
<1>14. T = {}
  <2>1. SUFFICES ASSUME T # {} PROVE FALSE
    OBVIOUS
  <2>2. PICK k \in T : \A y \in T : k <= y
    <3>1. T \subseteq Nat
      BY <1>1
    <3> HIDE DEF T
    <3> QED BY <2>1, <3>1, LeastOf
  <2> DEFINE i == A - k
  <2>3. k \in 0 .. A /\ g[i] # f[i] \o r /\ i \in 0 .. A /\ i \in 0 .. N
    BY <1>1, <2>2
  <2>4. CASE k = 0
    <3>1. i = A
      BY <1>1, <2>4
    <3> HIDE DEF i
    <3> QED BY <1>11, <1>12, <1>13, <2>3, <3>1
  <2>5. CASE k # 0
    <3>1. k - 1 \in 0 .. A /\ A - (k - 1) = i + 1 /\ ~ k <= k - 1
      BY <1>1, <2>3, <2>5
    <3>2. g[i + 1] = f[i + 1] \o r
      <4>1. k - 1 \notin T
        <5> HIDE DEF T
        <5> QED BY <2>2, <3>1
      <4> HIDE DEF i
      <4> QED BY <3>1, <4>1
    <3>3. i \in 0 .. N - 1 /\ i # A /\ i < A /\ i < A + 1 /\ i + 1 \in 0 .. N
      BY <1>1, <2>3, <2>5
    <3> HIDE DEF i
    <3>4. Holds(deq, cycle, ring, i) /\ Holds(deq, cycle, ring2, i)
      BY <1>8, <3>3 DEF HoldsAsFarAs
    <3>5. ring2[Slot(deq, i)] = ring[Slot(deq, i)] /\ Slot(deq, i) \in Slots
      BY <1>5, <3>3
    <3> DEFINE p == ReportIn(ring[Slot(deq, i)])
    <3>6. f[i] = p \o f[i + 1] /\ g[i] = p \o g[i + 1]
      BY <1>9, <1>10, <2>3, <3>4, <3>5 DEF Ahead
    <3>7. p \in Seq(HidReports) /\ f[i + 1] \in Seq(HidReports)
      BY <1>9, <3>3, <3>5, ReportTyped DEF Ahead
    <3> HIDE DEF p
    <3>8. (p \o f[i + 1]) \o r = p \o (f[i + 1] \o r)
      <4> DEFINE b == f[i + 1]
      <4>1. b \in Seq(HidReports)
        BY <3>7
      <4> HIDE DEF b
      <4>2. (p \o b) \o r = p \o (b \o r)
        BY <1>11, <1>16, <3>7, <4>1, Zenon
      <4> QED BY <4>2 DEF b
    <3> QED BY <2>3, <3>2, <3>6, <3>8
  <2> QED BY <2>4, <2>5
<1>15. g[0] = f[0] \o r
  <2>1. A \in 0 .. A /\ A - A = 0
    BY <1>1
  <2> QED BY <1>14, <2>1
<1> QED BY <1>3, <1>8, <1>9, <1>10, <1>15 DEF Ahead, HoldsAsFarAs, r

-------------------------------------------------------------------------------
(* The invariant of the ring.                                              *)

Distance(a, b) == IF b >= a THEN b - a ELSE b - a + RingDepth
Behind == Distance(xhc.erdp, interrupter.deq)   \* taken, not told to the controller
Waiting == Distance(interrupter.deq, xhc.enq)   \* produced, not taken

RingTypes ==
  /\ trb \in Rings
  /\ interrupter \in [deq : Slots, cycle : {0, 1}]
  /\ xhc \in [on : BOOLEAN, enq : Slots, cycle : {0, 1}, erdp : Slots, n : Nat]
  /\ events \in Seq(HidReports)
  /\ polled \in Seq([report : HidReports, action : {"Switch", "Forward"}])

OffInv ==
  ~ xhc.on =>
    /\ xhc.enq = 0 /\ xhc.cycle = 1 /\ interrupter.deq = 0
    /\ trb = [s \in Slots |-> [cycle |-> 0, event |-> Free]]
    /\ events = << >> /\ polled = << >>

WaitingInv ==
  xhc.on =>
    /\ Behind + Waiting <= RingDepth - 1
    /\ xhc.cycle = CycleAt(interrupter.deq, interrupter.cycle, Waiting)
    /\ \A i \in 0 .. RingDepth - 1 : Holds(interrupter.deq, interrupter.cycle, trb, i) <=> i < Waiting

RingInv == RingTypes /\ OffInv /\ WaitingInv /\ ReportsInOrder

Taken == [i \in DOMAIN polled |-> polled[i].report]
Actions == {"Switch", "Forward"}
PollResults == [report : HidReports, action : Actions]

LEMMA TakenTyped ==
  ASSUME NEW s \in Seq(PollResults)
  PROVE  [i \in DOMAIN s |-> s[i].report] \in Seq(HidReports)
<1> DEFINE t == [i \in 1 .. Len(s) |-> s[i].report]
<1>1. Len(s) \in Nat /\ DOMAIN s = 1 .. Len(s) /\ \A i \in 1 .. Len(s) : s[i] \in PollResults
  OBVIOUS
<1>2. \A i \in 1 .. Len(s) : s[i].report \in HidReports
  BY <1>1 DEF PollResults
<1>3. t \in Seq(HidReports)
  BY <1>1, <1>2
<1> QED BY <1>1, <1>3

LEMMA RingStarts == RingInit => RingInv
<1>1. SUFFICES ASSUME RingInit PROVE RingInv
  OBVIOUS
<1>2. RingDepth \in Nat /\ RingDepth > 1 /\ 0 \in Slots
  BY DepthIsNat DEF Slots
<1>3. trb \in Rings
  BY <1>1 DEF RingInit, Rings, TrbValues, Events, Free
<1> QED BY <1>1, <1>2, <1>3 DEF RingInit, RingInv, RingTypes, OffInv, WaitingInv, ReportsInOrder

LEMMA RingKept == RingInv /\ UNCHANGED ringVars => RingInv'
<1>1. SUFFICES ASSUME RingInv, UNCHANGED ringVars PROVE RingInv'
  OBVIOUS
<1>2. interrupter' = interrupter /\ trb' = trb /\ xhc' = xhc /\ events' = events /\ polled' = polled
  BY <1>1 DEF ringVars
<1>3. RingTypes' /\ OffInv'
  BY <1>1, <1>2 DEF RingInv, RingTypes, OffInv, Rings, TrbValues
<1>4. WaitingInv'
  <2>1. Behind' = Behind /\ Waiting' = Waiting
    BY <1>2 DEF Behind, Waiting, Distance
  <2> QED BY <1>1, <1>2, <2>1 DEF RingInv, WaitingInv, Holds, Slot, CycleAt
<1>5. ReportsInOrder'
  <2>1. Pending(interrupter.deq, interrupter.cycle, trb)' = Pending(interrupter'.deq, interrupter'.cycle, trb')
    BY DEF Pending
  <2> QED BY <1>1, <1>2, <2>1 DEF RingInv, ReportsInOrder
<1> QED BY <1>3, <1>4, <1>5 DEF RingInv

(* Nothing is pending on a ring of zeroes.                                 *)
LEMMA StartKeeps == RingInv /\ init_el2_event_ring => RingInv'
<1>1. SUFFICES ASSUME RingInv, init_el2_event_ring PROVE RingInv'
  OBVIOUS
<1>2. RingDepth \in Nat /\ RingDepth > 1 /\ 0 \in Slots
  BY DepthIsNat DEF Slots
<1>3. /\ ~ xhc.on /\ interrupter' = [deq |-> 0, cycle |-> 1]
      /\ trb' = trb /\ events' = events /\ polled' = polled
  BY <1>1 DEF init_el2_event_ring
<1>4. /\ xhc'.on = TRUE /\ xhc'.erdp = 0 /\ xhc'.enq = xhc.enq /\ xhc'.cycle = xhc.cycle
      /\ xhc' \in [on : BOOLEAN, enq : Slots, cycle : {0, 1}, erdp : Slots, n : Nat]
  BY <1>1, <1>2 DEF init_el2_event_ring, RingInv, RingTypes
<1>5. /\ xhc.enq = 0 /\ xhc.cycle = 1 /\ trb = [s \in Slots |-> [cycle |-> 0, event |-> Free]]
      /\ events = << >> /\ polled = << >>
  BY <1>1, <1>3 DEF RingInv, OffInv
<1>6. RingTypes'
  BY <1>1, <1>2, <1>3, <1>4 DEF RingInv, RingTypes, Rings, TrbValues
<1>7. \A i \in 0 .. RingDepth - 1 : ~ Holds(0, 1, trb, i)
  <2>1. ASSUME NEW i \in 0 .. RingDepth - 1 PROVE ~ Holds(0, 1, trb, i)
    <3>1. i \in 0 .. RingDepth /\ 0 + i < RingDepth
      BY <1>2
    <3>2. Slot(0, i) \in Slots
      BY <1>2, <3>1, SlotIs
    <3> QED BY <1>5, <3>1, <3>2 DEF Holds, CycleAt
  <2> QED BY <2>1
<1>8. WaitingInv'
  <2>1. Behind' = 0 /\ Waiting' = 0
    BY <1>2, <1>3, <1>4, <1>5 DEF Behind, Waiting, Distance
  <2>2. (xhc.cycle = CycleAt(interrupter.deq, interrupter.cycle, Waiting))'
    BY <1>2, <1>3, <1>4, <1>5, <2>1 DEF CycleAt
  <2>3. (\A i \in 0 .. RingDepth - 1 : Holds(interrupter.deq, interrupter.cycle, trb, i) <=> i < Waiting)'
    <3>1. interrupter'.deq = 0 /\ interrupter'.cycle = 1
      BY <1>3
    <3>2. \A i \in 0 .. RingDepth - 1 : ~ i < 0
      BY <1>2
    <3> QED BY <1>3, <1>7, <2>1, <3>1, <3>2 DEF Holds, CycleAt, Slot
  <2> QED BY <1>2, <2>1, <2>2, <2>3 DEF WaitingInv
<1>9. Pending(0, 1, trb) = << >>
  <2>1. trb \in Rings
    BY <1>1 DEF RingInv, RingTypes
  <2>2. PICK f : Ahead(f, 0, 1, trb)
    BY <1>2, <2>1, PendingIsAhead
  <2> QED BY <1>2, <1>7, <2>2 DEF Ahead
<1>10. ReportsInOrder'
  BY <1>3, <1>5, <1>9 DEF ReportsInOrder
<1> QED BY <1>4, <1>6, <1>8, <1>10 DEF RingInv, OffInv

LEMMA PollKeeps == RingInv /\ poll_event_ring => RingInv'
<1>1. SUFFICES ASSUME RingInv, poll_event_ring PROVE RingInv'
  OBVIOUS
<1> DEFINE deq == interrupter.deq
           cycle == interrupter.cycle
           deq2 == Slot(deq, 1)
           cycle2 == CycleAt(deq, cycle, 1)
           N == RingDepth
           W == Waiting
<1>2. /\ deq \in Slots /\ cycle \in {0, 1} /\ trb \in Rings /\ xhc.enq \in Slots /\ xhc.erdp \in Slots
      /\ interrupter = [deq |-> deq, cycle |-> cycle]
  BY <1>1 DEF RingInv, RingTypes
<1>3. xhc.on /\ trb[deq].cycle = cycle /\ trb' = trb /\ events' = events
  BY <1>1 DEF poll_event_ring
<1>4. N \in Nat /\ N > 1 /\ deq \in Nat /\ deq < N /\ 1 \in 0 .. N
  BY <1>2, DepthIsNat DEF Slots
<1>5. deq2 = (IF deq + 1 < N THEN deq + 1 ELSE deq + 1 - N)
  BY <1>2, <1>4, SlotIs
<1>6. interrupter' = [deq |-> deq2, cycle |-> cycle2]
  <2>1. interrupter' = Advanced(interrupter)
    BY <1>1 DEF poll_event_ring
  <2> QED BY <1>2, <1>4, <1>5, <2>1 DEF Advanced, CycleAt
<1>7. /\ deq2 \in Slots /\ cycle2 \in {0, 1}
      /\ \A i \in 0 .. N - 2 :
           /\ CycleAt(deq2, cycle2, i) = CycleAt(deq, cycle, i + 1)
           /\ Holds(deq2, cycle2, trb, i) <=> Holds(deq, cycle, trb, i + 1)
      /\ Slot(deq2, N - 1) = deq
      /\ CycleAt(deq2, cycle2, N - 1) = 1 - cycle
  BY <1>2, OneOn
<1>8. /\ xhc'.on = TRUE /\ xhc'.enq = xhc.enq /\ xhc'.cycle = xhc.cycle
      /\ xhc'.erdp = xhc.erdp \/ xhc'.erdp = deq2
      /\ xhc' \in [on : BOOLEAN, enq : Slots, cycle : {0, 1}, erdp : Slots, n : Nat]
  <2>1. xhc' = xhc \/ xhc' = [xhc EXCEPT !.erdp = interrupter'.deq]
    BY <1>1 DEF poll_event_ring
  <2>2. xhc \in [on : BOOLEAN, enq : Slots, cycle : {0, 1}, erdp : Slots, n : Nat]
    BY <1>1 DEF RingInv, RingTypes
  <2>3. interrupter'.deq = deq2
    BY <1>6
  <2> HIDE DEF deq2
  <2> QED BY <1>3, <1>7, <2>1, <2>2, <2>3
<1>9. /\ polled' \in Seq(PollResults) /\ polled \in Seq(PollResults)
      /\ \/ trb[deq].event.kind = "report" /\ \E a \in Actions :
               polled' = Append(polled, [report |-> trb[deq].event.report, action |-> a])
         \/ trb[deq].event.kind # "report" /\ polled' = polled
  <2>1. trb[deq].event \in Events
    BY <1>2 DEF Rings, TrbValues
  <2>2. trb[deq].event.kind = "report" => trb[deq].event.report \in HidReports
    BY <2>1 DEF Events, Free
  <2>3. process_hid_report(trb[deq].event.report) \in Actions
    BY DEF process_hid_report, Actions
  <2>4. polled \in Seq(PollResults)
    BY <1>1 DEF RingInv, RingTypes, PollResults, Actions
  <2>5. polled' = IF trb[deq].event.kind = "report"
                  THEN Append(polled, [report |-> trb[deq].event.report,
                                       action |-> process_hid_report(trb[deq].event.report)])
                  ELSE polled
    BY <1>1 DEF poll_event_ring
  <2>6. CASE trb[deq].event.kind = "report"
    <3> DEFINE x == [report |-> trb[deq].event.report,
                     action |-> process_hid_report(trb[deq].event.report)]
    <3>1. x \in PollResults
      BY <2>2, <2>3, <2>6 DEF PollResults
    <3>2. polled' = Append(polled, x)
      BY <2>5, <2>6
    <3>3. polled' \in Seq(PollResults)
      <4> HIDE DEF x
      <4> QED BY <2>4, <3>1, <3>2
    <3> QED BY <2>3, <2>4, <2>6, <3>2, <3>3
  <2>7. CASE trb[deq].event.kind # "report"
    BY <2>4, <2>5, <2>7
  <2> QED BY <2>6, <2>7
<1>10. /\ Behind + W <= N - 1 /\ xhc.cycle = CycleAt(deq, cycle, W)
       /\ \A i \in 0 .. N - 1 : Holds(deq, cycle, trb, i) <=> i < W
  BY <1>1, <1>3 DEF RingInv, WaitingInv
<1>11. W = (IF xhc.enq >= deq THEN xhc.enq - deq ELSE xhc.enq - deq + N) /\ W \in Nat
       /\ Behind = (IF deq >= xhc.erdp THEN deq - xhc.erdp ELSE deq - xhc.erdp + N) /\ Behind \in Nat
       /\ xhc.enq \in Nat /\ xhc.erdp \in Nat /\ xhc.enq < N /\ xhc.erdp < N
  BY <1>2, <1>4 DEF Waiting, Behind, Distance, Slots
<1>12. W > 0
  <2>1. 0 \in 0 .. N - 1 /\ 0 # N /\ 0 \in 0 .. N
    BY <1>4
  <2>2. Slot(deq, 0) = deq /\ CycleAt(deq, cycle, 0) = cycle
    BY <1>2, <1>4, <2>1, SlotIs DEF CycleAt
  <2>3. Holds(deq, cycle, trb, 0)
    BY <1>3, <2>1, <2>2 DEF Holds
  <2> QED BY <1>10, <2>1, <2>3
<1>13. Waiting' = W - 1 /\ Behind' + Waiting' <= N - 1
  <2>1. interrupter'.deq = deq2
    BY <1>6
  <2>2. Waiting' = (IF xhc.enq >= deq2 THEN xhc.enq - deq2 ELSE xhc.enq - deq2 + N)
    BY <1>8, <2>1 DEF Waiting, Distance
  <2>3. Waiting' = W - 1
    <3> HIDE DEF deq2, W
    <3> QED BY <1>4, <1>5, <1>11, <1>12, <2>2
  <2>4. Behind' = (IF deq2 >= xhc'.erdp THEN deq2 - xhc'.erdp ELSE deq2 - xhc'.erdp + N)
    BY <2>1 DEF Behind, Distance
  <2>5. Behind' = 0 \/ Behind' = Behind + 1 \/ Behind' = Behind + 1 - N
    <3> HIDE DEF deq2, W
    <3>1. CASE xhc'.erdp = deq2
      BY <1>4, <1>5, <2>4, <3>1
    <3>2. CASE xhc'.erdp = xhc.erdp
      BY <1>4, <1>5, <1>11, <2>4, <3>2
    <3> QED BY <1>8, <3>1, <3>2
  <2> HIDE DEF deq2, W
  <2> QED BY <1>4, <1>10, <1>11, <1>12, <2>3, <2>5
<1>14. W - 1 \in 0 .. N - 2 /\ W - 1 + 1 = W
  <2> HIDE DEF W
  <2> QED BY <1>4, <1>10, <1>11, <1>12
<1>15. xhc.cycle = CycleAt(deq2, cycle2, W - 1)
  <2> HIDE DEF deq2, cycle2, W
  <2> QED BY <1>7, <1>10, <1>14
<1>16. ASSUME NEW i \in 0 .. N - 1 PROVE Holds(deq2, cycle2, trb, i) <=> i < W - 1
  <2>1. CASE i \in 0 .. N - 2
    <3>1. i + 1 \in 0 .. N - 1 /\ (i + 1 < W <=> i < W - 1)
      <4> HIDE DEF W
      <4> QED BY <1>4, <1>11, <2>1
    <3> HIDE DEF deq2, cycle2, W
    <3> QED BY <1>7, <1>10, <2>1, <3>1
  <2>2. CASE i \notin 0 .. N - 2
    <3>1. i = N - 1 /\ ~ i < W - 1
      <4> HIDE DEF W
      <4> QED BY <1>4, <1>14, <2>2
    <3>2. ~ Holds(deq2, cycle2, trb, N - 1)
      <4> HIDE DEF deq2, cycle2, W
      <4> QED BY <1>2, <1>3, <1>7 DEF Holds
    <3> QED BY <3>1, <3>2
  <2> QED BY <2>1, <2>2
<1>17. WaitingInv'
  <2>1. interrupter'.deq = deq2 /\ interrupter'.cycle = cycle2
    BY <1>6
  <2>2. \A i \in 0 .. N - 1 : Holds(deq2, cycle2, trb, i) <=> i < W - 1
    BY <1>16
  <2> HIDE DEF deq2, cycle2, W
  <2>3. (xhc.cycle = CycleAt(interrupter.deq, interrupter.cycle, Waiting))'
    BY <1>8, <1>13, <1>15, <2>1 DEF CycleAt
  <2>4. (\A i \in 0 .. N - 1 : Holds(interrupter.deq, interrupter.cycle, trb, i) <=> i < Waiting)'
    BY <1>3, <1>13, <2>1, <2>2 DEF Holds, CycleAt, Slot
  <2> QED BY <1>13, <2>3, <2>4 DEF WaitingInv
<1>18. ReportsInOrder'
  <2> DEFINE rest == Pending(deq2, cycle2, trb)
             x == ReportIn(trb[deq])
  <2>1. Pending(deq, cycle, trb) = x \o rest
    BY <1>2, <1>3, PollTakesFirst
  <2>2. x \in Seq(HidReports) /\ rest \in Seq(HidReports)
    <3>1. PICK f : Ahead(f, deq2, cycle2, trb)
      BY <1>2, <1>7, PendingIsAhead
    <3>2. f[0] \in Seq(HidReports) /\ f[0] = rest
      BY <1>4, <3>1 DEF Ahead
    <3> QED BY <1>2, <3>2, ReportTyped
  <2>3. Taken \in Seq(HidReports)
    BY <1>9, TakenTyped DEF Taken
  <2>4. Taken' = Taken \o x
    <3>1. CASE trb[deq].event.kind = "report"
      <4>1. PICK a \in Actions :
               polled' = Append(polled, [report |-> trb[deq].event.report, action |-> a])
        BY <1>9, <3>1
      <4>2. x = <<trb[deq].event.report>>
        BY <3>1 DEF ReportIn
      <4> DEFINE e == trb[deq].event.report
      <4>3. e \in HidReports
        BY <2>2, <4>2
      <4> HIDE DEF e
      <4>4. polled' = Append(polled, [report |-> e, action |-> a]) /\ x = <<e>>
        BY <4>1, <4>2 DEF e
      <4> HIDE DEF x
      <4> QED BY <1>9, <4>3, <4>4 DEF Taken, PollResults
    <3>2. CASE trb[deq].event.kind # "report"
      <4>1. polled' = polled /\ x = << >>
        BY <1>9, <3>2 DEF ReportIn
      <4> QED BY <2>3, <4>1, ConcatEmptySeq DEF Taken
    <3> QED BY <3>1, <3>2
  <2>5. Taken \o Pending(deq, cycle, trb) = events
    BY <1>1, <1>3 DEF RingInv, ReportsInOrder, Taken
  <2>6. Taken' \o rest = events
    <3>1. \A s, t, u \in Seq(HidReports) : (s \o t) \o u = s \o (t \o u)
      BY JoinAssociative
    <3> HIDE DEF rest, x
    <3>2. (Taken \o x) \o rest = Taken \o (x \o rest)
      BY <2>2, <2>3, <3>1, Zenon
    <3> QED BY <2>1, <2>4, <2>5, <3>2
  <2>7. interrupter'.deq = deq2 /\ interrupter'.cycle = cycle2
    BY <1>6
  <2> HIDE DEF deq2, cycle2
  <2> QED BY <1>3, <2>6, <2>7 DEF ReportsInOrder, Taken, Pending
<1>19. RingTypes'
  <2>1. interrupter' \in [deq : Slots, cycle : {0, 1}]
    BY <1>6, <1>7
  <2>2. trb' \in Rings' /\ events' \in Seq(HidReports)
    BY <1>1, <1>3 DEF RingInv, RingTypes, Rings, TrbValues
  <2> QED BY <1>8, <1>9, <2>1, <2>2 DEF RingTypes, PollResults, Actions
<1> QED BY <1>8, <1>17, <1>18, <1>19 DEF RingInv, OffInv

LEMMA EventKeeps ==
  ASSUME RingInv, NEW event \in Events, controller_event(event)
  PROVE  RingInv'
<1> DEFINE deq == interrupter.deq
           cycle == interrupter.cycle
           N == RingDepth
           W == Waiting
           new == [cycle |-> xhc.cycle, event |-> event]
           enq2 == (xhc.enq + 1) % N
<1>1. /\ deq \in Slots /\ cycle \in {0, 1} /\ trb \in Rings /\ xhc.enq \in Slots /\ xhc.erdp \in Slots
      /\ xhc \in [on : BOOLEAN, enq : Slots, cycle : {0, 1}, erdp : Slots, n : Nat]
  BY DEF RingInv, RingTypes
<1>2. /\ xhc.on /\ enq2 # xhc.erdp /\ interrupter' = interrupter /\ polled' = polled
      /\ trb' = [trb EXCEPT ![xhc.enq] = new]
      /\ events' = IF event.kind = "report" THEN Append(events, event.report) ELSE events
  BY DEF controller_event, RingFull
<1>3. /\ N \in Nat /\ N > 1 /\ deq \in Nat /\ deq < N /\ xhc.enq \in Nat /\ xhc.enq < N
      /\ xhc.erdp \in Nat /\ xhc.erdp < N
  BY <1>1, DepthIsNat DEF Slots
<1>4. enq2 = (IF xhc.enq + 1 < N THEN xhc.enq + 1 ELSE 0) /\ enq2 \in Slots
  <2>1. 1 \in 0 .. N
    BY <1>3
  <2>2. Slot(xhc.enq, 1) = (IF xhc.enq + 1 < N THEN xhc.enq + 1 ELSE xhc.enq + 1 - N)
        /\ Slot(xhc.enq, 1) \in Slots
    BY <1>1, <2>1, SlotIs
  <2> QED BY <1>3, <2>2 DEF Slot
<1>5. /\ xhc'.on = TRUE /\ xhc'.enq = enq2 /\ xhc'.erdp = xhc.erdp
      /\ xhc'.cycle = (IF xhc.enq + 1 = N THEN 1 - xhc.cycle ELSE xhc.cycle)
      /\ xhc' \in [on : BOOLEAN, enq : Slots, cycle : {0, 1}, erdp : Slots, n : Nat]
  <2> DEFINE c == IF xhc.enq + 1 = N THEN 1 - xhc.cycle ELSE xhc.cycle
  <2>1. c \in {0, 1} /\ xhc.n + 1 \in Nat
    BY <1>1
  <2>2. xhc' = [[[xhc EXCEPT !.enq = enq2] EXCEPT !.n = xhc.n + 1] EXCEPT !.cycle = c]
    BY DEF controller_event
  <2> HIDE DEF enq2, c
  <2>3. xhc' \in [on : BOOLEAN, enq : Slots, cycle : {0, 1}, erdp : Slots, n : Nat]
    BY <1>1, <1>4, <2>1, <2>2
  <2>4. xhc'.on = xhc.on /\ xhc'.enq = enq2 /\ xhc'.erdp = xhc.erdp /\ xhc'.cycle = c
    BY <1>1, <2>2
  <2> QED BY <1>2, <2>3, <2>4 DEF c
<1>6. /\ Behind + W <= N - 1 /\ xhc.cycle = CycleAt(deq, cycle, W)
      /\ \A i \in 0 .. N - 1 : Holds(deq, cycle, trb, i) <=> i < W
  BY <1>2 DEF RingInv, WaitingInv
<1>7. /\ W = (IF xhc.enq >= deq THEN xhc.enq - deq ELSE xhc.enq - deq + N) /\ W \in Nat
      /\ Behind = (IF deq >= xhc.erdp THEN deq - xhc.erdp ELSE deq - xhc.erdp + N) /\ Behind \in Nat
  BY <1>3 DEF Waiting, Behind, Distance
<1>8. Behind + W # N - 1
  <2> HIDE DEF W, enq2, deq
  <2>1. SUFFICES ASSUME Behind + W = N - 1 PROVE enq2 = xhc.erdp
    BY <1>2
  <2> DEFINE B == Behind
  <2>2. B \in Nat /\ B + W = N - 1 /\ B = (IF deq >= xhc.erdp THEN deq - xhc.erdp ELSE deq - xhc.erdp + N)
    BY <1>7, <2>1
  <2> HIDE DEF B
  <2>3. CASE xhc.enq + 1 < N
    BY <1>3, <1>4, <1>7, <2>2, <2>3
  <2>4. CASE ~ xhc.enq + 1 < N
    BY <1>3, <1>4, <1>7, <2>2, <2>4
  <2> QED BY <2>3, <2>4
<1>9. W \in 0 .. N - 2 /\ W \in 0 .. N /\ Behind + (W + 1) <= N - 1
  <2> HIDE DEF W
  <2> QED BY <1>3, <1>6, <1>7, <1>8
<1>10. Slot(deq, W) = xhc.enq
  <2>1. Slot(deq, W) = (IF deq + W < N THEN deq + W ELSE deq + W - N)
    BY <1>1, <1>9, SlotIs
  <2> HIDE DEF W
  <2> QED BY <1>3, <1>7, <2>1
<1>11. /\ trb' \in Rings
       /\ HoldsAsFarAs(deq, cycle, trb', W + 1)
       /\ Pending(deq, cycle, trb') = Pending(deq, cycle, trb) \o ReportIn(new)
  <2>1. new \in TrbValues /\ new.cycle = CycleAt(deq, cycle, W)
    <3>1. xhc.cycle \in {0, 1}
      BY <1>1
    <3> QED BY <1>6, <3>1 DEF TrbValues
  <2> DEFINE ring2 == trb'
  <2>2. Filled(ring2, trb, Slot(deq, W), new)
    BY <1>2, <1>10 DEF Filled
  <2>3. HoldsAsFarAs(deq, cycle, trb, W)
    BY <1>6 DEF HoldsAsFarAs
  <2>4. deq \in Slots /\ cycle \in {0, 1} /\ trb \in Rings /\ W \in 0 .. RingDepth - 2
    BY <1>1, <1>9
  <2> HIDE DEF W, new, deq, cycle, ring2
  <2>5. Pushed(ring2, deq, cycle, trb, W, new)
    BY <2>1, <2>2, <2>3, <2>4 DEF Pushed
  <2>6. /\ ring2 \in Rings
        /\ HoldsAsFarAs(deq, cycle, ring2, W + 1)
        /\ Pending(deq, cycle, ring2) = Pending(deq, cycle, trb) \o ReportIn(new)
    BY <2>5, PushAddsLast
  <2> QED BY <2>6 DEF ring2
<1>12. Behind' = Behind /\ Waiting' = W + 1
  <2>1. Behind' = Behind
    BY <1>2, <1>5 DEF Behind, Distance
  <2>2. Waiting' = (IF enq2 >= deq THEN enq2 - deq ELSE enq2 - deq + N)
    BY <1>2, <1>5 DEF Waiting, Distance
  <2> HIDE DEF W, enq2
  <2>3. W + 1 <= N - 1
    BY <1>3, <1>9
  <2> QED BY <1>3, <1>4, <1>7, <2>1, <2>2, <2>3
<1>13. xhc'.cycle = CycleAt(deq, cycle, W + 1)
  <2>1. cycle \in {0, 1} /\ 1 - (1 - cycle) = cycle
    BY <1>1
  <2>2. W + 1 <= N - 1
    BY <1>3, <1>9
  <2>3. CASE deq + W < N
    <3>1. xhc.enq = deq + W /\ xhc.cycle = cycle
      <4> HIDE DEF W
      <4> QED BY <1>3, <1>6, <1>7, <2>3 DEF CycleAt
    <3> HIDE DEF W
    <3> QED BY <1>3, <1>5, <1>7, <2>3, <3>1 DEF CycleAt
  <2>4. CASE ~ deq + W < N
    <3>1. xhc.enq = deq + W - N /\ xhc.cycle = 1 - cycle /\ xhc.enq + 1 # N
      <4> HIDE DEF W
      <4> QED BY <1>3, <1>6, <1>7, <2>2, <2>4 DEF CycleAt
    <3> HIDE DEF W
    <3> QED BY <1>3, <1>5, <1>7, <2>4, <3>1 DEF CycleAt
  <2> QED BY <2>3, <2>4
<1>14. WaitingInv'
  <2> HIDE DEF W
  <2>1. (xhc.cycle = CycleAt(interrupter.deq, interrupter.cycle, Waiting))'
    BY <1>2, <1>12, <1>13 DEF CycleAt
  <2>2. (\A i \in 0 .. N - 1 : Holds(interrupter.deq, interrupter.cycle, trb, i) <=> i < Waiting)'
    BY <1>2, <1>11, <1>12 DEF HoldsAsFarAs, Holds, CycleAt, Slot
  <2>3. Behind' + Waiting' <= N - 1
    BY <1>9, <1>12
  <2> QED BY <2>1, <2>2, <2>3 DEF WaitingInv
<1>15. events' = events \o ReportIn(new) /\ events' \in Seq(HidReports) /\ ReportIn(new) \in Seq(HidReports)
  <2>1. events \in Seq(HidReports)
    BY DEF RingInv, RingTypes
  <2>2. CASE event.kind = "report"
    <3> DEFINE e == event.report
    <3>1. e \in HidReports
      BY <2>2 DEF Events, Free
    <3>2. events' = Append(events, e) /\ ReportIn(new) = <<e>>
      BY <1>2, <2>2 DEF ReportIn
    <3> HIDE DEF e, new
    <3> QED BY <2>1, <3>1, <3>2
  <2>3. CASE event.kind # "report"
    <3>1. events' = events /\ ReportIn(new) = << >>
      BY <1>2, <2>3 DEF ReportIn
    <3> HIDE DEF new
    <3> QED BY <2>1, <3>1, ConcatEmptySeq
  <2> QED BY <2>2, <2>3
<1>16. ReportsInOrder'
  <2> DEFINE p == Pending(deq, cycle, trb)
             x == ReportIn(new)
  <2>1. Taken \o p = events
    BY <1>2 DEF RingInv, ReportsInOrder, Taken
  <2>2. Taken \in Seq(HidReports)
    <3>1. polled \in Seq(PollResults)
      BY DEF RingInv, RingTypes, PollResults, Actions
    <3> QED BY <3>1, TakenTyped DEF Taken
  <2>3. p \in Seq(HidReports)
    <3>1. PICK f : Ahead(f, deq, cycle, trb)
      BY <1>1, PendingIsAhead
    <3>2. f[0] \in Seq(HidReports) /\ f[0] = p
      BY <1>3, <3>1 DEF Ahead
    <3> QED BY <3>2
  <2>4. (Taken \o p) \o x = Taken \o (p \o x)
    <3>1. \A s, t, u \in Seq(HidReports) : (s \o t) \o u = s \o (t \o u)
      BY JoinAssociative
    <3>2. x \in Seq(HidReports)
      BY <1>15
    <3> HIDE DEF p, x
    <3> QED BY <2>2, <2>3, <3>1, <3>2, Zenon
  <2>5. Taken \o Pending(deq, cycle, trb') = events'
    <3>1. Pending(deq, cycle, trb') = p \o x /\ events' = events \o x
      BY <1>11, <1>15
    <3> HIDE DEF p, x
    <3> QED BY <2>1, <2>4, <3>1
  <2>6. interrupter'.deq = deq /\ interrupter'.cycle = cycle
    BY <1>2
  <2> HIDE DEF deq, cycle, p, x
  <2>7. Pending(interrupter.deq, interrupter.cycle, trb)' = Pending(interrupter'.deq, interrupter'.cycle, trb')
    BY DEF Pending
  <2>8. Taken' = Taken
    BY <1>2 DEF Taken
  <2>9. (Taken \o Pending(interrupter.deq, interrupter.cycle, trb) = events)'
    BY <2>5, <2>6, <2>7, <2>8
  <2> QED BY <2>9 DEF ReportsInOrder, Taken
<1>17. RingTypes'
  <2>1. trb' \in Rings'
    BY <1>11 DEF Rings, TrbValues, Events
  <2>2. interrupter' \in [deq : Slots, cycle : {0, 1}] /\ polled' = polled
        /\ polled \in Seq([report : HidReports, action : {"Switch", "Forward"}])
    BY <1>2 DEF RingInv, RingTypes
  <2> QED BY <1>5, <1>15, <2>1, <2>2 DEF RingTypes
<1> QED BY <1>5, <1>14, <1>16, <1>17 DEF RingInv, OffInv

LEMMA RingInductive == RingInv /\ [RingNext]_ringVars => RingInv'
<1>1. SUFFICES ASSUME RingInv, [RingNext]_ringVars PROVE RingInv'
  OBVIOUS
<1>2. CASE init_el2_event_ring
  BY <1>1, <1>2, StartKeeps
<1>3. CASE poll_event_ring
  BY <1>1, <1>3, PollKeeps
<1>4. ASSUME NEW r \in HidReports, controller_event([kind |-> "report", report |-> r]) PROVE RingInv'
  <2>1. [kind |-> "report", report |-> r] \in Events
    BY DEF Events
  <2> QED BY <1>1, <1>4, <2>1, EventKeeps
<1>5. ASSUME NEW k \in {"error", "other"}, controller_event([kind |-> k]) PROVE RingInv'
  <2>1. [kind |-> k] \in Events
    BY DEF Events
  <2> QED BY <1>1, <1>5, <2>1, EventKeeps
<1>6. CASE UNCHANGED ringVars
  BY <1>1, <1>6, RingKept
<1> QED BY <1>1, <1>2, <1>3, <1>4, <1>5, <1>6 DEF RingNext

(* What the polls of the event ring returned, and then what the ring still *)
(* holds, are the reports the controller completed, each once and in       *)
(* order, however often either side wraps (poll_event_ring).               *)
THEOREM ReportsAreTaken == RingSpec => []ReportsInOrder
<1>1. RingInit => RingInv
  BY RingStarts
<1>2. RingInv /\ [RingNext]_ringVars => RingInv'
  BY RingInductive
<1>3. RingInv => ReportsInOrder
  BY DEF RingInv
<1> QED BY <1>1, <1>2, <1>3, PTL DEF RingSpec

-------------------------------------------------------------------------------

(***************************************************************************)
(* The boot from the firmware to the guest.                                *)
(***************************************************************************)

(* The steps of efi_main: those up to a point, and those from a point on.  *)
UntilExit == {"entry", "get_map", "exit"}
UntilMap == UntilExit \cup {"map"}
UntilVirt == UntilMap \cup {"root", "ram", "gic_map", "vectors", "virt"}
UntilWake == UntilVirt \cup {"discover", "wake"}
UntilGicdOn == UntilWake \cup {"icc", "gicd off", "gicd groups", "gicd on"}
UntilTimers == UntilGicdOn \cup {"vgic", "timers"}
UntilRegister == UntilTimers \cup {"uart", "register"}
UntilPrepare == UntilRegister \cup {"call", "prepare"}
BootSteps == UntilPrepare \cup {"launch", "guest"}

GicAddresses ==
  {QemuGic} \cup {discover_gic_addresses(r, x) : r \in BOOLEAN, x \in Xsdts}
MaintValues == {25} \cup {g.maint : g \in GicAddresses}
GicRegisters ==
  [asked : SUBSET Nat, gaveUp : SUBSET Nat, group1 : SUBSET (Nat \X Nat), priority : SUBSET Nat,
   enabled : SUBSET (Nat \X Nat), distributor : {"firmware", "off", "on"}, sre : BOOLEAN,
   interface : BOOLEAN, virtual : BOOLEAN, lr_count : Nat, maint : MaintValues]
ParsedMaps == {<< >>} \cup {parse_memory_map(m) : m \in FirmwareMaps}
Kernels ==
  [phase : {"Init", "ImageValidated", "DtbPlaced", "ConfigVerified", "ReadyToLaunch"},
   image_size : Nat, dtb_size : Nat]
HostRecords ==
  [at : BootSteps \cup {"halted"}, el : {1, 2}, tables : RsdpTables, xsdt : Xsdts,
   image : KernelImages, dtb : DtbResults, rsdp : BOOLEAN, buffer : {<< >>} \cup FirmwareMaps,
   key : Nat, map : ParsedMaps, region : Nat, pages : Nat, mapped : SUBSET {"ram", "devices"},
   vectors : BOOLEAN, stage2 : BOOLEAN, gic : GicAddresses, regs : GicRegisters,
   table : SUBSET Nat, called : SUBSET Nat, kernel : Kernels]

HostTypes ==
  /\ fw \in [map : FirmwareMaps, key : Nat, running : BOOLEAN]
  /\ host \in HostRecords

LargestFree(i, map) ==
  /\ i \in Conventionals(map)
  /\ \A j \in Conventionals(map) : map[j].size <= map[i].size

(* The map that was read belongs to the key it was read with, and after    *)
(* the exit nothing changes it.                                            *)
MapInv ==
  /\ host.at \in UntilExit => fw.running /\ host.map = << >>
  /\ host.at = "exit" => host.key <= fw.key /\ (host.key = fw.key => host.buffer = fw.map)
  /\ host.at \in BootSteps \ UntilExit => ~ fw.running /\ host.map = parse_memory_map(fw.map)
  /\ host.map # << >> => ~ fw.running /\ host.map = parse_memory_map(fw.map)

(* The region is the largest of that map, and the pages taken fit it.      *)
FreeInv ==
  /\ host.at \in UntilMap => host.region = 0
  /\ host.at \in BootSteps \ UntilMap => host.region # 0
  /\ host.region # 0 =>
       /\ host.map # << >> /\ LargestFree(host.region, host.map)
       /\ host.pages <= host.map[host.region].size
  /\ host.region = 0 => host.pages = 0

(* What has been set up when a step is reached.                            *)
StageInv ==
  /\ host.at \in BootSteps \ {"entry"} => host.el = 2
  /\ host.at \in BootSteps \ (UntilMap \cup {"root", "ram"}) => "ram" \in host.mapped
  /\ host.at \in BootSteps \ (UntilVirt \ {"virt"}) => host.vectors
  /\ host.at \in BootSteps \ UntilVirt => host.stage2 /\ host.regs.virtual

TimersOf(k) == {<<c, t>> : c \in 1 .. k, t \in {TIMER_VIRT_INTID, TIMER_PHYS_NS_INTID}}
Forwarding(enabled) == {i \in enabled : i[2] = TIMER_VIRT_INTID}

RegisterInv ==
  LET g == host.regs
  IN /\ host.at \in UntilWake \ {"wake"} => g.asked = {}
     /\ host.at \in {"wake"} => \E k \in 0 .. BootCores - 1 : g.asked = 1 .. k
     /\ host.at \in BootSteps \ UntilWake => g.asked = 1 .. BootCores
     /\ \A c \in g.asked : <<c, 0>> \in g.group1
     /\ host.at \in UntilGicdOn => g.distributor # "on"
     /\ g.distributor = "on" => g.asked = 1 .. BootCores
     /\ host.at \in BootSteps \ (UntilWake \cup {"icc"}) => g.interface
     /\ host.at \in BootSteps \ (UntilGicdOn \ {"gicd on"}) =>
          <<0, 1>> \in g.group1 /\ UART_SPI_INTID \in g.priority
     /\ host.at \in BootSteps \ UntilGicdOn => g.distributor = "on"
     /\ host.at \in BootSteps \ (UntilGicdOn \cup {"vgic"}) => g.lr_count > 0

EnabledInv ==
  LET g == host.regs
  IN /\ host.at \in UntilTimers \ {"timers"} => g.enabled = {}
     /\ host.at \in {"timers"} =>
          \E k \in 0 .. BootCores - 1 :
            /\ g.enabled = TimersOf(k)
            /\ IsFiniteSet(Forwarding(g.enabled)) /\ Cardinality(Forwarding(g.enabled)) = k
     /\ host.at \in BootSteps \ UntilTimers => TimersOf(BootCores) \subseteq g.enabled
     /\ host.at \in BootSteps \ (UntilRegister \ {"register"}) => <<0, UART_SPI_INTID>> \in g.enabled
     /\ g.enabled # {} => host.vectors /\ host.stage2 /\ g.virtual /\ g.lr_count > 0
     /\ \A i \in g.enabled : InGroup1(g, i) /\ (i[1] = 0 => i[2] \in g.priority)

CallInv ==
  /\ host.at \in UntilRegister => host.called = {} /\ host.table = {}
  /\ host.at \in BootSteps \ UntilRegister => host.table = 1 .. BootCores
  /\ host.at \in {"call"} => \E k \in 1 .. BootCores - 1 : host.called = 1 .. k
  /\ host.at \in BootSteps \ (UntilRegister \cup {"call"}) => host.called = 1 .. BootCores
  /\ host.called \subseteq host.table
  /\ host.called # {} => host.regs.distributor = "on"

KernelInv ==
  /\ host.at \in UntilPrepare => host.kernel = NewKernel
  /\ host.at \in BootSteps \ UntilPrepare =>
       /\ host.kernel.phase = "ReadyToLaunch" /\ host.kernel.dtb_size > 0
       /\ HeaderParses(host.image) /\ KernelAligned(host.image)

HostInv ==
  HostTypes /\ MapInv /\ FreeInv /\ StageInv /\ RegisterInv /\ EnabledInv /\ CallInv /\ KernelInv

-------------------------------------------------------------------------------

LEMMA ParsedRegions ==
  ASSUME NEW m \in FirmwareMaps
  PROVE  /\ DOMAIN parse_memory_map(m) \subseteq DOMAIN m
         /\ \E n \in Nat : DOMAIN parse_memory_map(m) = 1 .. n
         /\ \A i \in DOMAIN parse_memory_map(m) :
              /\ parse_memory_map(m)[i].kind = KindOf(m[i].type)
              /\ parse_memory_map(m)[i].size = m[i].size /\ m[i].size \in Nat
<1> DEFINE R == [type : STRING, size : Nat]
<1>1. m \in Seq(R) /\ MapCap \in Nat
  BY HostBootAssumption
<1> HIDE DEF R
<1> DEFINE n == IF Len(m) < MapCap THEN Len(m) ELSE MapCap
<1>2. n \in Nat /\ DOMAIN m = 1 .. Len(m) /\ Len(m) \in Nat /\ n <= Len(m)
  BY <1>1
<1>3. parse_memory_map(m) = [i \in 1 .. n |-> [kind |-> KindOf(m[i].type), size |-> m[i].size, at |-> i]]
  BY DEF parse_memory_map
<1> HIDE DEF n
<1>4. ASSUME NEW i \in 1 .. n
      PROVE  i \in DOMAIN m /\ m[i] \in R
  <2>1. i \in 1 .. Len(m)
    BY <1>2
  <2> QED BY <1>1, <1>2, <2>1
<1>5. \A i \in 1 .. n : m[i].size \in Nat
  BY <1>4 DEF R
<1> QED BY <1>2, <1>3, <1>4, <1>5

(* Of finitely many regions one is the largest, and of those the last.     *)
LEMMA LargestExists ==
  ASSUME NEW m \in FirmwareMaps, Conventionals(parse_memory_map(m)) # {}
  PROVE  LargestFree(largest_conventional(parse_memory_map(m)), parse_memory_map(m))
<1> DEFINE map == parse_memory_map(m)
           C == Conventionals(map)
           LargestUpTo(i, k) ==
             /\ i \in C /\ i <= k
             /\ \A j \in C : j <= k =>
                  map[j].size < map[i].size \/ (map[j].size = map[i].size /\ j <= i)
<1>1. PICK n \in Nat : DOMAIN map = 1 .. n
  BY ParsedRegions
<1>2. C \subseteq 1 .. n /\ \A i \in C : map[i].size \in Nat
  BY <1>1, ParsedRegions DEF Conventionals
<1> DEFINE T == {k \in 0 .. n : (\E i \in C : i <= k) /\ ~ \E i \in C : LargestUpTo(i, k)}
<1> HIDE DEF map, C
<1>3. T = {}
  <2>1. SUFFICES ASSUME T # {} PROVE FALSE
    OBVIOUS
  <2>2. PICK k \in T : \A y \in T : k <= y
    BY <2>1, LeastOf, T \subseteq Nat
  <2>3. k \in Nat /\ k <= n
    OBVIOUS
  <2>4. PICK a \in C : a <= k
    OBVIOUS
  <2>5. k >= 1
    BY <1>2, <2>3, <2>4
  <2>6. k - 1 \notin T /\ k - 1 \in 0 .. n
    BY <1>1, <2>2, <2>3, <2>5
  <2>7. CASE k \notin C
    <3>1. \A j \in C : j <= k => j <= k - 1
      BY <1>2, <2>3, <2>7
    <3>2. PICK i \in C : LargestUpTo(i, k - 1)
      BY <2>4, <2>6, <3>1
    <3>3. LargestUpTo(i, k)
      BY <1>2, <2>3, <3>1, <3>2
    <3> QED BY <3>3
  <2>8. CASE k \in C
    <3>1. CASE \A j \in C : ~ j <= k - 1
      <4>1. \A j \in C : j <= k => j = k
        BY <1>2, <2>3, <3>1
      <4>2. LargestUpTo(k, k)
        BY <1>2, <2>3, <2>8, <4>1
      <4> QED BY <2>8, <4>2
    <3>2. CASE \E j \in C : j <= k - 1
      <4>1. PICK i \in C : LargestUpTo(i, k - 1)
        BY <2>6, <3>2
      <4>2. \A j \in C : j <= k => j <= k - 1 \/ j = k
        BY <1>2, <2>3
      <4>3. map[i].size \in Nat /\ map[k].size \in Nat /\ i \in Nat /\ i <= k - 1
        BY <1>2, <2>8, <4>1
      <4>4. CASE map[i].size <= map[k].size
        <5>1. LargestUpTo(k, k)
          BY <1>2, <2>3, <2>8, <4>1, <4>2, <4>3, <4>4
        <5> QED BY <2>8, <5>1
      <4>5. CASE map[k].size < map[i].size
        <5>1. LargestUpTo(i, k)
          BY <1>2, <2>3, <4>1, <4>2, <4>3, <4>5
        <5> QED BY <5>1
      <4> QED BY <4>3, <4>4, <4>5
    <3> QED BY <3>1, <3>2
  <2> QED BY <2>7, <2>8
<1>4. C # {}
  BY DEF C, map
<1>5. \E i \in C : i <= n
  <2>1. PICK i \in C : TRUE
    BY <1>4
  <2>2. i \in 1 .. n
    BY <1>2
  <2> QED BY <2>2
<1>6. \E i \in C : LargestUpTo(i, n)
  BY <1>1, <1>3, <1>5
<1>7. \E i \in C : \A j \in C : map[j].size < map[i].size \/ (map[j].size = map[i].size /\ j <= i)
  <2>1. PICK i \in C : LargestUpTo(i, n)
    BY <1>6
  <2>2. \A j \in C : j <= n
    BY <1>2
  <2>3. \A j \in C : map[j].size < map[i].size \/ (map[j].size = map[i].size /\ j <= i)
    BY <2>1, <2>2
  <2> QED BY <2>3
<1>8. /\ largest_conventional(map) \in C
      /\ \A j \in C : \/ map[j].size < map[largest_conventional(map)].size
                     \/ map[j].size = map[largest_conventional(map)].size
  BY <1>7 DEF largest_conventional, C
<1>9. ASSUME NEW j \in C PROVE map[j].size <= map[largest_conventional(map)].size
  <2>1. map[j].size \in Nat /\ map[largest_conventional(map)].size \in Nat
    BY <1>2, <1>8
  <2> QED BY <1>8, <2>1
<1> QED BY <1>8, <1>9 DEF LargestFree, C, map

-------------------------------------------------------------------------------

USE DEF BootSteps, UntilPrepare, UntilRegister, UntilTimers, UntilGicdOn, UntilWake, UntilVirt,
        UntilMap, UntilExit

LEMMA HostStarts == HostBootInit => HostInv
<1> SUFFICES ASSUME NEW b \in Boots, HostBootOf(b) PROVE HostInv
  BY DEF HostBootInit
<1>1. fw = [map |-> CHOOSE m \in FirmwareMaps : TRUE, key |-> 0, running |-> TRUE]
  BY DEF HostBootOf
<1>2. (CHOOSE m \in FirmwareMaps : TRUE) \in FirmwareMaps
  BY HostBootAssumption
<1>3. QemuGic \in GicAddresses /\ 25 \in MaintValues /\ << >> \in ParsedMaps
  BY DEF GicAddresses, MaintValues, ParsedMaps
<1>4. NewGic \in GicRegisters
  BY <1>3 DEF NewGic, GicRegisters
<1>5. NewKernel \in Kernels
  BY DEF NewKernel, Kernels
<1>6. host.at = "entry" /\ host.map = << >> /\ host.region = 0 /\ host.pages = 0 /\ host.regs = NewGic
      /\ host.called = {} /\ host.table = {} /\ host.kernel = NewKernel
  BY DEF HostBootOf
<1>7. host \in HostRecords
  BY <1>3, <1>4, <1>5 DEF HostBootOf, HostRecords, Boots
<1>8. HostTypes
  BY <1>1, <1>2, <1>7 DEF HostTypes
<1>9. MapInv /\ FreeInv /\ StageInv
  BY <1>1, <1>6 DEF MapInv, FreeInv, StageInv
<1>10. RegisterInv /\ EnabledInv /\ CallInv /\ KernelInv
  BY <1>6 DEF NewGic, RegisterInv, EnabledInv, CallInv, KernelInv
<1> QED BY <1>8, <1>9, <1>10 DEF HostInv

(* A step that stops the boot leaves everything else as it is.             *)
LEMMA HaltKeeps ==
  ASSUME HostInv, HaltsHere
  PROVE  HostInv'
<1> USE DEF HostInv
<1>1. fw' = fw /\ host' = [host EXCEPT !.at = "halted"]
  BY DEF HaltsHere, Goes
<1>2. HostTypes'
  BY <1>1 DEF HostTypes, HostRecords
<1>3. /\ host'.at = "halted" /\ host'.map = host.map /\ host'.region = host.region /\ host'.pages = host.pages
      /\ host'.regs = host.regs /\ host'.called = host.called /\ host'.table = host.table
      /\ host'.vectors = host.vectors /\ host'.stage2 = host.stage2
  BY <1>1 DEF HostTypes, HostRecords
<1>4. MapInv' /\ FreeInv' /\ StageInv'
  BY <1>1, <1>3 DEF MapInv, FreeInv, StageInv
<1>5. RegisterInv' /\ CallInv' /\ KernelInv'
  BY <1>3 DEF RegisterInv, CallInv, KernelInv
<1>6. EnabledInv'
  BY <1>3 DEF EnabledInv
<1> QED BY <1>2, <1>4, <1>5, <1>6

(* Until the devices are set up: what a step leaves alone.                 *)
SameDevices ==
  /\ host'.regs = host.regs /\ host'.called = host.called /\ host'.table = host.table
  /\ host'.kernel = host.kernel /\ host'.image = host.image

LEMMA DevicesLater ==
  ASSUME HostInv, SameDevices, host.at \in UntilVirt, host'.at \in UntilVirt \cup {"discover"},
         host'.vectors = host.vectors \/ host'.vectors, host'.stage2 = host.stage2
  PROVE  RegisterInv' /\ EnabledInv' /\ CallInv' /\ KernelInv'
<1> USE DEF HostInv, SameDevices
<1>a. /\ host.at \in UntilWake \ {"wake"} /\ host.at \in UntilGicdOn /\ host.at \in UntilTimers \ {"timers"}
      /\ host.at \in UntilRegister /\ host.at \in UntilPrepare
  OBVIOUS
<1>b. /\ host'.at \notin {"wake"} \cup (BootSteps \ UntilWake) /\ host'.at \notin BootSteps \ (UntilWake \cup {"icc"})
      /\ host'.at \notin BootSteps \ (UntilGicdOn \ {"gicd on"}) /\ host'.at \notin BootSteps \ UntilGicdOn
      /\ host'.at \notin BootSteps \ (UntilGicdOn \cup {"vgic"})
  OBVIOUS
<1>c. /\ host'.at \notin {"timers"} \cup (BootSteps \ UntilTimers)
      /\ host'.at \notin BootSteps \ (UntilRegister \ {"register"})
      /\ host'.at \notin {"call"} \cup (BootSteps \ UntilRegister)
      /\ host'.at \notin BootSteps \ (UntilRegister \cup {"call"}) /\ host'.at \notin BootSteps \ UntilPrepare
  OBVIOUS
<1> HIDE DEF BootSteps, UntilPrepare, UntilRegister, UntilTimers, UntilGicdOn, UntilWake, UntilVirt,
           UntilMap, UntilExit
<1>1. RegisterInv'
  BY <1>a, <1>b DEF RegisterInv
<1>2. EnabledInv'
  BY <1>a, <1>c DEF EnabledInv
<1>3. CallInv' /\ KernelInv'
  BY <1>a, <1>c DEF CallInv, KernelInv
<1> QED BY <1>1, <1>2, <1>3

LEMMA FirmwareSteps ==
  ASSUME HostInv, \/ firmware_map_changes \/ firmware_fails \/ efi_main
                  \/ get_memory_map \/ exit_boot_services
  PROVE  HostInv'
<1> USE DEF HostInv
<1>1. CASE firmware_map_changes
  <2> HIDE DEF BootSteps, UntilPrepare, UntilRegister, UntilTimers, UntilGicdOn, UntilWake, UntilVirt,
           UntilMap, UntilExit
  <2>1. host' = host /\ fw.running
    BY <1>1 DEF firmware_map_changes
  <2>2. PICK m \in FirmwareMaps : fw' = [fw EXCEPT !.map = m, !.key = @ + 1]
    BY <1>1 DEF firmware_map_changes
  <2>k. fw.key \in Nat /\ host.key \in Nat
    BY DEF HostTypes, HostRecords
  <2>a. fw' = [map |-> m, key |-> fw.key + 1, running |-> fw.running]
    BY <2>2 DEF HostTypes
  <2>3. HostTypes'
    <3>1. fw.running \in BOOLEAN /\ fw.key + 1 \in Nat
      BY <2>k DEF HostTypes
    <3>2. fw' \in [map : FirmwareMaps, key : Nat, running : BOOLEAN]
      BY <2>a, <3>1
    <3> QED BY <2>1, <3>2 DEF HostTypes
  <2>c. (host'.key # fw'.key /\ host'.key <= fw'.key) \/ host.at # "exit"
    BY <2>1, <2>a, <2>k DEF MapInv
  <2>4. MapInv'
    BY <2>1, <2>a, <2>c DEF MapInv
  <2>5. FreeInv' /\ StageInv'
    BY <2>1 DEF FreeInv, StageInv
  <2>6. RegisterInv'
    BY <2>1 DEF RegisterInv
  <2>7. EnabledInv'
    BY <2>1 DEF EnabledInv
  <2>8. CallInv' /\ KernelInv'
    BY <2>1 DEF CallInv, KernelInv
  <2> QED BY <2>3, <2>4, <2>5, <2>6, <2>7, <2>8
<1>2. CASE firmware_fails
  BY <1>2, HaltKeeps DEF firmware_fails
<1>3. CASE efi_main
  <2>1. CASE host.el # 2
    BY <1>3, <2>1, HaltKeeps DEF efi_main
  <2>2. CASE host.el = 2
    <3>1. fw' = fw /\ At("entry")
          /\ host' = [host EXCEPT !.at = "get_map", !.rsdp = find_acpi_rsdp(host.tables)]
      BY <1>3, <2>2 DEF efi_main, Goes
    <3>2. find_acpi_rsdp(host.tables) \in BOOLEAN
      BY DEF find_acpi_rsdp
    <3>3. HostTypes'
      BY <3>1, <3>2 DEF HostTypes, HostRecords
    <3>4. MapInv' /\ FreeInv' /\ StageInv'
      BY <2>2, <3>1 DEF MapInv, FreeInv, StageInv, HostTypes, HostRecords, At
    <3>5. SameDevices /\ host'.at = "get_map" /\ host'.vectors = host.vectors /\ host'.stage2 = host.stage2
      BY <3>1 DEF SameDevices, HostTypes, HostRecords
    <3> QED BY <3>1, <3>3, <3>4, <3>5, DevicesLater DEF At
  <2> QED BY <2>1, <2>2
<1>4. CASE get_memory_map
  <2>1. CASE Len(fw.map) > BufferCap
    BY <1>4, <2>1, HaltKeeps DEF get_memory_map
  <2>2. CASE ~ Len(fw.map) > BufferCap
    <3>1. fw' = fw /\ At("get_map") /\ host' = [host EXCEPT !.at = "exit", !.buffer = fw.map, !.key = fw.key]
      BY <1>4, <2>2 DEF get_memory_map, Goes
    <3>3. HostTypes'
      BY <3>1 DEF HostTypes, HostRecords
    <3>5. SameDevices /\ host'.at = "exit" /\ host'.vectors = host.vectors /\ host'.stage2 = host.stage2
      BY <3>1 DEF SameDevices, HostTypes, HostRecords
    <3>6. /\ host'.map = host.map /\ host'.region = host.region /\ host'.pages = host.pages
          /\ host'.buffer = fw.map /\ host'.key = fw.key /\ fw.key \in Nat /\ host'.el = host.el
      BY <3>1 DEF HostTypes, HostRecords
    <3>4. MapInv' /\ FreeInv' /\ StageInv'
      BY <3>1, <3>5, <3>6 DEF MapInv, FreeInv, StageInv, At
    <3> QED BY <3>1, <3>3, <3>4, <3>5, DevicesLater DEF At
  <2> QED BY <2>1, <2>2
<1>5. CASE exit_boot_services
  <2>1. CASE host.key # fw.key
    <3>1. fw' = fw /\ At("exit") /\ host' = [host EXCEPT !.at = "get_map"]
      BY <1>5, <2>1 DEF exit_boot_services, Goes, Retry
    <3>3. HostTypes'
      BY <3>1 DEF HostTypes, HostRecords
    <3>4. MapInv' /\ FreeInv' /\ StageInv'
      BY <3>1 DEF MapInv, FreeInv, StageInv, HostTypes, HostRecords, At
    <3>5. SameDevices /\ host'.at = "get_map" /\ host'.vectors = host.vectors /\ host'.stage2 = host.stage2
      BY <3>1 DEF SameDevices, HostTypes, HostRecords
    <3> QED BY <3>1, <3>3, <3>4, <3>5, DevicesLater DEF At
  <2>2. CASE host.key = fw.key
    <3>1. /\ fw' = [fw EXCEPT !.running = FALSE] /\ At("exit")
          /\ host' = [host EXCEPT !.at = "map", !.map = parse_memory_map(host.buffer)]
      BY <1>5, <2>2 DEF exit_boot_services
    <3>2. host.buffer = fw.map /\ fw.map \in FirmwareMaps
      BY <2>2, <3>1 DEF MapInv, HostTypes, At
    <3>a. parse_memory_map(host.buffer) \in ParsedMaps
      BY <3>2 DEF ParsedMaps
    <3>3. HostTypes'
      BY <3>1, <3>a DEF HostTypes, HostRecords
    <3>b. /\ host'.at = "map" /\ host'.map = parse_memory_map(fw.map) /\ fw'.map = fw.map
          /\ ~ fw'.running /\ host'.region = host.region /\ host'.pages = host.pages
          /\ host'.el = host.el
      BY <3>1, <3>2 DEF HostTypes, HostRecords
    <3>c. host.region = 0 /\ host.pages = 0 /\ host.el = 2
      BY <3>1 DEF FreeInv, StageInv, At
    <3>d. MapInv'
      BY <3>b DEF MapInv
    <3>e. FreeInv'
      BY <3>b, <3>c DEF FreeInv
    <3>4. StageInv'
      BY <3>b, <3>c DEF StageInv
    <3>5. SameDevices /\ host'.at = "map" /\ host'.vectors = host.vectors /\ host'.stage2 = host.stage2
      BY <3>1 DEF SameDevices, HostTypes, HostRecords
    <3> QED BY <3>1, <3>3, <3>d, <3>e, <3>4, <3>5, DevicesLater DEF At
  <2> QED BY <2>1, <2>2
<1> QED BY <1>1, <1>2, <1>3, <1>4, <1>5

(* Pages taken from the region: a step that fits it.                       *)
LEMMA MemorySteps ==
  ASSUME HostInv, choose_region \/ stage2_root \/ map_ram \/ map_devices
  PROVE  HostInv'
<1> USE DEF HostInv
<1>s. host.map \in ParsedMaps /\ host.pages \in Nat /\ host.region \in Nat
  BY DEF HostTypes, HostRecords
<1>p. TablePages.root \in Nat /\ TablePages.ram \in Nat /\ TablePages.gic \in Nat
  BY HostBootAssumption
<1>r. host.at \notin UntilMap /\ host.at \in BootSteps =>
        /\ host.region # 0 /\ host.map # << >> /\ LargestFree(host.region, host.map)
        /\ host.region \in DOMAIN host.map /\ host.map[host.region].size \in Nat
  <2>1. SUFFICES ASSUME host.at \notin UntilMap, host.at \in BootSteps
                 PROVE  /\ host.region # 0 /\ host.map # << >> /\ LargestFree(host.region, host.map)
                        /\ host.region \in DOMAIN host.map /\ host.map[host.region].size \in Nat
    OBVIOUS
  <2>2. host.region # 0 /\ host.map # << >> /\ LargestFree(host.region, host.map)
    BY <2>1 DEF FreeInv
  <2>3. host.region \in DOMAIN host.map
    BY <2>2 DEF LargestFree, Conventionals
  <2>4. host.map = parse_memory_map(fw.map) /\ fw.map \in FirmwareMaps
    BY <2>2 DEF MapInv, HostTypes
  <2>5. host.map[host.region].size \in Nat
    BY <2>3, <2>4, ParsedRegions
  <2> QED BY <2>2, <2>3, <2>5
<1>1. CASE choose_region
  <2>1. CASE Conventionals(host.map) = {}
    BY <1>1, <2>1, HaltKeeps DEF choose_region
  <2>2. CASE Conventionals(host.map) # {}
    <3> DEFINE r == largest_conventional(host.map)
    <3>1. fw' = fw /\ At("map") /\ host' = [host EXCEPT !.at = "root", !.region = r]
      BY <1>1, <2>2 DEF choose_region, Goes
    <3>2. host.map = parse_memory_map(fw.map) /\ fw.map \in FirmwareMaps /\ host.region = 0 /\ host.pages = 0
      BY <3>1 DEF MapInv, FreeInv, HostTypes, At
    <3>3. LargestFree(r, host.map)
      BY <2>2, <3>2, LargestExists
    <3> HIDE DEF r
    <3>4. r \in DOMAIN host.map
      BY <3>3 DEF LargestFree, Conventionals
    <3>5. PICK n \in Nat : DOMAIN host.map = 1 .. n
      BY <3>2, ParsedRegions
    <3>6. r \in Nat /\ r # 0 /\ host.map[r].size \in Nat
      BY <3>2, <3>4, <3>5, ParsedRegions
    <3>7. HostTypes'
      BY <3>1, <3>6 DEF HostTypes, HostRecords
    <3>8. SameDevices /\ host'.at = "root" /\ host'.vectors = host.vectors /\ host'.stage2 = host.stage2
      BY <3>1 DEF SameDevices, HostTypes, HostRecords
    <3>9. host'.map = host.map /\ host'.region = r /\ host'.pages = host.pages /\ host'.el = host.el
      BY <3>1 DEF HostTypes, HostRecords
    <3>a. host.map # << >>
      BY <3>4
    <3>10. MapInv' /\ StageInv'
      BY <3>1, <3>8, <3>9 DEF MapInv, StageInv, At
    <3>b. host'.at \notin UntilMap /\ 0 <= host.map[r].size
      BY <3>6, <3>8
    <3>c. LargestFree(host'.region, host'.map) /\ host'.pages <= host'.map[host'.region].size
      BY <3>2, <3>3, <3>9, <3>b
    <3>11. FreeInv'
      BY <3>6, <3>9, <3>a, <3>b, <3>c DEF FreeInv
    <3> QED BY <3>1, <3>7, <3>8, <3>10, <3>11, DevicesLater DEF At
  <2> QED BY <2>1, <2>2
<1>2. CASE stage2_root
  <2>1. CASE ~ Room(TablePages.root)
    BY <1>2, <2>1, HaltKeeps DEF stage2_root
  <2>2. CASE Room(TablePages.root)
    <3>1. fw' = fw /\ At("root") /\ host' = [host EXCEPT !.at = "ram", !.pages = @ + TablePages.root]
      BY <1>2, <2>2 DEF stage2_root, Goes
    <3>2. host.pages + TablePages.root \in Nat
      BY <1>s, <1>p
    <3>3. HostTypes'
      BY <3>1, <3>2 DEF HostTypes, HostRecords
    <3>4. SameDevices /\ host'.at = "ram" /\ host'.vectors = host.vectors /\ host'.stage2 = host.stage2
      BY <3>1 DEF SameDevices, HostTypes, HostRecords
    <3>5. /\ host'.map = host.map /\ host'.region = host.region /\ host'.el = host.el
          /\ host'.pages = host.pages + TablePages.root /\ host'.mapped = host.mapped
      BY <3>1 DEF HostTypes, HostRecords
    <3>6. MapInv' /\ StageInv'
      BY <3>1, <3>4, <3>5 DEF MapInv, StageInv, At
    <3>7. FreeInv'
      BY <1>r, <2>2, <3>1, <3>4, <3>5 DEF FreeInv, At, Room
    <3> QED BY <3>1, <3>3, <3>4, <3>6, <3>7, DevicesLater DEF At
  <2> QED BY <2>1, <2>2
<1>3. CASE map_ram
  <2>1. CASE ~ Room(TablePages.ram)
    BY <1>3, <2>1, HaltKeeps DEF map_ram
  <2>2. CASE Room(TablePages.ram)
    <3>1. fw' = fw /\ At("ram") /\ host' = [host EXCEPT !.at = "gic_map", !.pages = @ + TablePages.ram,
                                                       !.mapped = @ \cup {"ram"}]
      BY <1>3, <2>2 DEF map_ram, Goes, MapsInto
    <3>2. host.pages + TablePages.ram \in Nat
      BY <1>s, <1>p
    <3>a. host.mapped \cup {"ram"} \in SUBSET {"ram", "devices"}
      BY DEF HostTypes, HostRecords
    <3>3. HostTypes'
      BY <3>1, <3>2, <3>a DEF HostTypes, HostRecords
    <3>4. SameDevices /\ host'.at = "gic_map" /\ host'.vectors = host.vectors /\ host'.stage2 = host.stage2
      BY <3>1 DEF SameDevices, HostTypes, HostRecords
    <3>5. /\ host'.map = host.map /\ host'.region = host.region /\ host'.el = host.el
          /\ host'.pages = host.pages + TablePages.ram /\ "ram" \in host'.mapped
      BY <3>1 DEF HostTypes, HostRecords
    <3>6. MapInv' /\ StageInv'
      BY <3>1, <3>4, <3>5 DEF MapInv, StageInv, At
    <3>7. FreeInv'
      BY <1>r, <2>2, <3>1, <3>4, <3>5 DEF FreeInv, At, Room
    <3> QED BY <3>1, <3>3, <3>4, <3>6, <3>7, DevicesLater DEF At
  <2> QED BY <2>1, <2>2
<1>4. CASE map_devices
  <2>0. At("gic_map") /\ fw' = fw
    BY <1>4 DEF map_devices, Goes
  <2> DEFINE pages == IF Room(TablePages.gic) THEN host.pages + TablePages.gic ELSE host.map[host.region].size
             mapped == IF Room(TablePages.gic) THEN host.mapped \cup {"devices"} ELSE host.mapped
  <2>1. host' = [host EXCEPT !.at = "vectors", !.pages = pages, !.mapped = mapped]
    <3>1. CASE Room(TablePages.gic)
      BY <1>4, <3>1 DEF map_devices, Goes, MapsInto
    <3>2. CASE ~ Room(TablePages.gic)
      BY <1>4, <3>2 DEF map_devices, Goes, MapsInto, HostTypes, HostRecords
    <3> QED BY <3>1, <3>2
  <2>2. pages \in Nat /\ pages <= host.map[host.region].size
    BY <1>s, <1>p, <1>r, <2>0 DEF At, Room
  <2>3. mapped \in SUBSET {"ram", "devices"} /\ "ram" \in mapped
    BY <2>0 DEF At, StageInv, HostTypes, HostRecords
  <2> HIDE DEF pages, mapped
  <2>4. HostTypes'
    BY <2>0, <2>1, <2>2, <2>3 DEF HostTypes, HostRecords
  <2>5. SameDevices /\ host'.at = "vectors" /\ host'.vectors = host.vectors /\ host'.stage2 = host.stage2
    BY <2>1 DEF SameDevices, HostTypes, HostRecords
  <2>6. /\ host'.map = host.map /\ host'.region = host.region /\ host'.el = host.el
        /\ host'.pages = pages /\ host'.mapped = mapped
    BY <2>1 DEF HostTypes, HostRecords
  <2>7. MapInv' /\ StageInv'
    BY <2>0, <2>3, <2>5, <2>6 DEF MapInv, StageInv, At
  <2>8. FreeInv'
    BY <1>r, <2>0, <2>2, <2>5, <2>6 DEF FreeInv, At
  <2> QED BY <2>0, <2>4, <2>5, <2>7, <2>8, DevicesLater DEF At
<1> QED BY <1>1, <1>2, <1>3, <1>4

(* What the rest of the boot leaves alone: map, region and pages.          *)
LEMMA MemoryStays ==
  ASSUME HostInv, fw' = fw, host.at \in BootSteps \ UntilMap, host'.at \in BootSteps \ UntilMap,
         host'.map = host.map, host'.region = host.region, host'.pages = host.pages
  PROVE  MapInv' /\ FreeInv'
BY DEF HostInv, MapInv, FreeInv

LEMMA VirtualisationSteps ==
  ASSUME HostInv, install_vectors \/ configure_el2_virt \/ discover_gic
  PROVE  HostInv'
<1> USE DEF HostInv
<1>1. CASE install_vectors
  <2>1. fw' = fw /\ At("vectors") /\ host' = [host EXCEPT !.at = "virt", !.vectors = TRUE]
    BY <1>1 DEF install_vectors, Goes
  <2>2. HostTypes'
    BY <2>1 DEF HostTypes, HostRecords
  <2>3. /\ SameDevices /\ host'.at = "virt" /\ host'.vectors /\ host'.stage2 = host.stage2
        /\ host'.map = host.map /\ host'.region = host.region /\ host'.pages = host.pages
        /\ host'.el = host.el /\ host'.mapped = host.mapped
    BY <2>1 DEF SameDevices, HostTypes, HostRecords
  <2>4. MapInv' /\ FreeInv'
    BY <2>1, <2>3, MemoryStays DEF At
  <2>5. StageInv'
    BY <2>1, <2>3 DEF StageInv, At
  <2> QED BY <2>1, <2>2, <2>3, <2>4, <2>5, DevicesLater DEF At
<1>2. CASE configure_el2_virt
  <2> DEFINE regs == [host.regs EXCEPT !.virtual = TRUE]
  <2>1. /\ fw' = fw /\ At("virt")
        /\ host' = [host EXCEPT !.at = "discover", !.stage2 = TRUE, !.regs.virtual = TRUE]
    BY <1>2 DEF configure_el2_virt, Goes
  <2>2. host.regs \in GicRegisters
    BY DEF HostTypes, HostRecords
  <2>3. /\ regs \in GicRegisters /\ regs.asked = host.regs.asked /\ regs.group1 = host.regs.group1
        /\ regs.priority = host.regs.priority /\ regs.enabled = host.regs.enabled
        /\ regs.distributor = host.regs.distributor /\ regs.virtual
    BY <2>2 DEF GicRegisters
  <2>a. host' = [host EXCEPT !.at = "discover", !.stage2 = TRUE, !.regs = regs]
    BY <2>1 DEF HostTypes, HostRecords
  <2> HIDE DEF regs
  <2>b. fw' = fw
    BY <2>1
  <2>4. HostTypes'
    BY <2>a, <2>b, <2>3 DEF HostTypes, HostRecords
  <2>5. /\ host'.at = "discover" /\ host'.vectors = host.vectors /\ host'.stage2 /\ host'.regs = regs
        /\ host'.map = host.map /\ host'.region = host.region /\ host'.pages = host.pages
        /\ host'.el = host.el /\ host'.mapped = host.mapped /\ host'.called = host.called
        /\ host'.table = host.table /\ host'.kernel = host.kernel
    BY <2>a DEF HostTypes, HostRecords
  <2>6. MapInv' /\ FreeInv'
    BY <2>1, <2>5, MemoryStays DEF At
  <2>7. StageInv'
    BY <2>1, <2>3, <2>5 DEF StageInv, At
  <2>8. regs.asked = {} /\ regs.enabled = {} /\ regs.distributor # "on" /\ host.called = {} /\ host.table = {}
        /\ host.kernel = NewKernel
    BY <2>1, <2>3 DEF RegisterInv, EnabledInv, CallInv, KernelInv, At
  <2>9. RegisterInv' /\ EnabledInv'
    BY <2>5, <2>8 DEF RegisterInv, EnabledInv
  <2>10. CallInv' /\ KernelInv'
    BY <2>5, <2>8 DEF CallInv, KernelInv
  <2> QED BY <2>4, <2>6, <2>7, <2>9, <2>10
<1>3. CASE discover_gic
  <2> DEFINE gic == discover_gic_addresses(host.rsdp, host.xsdt)
  <2>1. /\ fw' = fw /\ At("discover") /\ host' = [host EXCEPT !.at = "wake", !.gic = gic]
    BY <1>3 DEF discover_gic, Goes
  <2>a. host.rsdp \in BOOLEAN /\ host.xsdt \in Xsdts
    BY DEF HostTypes, HostRecords
  <2>2. gic \in GicAddresses
    BY <2>a DEF GicAddresses
  <2> HIDE DEF gic
  <2>3. HostTypes'
    BY <2>1, <2>2 DEF HostTypes, HostRecords
  <2>4. /\ host'.at = "wake" /\ host'.vectors = host.vectors /\ host'.stage2 = host.stage2
        /\ host'.regs = host.regs
        /\ host'.map = host.map /\ host'.region = host.region /\ host'.pages = host.pages
        /\ host'.el = host.el /\ host'.mapped = host.mapped /\ host'.called = host.called
        /\ host'.table = host.table /\ host'.kernel = host.kernel
    BY <2>1 DEF HostTypes, HostRecords
  <2>5. MapInv' /\ FreeInv'
    BY <2>1, <2>4, MemoryStays DEF At
  <2>6. StageInv'
    BY <2>1, <2>4 DEF StageInv, At
  <2>7. /\ host.regs.asked = {} /\ host.regs.enabled = {} /\ host.regs.distributor # "on"
        /\ host.called = {} /\ host.table = {} /\ host.kernel = NewKernel
    BY <2>1 DEF RegisterInv, EnabledInv, CallInv, KernelInv, At
  <2>b. 0 \in 0 .. BootCores - 1 /\ 1 .. 0 = {}
    BY GicBootAssumption
  <2>c. \E k \in 0 .. BootCores - 1 : host.regs.asked = 1 .. k
    BY <2>7, <2>b
  <2>8. RegisterInv'
    BY <2>4, <2>7, <2>c DEF RegisterInv
  <2>9. EnabledInv'
    BY <2>4, <2>7 DEF EnabledInv
  <2>10. CallInv' /\ KernelInv'
    BY <2>4, <2>7 DEF CallInv, KernelInv
  <2> QED BY <2>3, <2>5, <2>6, <2>8, <2>9, <2>10
<1> QED BY <1>1, <1>2, <1>3

(* The steps that write the interrupt controller alone.                    *)
LEMMA RegsFrame ==
  ASSUME HostInv, NEW next \in (UntilRegister \ UntilVirt) \ {"discover"}, NEW regs \in GicRegisters,
         host.at \in (UntilRegister \ UntilVirt) \ {"discover"},
         RegsGo(next, regs), regs.virtual = host.regs.virtual
  PROVE  /\ HostTypes' /\ MapInv' /\ FreeInv' /\ StageInv' /\ CallInv' /\ KernelInv'
         /\ host'.at = next /\ host'.regs = regs /\ host'.vectors /\ host'.stage2 /\ regs.virtual
<1> USE DEF HostInv
<1>1. fw' = fw /\ host' = [host EXCEPT !.at = next, !.regs = regs]
  BY DEF RegsGo, Goes
<1>a. next \in BootSteps \cup {"halted"}
  OBVIOUS
<1>2. HostTypes'
  <2> HIDE DEF BootSteps, GicRegisters
  <2>1. host' \in HostRecords
    BY <1>1, <1>a DEF HostTypes, HostRecords
  <2> QED BY <1>1, <2>1 DEF HostTypes
<1>3. /\ host'.at = next /\ host'.vectors = host.vectors /\ host'.stage2 = host.stage2 /\ host'.regs = regs
      /\ host'.map = host.map /\ host'.region = host.region /\ host'.pages = host.pages
      /\ host'.el = host.el /\ host'.mapped = host.mapped /\ host'.called = host.called
      /\ host'.table = host.table /\ host'.kernel = host.kernel
  BY <1>1 DEF HostTypes, HostRecords
<1>4. MapInv' /\ FreeInv'
  BY <1>1, <1>3, MemoryStays
<1>5. StageInv' /\ host.vectors /\ host.stage2 /\ host.regs.virtual
  BY <1>3 DEF StageInv
<1>6. CallInv' /\ KernelInv'
  BY <1>3 DEF CallInv, KernelInv
<1> QED BY <1>2, <1>3, <1>4, <1>5, <1>6

LEMMA CoreOf ==
  ASSUME NEW k \in Nat
  PROVE  Core(1 .. k) = k + 1
<1>1. Cardinality(1 .. k) = IF 1 > k THEN 0 ELSE k - 1 + 1
  BY FS_Interval
<1>2. Cardinality(1 .. k) = k
  BY <1>1
<1> QED BY <1>2 DEF Core

LEMMA ControllerSteps ==
  ASSUME HostInv, \/ wake_redistributor \/ boot_cpu_interface \/ disable_distributor
                  \/ group_shared \/ enable_distributor \/ aether_vgic_init
  PROVE  HostInv'
<1> USE DEF HostInv
<1> DEFINE g == host.regs
<1>g. g \in GicRegisters
  BY DEF HostTypes, HostRecords
<1>b. BootCores \in Nat \ {0, 1} /\ ItLines \in Nat \ {0} /\ ListRegisters \in Nat \ {0}
  BY GicBootAssumption, HostBootAssumption
<1>1. CASE wake_redistributor
  <2>1. PICK k \in 0 .. BootCores - 1 : g.asked = 1 .. k
    BY <1>1 DEF wake_redistributor, At, RegisterInv
  <2> DEFINE c == k + 1
             next == IF c < BootCores THEN "wake" ELSE "icc"
  <2>2. Core(g.asked) = c /\ c \in Nat /\ c \in 1 .. BootCores
    BY <1>b, <2>1, CoreOf
  <2>3. PICK answers \in BOOLEAN : RegsGo(next, wake_gicr(g, c, answers))
    BY <1>1, <2>2 DEF wake_redistributor
  <2> DEFINE regs == wake_gicr(g, c, answers)
  <2>4. /\ regs.asked = g.asked \cup {c} /\ regs.group1 = g.group1 \cup {<<c, 0>>}
        /\ regs.enabled = g.enabled /\ regs.distributor = g.distributor /\ regs.virtual = g.virtual
    BY <1>g DEF wake_gicr, GicRegisters
  <2>a. {c} \in SUBSET Nat /\ {<<c, 0>>} \in SUBSET (Nat \X Nat)
    BY <2>2
  <2>b. regs = [g EXCEPT !.asked = g.asked \cup {c}, !.group1 = g.group1 \cup {<<c, 0>>},
                         !.gaveUp = IF answers THEN g.gaveUp ELSE g.gaveUp \cup {c}]
    BY <1>g DEF wake_gicr, GicRegisters
  <2>c. (IF answers THEN g.gaveUp ELSE g.gaveUp \cup {c}) \in SUBSET Nat
    BY <1>g, <2>a DEF GicRegisters
  <2>5. regs \in GicRegisters
    <3> HIDE DEF regs, c
    <3> QED BY <1>g, <2>a, <2>b, <2>c DEF GicRegisters
  <2> HIDE DEF regs
  <2>6. g.asked \cup {c} = 1 .. c
    BY <1>b, <2>1
  <2>7. At("wake")
    BY <1>1 DEF wake_redistributor
  <2>8. /\ HostTypes' /\ MapInv' /\ FreeInv' /\ StageInv' /\ CallInv' /\ KernelInv'
        /\ host'.at = next /\ host'.regs = regs
    BY <2>3, <2>4, <2>5, <2>7, RegsFrame DEF At, regs
  <2>9. /\ g.enabled = {} /\ g.distributor # "on" /\ \A d \in g.asked : <<d, 0>> \in g.group1
    BY <2>7 DEF EnabledInv, RegisterInv, At
  <2>10. next = "wake" => \E i \in 0 .. BootCores - 1 : regs.asked = 1 .. i
    BY <1>b, <2>2, <2>4, <2>6
  <2>11. next = "icc" => regs.asked = 1 .. BootCores
    BY <1>b, <2>2, <2>4, <2>6
  <2>12. next \in {"wake", "icc"}
    OBVIOUS
  <2> HIDE DEF next
  <2>13. RegisterInv'
    BY <2>4, <2>8, <2>9, <2>10, <2>11, <2>12 DEF RegisterInv
  <2>14. EnabledInv'
    BY <2>4, <2>8, <2>9, <2>12 DEF EnabledInv
  <2> QED BY <2>8, <2>13, <2>14
<1>2. CASE boot_cpu_interface
  <2> DEFINE regs == init_icc(g)
  <2>1. At("icc") /\ RegsGo("gicd off", regs)
    BY <1>2 DEF boot_cpu_interface
  <2>2. /\ regs \in GicRegisters /\ regs.interface
        /\ regs.asked = g.asked /\ regs.group1 = g.group1
        /\ regs.enabled = g.enabled /\ regs.distributor = g.distributor /\ regs.virtual = g.virtual
    BY <1>g DEF init_icc, init_cpu_interface, enable_sre_el2, GicRegisters
  <2> HIDE DEF regs
  <2>3. /\ HostTypes' /\ MapInv' /\ FreeInv' /\ StageInv' /\ CallInv' /\ KernelInv'
        /\ host'.at = "gicd off" /\ host'.regs = regs
    BY <2>1, <2>2, RegsFrame DEF At
  <2>4. RegisterInv'
    BY <2>1, <2>2, <2>3 DEF RegisterInv, At
  <2>5. EnabledInv'
    BY <2>1, <2>2, <2>3 DEF EnabledInv, At
  <2> QED BY <2>3, <2>4, <2>5
<1>3. CASE disable_distributor
  <2> DEFINE regs == gicd_off(g)
  <2>1. At("gicd off") /\ RegsGo("gicd groups", regs)
    BY <1>3 DEF disable_distributor
  <2>2. /\ regs \in GicRegisters /\ regs.interface = g.interface
        /\ regs.asked = g.asked /\ regs.group1 = g.group1
        /\ regs.enabled = g.enabled /\ regs.distributor = "off" /\ regs.virtual = g.virtual
    BY <1>g DEF gicd_off, GicRegisters
  <2> HIDE DEF regs
  <2>3. /\ HostTypes' /\ MapInv' /\ FreeInv' /\ StageInv' /\ CallInv' /\ KernelInv'
        /\ host'.at = "gicd groups" /\ host'.regs = regs
    BY <2>1, <2>2, RegsFrame DEF At
  <2>4. RegisterInv'
    BY <2>1, <2>2, <2>3 DEF RegisterInv, At
  <2>5. EnabledInv'
    BY <2>1, <2>2, <2>3 DEF EnabledInv, At
  <2> QED BY <2>3, <2>4, <2>5
<1>4. CASE group_shared
  <2> DEFINE regs == gicd_groups(g)
             words == {<<0, w>> : w \in 1 .. ItLines}
             shared == 32 .. ((ItLines + 1) * 32 - 1)
  <2>1. At("gicd groups") /\ RegsGo("gicd on", regs)
    BY <1>4 DEF group_shared
  <2>2. words \subseteq Nat \X Nat /\ <<0, 1>> \in words
    BY <1>b
  <2>3. shared \subseteq Nat /\ UART_SPI_INTID \in shared
    BY <1>b DEF UART_SPI_INTID
  <2>a. regs = [g EXCEPT !.group1 = @ \cup words, !.priority = shared]
    BY DEF gicd_groups
  <2> HIDE DEF regs, words, shared
  <2>4. /\ regs \in GicRegisters /\ regs.interface = g.interface
        /\ regs.asked = g.asked /\ regs.group1 = g.group1 \cup words /\ regs.priority = shared
        /\ regs.enabled = g.enabled /\ regs.distributor = g.distributor /\ regs.virtual = g.virtual
    BY <1>g, <2>2, <2>3, <2>a DEF GicRegisters
  <2>5. /\ HostTypes' /\ MapInv' /\ FreeInv' /\ StageInv' /\ CallInv' /\ KernelInv'
        /\ host'.at = "gicd on" /\ host'.regs = regs
    BY <2>1, <2>4, RegsFrame DEF At
  <2>6. RegisterInv'
    BY <2>1, <2>2, <2>3, <2>4, <2>5 DEF RegisterInv, At
  <2>7. EnabledInv'
    BY <2>1, <2>4, <2>5 DEF EnabledInv, At
  <2> QED BY <2>5, <2>6, <2>7
<1>5. CASE enable_distributor
  <2> DEFINE regs == gicd_on(g)
  <2>1. At("gicd on") /\ RegsGo("vgic", regs)
    BY <1>5 DEF enable_distributor
  <2>2. /\ regs \in GicRegisters /\ regs.interface = g.interface
        /\ regs.asked = g.asked /\ regs.group1 = g.group1 /\ regs.priority = g.priority
        /\ regs.enabled = g.enabled /\ regs.distributor = "on" /\ regs.virtual = g.virtual
    BY <1>g DEF gicd_on, GicRegisters
  <2> HIDE DEF regs
  <2>3. /\ HostTypes' /\ MapInv' /\ FreeInv' /\ StageInv' /\ CallInv' /\ KernelInv'
        /\ host'.at = "vgic" /\ host'.regs = regs
    BY <2>1, <2>2, RegsFrame DEF At
  <2>4. RegisterInv'
    BY <2>1, <2>2, <2>3 DEF RegisterInv, At
  <2>5. EnabledInv'
    BY <2>1, <2>2, <2>3 DEF EnabledInv, At
  <2> QED BY <2>3, <2>4, <2>5
<1>6. CASE aether_vgic_init
  <2> DEFINE regs == vgic_init(g, ListRegisters, host.gic.maint)
  <2>1. At("vgic") /\ RegsGo("timers", regs)
    BY <1>6 DEF aether_vgic_init
  <2>a. host.gic.maint \in MaintValues
    BY DEF MaintValues, HostTypes, HostRecords
  <2>d. regs \in GicRegisters
    BY <1>b, <1>g, <2>a DEF vgic_init, GicRegisters
  <2>e. regs.lr_count = ListRegisters
    BY <1>g DEF vgic_init, GicRegisters
  <2>2. /\ regs.interface = g.interface
        /\ regs.asked = g.asked /\ regs.group1 = g.group1 /\ regs.priority = g.priority
        /\ regs.enabled = g.enabled /\ regs.distributor = g.distributor /\ regs.virtual = g.virtual
        /\ regs.lr_count > 0
    BY <1>b, <1>g, <2>e DEF vgic_init, GicRegisters
  <2> HIDE DEF regs
  <2>3. /\ HostTypes' /\ MapInv' /\ FreeInv' /\ StageInv' /\ CallInv' /\ KernelInv'
        /\ host'.at = "timers" /\ host'.regs = regs
    BY <2>1, <2>2, <2>d, RegsFrame DEF At
  <2>4. RegisterInv'
    BY <2>1, <2>2, <2>3 DEF RegisterInv, At
  <2>5. g.enabled = {}
    BY <2>1 DEF EnabledInv, At
  <2>6. TimersOf(0) = {} /\ Forwarding({}) = {} /\ 0 \in 0 .. BootCores - 1
    BY <1>b DEF TimersOf, Forwarding
  <2>b. IsFiniteSet({}) /\ Cardinality({}) = 0
    BY FS_EmptySet
  <2>c. \E k \in 0 .. BootCores - 1 :
          /\ regs.enabled = TimersOf(k)
          /\ IsFiniteSet(Forwarding(regs.enabled)) /\ Cardinality(Forwarding(regs.enabled)) = k
    BY <2>2, <2>5, <2>6, <2>b
  <2>7. EnabledInv'
    BY <2>2, <2>3, <2>5, <2>c DEF EnabledInv
  <2> QED BY <2>3, <2>4, <2>7
<1> QED BY <1>1, <1>2, <1>3, <1>4, <1>5, <1>6

(* One more core's timers: the set the next step counts grows by one.      *)
LEMMA OneMoreTimer ==
  ASSUME NEW k \in Nat, IsFiniteSet(Forwarding(TimersOf(k))), Cardinality(Forwarding(TimersOf(k))) = k
  PROVE  /\ TimersOf(k) \cup {<<k + 1, TIMER_VIRT_INTID>>} \cup {<<k + 1, TIMER_PHYS_NS_INTID>>} = TimersOf(k + 1)
         /\ IsFiniteSet(Forwarding(TimersOf(k + 1))) /\ Cardinality(Forwarding(TimersOf(k + 1))) = k + 1
<1>1. 1 .. k + 1 = (1 .. k) \cup {k + 1} /\ k + 1 \notin 1 .. k
  OBVIOUS
<1>2. TimersOf(k) \cup {<<k + 1, TIMER_VIRT_INTID>>} \cup {<<k + 1, TIMER_PHYS_NS_INTID>>} = TimersOf(k + 1)
  BY <1>1 DEF TimersOf
<1>3. Forwarding(TimersOf(k + 1)) = Forwarding(TimersOf(k)) \cup {<<k + 1, TIMER_VIRT_INTID>>}
  BY <1>1 DEF TimersOf, Forwarding, TIMER_VIRT_INTID, TIMER_PHYS_NS_INTID
<1>4. <<k + 1, TIMER_VIRT_INTID>> \notin Forwarding(TimersOf(k))
  BY <1>1 DEF TimersOf, Forwarding
<1>5. /\ IsFiniteSet(Forwarding(TimersOf(k + 1)))
      /\ Cardinality(Forwarding(TimersOf(k + 1))) = Cardinality(Forwarding(TimersOf(k))) + 1
  BY <1>3, <1>4, FS_AddElement
<1> QED BY <1>2, <1>5

LEMMA TimersInGroup1 ==
  ASSUME NEW g, NEW k \in Nat, \A c \in 1 .. k : <<c, 0>> \in g.group1, NEW i \in TimersOf(k)
  PROVE  InGroup1(g, i) /\ i[1] # 0
<1>1. PICK c \in 1 .. k, t \in {TIMER_VIRT_INTID, TIMER_PHYS_NS_INTID} : i = <<c, t>>
  BY DEF TimersOf
<1>2. t \div 32 = 0
  BY <1>1 DEF TIMER_VIRT_INTID, TIMER_PHYS_NS_INTID
<1> QED BY <1>1, <1>2 DEF InGroup1

LEMMA ForwardingSteps ==
  ASSUME HostInv, forward_timers \/ forward_uart
  PROVE  HostInv'
<1> USE DEF HostInv
<1> DEFINE g == host.regs
<1>g. g \in GicRegisters
  BY DEF HostTypes, HostRecords
<1>b. BootCores \in Nat \ {0, 1} /\ ItLines \in Nat \ {0} /\ ListRegisters \in Nat \ {0}
  BY GicBootAssumption, HostBootAssumption
<1>1. CASE forward_timers
  <2>1. PICK k \in 0 .. BootCores - 1 :
               /\ g.enabled = TimersOf(k)
               /\ IsFiniteSet(Forwarding(g.enabled)) /\ Cardinality(Forwarding(g.enabled)) = k
    BY <1>1 DEF forward_timers, At, EnabledInv
  <2> DEFINE c == k + 1
             next == IF c < BootCores THEN "timers" ELSE "uart"
             regs == enable_timers(g, c)
  <2>2. Core({i \in g.enabled : i[2] = TIMER_VIRT_INTID}) = c
    BY <2>1 DEF Core, Forwarding
  <2>3. At("timers") /\ RegsGo(next, regs)
    BY <1>1, <2>2 DEF forward_timers
  <2>4. c \in Nat /\ c \in 1 .. BootCores /\ 1 .. c \subseteq 1 .. BootCores
    BY <1>b
  <2>a. {<<c, TIMER_VIRT_INTID>>, <<c, TIMER_PHYS_NS_INTID>>} \in SUBSET (Nat \X Nat)
    BY <2>4 DEF TIMER_VIRT_INTID, TIMER_PHYS_NS_INTID
  <2>b. regs = [g EXCEPT !.enabled = g.enabled \cup {<<c, TIMER_VIRT_INTID>>} \cup {<<c, TIMER_PHYS_NS_INTID>>}]
    BY <1>g DEF enable_timers, enable_ppi_in_gicr, GicRegisters
  <2>5. /\ regs.enabled = TimersOf(c)
        /\ IsFiniteSet(Forwarding(TimersOf(c))) /\ Cardinality(Forwarding(TimersOf(c))) = c
    <3>1. regs.enabled = g.enabled \cup {<<c, TIMER_VIRT_INTID>>} \cup {<<c, TIMER_PHYS_NS_INTID>>}
      BY <1>g, <2>b DEF GicRegisters
    <3>2. /\ k \in Nat
          /\ IsFiniteSet(Forwarding(TimersOf(k))) /\ Cardinality(Forwarding(TimersOf(k))) = k
      BY <1>b, <2>1
    <3>3. /\ TimersOf(k) \cup {<<c, TIMER_VIRT_INTID>>} \cup {<<c, TIMER_PHYS_NS_INTID>>} = TimersOf(c)
          /\ IsFiniteSet(Forwarding(TimersOf(c))) /\ Cardinality(Forwarding(TimersOf(c))) = c
      BY <3>2, OneMoreTimer
    <3> HIDE DEF c, regs
    <3> QED BY <2>1, <3>1, <3>3
  <2> HIDE DEF regs, c
  <2>6. regs \in GicRegisters
    BY <1>g, <2>a, <2>b DEF GicRegisters
  <2>7. /\ regs.asked = g.asked /\ regs.group1 = g.group1 /\ regs.priority = g.priority
        /\ regs.interface = g.interface /\ regs.distributor = g.distributor /\ regs.virtual = g.virtual
        /\ regs.lr_count = g.lr_count
    BY <1>g, <2>b DEF GicRegisters
  <2>8. /\ HostTypes' /\ MapInv' /\ FreeInv' /\ StageInv' /\ CallInv' /\ KernelInv'
        /\ host'.at = next /\ host'.regs = regs /\ host'.vectors /\ host'.stage2 /\ regs.virtual
    BY <2>3, <2>6, <2>7, RegsFrame DEF At
  <2>9. g.asked = 1 .. BootCores /\ g.lr_count > 0 /\ \A d \in g.asked : <<d, 0>> \in g.group1
    BY <2>3 DEF RegisterInv, At
  <2>10. next \in {"timers", "uart"}
    OBVIOUS
  <2>11. next = "timers" => \E i \in 0 .. BootCores - 1 :
             /\ regs.enabled = TimersOf(i)
             /\ IsFiniteSet(Forwarding(regs.enabled)) /\ Cardinality(Forwarding(regs.enabled)) = i
    BY <1>b, <2>4, <2>5
  <2>12. next = "uart" => TimersOf(BootCores) \subseteq regs.enabled
    BY <1>b, <2>4, <2>5
  <2>13. \A i \in regs.enabled : InGroup1(regs, i) /\ i[1] # 0
    BY <2>4, <2>5, <2>7, <2>9, TimersInGroup1
  <2> HIDE DEF next
  <2>14. RegisterInv'
    BY <2>3, <2>7, <2>8, <2>10 DEF RegisterInv, At
  <2>15. EnabledInv'
    BY <2>7, <2>8, <2>9, <2>10, <2>11, <2>12, <2>13 DEF EnabledInv
  <2> QED BY <2>8, <2>14, <2>15
<1>2. CASE forward_uart
  <2> DEFINE regs == enable_spi_in_gicd(g, UART_SPI_INTID)
             uart == <<0, UART_SPI_INTID>>
  <2>1. At("uart") /\ RegsGo("register", regs)
    BY <1>2 DEF forward_uart
  <2>a. {uart} \in SUBSET (Nat \X Nat)
    BY DEF UART_SPI_INTID
  <2>b. regs = [g EXCEPT !.enabled = g.enabled \cup {uart}]
    BY <1>g DEF enable_spi_in_gicd, GicRegisters
  <2>2. g.lr_count > 0 /\ <<0, 1>> \in g.group1 /\ UART_SPI_INTID \in g.priority
    BY <2>1 DEF RegisterInv, At
  <2>3. InGroup1(g, uart) /\ uart[1] = 0 /\ uart[2] \in g.priority
    BY <2>2 DEF InGroup1, UART_SPI_INTID
  <2> HIDE DEF regs, uart
  <2>4. regs \in GicRegisters
    BY <1>g, <2>a, <2>b DEF GicRegisters
  <2>5. /\ regs.asked = g.asked /\ regs.group1 = g.group1 /\ regs.priority = g.priority
        /\ regs.interface = g.interface /\ regs.distributor = g.distributor /\ regs.virtual = g.virtual
        /\ regs.lr_count = g.lr_count /\ regs.enabled = g.enabled \cup {uart}
    BY <1>g, <2>b DEF GicRegisters
  <2>6. /\ HostTypes' /\ MapInv' /\ FreeInv' /\ StageInv' /\ CallInv' /\ KernelInv'
        /\ host'.at = "register" /\ host'.regs = regs /\ host'.vectors /\ host'.stage2 /\ regs.virtual
    BY <2>1, <2>4, <2>5, RegsFrame DEF At
  <2>7. RegisterInv'
    BY <2>1, <2>5, <2>6 DEF RegisterInv, At
  <2>8. \A i \in regs.enabled : InGroup1(regs, i) /\ (i[1] = 0 => i[2] \in regs.priority)
    BY <2>3, <2>5 DEF EnabledInv, InGroup1
  <2>9. TimersOf(BootCores) \subseteq regs.enabled /\ uart \in regs.enabled
    BY <2>1, <2>5 DEF EnabledInv, At
  <2>10. EnabledInv'
    BY <2>2, <2>5, <2>6, <2>8, <2>9 DEF EnabledInv, uart
  <2> QED BY <2>6, <2>7, <2>10
<1> QED BY <1>1, <1>2

LEMMA LaunchSteps ==
  ASSUME HostInv, register_cores \/ call_secondary \/ prepare_linux_boot \/ eret_to_el1
  PROVE  HostInv'
<1> USE DEF HostInv
<1>b. BootCores \in Nat \ {0, 1}
  BY GicBootAssumption
<1>1. CASE register_cores
  <2>1. /\ fw' = fw /\ At("register")
        /\ host' = [host EXCEPT !.at = "call", !.table = 1 .. BootCores, !.called = {1}]
    BY <1>1 DEF register_cores, Goes
  <2>2. 1 .. BootCores \in SUBSET Nat /\ {1} \in SUBSET Nat /\ {1} = 1 .. 1 /\ 1 \in 1 .. BootCores - 1
    BY <1>b
  <2>3. HostTypes'
    BY <2>1, <2>2 DEF HostTypes, HostRecords
  <2>4. /\ host'.at = "call" /\ host'.vectors = host.vectors /\ host'.stage2 = host.stage2
        /\ host'.regs = host.regs
        /\ host'.map = host.map /\ host'.region = host.region /\ host'.pages = host.pages
        /\ host'.el = host.el /\ host'.mapped = host.mapped /\ host'.called = {1}
        /\ host'.table = 1 .. BootCores /\ host'.kernel = host.kernel
    BY <2>1 DEF HostTypes, HostRecords
  <2>5. MapInv' /\ FreeInv'
    BY <2>1, <2>4, MemoryStays DEF At
  <2>6. StageInv'
    BY <2>1, <2>4 DEF StageInv, At
  <2>7. RegisterInv' /\ host.regs.distributor = "on"
    BY <2>1, <2>4 DEF RegisterInv, At
  <2>8. EnabledInv'
    BY <2>1, <2>4 DEF EnabledInv, At
  <2>9. CallInv'
    <3>1. \E k \in 1 .. BootCores - 1 : {1} = 1 .. k
      BY <2>2
    <3>2. {1} \subseteq 1 .. BootCores
      BY <1>b
    <3>3. host'.at \notin UntilRegister
      BY <2>4
    <3>4. host'.regs.distributor = "on"
      BY <2>4, <2>7
    <3> QED BY <2>4, <3>1, <3>2, <3>3, <3>4 DEF CallInv
  <2>10. KernelInv'
    BY <2>1, <2>4 DEF KernelInv, At
  <2> QED BY <2>3, <2>5, <2>6, <2>7, <2>8, <2>9, <2>10
<1>2. CASE call_secondary
  <2>1. PICK k \in 1 .. BootCores - 1 : host.called = 1 .. k
    BY <1>2 DEF call_secondary, At, CallInv
  <2> DEFINE c == k + 1
             next == IF c < BootCores THEN "call" ELSE "prepare"
  <2>2. Core(host.called) = c
    BY <1>b, <2>1, CoreOf
  <2>3. host.called \cup {c} = 1 .. c /\ 1 .. c \in SUBSET Nat /\ 1 .. c \subseteq 1 .. BootCores
    BY <1>b, <2>1
  <2>4. /\ fw' = fw /\ At("call") /\ host' = [host EXCEPT !.at = next, !.called = 1 .. c]
    BY <1>2, <2>2, <2>3 DEF call_secondary, Goes
  <2>5. next \in {"call", "prepare"} /\ (next = "call" => c \in 1 .. BootCores - 1)
        /\ (next = "prepare" => c = BootCores)
    BY <1>b
  <2> HIDE DEF next, c
  <2>6. HostTypes'
    BY <2>3, <2>4, <2>5 DEF HostTypes, HostRecords
  <2>7. /\ host'.at = next /\ host'.vectors = host.vectors /\ host'.stage2 = host.stage2
        /\ host'.regs = host.regs
        /\ host'.map = host.map /\ host'.region = host.region /\ host'.pages = host.pages
        /\ host'.el = host.el /\ host'.mapped = host.mapped /\ host'.called = 1 .. c
        /\ host'.table = host.table /\ host'.kernel = host.kernel
    BY <2>4 DEF HostTypes, HostRecords
  <2>8. MapInv' /\ FreeInv'
    BY <2>4, <2>5, <2>7, MemoryStays DEF At
  <2>9. StageInv'
    BY <2>4, <2>5, <2>7 DEF StageInv, At
  <2>10. RegisterInv' /\ host.regs.distributor = "on"
    BY <2>4, <2>5, <2>7 DEF RegisterInv, At
  <2>11. EnabledInv'
    BY <2>4, <2>5, <2>7 DEF EnabledInv, At
  <2>12. CallInv'
    BY <2>3, <2>4, <2>5, <2>7, <2>10 DEF CallInv, At
  <2>13. KernelInv'
    BY <2>4, <2>5, <2>7 DEF KernelInv, At
  <2> QED BY <2>6, <2>8, <2>9, <2>10, <2>11, <2>12, <2>13
<1>3. CASE prepare_linux_boot
  <2>0. At("prepare")
    BY <1>3 DEF prepare_linux_boot
  <2>1. CASE ~ KernelAligned(host.image) \/ host.dtb = 0 \/ ~ HeaderParses(host.image)
    BY <1>3, <2>1, HaltKeeps DEF prepare_linux_boot
  <2>2. CASE KernelAligned(host.image) /\ host.dtb # 0 /\ HeaderParses(host.image)
    <3> DEFINE next == IF Prepared.phase = "ReadyToLaunch" THEN "launch" ELSE "halted"
    <3>1. /\ fw' = fw /\ host' = [host EXCEPT !.at = next, !.kernel = Prepared]
      BY <1>3, <2>2 DEF prepare_linux_boot, Goes
    <3>2. host.kernel = NewKernel
      BY <2>0 DEF At, KernelInv
    <3>3. host.image.size \in Nat /\ host.dtb \in Nat
      BY HostBootAssumption DEF HostTypes, HostRecords
    <3> DEFINE k1 == [phase |-> "ImageValidated", image_size |-> host.image.size, dtb_size |-> 0]
               k2 == [phase |-> "DtbPlaced", image_size |-> host.image.size, dtb_size |-> host.dtb]
    <3>4. validate_image(host.kernel, host.image) = k1
      <4>1. validate_image(host.kernel, host.image)
              = [NewKernel EXCEPT !.phase = "ImageValidated", !.image_size = host.image.size]
        BY <2>2, <3>2 DEF validate_image
      <4>2. DOMAIN NewKernel = {"phase", "image_size", "dtb_size"} /\ NewKernel.dtb_size = 0
        BY DEF NewKernel
      <4> QED BY <4>1, <4>2
    <3>5. place_dtb(k1, host.dtb) = k2
      BY DEF place_dtb
    <3>6. Prepared = ready(verify_config(k2, all_satisfied(GkiRecorded)))
      BY <3>4, <3>5 DEF Prepared
    <3>7. Prepared \in Kernels /\ Prepared.dtb_size = host.dtb
      <4>1. CASE all_satisfied(GkiRecorded)
        BY <3>3, <3>6, <4>1 DEF ready, verify_config, Kernels
      <4>2. CASE ~ all_satisfied(GkiRecorded)
        BY <3>3, <3>6, <4>2 DEF ready, verify_config, Kernels
      <4> QED BY <4>1, <4>2
    <3>8. next \in {"launch", "halted"} /\ (next = "launch" => Prepared.phase = "ReadyToLaunch")
      OBVIOUS
    <3> HIDE DEF next
    <3>9. HostTypes'
      BY <3>1, <3>7, <3>8 DEF HostTypes, HostRecords
    <3>10. /\ host'.at = next /\ host'.vectors = host.vectors /\ host'.stage2 = host.stage2
           /\ host'.regs = host.regs /\ host'.image = host.image
           /\ host'.map = host.map /\ host'.region = host.region /\ host'.pages = host.pages
           /\ host'.el = host.el /\ host'.mapped = host.mapped /\ host'.called = host.called
           /\ host'.table = host.table /\ host'.kernel = Prepared
      BY <3>1 DEF HostTypes, HostRecords
    <3>11. MapInv' /\ FreeInv'
      BY <2>0, <3>1, <3>8, <3>10 DEF MapInv, FreeInv, At
    <3>12. StageInv'
      BY <2>0, <3>8, <3>10 DEF StageInv, At
    <3>13. RegisterInv'
      BY <2>0, <3>8, <3>10 DEF RegisterInv, At
    <3>14. EnabledInv'
      BY <2>0, <3>8, <3>10 DEF EnabledInv, At
    <3>15. CallInv'
      BY <2>0, <3>8, <3>10 DEF CallInv, At
    <3>16. Prepared.dtb_size > 0
      BY <2>2, <3>3, <3>7
    <3>17. KernelInv'
      BY <2>2, <3>8, <3>10, <3>16 DEF KernelInv
    <3> QED BY <3>9, <3>11, <3>12, <3>13, <3>14, <3>15, <3>17
  <2> QED BY <2>1, <2>2
<1>4. CASE eret_to_el1
  <2>1. fw' = fw /\ At("launch") /\ host' = [host EXCEPT !.at = "guest"]
    BY <1>4 DEF eret_to_el1, Goes
  <2>2. HostTypes'
    BY <2>1 DEF HostTypes, HostRecords
  <2>3. /\ host'.at = "guest" /\ host'.vectors = host.vectors /\ host'.stage2 = host.stage2
        /\ host'.regs = host.regs /\ host'.image = host.image
        /\ host'.map = host.map /\ host'.region = host.region /\ host'.pages = host.pages
        /\ host'.el = host.el /\ host'.mapped = host.mapped /\ host'.called = host.called
        /\ host'.table = host.table /\ host'.kernel = host.kernel
    BY <2>1 DEF HostTypes, HostRecords
  <2>4. MapInv' /\ FreeInv'
    BY <2>1, <2>3, MemoryStays DEF At
  <2>5. StageInv'
    BY <2>1, <2>3 DEF StageInv, At
  <2>6. RegisterInv'
    BY <2>1, <2>3 DEF RegisterInv, At
  <2>7. EnabledInv'
    BY <2>1, <2>3 DEF EnabledInv, At
  <2>8. CallInv' /\ KernelInv'
    BY <2>1, <2>3 DEF CallInv, KernelInv, At
  <2> QED BY <2>2, <2>4, <2>5, <2>6, <2>7, <2>8
<1> QED BY <1>1, <1>2, <1>3, <1>4

LEMMA HostRests ==
  ASSUME HostInv, UNCHANGED bootVars
  PROVE  HostInv'
<1> USE DEF HostInv
<1>0. host' = host /\ fw' = fw
  BY DEF bootVars
<1> HIDE DEF BootSteps, UntilPrepare, UntilRegister, UntilTimers, UntilGicdOn, UntilWake, UntilVirt,
           UntilMap, UntilExit
<1>1. HostTypes' /\ MapInv' /\ FreeInv' /\ StageInv'
  BY <1>0 DEF HostTypes, MapInv, FreeInv, StageInv
<1>2. RegisterInv'
  BY <1>0 DEF RegisterInv
<1>3. EnabledInv'
  BY <1>0 DEF EnabledInv
<1>4. CallInv' /\ KernelInv'
  BY <1>0 DEF CallInv, KernelInv
<1> QED BY <1>1, <1>2, <1>3, <1>4

LEMMA HostStep ==
  ASSUME HostInv, [HostBootNext]_bootVars
  PROVE  HostInv'
BY FirmwareSteps, MemorySteps, VirtualisationSteps, ControllerSteps, ForwardingSteps, LaunchSteps,
   HostRests DEF HostBootNext

-------------------------------------------------------------------------------

LEMMA InvIsPrepared ==
  ASSUME HostInv
  PROVE  BootPrepared
<1> USE DEF HostInv
<1>1. TablesInFreeMemory
  <2>1. SUFFICES ASSUME host.map # << >> PROVE
          /\ ~ fw.running /\ host.map = parse_memory_map(fw.map)
          /\ host.region # 0 =>
               /\ fw.map[host.region].type \in {"Conventional", "BootServicesCode", "BootServicesData"}
               /\ host.pages <= fw.map[host.region].size
               /\ \A i \in DOMAIN host.map :
                    host.map[i].kind = "Conventional" => host.map[i].size <= host.map[host.region].size
    BY DEF TablesInFreeMemory
  <2>2. ~ fw.running /\ host.map = parse_memory_map(fw.map) /\ fw.map \in FirmwareMaps
    BY <2>1 DEF MapInv, HostTypes
  <2>3. CASE host.region # 0
    <3>1. LargestFree(host.region, host.map) /\ host.pages <= host.map[host.region].size
      BY <2>3 DEF FreeInv
    <3>2. host.region \in DOMAIN host.map /\ host.map[host.region].kind = "Conventional"
      BY <3>1 DEF LargestFree, Conventionals
    <3>3. /\ KindOf(fw.map[host.region].type) = "Conventional"
          /\ host.map[host.region].size = fw.map[host.region].size
      BY <2>2, <3>2, ParsedRegions
    <3>4. fw.map[host.region].type \in {"Conventional", "BootServicesCode", "BootServicesData"}
      BY <3>3 DEF KindOf
    <3>5. \A i \in DOMAIN host.map :
            host.map[i].kind = "Conventional" => host.map[i].size <= host.map[host.region].size
      BY <3>1 DEF LargestFree, Conventionals
    <3> QED BY <2>2, <3>1, <3>3, <3>4, <3>5
  <2> QED BY <2>2, <2>3
<1>2. InterruptsPrepared
  <2>1. /\ host.regs.distributor = "on" => host.regs.asked = 1 .. BootCores
        /\ host.called \subseteq host.table
        /\ host.called # {} => host.regs.distributor = "on"
    BY DEF RegisterInv, CallInv
  <2>2. Deliverable(host.regs) # {} => host.regs.enabled # {}
    BY DEF Deliverable
  <2>3. host.regs.enabled # {} => host.vectors /\ host.stage2 /\ host.regs.virtual /\ host.regs.lr_count > 0
    BY DEF EnabledInv
  <2>4. \A i \in host.regs.enabled :
          InGroup1(host.regs, i) /\ (i[1] = 0 => i[2] \in host.regs.priority)
    BY DEF EnabledInv
  <2> QED BY <2>1, <2>2, <2>3, <2>4 DEF InterruptsPrepared
<1>3. LaunchPrepared
  <2>1. SUFFICES ASSUME host.at = "guest" PROVE
          /\ host.el = 2 /\ ~ fw.running
          /\ host.vectors /\ host.stage2 /\ "ram" \in host.mapped
          /\ host.called = host.table /\ <<0, UART_SPI_INTID>> \in Deliverable(host.regs)
          /\ \A c \in host.table : <<c, TIMER_VIRT_INTID>> \in host.regs.enabled
          /\ host.kernel.phase = "ReadyToLaunch" /\ host.kernel.dtb_size > 0
          /\ host.image.magic /\ host.image.load % KERNEL_LOAD_ALIGN = 0
    BY DEF LaunchPrepared
  <2>2. host.el = 2 /\ ~ fw.running /\ host.vectors /\ host.stage2 /\ "ram" \in host.mapped
    BY <2>1 DEF MapInv, StageInv
  <2>3. host.called = 1 .. BootCores /\ host.table = 1 .. BootCores
    BY <2>1 DEF CallInv
  <2>4. host.regs.interface /\ host.regs.distributor = "on"
    BY <2>1 DEF RegisterInv
  <2>5. <<0, UART_SPI_INTID>> \in host.regs.enabled /\ TimersOf(BootCores) \subseteq host.regs.enabled
    BY <2>1 DEF EnabledInv
  <2>6. InGroup1(host.regs, <<0, UART_SPI_INTID>>)
    BY <2>5 DEF EnabledInv
  <2>7. <<0, UART_SPI_INTID>> \in Deliverable(host.regs)
    BY <2>4, <2>5, <2>6 DEF Deliverable
  <2>8. \A c \in host.table : <<c, TIMER_VIRT_INTID>> \in host.regs.enabled
    BY <2>3, <2>5 DEF TimersOf
  <2>9. /\ host.kernel.phase = "ReadyToLaunch" /\ host.kernel.dtb_size > 0
        /\ host.image.magic /\ host.image.load % KERNEL_LOAD_ALIGN = 0
    BY <2>1 DEF KernelInv, HeaderParses, KernelAligned
  <2> QED BY <2>2, <2>3, <2>7, <2>8, <2>9
<1> QED BY <1>1, <1>2, <1>3 DEF BootPrepared

(* The hypervisor goes by the firmware's map of the moment boot services   *)
(* ended, draws its tables from free memory of it, enables no interrupt    *)
(* before the means to take it are there, and enters the guest at EL2 with *)
(* every core called, every timer and the UART deliverable and a verified  *)
(* kernel and device tree (efi_main, gic.rs, linux_boot.rs).               *)
THEOREM GuestStartsPrepared == HostBootSpec => []BootPrepared
<1>1. HostBootInit => HostInv
  BY HostStarts
<1>2. HostInv /\ [HostBootNext]_bootVars => HostInv'
  BY HostStep
<1>3. HostInv => BootPrepared
  BY InvIsPrepared
<1> QED BY <1>1, <1>2, <1>3, PTL DEF HostBootSpec

(***************************************************************************)
(* The boot monitors.                                                      *)
(***************************************************************************)

Counters == {"restarts", "denials", "changes", "acks", "changes2", "acks2", "passing", "failing",
             "attestation", "timeouts"}
PhaseNames ==
  {"", "NotStarted", "KernelHandoff", "FirstStageInit", "SecondStageInit", "SystemDaemonsStarted",
   "HalsRegistered", "ZygoteReady", "HomeScreenRendered", "GpuVendorDetected", "KernelModulesLoaded",
   "DrmDeviceVisible", "IcdSelected", "VulkanInitialized", "DrmHwcLaunched", "GatePassed",
   "DrmDriverBound", "GrallocReady", "HwcReady", "VulkanReady", "RenderingActive", "UsbReady",
   "AdbConnected", "SensorStreamActive", "IdentityLoaded", "HvcRegistered", "SensorHalStarted",
   "ModemAttached", "IntelVtxVerified", "AmdSvmVerified", "BothVendorsVerified", "FexModeConfirmed",
   "EptNptInvalidationsVerified", "IntelAndroidBooted", "AmdAndroidBooted", "HarnessReady",
   "ApksInstalled", "SmokeTestsRunning", "BugsTriaged"}
Criteria ==
  {"home", "settings", "user", "vulkan", "glmark2", "nproc", "no_software", "youtube", "started",
   "source_changes", "no_gap", "identity", "on", "off", "accel", "gyro", "mag", "no_sim", "intel",
   "amd", "fex", "fex_confirmed", "no_workaround", "none_accepted", "boot_intel", "boot_amd",
   "intel_passed", "amd_passed", "bugs_resolved", "gate_passed"}
Failures ==
  {"none", "config", "InvalidConfig", "NoDisplayController", "IntegratedIntelNotSupported",
   "UnknownGpuVendor", "mount_failed", "no_init", "no_policy", "smmu_fault", "avc_denied",
   "hal_failed"}
Kinds == {"userspace", "android_x86", "adreno", "bridge", "sensors", "x86_hw", "compat"}
Mons == [kind : Kinds, phase : PhaseNames, bits : SUBSET Criteria, failure : Failures,
         n : [Counters -> Int]]
IsRule(r) == r.bits \subseteq Criteria /\ r.to \in PhaseNames
AreRules(rules) == Len(rules) \in Nat /\ \A i \in 1 .. Len(rules) : IsRule(rules[i])
PhasesIn(phases) == {phases[i] : i \in DOMAIN phases}

(* A monitor of the same kind.                                             *)
SameBut(m, o) == o \in Mons /\ o.kind = m.kind

LEMMA PhaseSet ==
  ASSUME NEW m \in Mons, NEW p \in PhaseNames
  PROVE  /\ SameBut(m, [m EXCEPT !.phase = p])
         /\ [m EXCEPT !.phase = p].phase = p /\ [m EXCEPT !.phase = p].bits = m.bits
BY DEF Mons, SameBut

LEMMA FailureSet ==
  ASSUME NEW m \in Mons, NEW p \in Failures
  PROVE  /\ SameBut(m, [m EXCEPT !.failure = p])
         /\ [m EXCEPT !.failure = p].phase = m.phase /\ [m EXCEPT !.failure = p].bits = m.bits
BY DEF Mons, SameBut

LEMMA BitsSet ==
  ASSUME NEW m \in Mons, NEW b \in Criteria
  PROVE  /\ SameBut(m, Grant(m, b)) /\ Grant(m, b).phase = m.phase /\ Grant(m, b).bits = m.bits \cup {b}
         /\ SameBut(m, Revoke(m, b)) /\ Revoke(m, b).phase = m.phase /\ Revoke(m, b).bits = m.bits \ {b}
BY DEF Mons, SameBut, Grant, Revoke

LEMMA Counted ==
  ASSUME NEW m \in Mons, NEW c \in Counters, NEW b
  PROVE  /\ SameBut(m, Bump(m, c)) /\ Bump(m, c).phase = m.phase /\ Bump(m, c).bits = m.bits
         /\ SameBut(m, BumpIf(b, m, c)) /\ BumpIf(b, m, c).phase = m.phase
         /\ BumpIf(b, m, c).bits = m.bits
<1>1. [m.n EXCEPT ![c] = @ + 1] \in [Counters -> Int]
  BY DEF Mons
<1>2. Bump(m, c) = [m EXCEPT !.n = [m.n EXCEPT ![c] = @ + 1]]
  BY DEF Bump, Mons
<1>3. SameBut(m, Bump(m, c)) /\ Bump(m, c).phase = m.phase /\ Bump(m, c).bits = m.bits
  BY <1>1, <1>2 DEF Mons, SameBut
<1>4. SameBut(m, m)
  BY DEF SameBut
<1> QED BY <1>3, <1>4 DEF BumpIf

LEMMA PhaseAdvanced ==
  ASSUME NEW m \in Mons, NEW p \in PhaseNames, NEW phases
  PROVE  /\ SameBut(m, Advance(phases, m, p)) /\ Advance(phases, m, p).bits = m.bits
         /\ Advance(phases, m, p).phase = IF Earlier(phases, m.phase, p) THEN p ELSE m.phase
BY PhaseSet DEF Advance, SameBut

LEMMA RuleApplied ==
  ASSUME NEW m \in Mons, NEW r, IsRule(r), NEW phases, NEW line
  PROVE  LET o == Applied(phases, m, line, r) IN
         /\ SameBut(m, o)
         /\ ~ Fired(phases, m, line, r) => o = m
         /\ Fired(phases, m, line, r) => o.bits = m.bits \cup r.bits
         /\ o.phase = IF Fired(phases, m, line, r) /\ Moved(phases, m, r) THEN r.to ELSE m.phase
<1> DEFINE a == [m EXCEPT !.bits = @ \cup r.bits]
           q == IF Moved(phases, m, r) THEN r.to ELSE m.phase
           o == [a EXCEPT !.phase = q]
<1>1. r.bits \subseteq Criteria /\ r.to \in PhaseNames
  BY DEF IsRule
<1>2. a \in Mons /\ a.kind = m.kind /\ a.phase = m.phase /\ a.bits = m.bits \cup r.bits
  BY <1>1 DEF Mons
<1>3. q \in PhaseNames
  BY <1>1 DEF Mons
<1>4. o \in Mons /\ o.kind = m.kind /\ o.phase = q /\ o.bits = a.bits
  <2> HIDE DEF a, q
  <2> QED BY <1>2, <1>3 DEF Mons
<1>5. Fired(phases, m, line, r) => Applied(phases, m, line, r) = o
  BY DEF Applied, Mons
<1>6. ~ Fired(phases, m, line, r) => Applied(phases, m, line, r) = m
  BY DEF Applied
<1> HIDE DEF o, a
<1> QED BY <1>2, <1>4, <1>5, <1>6 DEF SameBut, q

(* What the first rules have made of a monitor.                            *)
Chain(f, phases, rules, m, line) ==
  /\ f \in [0 .. Len(rules) -> Mons]
  /\ f[0] = m
  /\ \A i \in 1 .. Len(rules) : f[i] = Applied(phases, f[i - 1], line, rules[i])
  /\ Processed(phases, rules, m, line) = f[Len(rules)]

LEMMA ChainExists ==
  ASSUME NEW phases, NEW rules, AreRules(rules), NEW m \in Mons, NEW line
  PROVE  \E f : Chain(f, phases, rules, m, line)
<1> DEFINE N == Len(rules)
           Body(g) == [i \in 0 .. N |-> IF i = 0 THEN m ELSE Applied(phases, g[i - 1], line, rules[i])]
           F == [x \in (0 .. N) \X Mons |->
                   IF x[1] = 0 THEN m ELSE Applied(phases, x[2], line, rules[x[1]])]
<1>1. N \in Nat /\ \A i \in 1 .. N : IsRule(rules[i])
  BY DEF AreRules
<1>2. \A i \in 1 .. N, o \in Mons : Applied(phases, o, line, rules[i]) \in Mons
  BY <1>1, RuleApplied DEF SameBut
<1>3. F \in [(0 .. N) \X Mons -> Mons]
  <2>1. ASSUME NEW x \in (0 .. N) \X Mons
        PROVE  (IF x[1] = 0 THEN m ELSE Applied(phases, x[2], line, rules[x[1]])) \in Mons
    <3>1. x[1] \in 0 .. N /\ x[2] \in Mons /\ (x[1] # 0 => x[1] \in 1 .. N)
      BY <1>1, <2>1
    <3> HIDE DEF N
    <3> QED BY <1>2, <3>1
  <2> HIDE DEF N
  <2> QED BY <2>1
<1>4. \A i \in 0 .. N, o \in Mons : F[<<i, o>>] = IF i = 0 THEN m ELSE Applied(phases, o, line, rules[i])
  <2> HIDE DEF N
  <2> QED OBVIOUS
<1>5. PICK f : FromItsStart(f, N, Mons, m, F)
  <2> HIDE DEF N, F
  <2> QED BY <1>1, <1>3, UpRecursion
<1>6. f \in [0 .. N -> Mons] /\ f[0] = m /\ \A i \in 0 .. N : i # 0 => f[i] = F[<<i, f[i - 1]>>]
  BY <1>5 DEF FromItsStart
<1>7. \A i \in 0 .. N : f[i] = IF i = 0 THEN m ELSE Applied(phases, f[i - 1], line, rules[i])
  <2> SUFFICES ASSUME NEW i \in 0 .. N
               PROVE  f[i] = IF i = 0 THEN m ELSE Applied(phases, f[i - 1], line, rules[i])
    OBVIOUS
  <2>1. CASE i = 0
    BY <1>6, <2>1
  <2>2. CASE i # 0
    <3>1. i - 1 \in 0 .. N
      BY <1>1, <2>2
    <3>2. f[i - 1] \in Mons
      BY <1>6, <3>1
    <3> HIDE DEF N, F
    <3> QED BY <1>4, <1>6, <2>2, <3>2
  <2> QED BY <2>1, <2>2
<1>8. f = Body(f)
  <2> HIDE DEF N
  <2> QED BY <1>6, <1>7
<1> DEFINE a == CHOOSE g : g = Body(g)
<1>9. a = Body(a)
  <2> HIDE DEF Body
  <2> QED BY <1>8
<1>10. Processed(phases, rules, m, line) = a[N]
  BY DEF Processed
<1> HIDE DEF a, F
<1>11. \A i \in 0 .. N : a[i] = IF i = 0 THEN m ELSE Applied(phases, a[i - 1], line, rules[i])
  <2> HIDE DEF N
  <2> QED BY <1>9
<1>12. \A i \in 0 .. N : a[i] \in Mons
  <2> DEFINE T == {i \in 0 .. N : a[i] \notin Mons}
  <2>1. SUFFICES ASSUME T # {} PROVE FALSE
    OBVIOUS
  <2>2. PICK i \in T : \A y \in T : i <= y
    <3>1. T \subseteq Nat
      BY <1>1
    <3> HIDE DEF T
    <3> QED BY <2>1, <3>1, LeastOf
  <2>3. i \in 0 .. N /\ a[i] \notin Mons
    BY <2>2
  <2>4. CASE i = 0
    BY <1>11, <2>3, <2>4
  <2>5. CASE i # 0
    <3>1. i - 1 \in 0 .. N /\ ~ i <= i - 1 /\ i \in 1 .. N
      BY <1>1, <2>3, <2>5
    <3>2. i - 1 \notin T
      <4> HIDE DEF T
      <4> QED BY <2>2, <3>1
    <3>3. a[i - 1] \in Mons
      BY <3>1, <3>2
    <3> HIDE DEF N, T
    <3> QED BY <1>2, <1>11, <2>3, <2>5, <3>1, <3>3
  <2> QED BY <2>4, <2>5
<1>13. a \in [0 .. N -> Mons]
  <2> HIDE DEF N
  <2> QED BY <1>9, <1>12
<1>14. a[0] = m /\ \A i \in 1 .. N : a[i] = Applied(phases, a[i - 1], line, rules[i])
  <2>1. 0 \in 0 .. N /\ \A i \in 1 .. N : i \in 0 .. N /\ i # 0
    BY <1>1
  <2> HIDE DEF N
  <2> QED BY <1>11, <2>1
<1> QED BY <1>10, <1>13, <1>14 DEF Chain

(* A line keeps what each of its rules keeps.                              *)
LEMMA RulesKeep ==
  ASSUME NEW phases, NEW rules, AreRules(rules), NEW m, NEW line, NEW S \in SUBSET Mons, m \in S,
         \A i \in 1 .. Len(rules), o \in S : Applied(phases, o, line, rules[i]) \in S
  PROVE  Processed(phases, rules, m, line) \in S
<1> DEFINE N == Len(rules)
<1>1. N \in Nat
  BY DEF AreRules
<1>2. PICK f : Chain(f, phases, rules, m, line)
  BY ChainExists
<1> DEFINE T == {i \in 0 .. N : f[i] \notin S}
<1>3. T = {}
  <2>1. SUFFICES ASSUME T # {} PROVE FALSE
    OBVIOUS
  <2>2. PICK i \in T : \A y \in T : i <= y
    <3>1. T \subseteq Nat
      BY <1>1
    <3> HIDE DEF T
    <3> QED BY <2>1, <3>1, LeastOf
  <2>3. i \in 0 .. N /\ f[i] \notin S
    BY <2>2
  <2>4. i # 0
    BY <1>2, <2>3 DEF Chain
  <2>5. i - 1 \in 0 .. N /\ ~ i <= i - 1 /\ i \in 1 .. N
    BY <1>1, <2>3, <2>4
  <2>6. i - 1 \notin T
    <3> HIDE DEF T
    <3> QED BY <2>2, <2>5
  <2>7. f[i - 1] \in S
    BY <2>5, <2>6
  <2> QED BY <1>2, <2>3, <2>5, <2>7 DEF Chain
<1> QED BY <1>1, <1>2, <1>3 DEF Chain

(* A rule that is not bound to the phase gives its criteria, and what was  *)
(* given stays; nothing else is given.                                     *)
Given(rules, line, m, o) ==
  /\ m.bits \subseteq o.bits
  /\ \A i \in 1 .. Len(rules) :
       rules[i].on \in line /\ rules[i].how # "first" => rules[i].bits \subseteq o.bits
  /\ \A b \in o.bits : b \in m.bits \/ \E i \in 1 .. Len(rules) :
       rules[i].on \in line /\ b \in rules[i].bits

LEMMA RulesGive ==
  ASSUME NEW phases, NEW rules, AreRules(rules), NEW m \in Mons, NEW line
  PROVE  LET o == Processed(phases, rules, m, line) IN SameBut(m, o) /\ Given(rules, line, m, o)
<1> DEFINE N == Len(rules)
           o == Processed(phases, rules, m, line)
<1>1. N \in Nat /\ \A i \in 1 .. N : IsRule(rules[i])
  BY DEF AreRules
<1>2. PICK f : Chain(f, phases, rules, m, line)
  BY ChainExists
<1>3. SameBut(m, o) /\ \A b \in o.bits : b \in m.bits \/ \E i \in 1 .. N :
              rules[i].on \in line /\ b \in rules[i].bits
  <2> DEFINE From(b) == b \in m.bits \/ \E i \in 1 .. N : rules[i].on \in line /\ b \in rules[i].bits
             S == {n \in Mons : n.kind = m.kind /\ \A b \in n.bits : From(b)}
  <2>1. ASSUME NEW i \in 1 .. N, NEW n \in S PROVE Applied(phases, n, line, rules[i]) \in S
    <3> DEFINE p == Applied(phases, n, line, rules[i])
    <3>1. n \in Mons /\ n.kind = m.kind /\ \A b \in n.bits : From(b)
      OBVIOUS
    <3>2. /\ SameBut(n, p) /\ (~ Fired(phases, n, line, rules[i]) => p = n)
          /\ Fired(phases, n, line, rules[i]) => p.bits = n.bits \cup rules[i].bits
      BY <1>1, <3>1, RuleApplied
    <3>3. Fired(phases, n, line, rules[i]) => rules[i].on \in line
      BY DEF Fired
    <3> HIDE DEF p, N
    <3>4. \A b \in p.bits : From(b)
      BY <2>1, <3>1, <3>2, <3>3
    <3>5. p \in Mons /\ p.kind = m.kind
      BY <3>1, <3>2 DEF SameBut
    <3> QED BY <3>4, <3>5 DEF p
  <2>2. m \in S /\ S \subseteq Mons
    OBVIOUS
  <2>3. o \in S
    <3> HIDE DEF S, o
    <3> QED BY <2>1, <2>2, RulesKeep DEF o
  <2> HIDE DEF o
  <2> QED BY <2>3 DEF SameBut
<1> DEFINE T(X, k) == {i \in k .. N : ~ X \subseteq f[i].bits}
<1>4. ASSUME NEW k \in 0 .. N, NEW X, X \subseteq f[k].bits PROVE X \subseteq f[N].bits
  <2>1. SUFFICES ASSUME T(X, k) # {} PROVE FALSE
    BY <1>1
  <2>2. PICK i \in T(X, k) : \A y \in T(X, k) : i <= y
    <3>1. T(X, k) \subseteq Nat
      BY <1>1
    <3> HIDE DEF T
    <3> QED BY <2>1, <3>1, LeastOf
  <2>3. i \in k .. N /\ ~ X \subseteq f[i].bits
    BY <2>2
  <2>4. i # k
    BY <1>4, <2>3
  <2>5. i - 1 \in k .. N /\ ~ i <= i - 1 /\ i \in 1 .. N /\ i - 1 \in 0 .. N
    BY <1>1, <2>3, <2>4
  <2>6. i - 1 \notin T(X, k)
    <3> HIDE DEF T
    <3> QED BY <2>2, <2>5
  <2>7. X \subseteq f[i - 1].bits
    BY <2>5, <2>6
  <2>8. f[i - 1] \in Mons /\ f[i] = Applied(phases, f[i - 1], line, rules[i])
    BY <1>2, <2>5 DEF Chain
  <2>9. f[i - 1].bits \subseteq f[i].bits
    BY <1>1, <2>5, <2>8, RuleApplied
  <2> QED BY <2>3, <2>7, <2>9
<1>5. m.bits \subseteq o.bits
  <2>1. 0 \in 0 .. N /\ f[0] = m /\ o = f[N]
    BY <1>1, <1>2 DEF Chain
  <2> HIDE DEF N, o
  <2> QED BY <1>4, <2>1
<1>6. ASSUME NEW i \in 1 .. N, rules[i].on \in line, rules[i].how # "first"
      PROVE  rules[i].bits \subseteq o.bits
  <2>1. i - 1 \in 0 .. N /\ i \in 0 .. N
    BY <1>1
  <2>2. f[i - 1] \in Mons /\ f[i] = Applied(phases, f[i - 1], line, rules[i]) /\ o = f[N]
    BY <1>2, <2>1 DEF Chain
  <2>3. Fired(phases, f[i - 1], line, rules[i])
    BY <1>6 DEF Fired
  <2>4. rules[i].bits \subseteq f[i].bits
    BY <1>1, <2>2, <2>3, RuleApplied
  <2> HIDE DEF N, o
  <2> QED BY <1>4, <2>1, <2>2, <2>4
<1> HIDE DEF o
<1> QED BY <1>3, <1>5, <1>6 DEF Given, o

(* Where a phase stands.                                                   *)
LEMMA RankIsPlace ==
  ASSUME NEW phases \in Seq(PhaseNames), NEW p \in PhasesIn(phases)
  PROVE  Rank(phases, p) \in Nat
<1>1. \E i \in DOMAIN phases : phases[i] = p
  BY DEF PhasesIn
<1>2. DOMAIN phases \subseteq Nat
  OBVIOUS
<1> QED BY <1>1, <1>2 DEF Rank

(* From q on, rules climb: none of them goes to a phase before q but by    *)
(* advancing.                                                              *)
Climbs(phases, rules, q) ==
  \A i \in 1 .. Len(rules) :
    \/ rules[i].how = "see"
    \/ /\ rules[i].to \in PhasesIn(phases)
       /\ rules[i].how = "enter" => q <= Rank(phases, rules[i].to)

LEMMA RulesClimb ==
  ASSUME NEW phases \in Seq(PhaseNames), NEW rules, AreRules(rules), NEW m \in Mons, NEW line,
         m.phase \in PhasesIn(phases), NEW q \in Int, q <= Rank(phases, m.phase),
         Climbs(phases, rules, q)
  PROVE  LET o == Processed(phases, rules, m, line) IN
         o.phase \in PhasesIn(phases) /\ q <= Rank(phases, o.phase)
<1> DEFINE S == {n \in Mons : n.phase \in PhasesIn(phases) /\ q <= Rank(phases, n.phase)}
           N == Len(rules)
<1>1. \A i \in 1 .. N : IsRule(rules[i])
  BY DEF AreRules
<1>2. m \in S /\ S \subseteq Mons
  OBVIOUS
<1>3. ASSUME NEW i \in 1 .. N, NEW n \in S PROVE Applied(phases, n, line, rules[i]) \in S
  <2> DEFINE p == Applied(phases, n, line, rules[i])
  <2>1. n \in Mons /\ n.phase \in PhasesIn(phases) /\ q <= Rank(phases, n.phase)
    OBVIOUS
  <2>2. p \in Mons /\ p.phase = IF Fired(phases, n, line, rules[i]) /\ Moved(phases, n, rules[i])
                                THEN rules[i].to ELSE n.phase
    BY <1>1, <2>1, RuleApplied DEF SameBut
  <2>3. Moved(phases, n, rules[i]) =>
          /\ rules[i].to \in PhasesIn(phases)
          /\ \/ Rank(phases, n.phase) < Rank(phases, rules[i].to)
             \/ q <= Rank(phases, rules[i].to)
    BY DEF Moved, Earlier, Climbs
  <2>4. /\ Rank(phases, n.phase) \in Nat
        /\ rules[i].to \in PhasesIn(phases) => Rank(phases, rules[i].to) \in Nat
    BY <2>1, RankIsPlace
  <2> HIDE DEF p
  <2>5. p.phase \in PhasesIn(phases) /\ q <= Rank(phases, p.phase)
    BY <2>1, <2>2, <2>3, <2>4
  <2> QED BY <2>2, <2>5 DEF p
<1>4. Processed(phases, rules, m, line) \in S
  <2> HIDE DEF S
  <2> QED BY <1>2, <1>3, RulesKeep
<1> QED BY <1>4

LEMMA Advances ==
  ASSUME NEW phases \in Seq(PhaseNames), NEW m \in Mons, NEW p \in PhasesIn(phases),
         m.phase \in PhasesIn(phases)
  PROVE  LET o == Advance(phases, m, p) IN
         /\ o.phase \in PhasesIn(phases)
         /\ Rank(phases, m.phase) <= Rank(phases, o.phase) /\ Rank(phases, p) <= Rank(phases, o.phase)
<1>1. p \in PhaseNames
  BY DEF PhasesIn
<1>2. Advance(phases, m, p).phase = IF Earlier(phases, m.phase, p) THEN p ELSE m.phase
  BY <1>1, PhaseAdvanced
<1> QED BY <1>2, RankIsPlace DEF Earlier

-------------------------------------------------------------------------------

(* The phases of each monitor, and the rules that all give what they see.  *)

LEMMA PhaseLists ==
  /\ UserspacePhases \in Seq(PhaseNames) /\ AndroidX86Phases \in Seq(PhaseNames)
  /\ AdrenoPhases \in Seq(PhaseNames)
  /\ BridgePhases \in Seq(PhaseNames) /\ SensorPhases \in Seq(PhaseNames) /\ X86HwPhases \in Seq(PhaseNames)
  /\ CompatPhases \in Seq(PhaseNames)
BY DEF UserspacePhases, AndroidX86Phases, AdrenoPhases, BridgePhases, SensorPhases, X86HwPhases,
       CompatPhases, PhaseNames

LEMMA UserspaceRanks ==
  /\ PhasesIn(UserspacePhases) =
       {"KernelHandoff", "FirstStageInit", "SecondStageInit", "SystemDaemonsStarted",
        "HalsRegistered", "ZygoteReady", "HomeScreenRendered"}
  /\ Rank(UserspacePhases, "ZygoteReady") = 6 /\ Rank(UserspacePhases, "HomeScreenRendered") = 7
  /\ \A p \in PhasesIn(UserspacePhases) : Rank(UserspacePhases, p) \in 1 .. 7
BY DEF UserspacePhases, PhasesIn, Rank

LEMMA AndroidX86Ranks ==
  /\ PhasesIn(AndroidX86Phases) =
       {"NotStarted", "GpuVendorDetected", "KernelModulesLoaded", "DrmDeviceVisible", "IcdSelected",
        "VulkanInitialized", "DrmHwcLaunched", "HomeScreenRendered", "GatePassed"}
  /\ Rank(AndroidX86Phases, "NotStarted") = 1
  /\ Rank(AndroidX86Phases, "IcdSelected") = 5 /\ Rank(AndroidX86Phases, "VulkanInitialized") = 6
  /\ Rank(AndroidX86Phases, "DrmHwcLaunched") = 7 /\ Rank(AndroidX86Phases, "HomeScreenRendered") = 8
  /\ Rank(AndroidX86Phases, "GatePassed") = 9
  /\ \A p \in PhasesIn(AndroidX86Phases) : Rank(AndroidX86Phases, p) \in 1 .. 9
BY DEF AndroidX86Phases, PhasesIn, Rank

LEMMA AdrenoRanks ==
  /\ PhasesIn(AdrenoPhases) =
       {"NotStarted", "DrmDriverBound", "GrallocReady", "HwcReady", "VulkanReady", "RenderingActive",
        "GatePassed"}
  /\ Rank(AdrenoPhases, "GatePassed") = 7
  /\ \A p \in PhasesIn(AdrenoPhases) : Rank(AdrenoPhases, p) \in 1 .. 7
BY DEF AdrenoPhases, PhasesIn, Rank

LEMMA BridgeRanks ==
  /\ PhasesIn(BridgePhases) =
       {"NotStarted", "UsbReady", "AdbConnected", "SensorStreamActive", "IdentityLoaded", "GatePassed"}
  /\ Rank(BridgePhases, "NotStarted") = 1 /\ Rank(BridgePhases, "UsbReady") = 2
  /\ Rank(BridgePhases, "AdbConnected") = 3 /\ Rank(BridgePhases, "SensorStreamActive") = 4
  /\ Rank(BridgePhases, "IdentityLoaded") = 5 /\ Rank(BridgePhases, "GatePassed") = 6
BY DEF BridgePhases, PhasesIn, Rank

LEMMA SensorRanks ==
  /\ PhasesIn(SensorPhases) =
       {"NotStarted", "HvcRegistered", "SensorHalStarted", "ModemAttached", "GatePassed"}
  /\ Rank(SensorPhases, "NotStarted") = 1 /\ Rank(SensorPhases, "HvcRegistered") = 2
  /\ Rank(SensorPhases, "SensorHalStarted") = 3 /\ Rank(SensorPhases, "ModemAttached") = 4
  /\ Rank(SensorPhases, "GatePassed") = 5
BY DEF SensorPhases, PhasesIn, Rank

LEMMA X86HwRanks ==
  /\ PhasesIn(X86HwPhases) =
       {"NotStarted", "IntelVtxVerified", "AmdSvmVerified", "BothVendorsVerified", "FexModeConfirmed",
        "EptNptInvalidationsVerified", "IntelAndroidBooted", "AmdAndroidBooted", "GatePassed"}
  /\ Rank(X86HwPhases, "NotStarted") = 1 /\ Rank(X86HwPhases, "FexModeConfirmed") = 5
  /\ Rank(X86HwPhases, "GatePassed") = 9
  /\ \A p \in PhasesIn(X86HwPhases) : Rank(X86HwPhases, p) \in 1 .. 9
BY DEF X86HwPhases, PhasesIn, Rank

LEMMA CompatRanks ==
  /\ PhasesIn(CompatPhases) =
       {"NotStarted", "HarnessReady", "ApksInstalled", "SmokeTestsRunning", "BugsTriaged", "GatePassed"}
  /\ Rank(CompatPhases, "NotStarted") = 1 /\ Rank(CompatPhases, "HarnessReady") = 2
  /\ Rank(CompatPhases, "ApksInstalled") = 3 /\ Rank(CompatPhases, "SmokeTestsRunning") = 4
  /\ Rank(CompatPhases, "BugsTriaged") = 5 /\ Rank(CompatPhases, "GatePassed") = 6
  /\ \A p \in PhasesIn(CompatPhases) : Rank(CompatPhases, p) \in 1 .. 6
BY DEF CompatPhases, PhasesIn, Rank

(* A rule that is right in form and sends to a phase on the way: not what  *)
(* a monitor starts from, nor what it ends with.                           *)
Sends(phases, r) ==
  /\ r.bits \subseteq Criteria /\ r.to \in PhaseNames /\ r.to \notin {"NotStarted", "GatePassed"}
  /\ r.how = "see" \/ r.to \in PhasesIn(phases)
WellFormed(phases, rules) ==
  Len(rules) \in Nat /\ \A i \in 1 .. Len(rules) : Sends(phases, rules[i])

(* A criterion is named as the signature that gives it.                    *)
OwnSigns(rules) == \A i \in 1 .. Len(rules) : rules[i].bits \subseteq {rules[i].on}

(* The phases that are entered from anywhere.                              *)
EntersOnly(rules, P) == \A i \in 1 .. Len(rules) : rules[i].how = "enter" => rules[i].to \in P

LEMMA FormIsRules ==
  ASSUME NEW phases, NEW rules, WellFormed(phases, rules)
  PROVE  AreRules(rules)
BY DEF WellFormed, Sends, AreRules, IsRule

(* A rule written out.                                                     *)
RuleIs(r, sig, how, to, bits) == r.on = sig /\ r.how = how /\ r.to = to /\ r.bits = bits

LEMMA UserspaceRulesListed ==
  /\ Len(UserspaceRules) = 8
  /\ RuleIs(UserspaceRules[1], "zygote", "enter", "ZygoteReady", {})
  /\ RuleIs(UserspaceRules[2], "home", "enter", "HomeScreenRendered", {"home"})
  /\ RuleIs(UserspaceRules[3], "settings", "see", "", {"settings"})
  /\ RuleIs(UserspaceRules[4], "user", "see", "", {"user"})
  /\ RuleIs(UserspaceRules[5], "first_stage", "reach", "FirstStageInit", {})
  /\ RuleIs(UserspaceRules[6], "second_stage", "reach", "SecondStageInit", {})
  /\ RuleIs(UserspaceRules[7], "servicemanager", "reach", "SystemDaemonsStarted", {})
  /\ RuleIs(UserspaceRules[8], "hals", "reach", "HalsRegistered", {})
BY DEF UserspaceRules, Enters, Reports, Sees, RuleIs

LEMMA UserspaceRulesForm ==
  WellFormed(UserspacePhases, UserspaceRules) /\ OwnSigns(UserspaceRules)
  /\ EntersOnly(UserspaceRules, {"HomeScreenRendered", "ZygoteReady"})
<1> DEFINE Right(i) ==
             /\ Sends(UserspacePhases, UserspaceRules[i])
             /\ UserspaceRules[i].bits \subseteq {UserspaceRules[i].on}
             /\ UserspaceRules[i].how = "enter" =>
                  UserspaceRules[i].to \in {"HomeScreenRendered", "ZygoteReady"}
<1>1. {"", "FirstStageInit", "HalsRegistered", "HomeScreenRendered", "SecondStageInit",
       "SystemDaemonsStarted", "ZygoteReady"} \subseteq PhaseNames \ {"NotStarted", "GatePassed"}
  BY DEF PhaseNames
<1>2. {"FirstStageInit", "HalsRegistered", "HomeScreenRendered", "SecondStageInit",
       "SystemDaemonsStarted", "ZygoteReady"} \subseteq PhasesIn(UserspacePhases)
  BY UserspaceRanks
<1>3. {"home", "settings", "user"} \subseteq Criteria
  BY DEF Criteria
<1>4. Right(1)
  BY <1>1, <1>2, <1>3, UserspaceRulesListed DEF Sends, RuleIs
<1>5. Right(2)
  BY <1>1, <1>2, <1>3, UserspaceRulesListed DEF Sends, RuleIs
<1>6. Right(3)
  BY <1>1, <1>2, <1>3, UserspaceRulesListed DEF Sends, RuleIs
<1>7. Right(4)
  BY <1>1, <1>2, <1>3, UserspaceRulesListed DEF Sends, RuleIs
<1>8. Right(5)
  BY <1>1, <1>2, <1>3, UserspaceRulesListed DEF Sends, RuleIs
<1>9. Right(6)
  BY <1>1, <1>2, <1>3, UserspaceRulesListed DEF Sends, RuleIs
<1>10. Right(7)
  BY <1>1, <1>2, <1>3, UserspaceRulesListed DEF Sends, RuleIs
<1>11. Right(8)
  BY <1>1, <1>2, <1>3, UserspaceRulesListed DEF Sends, RuleIs
<1>12. Len(UserspaceRules) = 8
  BY UserspaceRulesListed DEF RuleIs
<1>13. \A i \in 1 .. 8 : Right(i)
  <2> HIDE DEF Right
  <2> QED BY <1>4, <1>5, <1>6, <1>7, <1>8, <1>9, <1>10, <1>11
<1> QED BY <1>12, <1>13 DEF WellFormed, OwnSigns, EntersOnly

LEMMA AndroidX86RulesListed ==
  /\ Len(AndroidX86Rules) = 6
  /\ RuleIs(AndroidX86Rules[1], "vulkan", "first", "VulkanInitialized", {"vulkan"})
  /\ RuleIs(AndroidX86Rules[2], "hwc", "first", "DrmHwcLaunched", {})
  /\ RuleIs(AndroidX86Rules[3], "home", "reach", "HomeScreenRendered", {"home"})
  /\ RuleIs(AndroidX86Rules[4], "glmark2", "see", "", {"glmark2"})
  /\ RuleIs(AndroidX86Rules[5], "nproc", "see", "", {"nproc"})
  /\ RuleIs(AndroidX86Rules[6], "user", "see", "", {"user"})
BY DEF AndroidX86Rules, First, Reports, Sees, RuleIs

LEMMA AndroidX86RulesForm ==
  WellFormed(AndroidX86Phases, AndroidX86Rules) /\ OwnSigns(AndroidX86Rules)
  /\ EntersOnly(AndroidX86Rules, {})
<1> DEFINE Right(i) ==
             /\ Sends(AndroidX86Phases, AndroidX86Rules[i])
             /\ AndroidX86Rules[i].bits \subseteq {AndroidX86Rules[i].on}
             /\ AndroidX86Rules[i].how = "enter" => AndroidX86Rules[i].to \in {}
<1>1. {"", "DrmHwcLaunched", "HomeScreenRendered", "VulkanInitialized"}
      \subseteq PhaseNames \ {"NotStarted", "GatePassed"}
  BY DEF PhaseNames
<1>2. {"DrmHwcLaunched", "HomeScreenRendered", "VulkanInitialized"}
      \subseteq PhasesIn(AndroidX86Phases)
  BY AndroidX86Ranks
<1>3. {"glmark2", "home", "nproc", "user", "vulkan"} \subseteq Criteria
  BY DEF Criteria
<1>4. Right(1)
  BY <1>1, <1>2, <1>3, AndroidX86RulesListed DEF Sends, RuleIs
<1>5. Right(2)
  BY <1>1, <1>2, <1>3, AndroidX86RulesListed DEF Sends, RuleIs
<1>6. Right(3)
  BY <1>1, <1>2, <1>3, AndroidX86RulesListed DEF Sends, RuleIs
<1>7. Right(4)
  BY <1>1, <1>2, <1>3, AndroidX86RulesListed DEF Sends, RuleIs
<1>8. Right(5)
  BY <1>1, <1>2, <1>3, AndroidX86RulesListed DEF Sends, RuleIs
<1>9. Right(6)
  BY <1>1, <1>2, <1>3, AndroidX86RulesListed DEF Sends, RuleIs
<1>10. Len(AndroidX86Rules) = 6
  BY AndroidX86RulesListed DEF RuleIs
<1>11. \A i \in 1 .. 6 : Right(i)
  <2> HIDE DEF Right
  <2> QED BY <1>4, <1>5, <1>6, <1>7, <1>8, <1>9
<1> QED BY <1>10, <1>11 DEF WellFormed, OwnSigns, EntersOnly

LEMMA AdrenoRulesListed ==
  /\ Len(AdrenoRules) = 5
  /\ RuleIs(AdrenoRules[1], "drm", "first", "DrmDriverBound", {})
  /\ RuleIs(AdrenoRules[2], "gralloc", "first", "GrallocReady", {})
  /\ RuleIs(AdrenoRules[3], "hwc", "first", "HwcReady", {})
  /\ RuleIs(AdrenoRules[4], "vulkan", "reach", "VulkanReady", {"vulkan"})
  /\ RuleIs(AdrenoRules[5], "compositing", "first", "RenderingActive", {})
BY DEF AdrenoRules, First, Reports, RuleIs

LEMMA AdrenoRulesForm ==
  WellFormed(AdrenoPhases, AdrenoRules) /\ OwnSigns(AdrenoRules) /\ EntersOnly(AdrenoRules, {})
<1> DEFINE Right(i) ==
             /\ Sends(AdrenoPhases, AdrenoRules[i])
             /\ AdrenoRules[i].bits \subseteq {AdrenoRules[i].on}
             /\ AdrenoRules[i].how = "enter" => AdrenoRules[i].to \in {}
<1>1. {"", "DrmDriverBound", "GrallocReady", "HwcReady", "RenderingActive", "VulkanReady"}
      \subseteq PhaseNames \ {"NotStarted", "GatePassed"}
  BY DEF PhaseNames
<1>2. {"DrmDriverBound", "GrallocReady", "HwcReady", "RenderingActive", "VulkanReady"}
      \subseteq PhasesIn(AdrenoPhases)
  BY AdrenoRanks
<1>3. {"vulkan"} \subseteq Criteria
  BY DEF Criteria
<1>4. Right(1)
  BY <1>1, <1>2, <1>3, AdrenoRulesListed DEF Sends, RuleIs
<1>5. Right(2)
  BY <1>1, <1>2, <1>3, AdrenoRulesListed DEF Sends, RuleIs
<1>6. Right(3)
  BY <1>1, <1>2, <1>3, AdrenoRulesListed DEF Sends, RuleIs
<1>7. Right(4)
  BY <1>1, <1>2, <1>3, AdrenoRulesListed DEF Sends, RuleIs
<1>8. Right(5)
  BY <1>1, <1>2, <1>3, AdrenoRulesListed DEF Sends, RuleIs
<1>9. Len(AdrenoRules) = 5
  BY AdrenoRulesListed DEF RuleIs
<1>10. \A i \in 1 .. 5 : Right(i)
  <2> HIDE DEF Right
  <2> QED BY <1>4, <1>5, <1>6, <1>7, <1>8
<1> QED BY <1>9, <1>10 DEF WellFormed, OwnSigns, EntersOnly

LEMMA SensorRulesListed ==
  /\ Len(SensorRules) = 4
  /\ RuleIs(SensorRules[1], "accel", "see", "", {"accel"})
  /\ RuleIs(SensorRules[2], "gyro", "see", "", {"gyro"})
  /\ RuleIs(SensorRules[3], "mag", "see", "", {"mag"})
  /\ RuleIs(SensorRules[4], "no_sim", "see", "", {"no_sim"})
BY DEF SensorRules, Sees, RuleIs

LEMMA SensorRulesForm ==
  WellFormed(SensorPhases, SensorRules) /\ OwnSigns(SensorRules) /\ EntersOnly(SensorRules, {})
<1> DEFINE Right(i) ==
             /\ Sends(SensorPhases, SensorRules[i])
             /\ SensorRules[i].bits \subseteq {SensorRules[i].on}
             /\ SensorRules[i].how = "enter" => SensorRules[i].to \in {}
<1>1. {""} \subseteq PhaseNames \ {"NotStarted", "GatePassed"}
  BY DEF PhaseNames
<1>2. {"accel", "gyro", "mag", "no_sim"} \subseteq Criteria
  BY DEF Criteria
<1>3. Right(1)
  BY <1>1, <1>2, SensorRulesListed DEF Sends, RuleIs
<1>4. Right(2)
  BY <1>1, <1>2, SensorRulesListed DEF Sends, RuleIs
<1>5. Right(3)
  BY <1>1, <1>2, SensorRulesListed DEF Sends, RuleIs
<1>6. Right(4)
  BY <1>1, <1>2, SensorRulesListed DEF Sends, RuleIs
<1>7. Len(SensorRules) = 4
  BY SensorRulesListed DEF RuleIs
<1>8. \A i \in 1 .. 4 : Right(i)
  <2> HIDE DEF Right
  <2> QED BY <1>3, <1>4, <1>5, <1>6
<1> QED BY <1>7, <1>8 DEF WellFormed, OwnSigns, EntersOnly

LEMMA X86HwRules1Listed ==
  /\ Len(X86HwRules1) = 2
  /\ RuleIs(X86HwRules1[1], "intel_vtx", "reach", "IntelVtxVerified", {"intel"})
  /\ RuleIs(X86HwRules1[2], "amd_svm", "reach", "AmdSvmVerified", {"amd"})
BY DEF X86HwRules1, Reports, RuleIs

LEMMA X86HwRules1Form ==
  WellFormed(X86HwPhases, X86HwRules1) /\ EntersOnly(X86HwRules1, {})
<1> DEFINE Right(i) ==
             /\ Sends(X86HwPhases, X86HwRules1[i])
             /\ X86HwRules1[i].how = "enter" => X86HwRules1[i].to \in {}
<1>1. {"", "AmdSvmVerified", "IntelVtxVerified"} \subseteq PhaseNames \ {"NotStarted", "GatePassed"}
  BY DEF PhaseNames
<1>2. {"AmdSvmVerified", "IntelVtxVerified"} \subseteq PhasesIn(X86HwPhases)
  BY X86HwRanks
<1>3. {"amd", "intel"} \subseteq Criteria
  BY DEF Criteria
<1>4. Right(1)
  BY <1>1, <1>2, <1>3, X86HwRules1Listed DEF Sends, RuleIs
<1>5. Right(2)
  BY <1>1, <1>2, <1>3, X86HwRules1Listed DEF Sends, RuleIs
<1>6. Len(X86HwRules1) = 2
  BY X86HwRules1Listed DEF RuleIs
<1>7. \A i \in 1 .. 2 : Right(i)
  <2> HIDE DEF Right
  <2> QED BY <1>4, <1>5
<1> QED BY <1>6, <1>7 DEF WellFormed, EntersOnly

LEMMA X86HwRules2Listed ==
  /\ Len(X86HwRules2) = 1
  /\ RuleIs(X86HwRules2[1], "fex", "reach", "FexModeConfirmed", {"fex", "fex_confirmed"})
BY DEF X86HwRules2, Reports, RuleIs

LEMMA X86HwRules2Form ==
  WellFormed(X86HwPhases, X86HwRules2) /\ EntersOnly(X86HwRules2, {})
<1> DEFINE Right(i) ==
             /\ Sends(X86HwPhases, X86HwRules2[i])
             /\ X86HwRules2[i].how = "enter" => X86HwRules2[i].to \in {}
<1>1. {"", "FexModeConfirmed"} \subseteq PhaseNames \ {"NotStarted", "GatePassed"}
  BY DEF PhaseNames
<1>2. {"FexModeConfirmed"} \subseteq PhasesIn(X86HwPhases)
  BY X86HwRanks
<1>3. {"fex", "fex_confirmed"} \subseteq Criteria
  BY DEF Criteria
<1>4. Right(1)
  BY <1>1, <1>2, <1>3, X86HwRules2Listed DEF Sends, RuleIs
<1>5. Len(X86HwRules2) = 1
  BY X86HwRules2Listed DEF RuleIs
<1>6. \A i \in 1 .. 1 : Right(i)
  <2> HIDE DEF Right
  <2> QED BY <1>4
<1> QED BY <1>5, <1>6 DEF WellFormed, EntersOnly

LEMMA X86HwRules3Listed ==
  /\ Len(X86HwRules3) = 3
  /\ RuleIs(X86HwRules3[1], "boot_intel", "reach", "IntelAndroidBooted", {"boot_intel"})
  /\ RuleIs(X86HwRules3[2], "boot_amd", "reach", "AmdAndroidBooted", {"boot_amd"})
  /\ RuleIs(X86HwRules3[3], "user", "see", "", {"user"})
BY DEF X86HwRules3, Reports, Sees, RuleIs

LEMMA X86HwRules3Form ==
  WellFormed(X86HwPhases, X86HwRules3) /\ OwnSigns(X86HwRules3) /\ EntersOnly(X86HwRules3, {})
<1> DEFINE Right(i) ==
             /\ Sends(X86HwPhases, X86HwRules3[i])
             /\ X86HwRules3[i].bits \subseteq {X86HwRules3[i].on}
             /\ X86HwRules3[i].how = "enter" => X86HwRules3[i].to \in {}
<1>1. {"", "AmdAndroidBooted", "IntelAndroidBooted"}
      \subseteq PhaseNames \ {"NotStarted", "GatePassed"}
  BY DEF PhaseNames
<1>2. {"AmdAndroidBooted", "IntelAndroidBooted"} \subseteq PhasesIn(X86HwPhases)
  BY X86HwRanks
<1>3. {"boot_amd", "boot_intel", "user"} \subseteq Criteria
  BY DEF Criteria
<1>4. Right(1)
  BY <1>1, <1>2, <1>3, X86HwRules3Listed DEF Sends, RuleIs
<1>5. Right(2)
  BY <1>1, <1>2, <1>3, X86HwRules3Listed DEF Sends, RuleIs
<1>6. Right(3)
  BY <1>1, <1>2, <1>3, X86HwRules3Listed DEF Sends, RuleIs
<1>7. Len(X86HwRules3) = 3
  BY X86HwRules3Listed DEF RuleIs
<1>8. \A i \in 1 .. 3 : Right(i)
  <2> HIDE DEF Right
  <2> QED BY <1>4, <1>5, <1>6
<1> QED BY <1>7, <1>8 DEF WellFormed, OwnSigns, EntersOnly

LEMMA RulesType ==
  ASSUME NEW phases, NEW rules, AreRules(rules), NEW m \in Mons, NEW line
  PROVE  SameBut(m, Processed(phases, rules, m, line))
BY RulesGive

(* What gives a criterion in whatever phase, and what never gives it.      *)
Gives(rules, s) ==
  \E i \in 1 .. Len(rules) : rules[i].on = s /\ rules[i].how # "first" /\ s \in rules[i].bits
Lacks(rules, s) == \A i \in 1 .. Len(rules) : s \notin rules[i].bits

LEMMA RulesShow ==
  ASSUME NEW phases, NEW rules, AreRules(rules), NEW m \in Mons, NEW line, NEW s
  PROVE  LET o == Processed(phases, rules, m, line) IN
         /\ OwnSigns(rules) => (s \in o.bits => s \in m.bits \/ s \in line)
         /\ Gives(rules, s) => (s \in m.bits \/ s \in line => s \in o.bits)
         /\ Lacks(rules, s) => (s \in o.bits <=> s \in m.bits)
<1> DEFINE o == Processed(phases, rules, m, line)
<1>1. Given(rules, line, m, o)
  BY RulesGive
<1> HIDE DEF o
<1>2. OwnSigns(rules) => (s \in o.bits => s \in m.bits \/ s \in line)
  BY <1>1 DEF Given, OwnSigns
<1>3. Gives(rules, s) => (s \in m.bits \/ s \in line => s \in o.bits)
  BY <1>1 DEF Given, Gives
<1>4. Lacks(rules, s) => (s \in o.bits <=> s \in m.bits)
  BY <1>1 DEF Given, Lacks
<1> QED BY <1>2, <1>3, <1>4 DEF o

LEMMA UserspaceRulesGive ==
  Gives(UserspaceRules, "home") /\ Gives(UserspaceRules, "settings")
  /\ Gives(UserspaceRules, "user")
<1>1. Len(UserspaceRules) = 8
  BY UserspaceRulesListed DEF RuleIs
<1>2. Gives(UserspaceRules, "home")
  <2>1. UserspaceRules[2].on = "home" /\ UserspaceRules[2].how # "first"
        /\ "home" \in UserspaceRules[2].bits
    BY UserspaceRulesListed DEF RuleIs
  <2> QED BY <1>1, <2>1 DEF Gives
<1>3. Gives(UserspaceRules, "settings")
  <2>1. UserspaceRules[3].on = "settings" /\ UserspaceRules[3].how # "first"
        /\ "settings" \in UserspaceRules[3].bits
    BY UserspaceRulesListed DEF RuleIs
  <2> QED BY <1>1, <2>1 DEF Gives
<1>4. Gives(UserspaceRules, "user")
  <2>1. UserspaceRules[4].on = "user" /\ UserspaceRules[4].how # "first"
        /\ "user" \in UserspaceRules[4].bits
    BY UserspaceRulesListed DEF RuleIs
  <2> QED BY <1>1, <2>1 DEF Gives
<1> QED BY <1>2, <1>3, <1>4

LEMMA AndroidX86RulesGive ==
  Gives(AndroidX86Rules, "home") /\ Gives(AndroidX86Rules, "glmark2")
  /\ Gives(AndroidX86Rules, "nproc") /\ Gives(AndroidX86Rules, "user")
<1>1. Len(AndroidX86Rules) = 6
  BY AndroidX86RulesListed DEF RuleIs
<1>2. Gives(AndroidX86Rules, "home")
  <2>1. AndroidX86Rules[3].on = "home" /\ AndroidX86Rules[3].how # "first"
        /\ "home" \in AndroidX86Rules[3].bits
    BY AndroidX86RulesListed DEF RuleIs
  <2> QED BY <1>1, <2>1 DEF Gives
<1>3. Gives(AndroidX86Rules, "glmark2")
  <2>1. AndroidX86Rules[4].on = "glmark2" /\ AndroidX86Rules[4].how # "first"
        /\ "glmark2" \in AndroidX86Rules[4].bits
    BY AndroidX86RulesListed DEF RuleIs
  <2> QED BY <1>1, <2>1 DEF Gives
<1>4. Gives(AndroidX86Rules, "nproc")
  <2>1. AndroidX86Rules[5].on = "nproc" /\ AndroidX86Rules[5].how # "first"
        /\ "nproc" \in AndroidX86Rules[5].bits
    BY AndroidX86RulesListed DEF RuleIs
  <2> QED BY <1>1, <2>1 DEF Gives
<1>5. Gives(AndroidX86Rules, "user")
  <2>1. AndroidX86Rules[6].on = "user" /\ AndroidX86Rules[6].how # "first"
        /\ "user" \in AndroidX86Rules[6].bits
    BY AndroidX86RulesListed DEF RuleIs
  <2> QED BY <1>1, <2>1 DEF Gives
<1> QED BY <1>2, <1>3, <1>4, <1>5

LEMMA AdrenoRulesGive ==
  Gives(AdrenoRules, "vulkan")
<1>1. Len(AdrenoRules) = 5
  BY AdrenoRulesListed DEF RuleIs
<1>2. AdrenoRules[4].on = "vulkan" /\ AdrenoRules[4].how # "first"
      /\ "vulkan" \in AdrenoRules[4].bits
  BY AdrenoRulesListed DEF RuleIs
<1> QED BY <1>1, <1>2 DEF Gives

LEMMA SensorRulesGive ==
  Gives(SensorRules, "accel") /\ Gives(SensorRules, "gyro") /\ Gives(SensorRules, "mag")
  /\ Gives(SensorRules, "no_sim")
<1>1. Len(SensorRules) = 4
  BY SensorRulesListed DEF RuleIs
<1>2. Gives(SensorRules, "accel")
  <2>1. SensorRules[1].on = "accel" /\ SensorRules[1].how # "first"
        /\ "accel" \in SensorRules[1].bits
    BY SensorRulesListed DEF RuleIs
  <2> QED BY <1>1, <2>1 DEF Gives
<1>3. Gives(SensorRules, "gyro")
  <2>1. SensorRules[2].on = "gyro" /\ SensorRules[2].how # "first" /\ "gyro" \in SensorRules[2].bits
    BY SensorRulesListed DEF RuleIs
  <2> QED BY <1>1, <2>1 DEF Gives
<1>4. Gives(SensorRules, "mag")
  <2>1. SensorRules[3].on = "mag" /\ SensorRules[3].how # "first" /\ "mag" \in SensorRules[3].bits
    BY SensorRulesListed DEF RuleIs
  <2> QED BY <1>1, <2>1 DEF Gives
<1>5. Gives(SensorRules, "no_sim")
  <2>1. SensorRules[4].on = "no_sim" /\ SensorRules[4].how # "first"
        /\ "no_sim" \in SensorRules[4].bits
    BY SensorRulesListed DEF RuleIs
  <2> QED BY <1>1, <2>1 DEF Gives
<1> QED BY <1>2, <1>3, <1>4, <1>5

LEMMA FormClimbs ==
  ASSUME NEW phases, NEW rules, NEW P, WellFormed(phases, rules), EntersOnly(rules, P),
         NEW q \in Int, \A p \in P : q <= Rank(phases, p)
  PROVE  Climbs(phases, rules, q)
BY DEF WellFormed, EntersOnly, Climbs, Sends

LEMMA FirstFound ==
  ASSUME NEW X, NEW alternatives \in Seq(X), NEW set, NEW none
  PROVE  LET o == FirstIn(alternatives, set, none) IN
         o = none \/ (o \in set /\ o \in PhasesIn(alternatives))
<1> DEFINE hits == {i \in DOMAIN alternatives : alternatives[i] \in set}
<1>1. CASE hits = {}
  BY <1>1 DEF FirstIn
<1>2. CASE hits # {}
  <2>1. hits \subseteq Nat
    OBVIOUS
  <2> HIDE DEF hits
  <2>2. PICK i \in hits : \A j \in hits : i <= j
    BY <1>2, <2>1, LeastOf
  <2>3. (CHOOSE k \in hits : \A j \in hits : k <= j) \in hits
    BY <2>2
  <2> USE DEF hits
  <2>4. FirstIn(alternatives, set, none) = alternatives[CHOOSE k \in hits : \A j \in hits : k <= j]
    BY <1>2 DEF FirstIn
  <2> QED BY <2>3, <2>4 DEF PhasesIn
<1> QED BY <1>1, <1>2

-------------------------------------------------------------------------------

(* What has been seen, and where.                                          *)

Sigs == UNION {Signatures(k) : k \in Kinds}
AllApart(w) == \A i, j \in DOMAIN w : i # j => w[i] \cap w[j] = {}
SeenInv == seen \in Seq(SUBSET Sigs) /\ AllApart(seen)

LEMMA Sighted1 ==
  ASSUME SeenInv, NEW i \in DOMAIN seen, NEW s \in seen[i]
  PROVE  s \in Sighted /\ Sighting(s) = i
<1>1. s \in Sighted
  BY DEF Sighted
<1>2. \A j \in DOMAIN seen : s \in seen[j] => j = i
  BY DEF SeenInv, AllApart
<1> QED BY <1>1, <1>2 DEF Sighting

LEMMA LineSeen ==
  ASSUME SeenInv, NEW line \in SUBSET Sigs, process_line(line)
  PROVE  /\ SeenInv' /\ Sighted' = Sighted \cup line
         /\ mon.kind \in {"android_x86", "bridge"} =>
              /\ \A s \in Sighted : Sighting(s)' = Sighting(s) /\ Sighting(s) \in 1 .. Len(seen)
              /\ \A s \in line \ Sighted : Sighting(s)' = Len(seen) + 1
<1> DEFINE new == line \ Sighted
           N == Len(seen)
<1>1. N \in Nat /\ DOMAIN seen = 1 .. N /\ seen \in Seq(SUBSET Sigs) /\ AllApart(seen)
  BY DEF SeenInv
<1>2. \A s : s \in Sighted <=> \E i \in 1 .. N : s \in seen[i]
  BY <1>1 DEF Sighted
<1>3. CASE new = {}
  <2>1. seen' = seen
    BY <1>3 DEF process_line
  <2>2. Sighted' = Sighted
    BY <2>1 DEF Sighted
  <2>3. SeenInv'
    BY <2>1 DEF SeenInv, AllApart
  <2>4. \A s \in Sighted : Sighting(s)' = Sighting(s) /\ Sighting(s) \in 1 .. N
    <3>1. \A s \in Sighted : Sighting(s)' = Sighting(s)
      BY <2>1 DEF Sighting
    <3>2. ASSUME NEW s \in Sighted PROVE Sighting(s) \in 1 .. N
      BY <1>1, <1>2, Sighted1
    <3> QED BY <3>1, <3>2
  <2> QED BY <1>3, <2>2, <2>3, <2>4
<1>4. CASE new # {} /\ mon.kind \in {"android_x86", "bridge"}
  <2>1. seen' = Append(seen, new)
    BY <1>4 DEF process_line
  <2>2. new \in SUBSET Sigs
    OBVIOUS
  <2>3. new \cap Sighted = {}
    OBVIOUS
  <2> HIDE DEF new
  <2>4. /\ seen' \in Seq(SUBSET Sigs) /\ DOMAIN seen' = 1 .. N + 1 /\ seen'[N + 1] = new
        /\ \A i \in 1 .. N : seen'[i] = seen[i]
    BY <1>1, <2>1, <2>2
  <2>5. \A i \in 1 .. N + 1 : i \in 1 .. N \/ i = N + 1
    BY <1>1
  <2>6. N + 1 \in 1 .. N + 1 /\ N + 1 \notin 1 .. N /\ \A i \in 1 .. N : i \in 1 .. N + 1
    BY <1>1
  <2>7. \A i \in 1 .. N : seen[i] \cap new = {}
    BY <1>2, <2>3
  <2> HIDE DEF N
  <2>8. AllApart(seen')
    BY <1>1, <2>4, <2>5, <2>7 DEF AllApart
  <2>9. SeenInv'
    BY <2>4, <2>8 DEF SeenInv, AllApart
  <2>10. \A s : s \in Sighted' <=> s \in Sighted \/ s \in new
    BY <1>2, <2>4, <2>5, <2>6 DEF Sighted
  <2>11. ASSUME NEW s, NEW i \in 1 .. N + 1, s \in seen'[i] PROVE Sighting(s)' = i
    <3>1. \A j \in DOMAIN seen' : s \in seen'[j] => j = i
      BY <2>4, <2>8, <2>11 DEF AllApart
    <3> QED BY <2>4, <2>11, <3>1 DEF Sighting
  <2>12. ASSUME NEW s \in Sighted PROVE Sighting(s)' = Sighting(s) /\ Sighting(s) \in 1 .. N
    <3>1. PICK i \in 1 .. N : s \in seen[i]
      BY <1>2, <2>12
    <3>2. Sighting(s) = i
      BY <1>1, <3>1, Sighted1 DEF N
    <3>3. Sighting(s)' = i
      BY <2>4, <2>6, <2>11, <3>1
    <3> QED BY <3>1, <3>2, <3>3
  <2>13. \A s \in new : Sighting(s)' = N + 1
    BY <2>4, <2>6, <2>11
  <2> QED BY <2>9, <2>10, <2>12, <2>13 DEF new, N
<1>5. CASE new # {} /\ mon.kind \notin {"android_x86", "bridge"}
  <2> DEFINE all == Sighted \cup new
  <2>1. seen' = <<all>>
    BY <1>5 DEF process_line
  <2>2. all \in SUBSET Sigs
    BY <1>1, <1>2
  <2>3. all = Sighted \cup line
    OBVIOUS
  <2> HIDE DEF all
  <2>4. seen' \in Seq(SUBSET Sigs) /\ DOMAIN seen' = {1} /\ seen'[1] = all
    BY <2>1, <2>2
  <2>5. SeenInv'
    BY <2>4 DEF SeenInv, AllApart
  <2>6. Sighted' = all
    BY <2>4 DEF Sighted
  <2> QED BY <1>5, <2>3, <2>5, <2>6
<1> QED BY <1>3, <1>4, <1>5

-------------------------------------------------------------------------------

(* What each monitor's phase and criteria say of what has been seen.       *)

Fresh == mon.bits = {} /\ seen = << >>

UserspaceInv ==
  /\ mon.phase = "NotStarted" \/ mon.phase \in PhasesIn(UserspacePhases)
  /\ mon.phase = "NotStarted" => Fresh
  /\ \A s \in {"home", "settings", "user"} : s \in mon.bits <=> s \in Sighted

SensorInv ==
  /\ mon.phase \in PhasesIn(SensorPhases)
  /\ mon.phase = "NotStarted" => Fresh
  /\ \A s \in SensorBits \cup {"no_sim"} : s \in mon.bits <=> s \in Sighted
  /\ mon.phase = "GatePassed" <=> SensorBits \cup {"no_sim"} \subseteq mon.bits
  /\ mon.phase = "SensorHalStarted" => SensorBits \subseteq mon.bits
  /\ mon.phase = "ModemAttached" => "no_sim" \in mon.bits

AdrenoInv ==
  /\ mon.phase \in PhasesIn(AdrenoPhases)
  /\ "started" \notin mon.bits => Fresh /\ mon.phase = "NotStarted"
  /\ "vulkan" \in mon.bits <=> "vulkan" \in Sighted
  /\ mon.phase = "GatePassed" => AdrenoPasses(mon)

(* The phases of x86 graphics that a console line leads to.                *)
Late == {"VulkanInitialized", "DrmHwcLaunched", "HomeScreenRendered", "GatePassed"}

AndroidX86Inv ==
  /\ mon.phase \in {"NotStarted", "IcdSelected"} \cup Late
  /\ mon.phase = "NotStarted" => Fresh
  /\ mon.phase # "NotStarted" => {"no_software", "user"} \subseteq mon.bits
  /\ \A s \in {"home", "glmark2", "nproc"} : s \in mon.bits <=> s \in Sighted
  /\ mon.phase \in Late <=> \E s \in {"vulkan", "hwc", "home"} : s \in Sighted
  /\ "vulkan" \in mon.bits <=> "vulkan" \in Sighted /\ NotAfter("vulkan", {"hwc", "home"})
  /\ mon.phase = "GatePassed" <=> AndroidX86Passes(mon)

BridgeInv ==
  /\ mon.phase \in PhasesIn(BridgePhases)
  /\ mon.phase = "NotStarted" => Fresh
  /\ "identity" \in mon.bits <=> "identity" \in Sighted
  /\ "no_gap" \in mon.bits <=> "gap_free" \in Sighted
  /\ "on" \in mon.bits <=> "toggled_on" \in Sighted
  /\ "off" \in mon.bits => "toggled_on" \in Sighted /\ "toggled_off" \in Sighted
  /\ "toggled_on" \in Sighted /\ "toggled_off" \in Sighted
       /\ Sighting("toggled_on") <= Sighting("toggled_off") => "off" \in mon.bits
  /\ "source_changes" \in mon.bits <=> "on" \in mon.bits /\ "off" \in mon.bits
  /\ mon.phase = "GatePassed" <=> BridgePasses(mon)

(* What a valid configuration vouches for and no line takes back.          *)
Vouched == {"intel", "amd", "fex", "fex_confirmed", "no_workaround", "user"}

X86HwInv ==
  /\ mon.phase \in PhasesIn(X86HwPhases)
  /\ mon.phase = "NotStarted" => Fresh
  /\ \A s \in {"boot_intel", "boot_amd"} : s \in mon.bits => s \in Sighted
  /\ "intel_passed" \in mon.bits => "boot_intel" \in mon.bits
  /\ "amd_passed" \in mon.bits => "boot_amd" \in mon.bits
  /\ "none_accepted" \in mon.bits => "workaround" \notin Sighted
  /\ mon.phase # "NotStarted" => Vouched \subseteq mon.bits
  /\ mon.phase # "NotStarted" /\ "workaround" \notin Sighted =>
       /\ "none_accepted" \in mon.bits
       /\ \A s \in {"boot_intel", "boot_amd"} : s \in Sighted => s \in mon.bits
  /\ mon.n.changes \in Nat /\ mon.n.changes2 \in Nat
  /\ mon.n.changes = 0 => mon.n.acks = 0 /\ ("boot_intel" \in mon.bits => "intel_passed" \in mon.bits)
  /\ mon.n.changes2 = 0 => mon.n.acks2 = 0 /\ ("boot_amd" \in mon.bits => "amd_passed" \in mon.bits)
  /\ X86HwPasses(mon) => mon.phase = "GatePassed"
  /\ mon.phase = "GatePassed" => X86HwPasses(mon) \/ "workaround" \in Sighted

CompatInv ==
  /\ mon.phase \in PhasesIn(CompatPhases)
  /\ "started" \notin mon.bits => Fresh /\ mon.phase = "NotStarted"
  /\ mon.phase = "GatePassed" => "gate_pass" \in Sighted
  /\ mon.n.passing \in Nat /\ mon.n.failing \in Nat
  /\ mon.n.passing # 0 => "pass" \in Sighted
  /\ \A s \in {"bugs_resolved", "user"} : s \in mon.bits => s \in Sighted

MonInv ==
  /\ mon \in Mons /\ SeenInv
  /\ mon.kind = "userspace" => UserspaceInv
  /\ mon.kind = "android_x86" => AndroidX86Inv
  /\ mon.kind = "adreno" => AdrenoInv
  /\ mon.kind = "bridge" => BridgeInv
  /\ mon.kind = "sensors" => SensorInv
  /\ mon.kind = "x86_hw" => X86HwInv
  /\ mon.kind = "compat" => CompatInv

-------------------------------------------------------------------------------

(* A line keeps what its monitor says.                                     *)

LEMMA UserspaceLine ==
  ASSUME mon \in Mons, SeenInv, UserspaceInv, mon.kind = "userspace", Started,
         NEW line \in SUBSET Sigs, process_line(line)
  PROVE  mon' \in Mons /\ mon'.kind = mon.kind /\ UserspaceInv' /\ PhaseKept
<1> DEFINE p == Processed(UserspacePhases, UserspaceRules, mon, line)
           a == BumpIf("zygote_killed" \in line, p, "restarts")
           b == BumpIf(scan_uart_line(line) = "avc_denied", a, "denials")
           R(q) == Rank(UserspacePhases, q)
           floor == IF R(mon.phase) <= 6 THEN R(mon.phase) ELSE 6
<1>1. mon' = IF scan_uart_line(line) = "none" THEN b ELSE [b EXCEPT !.failure = scan_uart_line(line)]
  BY DEF process_line, Process, UserspaceProcess
<1>2. mon.phase \in PhasesIn(UserspacePhases)
  BY DEF UserspaceInv, Started, Fresh
<1>3. R(mon.phase) \in 1 .. 7 /\ R("ZygoteReady") = 6 /\ R("HomeScreenRendered") = 7
  <2>1. \A q \in PhasesIn(UserspacePhases) : Rank(UserspacePhases, q) \in 1 .. 7
    BY UserspaceRanks
  <2>2. R("ZygoteReady") = 6 /\ R("HomeScreenRendered") = 7
    BY UserspaceRanks
  <2> QED BY <1>2, <2>1, <2>2
<1>4. AreRules(UserspaceRules)
  BY UserspaceRulesForm, FormIsRules
<1>5. p \in Mons /\ p.kind = mon.kind
  BY <1>4, RulesType DEF SameBut
<1>6. ASSUME NEW s \in {"home", "settings", "user"} PROVE s \in p.bits <=> s \in mon.bits \/ s \in line
  <2>1. Gives(UserspaceRules, s) /\ OwnSigns(UserspaceRules)
    BY UserspaceRulesGive, UserspaceRulesForm
  <2> QED BY <1>4, <2>1, RulesShow
<1>7. p.phase \in PhasesIn(UserspacePhases) /\ floor <= R(p.phase)
  <2>1. floor \in Int /\ floor <= R(mon.phase) /\ floor <= R("ZygoteReady")
        /\ floor <= R("HomeScreenRendered")
    BY <1>3
  <2>2. Climbs(UserspacePhases, UserspaceRules, floor)
    <3>1. \A q \in {"HomeScreenRendered", "ZygoteReady"} : floor <= R(q)
      BY <2>1
    <3>2. WellFormed(UserspacePhases, UserspaceRules)
          /\ EntersOnly(UserspaceRules, {"HomeScreenRendered", "ZygoteReady"})
      BY UserspaceRulesForm
    <3> HIDE DEF floor
    <3> QED BY <2>1, <3>1, <3>2, FormClimbs
  <2> HIDE DEF floor
  <2> QED BY <1>2, <1>4, <2>1, <2>2, PhaseLists, RulesClimb
<1> HIDE DEF p
<1>8. a \in Mons /\ a.kind = mon.kind /\ a.phase = p.phase /\ a.bits = p.bits
  <2>1. "restarts" \in Counters
    BY DEF Counters
  <2> QED BY <1>5, <2>1, Counted DEF SameBut
<1> HIDE DEF a
<1>9. b \in Mons /\ b.kind = mon.kind /\ b.phase = p.phase /\ b.bits = p.bits
  <2>1. "denials" \in Counters
    BY DEF Counters
  <2> QED BY <1>8, <2>1, Counted DEF SameBut
<1> HIDE DEF b
<1>10. mon' \in Mons /\ mon'.kind = mon.kind /\ mon'.phase = p.phase /\ mon'.bits = p.bits
  <2>1. scan_uart_line(line) \in Failures
    <3> DEFINE alts == <<"mount_failed", "no_init", "no_policy", "smmu_fault", "avc_denied", "hal_failed">>
    <3>1. alts \in Seq(Failures) /\ "none" \in Failures
      BY DEF Failures
    <3>2. PhasesIn(alts) \subseteq Failures
      BY <3>1 DEF PhasesIn
    <3>3. scan_uart_line(line) = FirstIn(alts, line, "none")
      BY DEF scan_uart_line
    <3> HIDE DEF alts
    <3> QED BY <3>1, <3>2, <3>3, FirstFound
  <2> QED BY <1>1, <1>9, <2>1, FailureSet DEF SameBut
<1>11. Sighted' = Sighted \cup line
  BY LineSeen
<1>12. UserspaceInv'
  <2>1. p.phase # "NotStarted"
    BY <1>7, UserspaceRanks
  <2>2. \A s \in {"home", "settings", "user"} : s \in mon'.bits <=> s \in Sighted'
    BY <1>6, <1>10, <1>11 DEF UserspaceInv
  <2> QED BY <1>7, <1>10, <2>1, <2>2 DEF UserspaceInv
<1>13. PhaseKept
  <2>1. PhasesOf(mon.kind) = UserspacePhases /\ FallsBackTo(mon.kind) = "ZygoteReady"
    BY DEF PhasesOf, FallsBackTo
  <2>2. mon.phase # "GatePassed"
    BY <1>2, UserspaceRanks
  <2>3. R(p.phase) \in 1 .. 7
    BY <1>7, UserspaceRanks
  <2>4. R(p.phase) < R(mon.phase) => ~ R(p.phase) < R("ZygoteReady")
    BY <1>3, <1>7, <2>3
  <2> HIDE DEF floor
  <2> QED BY <1>10, <2>1, <2>2, <2>4 DEF PhaseKept, Earlier
<1> QED BY <1>10, <1>12, <1>13

LEMMA RulesEnd ==
  ASSUME NEW phases, NEW rules, WellFormed(phases, rules), NEW m \in Mons, NEW line,
         NEW e \in {"NotStarted", "GatePassed"}
  PROVE  Processed(phases, rules, m, line).phase = e => m.phase = e
<1> DEFINE S == {n \in Mons : n.phase = e => m.phase = e}
<1>1. ASSUME NEW i \in 1 .. Len(rules), NEW n \in S PROVE Applied(phases, n, line, rules[i]) \in S
  <2>1. n \in Mons /\ (n.phase = e => m.phase = e) /\ IsRule(rules[i]) /\ rules[i].to # e
    BY DEF WellFormed, Sends, IsRule
  <2>2. /\ SameBut(n, Applied(phases, n, line, rules[i]))
        /\ Applied(phases, n, line, rules[i]).phase \in {rules[i].to, n.phase}
    BY <2>1, RuleApplied
  <2> QED BY <2>1, <2>2 DEF SameBut
<1>2. m \in S /\ S \subseteq Mons
  OBVIOUS
<1>3. Processed(phases, rules, m, line) \in S
  <2> HIDE DEF S
  <2> QED BY <1>1, <1>2, FormIsRules, RulesKeep
<1> QED BY <1>3

LEMMA RulesSee ==
  ASSUME NEW phases, NEW rules, AreRules(rules), NEW m \in Mons, NEW line,
         \A i \in 1 .. Len(rules) : rules[i].how = "see"
  PROVE  Processed(phases, rules, m, line).phase = m.phase
<1> DEFINE S == {n \in Mons : n.phase = m.phase}
<1>1. ASSUME NEW i \in 1 .. Len(rules), NEW n \in S PROVE Applied(phases, n, line, rules[i]) \in S
  <2>1. n \in Mons /\ n.phase = m.phase /\ IsRule(rules[i])
    BY DEF AreRules
  <2>2. ~ Moved(phases, n, rules[i])
    BY DEF Moved
  <2>3. SameBut(n, Applied(phases, n, line, rules[i]))
        /\ Applied(phases, n, line, rules[i]).phase = n.phase
    BY <2>1, <2>2, RuleApplied
  <2> QED BY <2>1, <2>3 DEF SameBut
<1>2. m \in S /\ S \subseteq Mons
  OBVIOUS
<1>3. Processed(phases, rules, m, line) \in S
  <2> HIDE DEF S
  <2> QED BY <1>1, <1>2, RulesKeep
<1> QED BY <1>3

LEMMA SensorLine ==
  ASSUME mon \in Mons, SeenInv, SensorInv, mon.kind = "sensors", Started,
         NEW line \in SUBSET Sigs, process_line(line)
  PROVE  mon' \in Mons /\ mon'.kind = mon.kind /\ SensorInv' /\ PhaseKept
<1> DEFINE p == Processed(SensorPhases, SensorRules, mon, line)
           all == SensorBits \cup {"no_sim"}
           q == CASE all \subseteq p.bits -> "GatePassed"
                  [] "no_sim" \in p.bits /\ ~ SensorBits \subseteq p.bits -> "ModemAttached"
                  [] SensorBits \subseteq p.bits /\ "no_sim" \notin p.bits -> "SensorHalStarted"
                  [] OTHER -> p.phase
           R(x) == Rank(SensorPhases, x)
<1>1. mon' = [p EXCEPT !.phase = q]
  BY DEF process_line, Process, SensorProcess
<1>2. mon.phase # "NotStarted" /\ mon.phase \in PhasesIn(SensorPhases)
  BY DEF SensorInv, Started, Fresh
<1>3. AreRules(SensorRules) /\ OwnSigns(SensorRules)
  BY SensorRulesForm, FormIsRules
<1>4. p \in Mons /\ p.kind = mon.kind
  BY <1>3, RulesType DEF SameBut
<1>5. p.phase = mon.phase
  <2>1. \A i \in 1 .. Len(SensorRules) : SensorRules[i].how = "see"
    <3> DEFINE See(i) == SensorRules[i].how = "see"
    <3>1. Len(SensorRules) = 4 /\ See(1) /\ See(2) /\ See(3) /\ See(4)
      BY SensorRulesListed DEF RuleIs
    <3> HIDE DEF See
    <3>2. \A i \in 1 .. 4 : See(i)
      BY <3>1
    <3> QED BY <3>1, <3>2 DEF See
  <2> QED BY <1>3, <2>1, RulesSee
<1>6. ASSUME NEW s \in all PROVE s \in p.bits <=> s \in mon.bits \/ s \in line
  <2>1. Gives(SensorRules, s)
    BY SensorRulesGive DEF SensorBits
  <2> QED BY <1>3, <2>1, RulesShow
<1> HIDE DEF p
<1>7. /\ all \subseteq p.bits => q = "GatePassed"
      /\ "no_sim" \in p.bits /\ ~ SensorBits \subseteq p.bits => q = "ModemAttached"
      /\ SensorBits \subseteq p.bits /\ "no_sim" \notin p.bits => q = "SensorHalStarted"
      /\ ~ SensorBits \subseteq p.bits /\ "no_sim" \notin p.bits => q = mon.phase
  BY <1>5
<1>8. q \in PhasesIn(SensorPhases) \ {"NotStarted"} /\ q \in PhaseNames
  <2>1. {"GatePassed", "ModemAttached", "SensorHalStarted"} \subseteq PhaseNames
    BY DEF PhaseNames
  <2>2. {"GatePassed", "ModemAttached", "SensorHalStarted"}
        \subseteq PhasesIn(SensorPhases) \ {"NotStarted"}
    BY SensorRanks
  <2>3. mon.phase \in PhaseNames
    BY DEF Mons
  <2>4. q \in {"GatePassed", "ModemAttached", "SensorHalStarted", mon.phase}
    BY <1>5
  <2> HIDE DEF q
  <2> QED BY <1>2, <2>1, <2>2, <2>3, <2>4
<1> HIDE DEF q
<1>9. mon' \in Mons /\ mon'.kind = mon.kind /\ mon'.phase = q /\ mon'.bits = p.bits
  BY <1>1, <1>4, <1>8, PhaseSet DEF SameBut
<1>10. Sighted' = Sighted \cup line
  BY LineSeen
<1>11. /\ \A s \in all : s \in mon.bits <=> s \in Sighted
       /\ mon.phase = "GatePassed" <=> all \subseteq mon.bits
       /\ mon.phase = "SensorHalStarted" => SensorBits \subseteq mon.bits
       /\ mon.phase = "ModemAttached" => "no_sim" \in mon.bits
  BY DEF SensorInv
<1>12. all \subseteq mon.bits => all \subseteq p.bits
  BY <1>6
<1>13. SensorBits \subseteq mon.bits => SensorBits \subseteq p.bits
  BY <1>6
<1>14. SensorInv'
  <2>1. \A s \in all : s \in mon'.bits <=> s \in Sighted'
    BY <1>6, <1>9, <1>10, <1>11
  <2>2. mon'.phase = "GatePassed" <=> all \subseteq mon'.bits
    BY <1>7, <1>9, <1>11, <1>12
  <2>3. mon'.phase = "SensorHalStarted" => SensorBits \subseteq mon'.bits
    BY <1>7, <1>9, <1>11, <1>13
  <2>4. mon'.phase = "ModemAttached" => "no_sim" \in mon'.bits
    BY <1>6, <1>7, <1>9, <1>11
  <2> QED BY <1>8, <1>9, <2>1, <2>2, <2>3, <2>4 DEF SensorInv
<1>15. PhaseKept
  <2>1. PhasesOf(mon.kind) = SensorPhases
    BY DEF PhasesOf
  <2>2. mon.phase \in {"HvcRegistered", "SensorHalStarted", "ModemAttached", "GatePassed"}
    BY <1>2, SensorRanks
  <2>3. q \in {"HvcRegistered", "SensorHalStarted", "ModemAttached", "GatePassed"}
    BY <1>8, SensorRanks
  <2>4. /\ mon.phase = "GatePassed" => q = "GatePassed"
        /\ mon.phase = "ModemAttached" => q \in {"ModemAttached", "GatePassed"}
        /\ mon.phase = "SensorHalStarted" => q \in {"SensorHalStarted", "GatePassed"}
    <3>1. mon.phase = "GatePassed" => q = "GatePassed"
      BY <1>7, <1>11, <1>12
    <3>2. mon.phase = "ModemAttached" => q \in {"ModemAttached", "GatePassed"}
      BY <1>6, <1>7, <1>11
    <3>3. mon.phase = "SensorHalStarted" => q \in {"SensorHalStarted", "GatePassed"}
      BY <1>7, <1>11, <1>13
    <3> QED BY <3>1, <3>2, <3>3
  <2>5. ~ R(q) < R(mon.phase)
    BY <2>2, <2>3, <2>4, SensorRanks
  <2> QED BY <1>9, <2>1, <2>5 DEF PhaseKept, Earlier
<1> QED BY <1>9, <1>14, <1>15

LEMMA AdrenoLine ==
  ASSUME mon \in Mons, SeenInv, AdrenoInv, mon.kind = "adreno", Started,
         NEW line \in SUBSET Sigs, process_line(line)
  PROVE  mon' \in Mons /\ mon'.kind = mon.kind /\ AdrenoInv' /\ PhaseKept
<1> DEFINE p == Processed(AdrenoPhases, AdrenoRules, mon, line)
           a == Advance(AdrenoPhases, p, "GatePassed")
           R(x) == Rank(AdrenoPhases, x)
<1>1. mon' = IF AdrenoPasses(p) THEN a ELSE p
  BY DEF process_line, Process, AdrenoProcess
<1>2. mon.phase \in PhasesIn(AdrenoPhases) /\ "started" \in mon.bits
  BY DEF AdrenoInv, Started, Fresh
<1>3. WellFormed(AdrenoPhases, AdrenoRules) /\ OwnSigns(AdrenoRules) /\ EntersOnly(AdrenoRules, {})
  BY AdrenoRulesForm
<1>4. AreRules(AdrenoRules)
  BY <1>3, FormIsRules
<1>5. p \in Mons /\ p.kind = mon.kind
  BY <1>4, RulesType DEF SameBut
<1>6. mon.bits \subseteq p.bits
  BY <1>4, RulesGive DEF Given
<1>7. "vulkan" \in p.bits <=> "vulkan" \in mon.bits \/ "vulkan" \in line
  BY <1>3, <1>4, AdrenoRulesGive, RulesShow
<1>8. R(mon.phase) \in Nat
  BY <1>2, PhaseLists, RankIsPlace
<1>9. p.phase \in PhasesIn(AdrenoPhases) /\ R(mon.phase) <= R(p.phase)
  <2>1. Climbs(AdrenoPhases, AdrenoRules, R(mon.phase))
    BY <1>3, <1>8, FormClimbs
  <2> QED BY <1>2, <1>4, <1>8, <2>1, PhaseLists, RulesClimb
<1>10. p.phase = "GatePassed" => mon.phase = "GatePassed"
  BY <1>3, <1>4, RulesEnd
<1> HIDE DEF p
<1>11. "GatePassed" \in PhasesIn(AdrenoPhases) /\ "GatePassed" \in PhaseNames
  BY AdrenoRanks DEF PhaseNames
<1>12. a \in Mons /\ a.kind = mon.kind /\ a.bits = p.bits
  BY <1>5, <1>11, PhaseAdvanced DEF SameBut
<1>13. a.phase \in PhasesIn(AdrenoPhases) /\ R(p.phase) <= R(a.phase)
  BY <1>5, <1>9, <1>11, Advances, PhaseLists
<1> HIDE DEF a
<1>14. mon' \in Mons /\ mon'.kind = mon.kind /\ mon'.bits = p.bits
       /\ mon'.phase \in PhasesIn(AdrenoPhases)
  BY <1>1, <1>5, <1>9, <1>12, <1>13
<1>15. Sighted' = Sighted \cup line
  BY LineSeen
<1>16. AdrenoInv'
  <2>1. "started" \in mon'.bits
    BY <1>2, <1>6, <1>14
  <2>2. "vulkan" \in mon'.bits <=> "vulkan" \in Sighted'
    BY <1>7, <1>14, <1>15 DEF AdrenoInv
  <2>3. mon'.phase = "GatePassed" => AdrenoPasses(mon')
    <3>1. mon.phase = "GatePassed" => {"vulkan", "glmark2", "youtube"} \subseteq mon.bits
      BY DEF AdrenoInv, AdrenoPasses
    <3> QED BY <1>1, <1>6, <1>10, <1>14, <3>1 DEF AdrenoPasses
  <2> QED BY <1>14, <2>1, <2>2, <2>3 DEF AdrenoInv
<1>17. PhaseKept
  <2>1. PhasesOf(mon.kind) = AdrenoPhases
    BY DEF PhasesOf
  <2>2. R(p.phase) \in Nat /\ R(a.phase) \in Nat
    BY <1>9, <1>13, PhaseLists, RankIsPlace
  <2>3. ~ R(mon'.phase) < R(mon.phase)
    BY <1>1, <1>8, <1>9, <1>13, <2>2
  <2> QED BY <2>1, <2>3 DEF PhaseKept, Earlier
<1> QED BY <1>14, <1>16, <1>17

LEMMA CompatLine ==
  ASSUME mon \in Mons, SeenInv, CompatInv, mon.kind = "compat", Started,
         NEW line \in SUBSET Sigs, process_line(line)
  PROVE  mon' \in Mons /\ mon'.kind = mon.kind /\ CompatInv' /\ PhaseKept
<1> DEFINE sig == FirstIn(CompatOrder, line, "none")
           a == IF "user" \in line /\ sig # "installed" THEN Grant(mon, "user") ELSE mon
           R(x) == Rank(CompatPhases, x)
           Fine(o) ==
             /\ o \in Mons /\ o.kind = mon.kind /\ mon.bits \subseteq o.bits
             /\ o.phase \in PhasesIn(CompatPhases) /\ R(mon.phase) <= R(o.phase)
             /\ o.phase = "GatePassed" => mon.phase = "GatePassed" \/ "gate_pass" \in line
             /\ o.n.passing \in Nat /\ o.n.failing \in Nat
             /\ o.n.passing = 0 \/ "pass" \in Sighted \cup line
             /\ \A s \in {"bugs_resolved", "user"} : s \in o.bits => s \in Sighted \cup line
<1>1. mon' = CompatResult(a, sig)
  BY DEF process_line, Process, CompatProcess
<1>2. mon.phase \in PhasesIn(CompatPhases) /\ "started" \in mon.bits
  BY DEF CompatInv, Started, Fresh
<1>3. sig \in {"installed", "pass", "attest", "fail", "crashed", "bugs_resolved", "complete",
               "gate_pass", "none"}
      /\ (sig # "none" => sig \in line)
  <2> DEFINE X == {"installed", "pass", "attest", "fail", "crashed", "bugs_resolved", "complete",
                   "gate_pass"}
  <2>1. CompatOrder \in Seq(X) /\ PhasesIn(CompatOrder) \subseteq X
    BY DEF CompatOrder, PhasesIn
  <2> HIDE DEF X
  <2>2. sig = "none" \/ (sig \in line /\ sig \in PhasesIn(CompatOrder))
    BY <2>1, FirstFound
  <2> HIDE DEF sig
  <2> QED BY <2>1, <2>2 DEF X
<1>4. /\ a \in Mons /\ a.kind = mon.kind /\ a.phase = mon.phase /\ mon.bits \subseteq a.bits
      /\ a.n = mon.n /\ a.bits \subseteq mon.bits \cup (line \cap {"user"})
  <2>1. "user" \in Criteria
    BY DEF Criteria
  <2>2. Grant(mon, "user").n = mon.n
    BY DEF Grant, Mons
  <2> HIDE DEF sig
  <2> QED BY <2>1, <2>2, BitsSet DEF SameBut
<1> HIDE DEF a, sig
<1>5. /\ {"ApksInstalled", "SmokeTestsRunning", "BugsTriaged", "GatePassed"}
           \subseteq PhasesIn(CompatPhases)
      /\ {"ApksInstalled", "SmokeTestsRunning", "BugsTriaged", "GatePassed"} \subseteq PhaseNames
      /\ "ApksInstalled" # "GatePassed" /\ "SmokeTestsRunning" # "GatePassed"
      /\ "BugsTriaged" # "GatePassed"
      /\ R("GatePassed") = 6 /\ \A p \in PhasesIn(CompatPhases) : R(p) \in 1 .. 6
  BY CompatRanks DEF PhaseNames
<1>6. /\ {"passing", "failing", "attestation", "timeouts"} \subseteq Counters
      /\ {"bugs_resolved", "gate_passed"} \subseteq Criteria
  BY DEF Counters, Criteria
<1>7. R(mon.phase) \in 1 .. 6
  BY <1>2, <1>5
<1>8. /\ mon.n.passing \in Nat /\ mon.n.failing \in Nat
      /\ mon.n.passing # 0 => "pass" \in Sighted
      /\ \A s \in {"bugs_resolved", "user"} : s \in mon.bits => s \in Sighted
  BY DEF CompatInv
<1>9. Fine(a)
  BY <1>2, <1>4, <1>7, <1>8
<1>10. ASSUME NEW o, Fine(o), NEW p \in {"ApksInstalled", "SmokeTestsRunning", "BugsTriaged"}
       PROVE  Fine(Advance(CompatPhases, o, p))
  <2>1. p \in PhaseNames /\ p \in PhasesIn(CompatPhases) /\ p # "GatePassed"
    BY <1>5
  <2>2. /\ SameBut(o, Advance(CompatPhases, o, p)) /\ Advance(CompatPhases, o, p).bits = o.bits
        /\ Advance(CompatPhases, o, p).phase \in {p, o.phase}
    BY <1>10, <2>1, PhaseAdvanced
  <2>3. /\ Advance(CompatPhases, o, p).phase \in PhasesIn(CompatPhases)
        /\ R(o.phase) <= R(Advance(CompatPhases, o, p).phase)
    BY <1>10, <2>1, Advances, PhaseLists
  <2>4. R(o.phase) \in 1 .. 6 /\ R(Advance(CompatPhases, o, p).phase) \in 1 .. 6
    BY <1>5, <1>10, <2>3
  <2>5. Advance(CompatPhases, o, p).n = o.n
    BY <1>10 DEF Advance, Mons
  <2> QED BY <1>7, <1>10, <2>1, <2>2, <2>3, <2>4, <2>5 DEF SameBut
<1>11. ASSUME NEW o, Fine(o) PROVE Fine(NoTimeouts(o))
  <2> DEFINE z == [o.n EXCEPT !["timeouts"] = 0]
  <2>1. NoTimeouts(o) = [o EXCEPT !.n = z]
    BY <1>11 DEF NoTimeouts, Mons
  <2>2. z \in [Counters -> Int]
    <3>1. o.n \in [Counters -> Int]
      BY <1>11 DEF Mons
    <3>2. "timeouts" \in Counters
      BY <1>6
    <3>3. \A g \in [Counters -> Int], c \in Counters : [g EXCEPT ![c] = 0] \in [Counters -> Int]
      OBVIOUS
    <3> HIDE DEF Fine
    <3> QED BY <3>1, <3>2, <3>3
  <2>3. z.passing = o.n.passing /\ z.failing = o.n.failing
    BY <1>6, <1>11 DEF Mons
  <2> HIDE DEF z
  <2>4. NoTimeouts(o) \in Mons /\ NoTimeouts(o).kind = o.kind /\ NoTimeouts(o).bits = o.bits
        /\ NoTimeouts(o).phase = o.phase /\ NoTimeouts(o).n = z
    BY <1>11, <2>1, <2>2 DEF Mons
  <2> QED BY <1>11, <2>4, <2>3
<1>12. ASSUME NEW o, Fine(o), NEW c \in {"passing", "failing", "attestation", "timeouts"},
              c = "passing" => "pass" \in line
       PROVE  Fine(Bump(o, c))
  <2>1. c \in Counters /\ o \in Mons
    BY <1>6, <1>12
  <2>2. SameBut(o, Bump(o, c)) /\ Bump(o, c).phase = o.phase /\ Bump(o, c).bits = o.bits
    BY <2>1, Counted
  <2>3. /\ Bump(o, c).n.passing = IF c = "passing" THEN o.n.passing + 1 ELSE o.n.passing
        /\ Bump(o, c).n.failing = IF c = "failing" THEN o.n.failing + 1 ELSE o.n.failing
    BY <1>6, <2>1 DEF Bump, Mons
  <2>4. Bump(o, c).n.passing \in Nat /\ Bump(o, c).n.failing \in Nat
    BY <1>12, <2>3
  <2>5. Bump(o, c).n.passing = 0 \/ "pass" \in Sighted \cup line
    BY <1>12, <2>3
  <2> QED BY <1>12, <2>2, <2>4, <2>5 DEF SameBut
<1>13. ASSUME NEW o, Fine(o), NEW b \in {"bugs_resolved", "gate_passed"}, b = "bugs_resolved" => b \in line
       PROVE  Fine(Grant(o, b))
  <2>1. o \in Mons /\ b \in Criteria /\ b # "started"
    BY <1>6, <1>13
  <2>2. SameBut(o, Grant(o, b)) /\ Grant(o, b).phase = o.phase /\ Grant(o, b).bits = o.bits \cup {b}
    BY <2>1, BitsSet
  <2>3. Grant(o, b).n = o.n
    BY <2>1 DEF Grant, Mons
  <2> QED BY <1>13, <2>2, <2>3 DEF SameBut
<1>14. ASSUME NEW o, Fine(o), "gate_pass" \in line PROVE Fine([o EXCEPT !.phase = "GatePassed"])
  <2>1. "GatePassed" \in PhaseNames /\ "GatePassed" \in PhasesIn(CompatPhases)
    BY <1>5
  <2>2. [o EXCEPT !.phase = "GatePassed"].n = o.n
    BY <1>14 DEF Mons
  <2> QED BY <1>5, <1>7, <1>14, <2>1, <2>2, PhaseSet DEF SameBut
<1> HIDE DEF Fine
<1>15. Fine(mon')
  <2>1. CASE sig = "installed"
    <3>1. CASE Earlier(CompatPhases, a.phase, "ApksInstalled")
      <4>1. [a EXCEPT !.phase = "ApksInstalled"] = Advance(CompatPhases, a, "ApksInstalled")
        BY <3>1 DEF Advance
      <4>2. CompatResult(a, sig) = NoTimeouts([a EXCEPT !.phase = "ApksInstalled"])
        BY <2>1, <3>1 DEF CompatResult
      <4> QED BY <1>1, <1>9, <1>10, <1>11, <4>1, <4>2
    <3>2. CASE ~ Earlier(CompatPhases, a.phase, "ApksInstalled")
      <4>1. CompatResult(a, sig) = a
        BY <2>1, <3>2 DEF CompatResult
      <4> QED BY <1>1, <1>9, <4>1
    <3> QED BY <3>1, <3>2
  <2>2. CASE sig = "pass"
    <3>1. CompatResult(a, sig) = NoTimeouts(Advance(CompatPhases, Bump(a, "passing"), "SmokeTestsRunning"))
      BY <2>2 DEF CompatResult, Tested
    <3>2. Fine(Bump(a, "passing"))
      BY <1>3, <1>9, <1>12, <2>2
    <3> QED BY <1>1, <1>10, <1>11, <3>1, <3>2
  <2>3. CASE sig = "attest"
    <3>1. CompatResult(a, sig) =
            NoTimeouts(Advance(CompatPhases, Bump(a, "attestation"), "SmokeTestsRunning"))
      BY <2>3 DEF CompatResult, Tested
    <3> QED BY <1>1, <1>9, <1>10, <1>11, <1>12, <3>1
  <2>4. CASE sig = "fail"
    <3>1. CompatResult(a, sig) = Advance(CompatPhases, Bump(a, "failing"), "SmokeTestsRunning")
      BY <2>4 DEF CompatResult, Tested
    <3> QED BY <1>1, <1>9, <1>10, <1>12, <3>1
  <2>5. CASE sig = "crashed"
    <3>1. CompatResult(a, sig) = Bump(a, "timeouts")
      BY <2>5 DEF CompatResult
    <3> QED BY <1>1, <1>9, <1>12, <3>1
  <2>6. CASE sig = "bugs_resolved"
    <3>1. CompatResult(a, sig) = Advance(CompatPhases, Grant(a, "bugs_resolved"), "BugsTriaged")
      BY <2>6 DEF CompatResult
    <3>2. Fine(Grant(a, "bugs_resolved"))
      BY <1>3, <1>9, <1>13, <2>6
    <3> QED BY <1>1, <1>10, <3>1, <3>2
  <2>7. CASE sig = "complete"
    <3>1. CompatResult(a, sig) = Advance(CompatPhases, a, "BugsTriaged")
      BY <2>7 DEF CompatResult
    <3> QED BY <1>1, <1>9, <1>10, <3>1
  <2>8. CASE sig = "gate_pass"
    <3>1. CompatResult(a, sig) = [Grant(a, "gate_passed") EXCEPT !.phase = "GatePassed"]
      BY <2>8 DEF CompatResult
    <3> QED BY <1>1, <1>3, <1>9, <1>13, <1>14, <2>8, <3>1
  <2>9. CASE sig = "none"
    <3>1. CompatResult(a, sig) = a
      BY <2>9 DEF CompatResult
    <3> QED BY <1>1, <1>9, <3>1
  <2> QED BY <1>3, <2>1, <2>2, <2>3, <2>4, <2>5, <2>6, <2>7, <2>8, <2>9
<1>16. Sighted' = Sighted \cup line
  BY LineSeen
<1>17. CompatInv'
  <2>1. mon.phase = "GatePassed" => "gate_pass" \in Sighted
    BY DEF CompatInv
  <2>2. mon'.n.passing # 0 => "pass" \in Sighted'
    BY <1>15, <1>16 DEF Fine
  <2>3. \A s \in {"bugs_resolved", "user"} : s \in mon'.bits => s \in Sighted'
    BY <1>15, <1>16 DEF Fine
  <2> QED BY <1>2, <1>15, <1>16, <2>1, <2>2, <2>3 DEF CompatInv, Fine
<1>18. PhaseKept
  <2>1. PhasesOf(mon.kind) = CompatPhases
    BY DEF PhasesOf
  <2>2. R(mon'.phase) \in 1 .. 6 /\ R(mon.phase) <= R(mon'.phase)
    BY <1>5, <1>15 DEF Fine
  <2> QED BY <1>7, <2>1, <2>2 DEF PhaseKept, Earlier
<1> QED BY <1>15, <1>17, <1>18 DEF Fine

LEMMA BridgeLineStep ==
  ASSUME NEW m \in Mons, NEW line
  PROVE  LET o == BridgeLine(m, line) IN
         /\ SameBut(m, o)
         /\ o.bits = m.bits \cup (IF "identity" \in line THEN {"identity"} ELSE {})
         /\ o.phase \in {m.phase, "AdbConnected", "SensorStreamActive", "IdentityLoaded"}
         /\ o.phase = "AdbConnected" => m.phase \in {"UsbReady", "NotStarted", "AdbConnected"}
<1> DEFINE a == IF "handshake" \in line /\ m.phase \in {"UsbReady", "NotStarted"}
                THEN [m EXCEPT !.phase = "AdbConnected"] ELSE m
           b == IF "sensor" \in line THEN [a EXCEPT !.phase = "SensorStreamActive"] ELSE a
           q == IF b.phase = "SensorStreamActive" THEN "IdentityLoaded" ELSE b.phase
           c == [b EXCEPT !.phase = q]
<1>1. "AdbConnected" \in PhaseNames /\ "SensorStreamActive" \in PhaseNames
      /\ "IdentityLoaded" \in PhaseNames
      /\ "identity" \in Criteria
  BY DEF PhaseNames, Criteria
<1>2. a \in Mons /\ a.kind = m.kind /\ a.bits = m.bits /\ a.phase \in {m.phase, "AdbConnected"}
      /\ (a.phase = "AdbConnected" => m.phase \in {"UsbReady", "NotStarted", "AdbConnected"})
  BY <1>1, PhaseSet DEF SameBut
<1> HIDE DEF a
<1>3. b \in Mons /\ b.kind = m.kind /\ b.bits = m.bits
      /\ b.phase \in {a.phase, "SensorStreamActive"}
  BY <1>1, <1>2, PhaseSet DEF SameBut
<1> HIDE DEF b
<1>4. q \in PhaseNames /\ q \in {b.phase, "IdentityLoaded"}
  BY <1>1, <1>3 DEF Mons
<1>5. c = [b EXCEPT !.phase = IF @ = "SensorStreamActive" THEN "IdentityLoaded" ELSE @]
  BY <1>3 DEF Mons
<1>6. BridgeLine(m, line) = IF "identity" \notin line THEN b ELSE Grant(c, "identity")
  BY <1>5 DEF BridgeLine, a, b
<1> HIDE DEF q
<1>7. c \in Mons /\ c.kind = m.kind /\ c.bits = m.bits /\ c.phase = q
  BY <1>3, <1>4, PhaseSet DEF SameBut
<1> HIDE DEF c
<1>8. Grant(c, "identity") \in Mons /\ Grant(c, "identity").kind = m.kind
      /\ Grant(c, "identity").bits = m.bits \cup {"identity"} /\ Grant(c, "identity").phase = q
  BY <1>1, <1>7, BitsSet DEF SameBut
<1>9. CASE "identity" \in line
  BY <1>2, <1>3, <1>4, <1>6, <1>8, <1>9 DEF SameBut
<1>10. CASE "identity" \notin line
  BY <1>2, <1>3, <1>6, <1>10 DEF SameBut
<1> QED BY <1>9, <1>10

LEMMA Granted ==
  ASSUME NEW m \in Mons, NEW b \in Criteria, NEW cond \in BOOLEAN
  PROVE  LET o == IF cond THEN Grant(m, b) ELSE m IN
         /\ SameBut(m, o) /\ o.phase = m.phase
         /\ \A s : s \in o.bits <=> s \in m.bits \/ (s = b /\ cond)
<1>1. CASE cond
  <2>1. SameBut(m, Grant(m, b)) /\ Grant(m, b).phase = m.phase /\ Grant(m, b).bits = m.bits \cup {b}
    BY BitsSet
  <2> QED BY <1>1, <2>1
<1>2. CASE ~ cond
  BY <1>2 DEF SameBut
<1> QED BY <1>1, <1>2

LEMMA BridgeToggledStep ==
  ASSUME NEW m \in Mons, NEW line
  PROVE  LET o == BridgeToggled(m, line)
             on == "on" \in m.bits \/ "toggled_on" \in line
             off == "off" \in m.bits \/ ("toggled_off" \in line /\ on)
         IN
         /\ SameBut(m, o) /\ o.phase = m.phase
         /\ \A s : s \in o.bits <=> \/ s \in m.bits
                                    \/ s = "on" /\ "toggled_on" \in line
                                    \/ s = "off" /\ "toggled_off" \in line /\ on
                                    \/ s = "source_changes" /\ on /\ off
<1> DEFINE on == "on" \in m.bits \/ "toggled_on" \in line
           off == "off" \in m.bits \/ ("toggled_off" \in line /\ on)
           a == IF "toggled_on" \in line THEN Grant(m, "on") ELSE m
           b == IF "toggled_off" \in line /\ "on" \in a.bits THEN Grant(a, "off") ELSE a
           c == IF {"on", "off"} \subseteq b.bits THEN Grant(b, "source_changes") ELSE b
<1>1. "on" \in Criteria /\ "off" \in Criteria /\ "source_changes" \in Criteria
  BY DEF Criteria
<1>2. SameBut(m, a) /\ a.phase = m.phase
      /\ \A s : s \in a.bits <=> s \in m.bits \/ (s = "on" /\ "toggled_on" \in line)
  BY <1>1, Granted
<1>3. a \in Mons
  BY <1>2 DEF SameBut
<1>4. "on" \in a.bits <=> on
  BY <1>2
<1> HIDE DEF a
<1>5. SameBut(a, b) /\ b.phase = a.phase
      /\ \A s : s \in b.bits <=> s \in a.bits \/ (s = "off" /\ "toggled_off" \in line /\ "on" \in a.bits)
  BY <1>1, <1>3, Granted
<1>6. b \in Mons
  BY <1>5 DEF SameBut
<1>7. {"on", "off"} \subseteq b.bits <=> on /\ off
  <2>1. "on" \in b.bits <=> on
    BY <1>4, <1>5
  <2>2. "off" \in b.bits <=> off
    <3>1. "off" \in a.bits <=> "off" \in m.bits
      BY <1>2
    <3> QED BY <1>4, <1>5, <3>1
  <2> HIDE DEF b, on, off
  <2> QED BY <2>1, <2>2
<1> HIDE DEF b
<1>8. SameBut(b, c) /\ c.phase = b.phase
      /\ \A s : s \in c.bits <=> s \in b.bits \/ (s = "source_changes" /\ {"on", "off"} \subseteq b.bits)
  BY <1>1, <1>6, Granted
<1>9. BridgeToggled(m, line) = c
  BY DEF BridgeToggled, a, b
<1> HIDE DEF c, on, off
<1>10. ASSUME NEW s
       PROVE  s \in c.bits <=> \/ s \in m.bits
                               \/ s = "on" /\ "toggled_on" \in line
                               \/ s = "off" /\ "toggled_off" \in line /\ on
                               \/ s = "source_changes" /\ on /\ off
  <2>1. s \in c.bits <=> s \in b.bits \/ (s = "source_changes" /\ on /\ off)
    BY <1>7, <1>8
  <2>2. s \in b.bits <=> s \in a.bits \/ (s = "off" /\ "toggled_off" \in line /\ on)
    BY <1>4, <1>5
  <2>3. s \in a.bits <=> s \in m.bits \/ (s = "on" /\ "toggled_on" \in line)
    BY <1>2
  <2> QED BY <2>1, <2>2, <2>3
<1> QED BY <1>2, <1>5, <1>8, <1>9, <1>10 DEF SameBut, on, off

LEMMA BridgeLineKept ==
  ASSUME mon \in Mons, SeenInv, BridgeInv, mon.kind = "bridge", Started,
         NEW line \in SUBSET Sigs, process_line(line)
  PROVE  mon' \in Mons /\ mon'.kind = mon.kind /\ BridgeInv' /\ PhaseKept
<1> DEFINE l == BridgeLine(mon, line)
           t == BridgeToggled(l, line)
           b == IF "gap_free" \in line THEN Grant(t, "no_gap") ELSE t
           o == [b EXCEPT !.phase = "GatePassed"]
           on == "on" \in mon.bits \/ "toggled_on" \in line
           off == "off" \in mon.bits \/ ("toggled_off" \in line /\ on)
           R(x) == Rank(BridgePhases, x)
<1>1. mon' = IF BridgePasses(b) THEN o ELSE b
  BY DEF process_line, Process, BridgeProcess
<1>2. mon.phase \in PhasesIn(BridgePhases) /\ mon.phase # "NotStarted"
  BY DEF BridgeInv, Started, Fresh
<1>3. /\ l \in Mons /\ l.kind = mon.kind
      /\ l.bits = mon.bits \cup (IF "identity" \in line THEN {"identity"} ELSE {})
      /\ l.phase \in {mon.phase, "AdbConnected", "SensorStreamActive", "IdentityLoaded"}
      /\ l.phase = "AdbConnected" => mon.phase \in {"UsbReady", "AdbConnected"}
  BY <1>2, BridgeLineStep DEF SameBut
<1> HIDE DEF l
<1>4. "on" \in l.bits <=> "on" \in mon.bits
  BY <1>3
<1>5. "off" \in l.bits <=> "off" \in mon.bits
  BY <1>3
<1>6. /\ t \in Mons /\ t.kind = mon.kind /\ t.phase = l.phase
      /\ \A s : s \in t.bits <=> \/ s \in l.bits
                                 \/ s = "on" /\ "toggled_on" \in line
                                 \/ s = "off" /\ "toggled_off" \in line /\ on
                                 \/ s = "source_changes" /\ on /\ off
  BY <1>3, <1>4, <1>5, BridgeToggledStep DEF SameBut
<1> HIDE DEF t
<1>7. "no_gap" \in Criteria /\ "GatePassed" \in PhaseNames
  BY DEF Criteria, PhaseNames
<1>8. b \in Mons /\ b.kind = mon.kind /\ b.phase = l.phase
      /\ b.bits = t.bits \cup (IF "gap_free" \in line THEN {"no_gap"} ELSE {})
  BY <1>6, <1>7, BitsSet DEF SameBut
<1>9. o \in Mons /\ o.kind = mon.kind /\ o.bits = b.bits /\ o.phase = "GatePassed"
  BY <1>7, <1>8, PhaseSet DEF SameBut
<1> HIDE DEF o, on, off
<1>10. /\ mon.bits \subseteq b.bits
       /\ "identity" \in b.bits <=> "identity" \in mon.bits \/ "identity" \in line
       /\ "no_gap" \in b.bits <=> "no_gap" \in mon.bits \/ "gap_free" \in line
       /\ "on" \in b.bits <=> "on" \in mon.bits \/ on
       /\ "off" \in b.bits <=> "off" \in mon.bits \/ off
       /\ "source_changes" \in b.bits <=> "source_changes" \in mon.bits \/ (on /\ off)
  <2>1. ASSUME NEW s PROVE s \in b.bits <=> \/ s \in mon.bits
                                            \/ s = "identity" /\ "identity" \in line
                                            \/ s = "on" /\ "toggled_on" \in line
                                            \/ s = "off" /\ "toggled_off" \in line /\ on
                                            \/ s = "source_changes" /\ on /\ off
                                            \/ s = "no_gap" /\ "gap_free" \in line
    <3> HIDE DEF b
    <3>1. s \in b.bits <=> s \in t.bits \/ (s = "no_gap" /\ "gap_free" \in line)
      BY <1>8
    <3>2. s \in t.bits <=> \/ s \in l.bits
                           \/ s = "on" /\ "toggled_on" \in line
                           \/ s = "off" /\ "toggled_off" \in line /\ on
                           \/ s = "source_changes" /\ on /\ off
      BY <1>6
    <3>3. s \in l.bits <=> s \in mon.bits \/ (s = "identity" /\ "identity" \in line)
      BY <1>3
    <3> QED BY <3>1, <3>2, <3>3
  <2> HIDE DEF b
  <2>2. mon.bits \subseteq b.bits
    BY <2>1
  <2>3. "identity" \in b.bits <=> "identity" \in mon.bits \/ "identity" \in line
    BY <2>1
  <2>4. "no_gap" \in b.bits <=> "no_gap" \in mon.bits \/ "gap_free" \in line
    BY <2>1
  <2>5. "on" \in b.bits <=> on
    BY <2>1 DEF on
  <2>6. "off" \in b.bits <=> off
    BY <2>1 DEF off
  <2>7. "source_changes" \in b.bits <=> "source_changes" \in mon.bits \/ (on /\ off)
    BY <2>1
  <2> QED BY <2>2, <2>3, <2>4, <2>5, <2>6, <2>7 DEF on, off
<1> HIDE DEF b
<1>11. mon' \in Mons /\ mon'.kind = mon.kind /\ mon'.bits = b.bits
       /\ mon'.phase = IF BridgePasses(b) THEN "GatePassed" ELSE l.phase
  BY <1>1, <1>8, <1>9
<1>12. Sighted' = Sighted \cup line
  BY LineSeen
<1>13. /\ "identity" \in mon.bits <=> "identity" \in Sighted
       /\ "no_gap" \in mon.bits <=> "gap_free" \in Sighted
       /\ "on" \in mon.bits <=> "toggled_on" \in Sighted
       /\ "off" \in mon.bits => "toggled_on" \in Sighted /\ "toggled_off" \in Sighted
       /\ "toggled_on" \in Sighted /\ "toggled_off" \in Sighted
            /\ Sighting("toggled_on") <= Sighting("toggled_off") => "off" \in mon.bits
       /\ "source_changes" \in mon.bits <=> "on" \in mon.bits /\ "off" \in mon.bits
       /\ mon.phase = "GatePassed" <=> BridgePasses(mon)
  BY DEF BridgeInv
<1>14. BridgePasses(mon) => BridgePasses(b)
  BY <1>10 DEF BridgePasses
<1>15. l.phase = "GatePassed" => BridgePasses(b)
  BY <1>3, <1>13, <1>14
<1>16. PhasesIn(BridgePhases) =
         {"NotStarted", "UsbReady", "AdbConnected", "SensorStreamActive", "IdentityLoaded", "GatePassed"}
  BY BridgeRanks
<1>17. BridgeInv'
  <2>1. mon'.phase \in PhasesIn(BridgePhases) /\ mon'.phase # "NotStarted"
    BY <1>2, <1>3, <1>11, <1>16
  <2>2. "identity" \in mon'.bits <=> "identity" \in Sighted'
    BY <1>10, <1>11, <1>12, <1>13
  <2>3. "no_gap" \in mon'.bits <=> "gap_free" \in Sighted'
    BY <1>10, <1>11, <1>12, <1>13
  <2>4. "on" \in mon'.bits <=> "toggled_on" \in Sighted'
    BY <1>10, <1>11, <1>12, <1>13 DEF on
  <2>5. "off" \in mon'.bits => "toggled_on" \in Sighted' /\ "toggled_off" \in Sighted'
    BY <1>10, <1>11, <1>12, <1>13 DEF on, off
  <2>6. "toggled_on" \in Sighted' /\ "toggled_off" \in Sighted'
          /\ Sighting("toggled_on")' <= Sighting("toggled_off")' => "off" \in mon'.bits
    <3> SUFFICES ASSUME "toggled_on" \in Sighted', "toggled_off" \in Sighted',
                        Sighting("toggled_on")' <= Sighting("toggled_off")', ~ off, "off" \notin mon.bits
                 PROVE  FALSE
      BY <1>10, <1>11
    <3>1. /\ \A s \in Sighted : Sighting(s)' = Sighting(s) /\ Sighting(s) \in 1 .. Len(seen)
          /\ \A s \in line \ Sighted : Sighting(s)' = Len(seen) + 1
      BY LineSeen
    <3>2. Len(seen) \in Nat
      BY DEF SeenInv
    <3>3. CASE "toggled_off" \in Sighted
      <4>1. CASE "toggled_on" \in Sighted
        BY <1>13, <3>1, <3>3, <4>1
      <4>2. CASE "toggled_on" \notin Sighted
        <5>1. Sighting("toggled_on")' = Len(seen) + 1
          BY <1>12, <3>1, <4>2
        <5>2. Sighting("toggled_off")' \in 1 .. Len(seen)
          BY <3>1, <3>3
        <5> QED BY <3>2, <5>1, <5>2
      <4> QED BY <4>1, <4>2
    <3>4. CASE "toggled_off" \notin Sighted
      BY <1>12, <1>13, <3>4 DEF on, off
    <3> QED BY <3>3, <3>4
  <2>7. "source_changes" \in mon'.bits <=> "on" \in mon'.bits /\ "off" \in mon'.bits
    BY <1>10, <1>11, <1>13 DEF on, off
  <2>8. mon'.phase = "GatePassed" <=> BridgePasses(mon')
    BY <1>11, <1>15 DEF BridgePasses
  <2> QED BY <2>1, <2>2, <2>3, <2>4, <2>5, <2>6, <2>7, <2>8 DEF BridgeInv
<1>18. PhaseKept
  <2>1. PhasesOf(mon.kind) = BridgePhases /\ FallsBackTo(mon.kind) = "SensorStreamActive"
    BY DEF PhasesOf, FallsBackTo
  <2>2. /\ R("NotStarted") = 1 /\ R("UsbReady") = 2 /\ R("AdbConnected") = 3
        /\ R("SensorStreamActive") = 4 /\ R("IdentityLoaded") = 5 /\ R("GatePassed") = 6
    BY BridgeRanks
  <2>3. CASE mon'.phase = "GatePassed"
    <3>1. R(mon.phase) \in 1 .. 6
      BY <1>2, <1>16, <2>2
    <3> QED BY <2>1, <2>2, <2>3, <3>1 DEF PhaseKept, Earlier
  <2>4. CASE mon'.phase # "GatePassed"
    <3>1. mon.phase # "GatePassed" /\ mon'.phase = l.phase
      BY <1>11, <1>13, <1>14, <2>4
    <3>2. mon.phase \in {"UsbReady", "AdbConnected", "SensorStreamActive", "IdentityLoaded"}
      BY <1>2, <1>16, <3>1
    <3>3. R(l.phase) < R(mon.phase) => ~ R(l.phase) < R("SensorStreamActive")
      BY <1>3, <2>2, <3>2
    <3> QED BY <2>1, <3>1, <3>3 DEF PhaseKept, Earlier
  <2> QED BY <2>3, <2>4
<1> QED BY <1>11, <1>17, <1>18

(* Rules that leave the gate's own criteria alone, and grant a boot only   *)
(* on its own signature.                                                   *)
Modest(rules) ==
  \A i \in 1 .. Len(rules) :
    /\ \A s \in {"intel_passed", "amd_passed", "none_accepted"} : s \notin rules[i].bits
    /\ \A s \in {"boot_intel", "boot_amd"} : s \in rules[i].bits => s = rules[i].on

LEMMA X86HwModest == Modest(X86HwRules1) /\ Modest(X86HwRules2) /\ Modest(X86HwRules3)
<1> DEFINE Meek(r) ==
             /\ \A s \in {"intel_passed", "amd_passed", "none_accepted"} : s \notin r.bits
             /\ \A s \in {"boot_intel", "boot_amd"} : s \in r.bits => s = r.on
<1>1. Len(X86HwRules1) = 2 /\ Meek(X86HwRules1[1]) /\ Meek(X86HwRules1[2])
  BY X86HwRules1Listed DEF RuleIs
<1>2. Len(X86HwRules2) = 1 /\ Meek(X86HwRules2[1])
  BY X86HwRules2Listed DEF RuleIs
<1>3. Len(X86HwRules3) = 3 /\ Meek(X86HwRules3[1]) /\ Meek(X86HwRules3[2]) /\ Meek(X86HwRules3[3])
  BY X86HwRules3Listed DEF RuleIs
<1> HIDE DEF Meek
<1>4. /\ \A i \in 1 .. Len(X86HwRules1) : Meek(X86HwRules1[i])
      /\ \A i \in 1 .. Len(X86HwRules2) : Meek(X86HwRules2[i])
      /\ \A i \in 1 .. Len(X86HwRules3) : Meek(X86HwRules3[i])
  BY <1>1, <1>2, <1>3
<1> QED BY <1>4 DEF Modest, Meek

(* What every step of a line leaves of the monitor it began with.          *)
X86HwFine(m, line, o) ==
  /\ SameBut(m, o) /\ m.bits \subseteq o.bits
  /\ o.phase \in PhasesIn(X86HwPhases) /\ Rank(X86HwPhases, m.phase) <= Rank(X86HwPhases, o.phase)
  /\ \A s \in {"boot_intel", "boot_amd"} : s \in o.bits => s \in m.bits \/ s \in line
  /\ "intel_passed" \in o.bits => "boot_intel" \in o.bits
  /\ "amd_passed" \in o.bits => "boot_amd" \in o.bits
  /\ "none_accepted" \in o.bits => "none_accepted" \in m.bits

LEMMA X86HwRulesFine ==
  ASSUME NEW m \in Mons, NEW line, NEW o, X86HwFine(m, line, o), m.phase \in PhasesIn(X86HwPhases),
         NEW rules, WellFormed(X86HwPhases, rules), EntersOnly(rules, {}), Modest(rules)
  PROVE  X86HwFine(m, line, Processed(X86HwPhases, rules, o, line))
<1> DEFINE p == Processed(X86HwPhases, rules, o, line)
           R(x) == Rank(X86HwPhases, x)
<1>1. o \in Mons /\ o.kind = m.kind /\ o.phase \in PhasesIn(X86HwPhases) /\ AreRules(rules)
  BY FormIsRules DEF X86HwFine, SameBut
<1>2. SameBut(o, p) /\ Given(rules, line, o, p)
  BY <1>1, RulesGive
<1>3. R(o.phase) \in Nat /\ R(m.phase) \in Nat
  BY <1>1, PhaseLists, RankIsPlace
<1>4. p.phase \in PhasesIn(X86HwPhases) /\ R(o.phase) <= R(p.phase)
  <2>1. Climbs(X86HwPhases, rules, R(o.phase))
    BY <1>3, FormClimbs
  <2> QED BY <1>1, <1>3, <2>1, PhaseLists, RulesClimb
<1>5. R(p.phase) \in Nat
  BY <1>4, PhaseLists, RankIsPlace
<1> HIDE DEF p
<1>6. \A s \in {"intel_passed", "amd_passed", "none_accepted"} : s \in p.bits => s \in o.bits
  BY <1>2 DEF Given, Modest
<1>7. \A s \in {"boot_intel", "boot_amd"} : s \in p.bits => s \in o.bits \/ s \in line
  BY <1>2 DEF Given, Modest
<1>8. R(m.phase) <= R(p.phase)
  BY <1>3, <1>4, <1>5 DEF X86HwFine
<1>9. X86HwFine(m, line, p)
  BY <1>1, <1>2, <1>4, <1>6, <1>7, <1>8 DEF X86HwFine, Given, SameBut
<1> QED BY <1>9 DEF p

LEMMA X86HwAdvanceFine ==
  ASSUME NEW m \in Mons, NEW line, NEW o, X86HwFine(m, line, o), m.phase \in PhasesIn(X86HwPhases),
         NEW p \in {"BothVendorsVerified", "EptNptInvalidationsVerified", "GatePassed"}
  PROVE  X86HwFine(m, line, Advance(X86HwPhases, o, p))
<1> DEFINE a == Advance(X86HwPhases, o, p)
           R(x) == Rank(X86HwPhases, x)
<1>1. p \in PhaseNames /\ p \in PhasesIn(X86HwPhases)
  BY X86HwRanks DEF PhaseNames
<1>2. o \in Mons /\ o.phase \in PhasesIn(X86HwPhases)
  BY DEF X86HwFine, SameBut
<1>3. SameBut(o, a) /\ a.bits = o.bits
  BY <1>1, <1>2, PhaseAdvanced
<1>4. a.phase \in PhasesIn(X86HwPhases) /\ R(o.phase) <= R(a.phase)
  BY <1>1, <1>2, Advances, PhaseLists
<1>5. R(o.phase) \in Nat /\ R(m.phase) \in Nat /\ R(a.phase) \in Nat
  BY <1>2, <1>4, PhaseLists, RankIsPlace
<1> HIDE DEF a
<1>6. R(m.phase) <= R(a.phase)
  BY <1>4, <1>5 DEF X86HwFine
<1>7. X86HwFine(m, line, a)
  BY <1>3, <1>4, <1>6 DEF X86HwFine, SameBut
<1> QED BY <1>7 DEF a

LEMMA SummariesKeep ==
  ASSUME NEW m \in Mons, NEW line
  PROVE  LET o == Summaries(m, line) IN SameBut(m, o) /\ o.phase = m.phase /\ o.bits = m.bits
<1> DEFINE Twice(n, x, y) == [[n EXCEPT ![x] = 1] EXCEPT ![y] = 1]
           a == IF "ept_done" \in line /\ m.n.changes = 0
                THEN [m EXCEPT !.n = Twice(m.n, "changes", "acks")] ELSE m
           b == IF "npt_done" \in line /\ a.n.changes2 = 0
                THEN [a EXCEPT !.n = Twice(a.n, "changes2", "acks2")] ELSE a
<1>1. \A n \in [Counters -> Int] : \A x, y \in Counters : Twice(n, x, y) \in [Counters -> Int]
  OBVIOUS
<1>2. "changes" \in Counters /\ "acks" \in Counters /\ "changes2" \in Counters
      /\ "acks2" \in Counters
  BY DEF Counters
<1>3. \A o \in Mons, n \in [Counters -> Int] :
        SameBut(o, [o EXCEPT !.n = n]) /\ [o EXCEPT !.n = n].phase = o.phase
        /\ [o EXCEPT !.n = n].bits = o.bits
  BY DEF Mons, SameBut
<1>4. \A o \in Mons :
        [o EXCEPT !.n.changes = 1, !.n.acks = 1] = [o EXCEPT !.n = Twice(o.n, "changes", "acks")]
  BY DEF Mons
<1>5. \A o \in Mons :
        [o EXCEPT !.n.changes2 = 1, !.n.acks2 = 1] = [o EXCEPT !.n = Twice(o.n, "changes2", "acks2")]
  BY DEF Mons
<1>6. \A o \in Mons : o.n \in [Counters -> Int] /\ SameBut(o, o)
  BY DEF Mons, SameBut
<1> HIDE DEF Twice
<1>7. SameBut(m, a) /\ a.phase = m.phase /\ a.bits = m.bits
  BY <1>1, <1>2, <1>3, <1>6
<1>8. a \in Mons
  BY <1>7 DEF SameBut
<1>9. a = IF "ept_done" \in line /\ m.n.changes = 0
          THEN [m EXCEPT !.n.changes = 1, !.n.acks = 1] ELSE m
  BY <1>4
<1> HIDE DEF a
<1>10. SameBut(a, b) /\ b.phase = a.phase /\ b.bits = a.bits
  BY <1>1, <1>2, <1>3, <1>6, <1>8
<1>11. b = IF "npt_done" \in line /\ a.n.changes2 = 0
           THEN [a EXCEPT !.n.changes2 = 1, !.n.acks2 = 1] ELSE a
  BY <1>5, <1>8
<1> HIDE DEF b
<1>12. Summaries(m, line) = b
  BY <1>9, <1>11 DEF Summaries
<1> QED BY <1>7, <1>10, <1>12 DEF SameBut

LEMMA PairsFine ==
  ASSUME NEW m \in Mons, NEW line, NEW o, X86HwFine(m, line, o)
  PROVE  X86HwFine(m, line, PairsJudged(o))
<1> DEFINE I == IF IntelValid(o) THEN {"intel_passed"} ELSE {}
           A == IF AmdValid(o) THEN {"amd_passed"} ELSE {}
           bits == o.bits \cup I \cup A
<1>1. o \in Mons /\ o.kind = m.kind
  BY DEF X86HwFine, SameBut
<1>2. bits \subseteq Criteria
  <2>1. I \subseteq Criteria /\ A \subseteq Criteria
    BY DEF Criteria
  <2>2. o.bits \subseteq Criteria
    BY <1>1 DEF Mons
  <2> QED BY <2>1, <2>2
<1>3. IntelValid(o) => "boot_intel" \in o.bits
  BY DEF IntelValid
<1>4. AmdValid(o) => "boot_amd" \in o.bits
  BY DEF AmdValid
<1>5. PairsJudged(o) = [o EXCEPT !.bits = bits]
  BY <1>1 DEF PairsJudged, Mons
<1>6. /\ o.bits \subseteq bits
      /\ \A s \in bits : s \in o.bits \/ (s = "intel_passed" /\ "boot_intel" \in o.bits)
                                      \/ (s = "amd_passed" /\ "boot_amd" \in o.bits)
  BY <1>3, <1>4
<1> HIDE DEF bits
<1>7. PairsJudged(o) \in Mons /\ PairsJudged(o).kind = m.kind /\ PairsJudged(o).bits = bits
      /\ PairsJudged(o).phase = o.phase
  BY <1>1, <1>2, <1>5 DEF Mons
<1> QED BY <1>6, <1>7 DEF X86HwFine, SameBut

(* What a line does to the counts of mapping changes, and that only the    *)
(* gate itself leads to GatePassed.                                        *)
X86HwRest(m, o) ==
  /\ m.n.changes \in Nat /\ m.n.changes2 \in Nat => o.n.changes \in Nat /\ o.n.changes2 \in Nat
  /\ o.n.changes = 0 => m.n.changes = 0 /\ o.n.acks = m.n.acks
  /\ o.n.changes2 = 0 => m.n.changes2 = 0 /\ o.n.acks2 = m.n.acks2
  /\ o.phase = "GatePassed" => m.phase = "GatePassed"

LEMMA RestFollows ==
  ASSUME NEW m, NEW o, NEW p, X86HwRest(m, o), X86HwRest(o, p)
  PROVE  X86HwRest(m, p)
BY DEF X86HwRest

(* No rule leads there.                                                    *)
Short(rules) == \A i \in 1 .. Len(rules) : rules[i].to # "GatePassed"

LEMMA X86HwShort == Short(X86HwRules1) /\ Short(X86HwRules2) /\ Short(X86HwRules3)
<1> DEFINE Falls(r) == r.to # "GatePassed"
<1>1. Len(X86HwRules1) = 2 /\ Falls(X86HwRules1[1]) /\ Falls(X86HwRules1[2])
  BY X86HwRules1Listed DEF RuleIs
<1>2. Len(X86HwRules2) = 1 /\ Falls(X86HwRules2[1])
  BY X86HwRules2Listed DEF RuleIs
<1>3. Len(X86HwRules3) = 3 /\ Falls(X86HwRules3[1]) /\ Falls(X86HwRules3[2]) /\ Falls(X86HwRules3[3])
  BY X86HwRules3Listed DEF RuleIs
<1> HIDE DEF Falls
<1>4. /\ \A i \in 1 .. Len(X86HwRules1) : Falls(X86HwRules1[i])
      /\ \A i \in 1 .. Len(X86HwRules2) : Falls(X86HwRules2[i])
      /\ \A i \in 1 .. Len(X86HwRules3) : Falls(X86HwRules3[i])
  BY <1>1, <1>2, <1>3
<1> QED BY <1>4 DEF Short, Falls

LEMMA RulesRest ==
  ASSUME NEW m \in Mons, NEW line, NEW rules, AreRules(rules), Short(rules)
  PROVE  X86HwRest(m, Processed(X86HwPhases, rules, m, line))
<1> DEFINE S == {x \in Mons : x.n = m.n /\ (x.phase = "GatePassed" => m.phase = "GatePassed")}
           p == Processed(X86HwPhases, rules, m, line)
<1>1. ASSUME NEW i \in 1 .. Len(rules), NEW o \in S
      PROVE  Applied(X86HwPhases, o, line, rules[i]) \in S
  <2> DEFINE q == Applied(X86HwPhases, o, line, rules[i])
  <2>1. o \in Mons /\ o.n = m.n /\ (o.phase = "GatePassed" => m.phase = "GatePassed")
    OBVIOUS
  <2>2. IsRule(rules[i]) /\ rules[i].to # "GatePassed"
    BY DEF AreRules, Short
  <2>3. q \in Mons /\ (q.phase = rules[i].to \/ q.phase = o.phase)
    BY <2>1, <2>2, RuleApplied DEF SameBut
  <2>4. q.n = o.n
    BY <2>1 DEF Applied, Mons
  <2> HIDE DEF q
  <2>5. q \in S
    BY <2>1, <2>2, <2>3, <2>4
  <2> QED BY <2>5 DEF q
<1>2. m \in S /\ S \subseteq Mons
  OBVIOUS
<1>3. p \in S
  <2> HIDE DEF S, p
  <2> QED BY <1>1, <1>2, RulesKeep DEF p
<1> HIDE DEF p
<1>4. p.n = m.n /\ (p.phase = "GatePassed" => m.phase = "GatePassed")
  BY <1>3
<1>5. X86HwRest(m, p)
  BY <1>4 DEF X86HwRest
<1> QED BY <1>5 DEF p

LEMMA AdvanceRest ==
  ASSUME NEW m \in Mons, NEW p \in PhaseNames, p # "GatePassed"
  PROVE  X86HwRest(m, Advance(X86HwPhases, m, p)) /\ X86HwRest(m, m)
<1>1. Advance(X86HwPhases, m, p).n = m.n
  BY DEF Advance, Mons
<1>2. Advance(X86HwPhases, m, p).phase \in {p, m.phase}
  BY PhaseAdvanced
<1> QED BY <1>1, <1>2 DEF X86HwRest

LEMMA SummariesRest ==
  ASSUME NEW m \in Mons, NEW line
  PROVE  X86HwRest(m, Summaries(m, line))
<1> DEFINE a == IF "ept_done" \in line /\ m.n.changes = 0
                THEN [m EXCEPT !.n.changes = 1, !.n.acks = 1] ELSE m
           b == IF "npt_done" \in line /\ a.n.changes2 = 0
                THEN [a EXCEPT !.n.changes2 = 1, !.n.acks2 = 1] ELSE a
<1>1. "changes" \in Counters /\ "acks" \in Counters /\ "changes2" \in Counters /\ "acks2" \in Counters
  BY DEF Counters
<1>2. /\ a.n.changes2 = m.n.changes2 /\ a.n.acks2 = m.n.acks2
      /\ (a.n.changes = m.n.changes /\ a.n.acks = m.n.acks) \/ a.n.changes = 1
  BY <1>1 DEF Mons
<1>3. a \in Mons
  <2> DEFINE w == [[m.n EXCEPT !["changes"] = 1] EXCEPT !["acks"] = 1]
  <2>1. w \in [Counters -> Int]
    BY <1>1 DEF Mons
  <2>2. [m EXCEPT !.n.changes = 1, !.n.acks = 1] = [m EXCEPT !.n = w]
    BY DEF Mons
  <2> HIDE DEF w
  <2>3. [m EXCEPT !.n = w] \in Mons
    BY <2>1 DEF Mons
  <2> QED BY <2>2, <2>3
<1> HIDE DEF a
<1>4. /\ b.n.changes = a.n.changes /\ b.n.acks = a.n.acks
      /\ (b.n.changes2 = a.n.changes2 /\ b.n.acks2 = a.n.acks2) \/ b.n.changes2 = 1
  BY <1>1, <1>3 DEF Mons
<1>5. Summaries(m, line) = b
  BY DEF Summaries, a
<1>6. Summaries(m, line).phase = m.phase
  BY SummariesKeep
<1> HIDE DEF b
<1> QED BY <1>2, <1>4, <1>5, <1>6 DEF X86HwRest

LEMMA PairsRest ==
  ASSUME NEW o \in Mons
  PROVE  LET e == PairsJudged(o) IN
         /\ e.n = o.n /\ e.phase = o.phase /\ o.bits \subseteq e.bits
         /\ IntelValid(o) => "intel_passed" \in e.bits
         /\ AmdValid(o) => "amd_passed" \in e.bits
BY DEF PairsJudged, Mons

LEMMA X86HwLine ==
  ASSUME mon \in Mons, SeenInv, X86HwInv, mon.kind = "x86_hw", Started,
         NEW line \in SUBSET Sigs, process_line(line)
  PROVE  mon' \in Mons /\ mon'.kind = mon.kind /\ X86HwInv' /\ PhaseKept
<1> DEFINE R(x) == Rank(X86HwPhases, x)
           a == Processed(X86HwPhases, X86HwRules1, mon, line)
           b == IF {"intel", "amd"} \subseteq a.bits
                THEN Advance(X86HwPhases, a, "BothVendorsVerified") ELSE a
           bb == Processed(X86HwPhases, X86HwRules2, b, line)
           c == Summaries(bb, line)
           d == IF Acked(c) /\ Acked2(c)
                THEN Advance(X86HwPhases, c, "EptNptInvalidationsVerified") ELSE c
           dd == Processed(X86HwPhases, X86HwRules3, d, line)
           e == PairsJudged(dd)
           g == [e EXCEPT !.phase = "GatePassed"]
           Fine(o) == X86HwFine(mon, line, o)
<1>1. mon' = IF "workaround" \in line THEN Revoke(mon, "none_accepted")
             ELSE IF X86HwPasses(e) THEN g ELSE e
  BY DEF process_line, Process, X86HwProcess
<1>2. mon.phase \in PhasesIn(X86HwPhases) /\ mon.phase # "NotStarted"
  BY DEF X86HwInv, Started, Fresh
<1>3. /\ \A s \in {"boot_intel", "boot_amd"} : s \in mon.bits => s \in Sighted
      /\ "intel_passed" \in mon.bits => "boot_intel" \in mon.bits
      /\ "amd_passed" \in mon.bits => "boot_amd" \in mon.bits
      /\ "none_accepted" \in mon.bits => "workaround" \notin Sighted
  BY DEF X86HwInv
<1>4. /\ Vouched \subseteq mon.bits
      /\ "workaround" \notin Sighted =>
           /\ "none_accepted" \in mon.bits
           /\ \A s \in {"boot_intel", "boot_amd"} : s \in Sighted => s \in mon.bits
      /\ mon.n.changes \in Nat /\ mon.n.changes2 \in Nat
      /\ mon.n.changes = 0 =>
           mon.n.acks = 0 /\ ("boot_intel" \in mon.bits => "intel_passed" \in mon.bits)
      /\ mon.n.changes2 = 0 =>
           mon.n.acks2 = 0 /\ ("boot_amd" \in mon.bits => "amd_passed" \in mon.bits)
      /\ mon.phase = "GatePassed" => X86HwPasses(mon) \/ "workaround" \in Sighted
  BY <1>2 DEF X86HwInv
<1>5. R(mon.phase) \in Nat
  BY <1>2, PhaseLists, RankIsPlace
<1>6. Fine(mon)
  BY <1>2, <1>3, <1>5 DEF X86HwFine, SameBut
<1>7. /\ WellFormed(X86HwPhases, X86HwRules1) /\ EntersOnly(X86HwRules1, {}) /\ Modest(X86HwRules1)
      /\ WellFormed(X86HwPhases, X86HwRules2) /\ EntersOnly(X86HwRules2, {}) /\ Modest(X86HwRules2)
      /\ WellFormed(X86HwPhases, X86HwRules3) /\ EntersOnly(X86HwRules3, {}) /\ Modest(X86HwRules3)
  BY X86HwRules1Form, X86HwRules2Form, X86HwRules3Form, X86HwModest
<1>8. Fine(a)
  BY <1>2, <1>6, <1>7, X86HwRulesFine
<1>9. /\ "BothVendorsVerified" \in PhaseNames /\ "BothVendorsVerified" # "GatePassed"
      /\ "EptNptInvalidationsVerified" \in PhaseNames /\ "EptNptInvalidationsVerified" # "GatePassed"
      /\ AreRules(X86HwRules1) /\ AreRules(X86HwRules2) /\ AreRules(X86HwRules3)
  BY <1>7, FormIsRules DEF PhaseNames
<1>10. X86HwRest(mon, a)
  BY <1>9, RulesRest, X86HwShort
<1> HIDE DEF a
<1>11. Fine(b)
  BY <1>2, <1>8, X86HwAdvanceFine
<1>12. X86HwRest(a, b)
  BY <1>8, <1>9, AdvanceRest DEF X86HwFine, SameBut
<1> HIDE DEF b
<1>13. Fine(bb)
  BY <1>2, <1>7, <1>11, X86HwRulesFine
<1>14. X86HwRest(b, bb)
  <2>1. b \in Mons
    BY <1>11 DEF X86HwFine, SameBut
  <2> QED BY <1>9, <2>1, RulesRest, X86HwShort
<1> HIDE DEF bb
<1>15. X86HwRest(bb, c)
  BY <1>13, SummariesRest DEF X86HwFine, SameBut
<1>16. Fine(c)
  <2>1. bb \in Mons
    BY <1>13 DEF X86HwFine, SameBut
  <2>2. SameBut(bb, c) /\ c.phase = bb.phase /\ c.bits = bb.bits
    BY <2>1, SummariesKeep
  <2> HIDE DEF c
  <2> QED BY <1>13, <2>2 DEF X86HwFine, SameBut
<1> HIDE DEF c
<1>17. Fine(d)
  BY <1>2, <1>16, X86HwAdvanceFine
<1>18. X86HwRest(c, d)
  BY <1>16, <1>9, AdvanceRest DEF X86HwFine, SameBut
<1> HIDE DEF d
<1>19. Fine(dd)
  BY <1>2, <1>7, <1>17, X86HwRulesFine
<1>20. X86HwRest(d, dd) /\ \A s \in {"boot_intel", "boot_amd"} : s \in line => s \in dd.bits
  <2>1. d \in Mons
    BY <1>17 DEF X86HwFine, SameBut
  <2>2. Given(X86HwRules3, line, d, dd)
    BY <1>9, <2>1, RulesGive
  <2>3. X86HwRest(d, dd)
    BY <1>9, <2>1, RulesRest, X86HwShort
  <2> HIDE DEF dd
  <2>4. /\ RuleIs(X86HwRules3[1], "boot_intel", "reach", "IntelAndroidBooted", {"boot_intel"})
        /\ RuleIs(X86HwRules3[2], "boot_amd", "reach", "AmdAndroidBooted", {"boot_amd"})
    BY X86HwRules3Listed
  <2>5. /\ X86HwRules3[1].on = "boot_intel" /\ X86HwRules3[1].how # "first"
        /\ X86HwRules3[2].on = "boot_amd" /\ X86HwRules3[2].how # "first"
        /\ "boot_intel" \in X86HwRules3[1].bits /\ "boot_amd" \in X86HwRules3[2].bits
    BY <2>4 DEF RuleIs
  <2>6. Len(X86HwRules3) = 3
    BY X86HwRules3Listed
  <2>7. 1 \in 1 .. Len(X86HwRules3) /\ 2 \in 1 .. Len(X86HwRules3)
    BY <2>6
  <2>8. "boot_intel" \in line => X86HwRules3[1].bits \subseteq dd.bits
    BY <2>2, <2>5, <2>7 DEF Given
  <2>9. "boot_amd" \in line => X86HwRules3[2].bits \subseteq dd.bits
    BY <2>2, <2>5, <2>7 DEF Given
  <2> QED BY <2>3, <2>5, <2>8, <2>9
<1> HIDE DEF dd
<1>21. X86HwRest(mon, dd)
  BY <1>10, <1>12, <1>14, <1>15, <1>18, <1>20, RestFollows
<1>22. Fine(e)
  BY <1>19, PairsFine
<1>23. /\ e.n = dd.n /\ e.phase = dd.phase /\ dd.bits \subseteq e.bits
       /\ IntelValid(dd) => "intel_passed" \in e.bits
       /\ AmdValid(dd) => "amd_passed" \in e.bits
  BY <1>19, PairsRest DEF X86HwFine, SameBut
<1> HIDE DEF e
<1>24. e \in Mons /\ e.kind = mon.kind /\ "GatePassed" \in PhaseNames
       /\ "none_accepted" \in Criteria
  BY <1>22 DEF X86HwFine, SameBut, PhaseNames, Criteria
<1>25. g \in Mons /\ g.kind = mon.kind /\ g.bits = e.bits /\ g.phase = "GatePassed" /\ g.n = e.n
  <2>1. g.n = e.n
    BY <1>24 DEF Mons
  <2> QED BY <1>24, <2>1, PhaseSet DEF SameBut
<1> HIDE DEF g
<1>26. R("GatePassed") = 9 /\ "GatePassed" \in PhasesIn(X86HwPhases) /\ "GatePassed" # "NotStarted"
       /\ \A p \in PhasesIn(X86HwPhases) : R(p) \in 1 .. 9
  BY X86HwRanks
<1>27. R("NotStarted") = 1
  BY X86HwRanks
<1>28. R(mon.phase) # 1
  <2>1. mon.phase \in {"IntelVtxVerified", "AmdSvmVerified", "BothVendorsVerified", "FexModeConfirmed",
           "EptNptInvalidationsVerified", "IntelAndroidBooted", "AmdAndroidBooted", "GatePassed"}
    BY <1>2, X86HwRanks
  <2> QED BY <2>1 DEF Rank, X86HwPhases
<1>29. Sighted' = Sighted \cup line
  BY LineSeen
<1>30. PhasesOf(mon.kind) = X86HwPhases
  BY DEF PhasesOf
<1>31. CASE "workaround" \in line
  <2>1. mon' \in Mons /\ mon'.kind = mon.kind /\ mon'.phase = mon.phase
        /\ mon'.bits = mon.bits \ {"none_accepted"} /\ mon'.n = mon.n
    <3>1. Revoke(mon, "none_accepted").n = mon.n
      BY DEF Revoke, Mons
    <3> QED BY <1>1, <1>24, <1>31, <3>1, BitsSet DEF SameBut
  <2>2. "workaround" \in Sighted'
    BY <1>29, <1>31
  <2>3. X86HwInv'
    BY <1>2, <1>3, <1>29, <1>4, <2>1, <2>2 DEF X86HwInv, X86HwPasses, Vouched
  <2>4. PhaseKept
    BY <1>5, <1>30, <2>1 DEF PhaseKept, Earlier
  <2> QED BY <2>1, <2>3, <2>4
<1>32. CASE "workaround" \notin line
  <2>1. /\ mon' \in Mons /\ mon'.kind = mon.kind /\ mon'.bits = e.bits
        /\ mon'.phase = IF X86HwPasses(e) THEN "GatePassed" ELSE e.phase
        /\ mon'.n = dd.n
    BY <1>1, <1>24, <1>25, <1>32, <1>23
  <2>2. /\ e.phase \in PhasesIn(X86HwPhases) /\ R(mon.phase) <= R(e.phase)
        /\ \A s \in {"boot_intel", "boot_amd"} : s \in e.bits => s \in mon.bits \/ s \in line
        /\ "intel_passed" \in e.bits => "boot_intel" \in e.bits
        /\ "amd_passed" \in e.bits => "boot_amd" \in e.bits
        /\ "none_accepted" \in e.bits => "none_accepted" \in mon.bits
        /\ mon.bits \subseteq e.bits
    BY <1>22 DEF X86HwFine
  <2>3. mon'.phase \in PhasesIn(X86HwPhases) /\ R(mon.phase) <= R(mon'.phase)
    BY <1>2, <1>26, <2>1, <2>2
  <2>4. mon'.phase # "NotStarted"
    BY <1>5, <1>26, <1>27, <1>28, <1>2, <2>3
  <2>5. X86HwPasses(mon') => mon'.phase = "GatePassed"
    BY <2>1 DEF X86HwPasses
  <2>6. Vouched \subseteq mon'.bits
    BY <1>4, <2>1, <2>2
  <2>7. "workaround" \notin Sighted' =>
          /\ "none_accepted" \in mon'.bits
          /\ \A s \in {"boot_intel", "boot_amd"} : s \in Sighted' => s \in mon'.bits
    BY <1>29, <1>20, <1>23, <1>4, <2>1, <2>2
  <2>8. mon.bits \subseteq dd.bits
    BY <1>19 DEF X86HwFine
  <2>9. /\ mon'.n.changes \in Nat /\ mon'.n.changes2 \in Nat
        /\ mon'.n.changes = 0 => mon'.n.acks = 0 /\ Acked(dd)
        /\ mon'.n.changes2 = 0 => mon'.n.acks2 = 0 /\ Acked2(dd)
    BY <1>21, <1>4, <2>1 DEF X86HwRest, Acked, Acked2
  <2>10. "boot_intel" \in dd.bits /\ Acked(dd) => "intel_passed" \in e.bits
    BY <1>23, <1>4, <2>8 DEF Vouched, IntelValid
  <2>11. "boot_amd" \in dd.bits /\ Acked2(dd) => "amd_passed" \in e.bits
    BY <1>23, <1>4, <2>8 DEF Vouched, AmdValid
  <2>12. \A s \in {"boot_intel", "boot_amd"} : s \in e.bits => s \in dd.bits
    BY <2>2, <2>8, <1>20
  <2>13. mon'.phase = "GatePassed" => X86HwPasses(mon') \/ "workaround" \in Sighted'
    <3>1. CASE X86HwPasses(e)
      BY <2>1, <3>1 DEF X86HwPasses
    <3>2. CASE ~ X86HwPasses(e)
      <4>1. mon'.phase = "GatePassed" => mon.phase = "GatePassed"
        BY <1>21, <1>23, <2>1, <3>2 DEF X86HwRest
      <4>2. X86HwPasses(mon) => X86HwPasses(e)
        BY <2>2 DEF X86HwPasses
      <4> QED BY <1>29, <1>4, <3>2, <4>1, <4>2
    <3> QED BY <3>1, <3>2
  <2>14. /\ mon'.n.changes = 0 => mon'.n.acks = 0 /\ ("boot_intel" \in mon'.bits => "intel_passed" \in mon'.bits)
         /\ mon'.n.changes2 = 0 => mon'.n.acks2 = 0 /\ ("boot_amd" \in mon'.bits => "amd_passed" \in mon'.bits)
    BY <2>1, <2>9, <2>10, <2>11, <2>12
  <2>15. X86HwInv'
    BY <1>3, <1>29, <1>32, <2>1, <2>2, <2>3, <2>4, <2>5, <2>6, <2>7, <2>9, <2>13, <2>14 DEF X86HwInv
  <2>16. R(mon'.phase) \in 1 .. 9
    BY <1>26, <2>3
  <2>17. PhaseKept
    BY <1>5, <1>30, <2>3, <2>16 DEF PhaseKept, Earlier
  <2> QED BY <2>1, <2>15, <2>17
<1> QED BY <1>31, <1>32

LEMMA AndroidX86Run ==
  ASSUME NEW m \in Mons, NEW line, m.phase \in {"IcdSelected"} \cup Late
  PROVE  LET o == Processed(AndroidX86Phases, AndroidX86Rules, m, line) IN
         /\ o.phase \in {"IcdSelected"} \cup Late
         /\ o.phase \in Late <=> m.phase \in Late \/ \E s \in {"vulkan", "hwc", "home"} : s \in line
         /\ "vulkan" \in o.bits <=> "vulkan" \in m.bits \/ ("vulkan" \in line /\ m.phase = "IcdSelected")
<1> DEFINE o == Processed(AndroidX86Phases, AndroidX86Rules, m, line)
           r(i) == AndroidX86Rules[i]
           E(p, q) == Earlier(AndroidX86Phases, p, q)
           Next1(n, p, i) ==
             /\ SameBut(n, p)
             /\ ~ Fired(AndroidX86Phases, n, line, r(i)) => p = n
             /\ Fired(AndroidX86Phases, n, line, r(i)) => p.bits = n.bits \cup r(i).bits
             /\ p.phase = IF Fired(AndroidX86Phases, n, line, r(i)) /\ Moved(AndroidX86Phases, n, r(i))
                          THEN r(i).to ELSE n.phase
<1>1. AreRules(AndroidX86Rules)
  BY AndroidX86RulesForm, FormIsRules
<1>2. PICK f : Chain(f, AndroidX86Phases, AndroidX86Rules, m, line)
  BY <1>1, ChainExists
<1>3. Len(AndroidX86Rules) = 6
  BY AndroidX86RulesListed DEF RuleIs
<1>4. f \in [0 .. 6 -> Mons] /\ f[0] = m /\ o = f[6]
  BY <1>2, <1>3 DEF Chain
<1>5. ASSUME NEW i \in 1 .. 6 PROVE Next1(f[i - 1], f[i], i)
  <2>1. i - 1 \in 0 .. 6 /\ i \in 1 .. Len(AndroidX86Rules)
    BY <1>3
  <2>2. f[i - 1] \in Mons /\ IsRule(r(i))
    BY <1>1, <1>4, <2>1 DEF AreRules
  <2>3. f[i] = Applied(AndroidX86Phases, f[i - 1], line, r(i))
    BY <1>2, <2>1 DEF Chain
  <2> HIDE DEF r
  <2> QED BY <2>2, <2>3, RuleApplied
<1> HIDE DEF o, Next1
<1>6. Next1(m, f[1], 1)
  BY <1>4, <1>5
<1>7. Next1(f[1], f[2], 2)
  BY <1>5
<1>8. Next1(f[2], f[3], 3)
  BY <1>5
<1>9. Next1(f[3], f[4], 4) /\ Next1(f[4], f[5], 5) /\ Next1(f[5], f[6], 6)
  BY <1>5
<1>10. /\ E("IcdSelected", "VulkanInitialized") /\ E("IcdSelected", "DrmHwcLaunched")
       /\ E("IcdSelected", "HomeScreenRendered")
       /\ \A p \in Late : ~ E(p, "VulkanInitialized")
       /\ E("VulkanInitialized", "DrmHwcLaunched") /\ ~ E("DrmHwcLaunched", "DrmHwcLaunched")
       /\ ~ E("HomeScreenRendered", "DrmHwcLaunched") /\ ~ E("GatePassed", "DrmHwcLaunched")
       /\ E("VulkanInitialized", "HomeScreenRendered") /\ E("DrmHwcLaunched", "HomeScreenRendered")
       /\ ~ E("HomeScreenRendered", "HomeScreenRendered") /\ ~ E("GatePassed", "HomeScreenRendered")
  BY AndroidX86Ranks DEF Earlier, Late
<1> HIDE DEF E
<1>11. /\ f[1].phase = IF "vulkan" \in line /\ m.phase = "IcdSelected"
                       THEN "VulkanInitialized" ELSE m.phase
       /\ "vulkan" \in f[1].bits <=> "vulkan" \in m.bits \/ ("vulkan" \in line /\ m.phase = "IcdSelected")
  <2>1. r(1).on = "vulkan" /\ r(1).how = "first" /\ r(1).to = "VulkanInitialized"
        /\ r(1).bits = {"vulkan"}
    BY AndroidX86RulesListed DEF RuleIs
  <2> HIDE DEF r
  <2>2. Fired(AndroidX86Phases, m, line, r(1)) <=> "vulkan" \in line /\ m.phase = "IcdSelected"
    BY <1>10, <2>1 DEF Fired, E
  <2>3. Moved(AndroidX86Phases, m, r(1)) <=> m.phase = "IcdSelected"
    BY <1>10, <2>1 DEF Moved, E
  <2> QED BY <1>6, <2>1, <2>2, <2>3 DEF Next1
<1>12. /\ f[2].phase = IF "hwc" \in line /\ f[1].phase \in {"IcdSelected", "VulkanInitialized"}
                       THEN "DrmHwcLaunched" ELSE f[1].phase
       /\ f[2].bits = f[1].bits
  <2>1. r(2).on = "hwc" /\ r(2).how = "first" /\ r(2).to = "DrmHwcLaunched" /\ r(2).bits = {}
    BY AndroidX86RulesListed DEF RuleIs
  <2> HIDE DEF r
  <2>2. f[1].phase \in {"IcdSelected", "VulkanInitialized", "DrmHwcLaunched", "HomeScreenRendered",
                         "GatePassed"}
    BY <1>11 DEF Late
  <2>3. E(f[1].phase, "DrmHwcLaunched") <=> f[1].phase \in {"IcdSelected", "VulkanInitialized"}
    BY <1>10, <2>2
  <2>4. Fired(AndroidX86Phases, f[1], line, r(2))
          <=> "hwc" \in line /\ f[1].phase \in {"IcdSelected", "VulkanInitialized"}
    BY <2>1, <2>3 DEF Fired, E
  <2>5. Moved(AndroidX86Phases, f[1], r(2)) <=> f[1].phase \in {"IcdSelected", "VulkanInitialized"}
    BY <2>1, <2>3 DEF Moved, E
  <2> QED BY <1>7, <2>1, <2>4, <2>5 DEF Next1
<1>13. /\ f[3].phase = IF "home" \in line
                            /\ f[2].phase \in {"IcdSelected", "VulkanInitialized", "DrmHwcLaunched"}
                       THEN "HomeScreenRendered" ELSE f[2].phase
       /\ "vulkan" \in f[3].bits <=> "vulkan" \in f[2].bits
  <2>1. r(3).on = "home" /\ r(3).how = "reach" /\ r(3).to = "HomeScreenRendered"
        /\ r(3).bits = {"home"}
    BY AndroidX86RulesListed DEF RuleIs
  <2> HIDE DEF r
  <2>2. f[2].phase \in {"IcdSelected", "VulkanInitialized", "DrmHwcLaunched", "HomeScreenRendered",
                         "GatePassed"}
    BY <1>11, <1>12 DEF Late
  <2>3. E(f[2].phase, "HomeScreenRendered")
          <=> f[2].phase \in {"IcdSelected", "VulkanInitialized", "DrmHwcLaunched"}
    BY <1>10, <2>2
  <2>4. Fired(AndroidX86Phases, f[2], line, r(3)) <=> "home" \in line
    BY <2>1 DEF Fired
  <2>5. Moved(AndroidX86Phases, f[2], r(3))
          <=> f[2].phase \in {"IcdSelected", "VulkanInitialized", "DrmHwcLaunched"}
    BY <2>1, <2>3 DEF Moved, E
  <2> QED BY <1>8, <2>1, <2>4, <2>5 DEF Next1
<1>14. ASSUME NEW i \in {4, 5, 6}, Next1(f[i - 1], f[i], i), r(i).how = "see", "vulkan" \notin r(i).bits
       PROVE  f[i].phase = f[i - 1].phase /\ ("vulkan" \in f[i].bits <=> "vulkan" \in f[i - 1].bits)
  <2> HIDE DEF r
  <2>1. ~ Moved(AndroidX86Phases, f[i - 1], r(i))
    BY <1>14 DEF Moved
  <2> QED BY <1>14, <2>1 DEF Next1
<1>15. f[6].phase = f[3].phase /\ ("vulkan" \in f[6].bits <=> "vulkan" \in f[3].bits)
  <2>1. /\ r(4).how = "see" /\ r(5).how = "see" /\ r(6).how = "see"
        /\ "vulkan" \notin r(4).bits /\ "vulkan" \notin r(5).bits /\ "vulkan" \notin r(6).bits
    BY AndroidX86RulesListed DEF RuleIs
  <2> HIDE DEF r
  <2>2. f[4].phase = f[3].phase /\ ("vulkan" \in f[4].bits <=> "vulkan" \in f[3].bits)
    BY <1>9, <1>14, <2>1
  <2>3. f[5].phase = f[4].phase /\ ("vulkan" \in f[5].bits <=> "vulkan" \in f[4].bits)
    BY <1>9, <1>14, <2>1
  <2>4. f[6].phase = f[5].phase /\ ("vulkan" \in f[6].bits <=> "vulkan" \in f[5].bits)
    BY <1>9, <1>14, <2>1
  <2> QED BY <2>2, <2>3, <2>4
<1>16. "IcdSelected" \notin Late
  BY DEF Late
<1>17. /\ f[3].phase \in {"IcdSelected"} \cup Late
       /\ f[3].phase \in Late <=> m.phase \in Late \/ \E s \in {"vulkan", "hwc", "home"} : s \in line
  <2>1. {"VulkanInitialized", "DrmHwcLaunched", "HomeScreenRendered"} \subseteq Late
    BY DEF Late
  <2>2. /\ f[1].phase \in {"IcdSelected"} \cup Late
        /\ f[1].phase \in Late <=> m.phase \in Late \/ "vulkan" \in line
    BY <1>11, <1>16, <2>1
  <2>3. /\ f[2].phase \in {"IcdSelected"} \cup Late
        /\ f[2].phase \in Late <=> f[1].phase \in Late \/ "hwc" \in line
    BY <1>12, <1>16, <2>1, <2>2
  <2>4. /\ f[3].phase \in {"IcdSelected"} \cup Late
        /\ f[3].phase \in Late <=> f[2].phase \in Late \/ "home" \in line
    BY <1>13, <1>16, <2>1, <2>3
  <2> QED BY <2>2, <2>3, <2>4
<1> QED BY <1>4, <1>11, <1>12, <1>13, <1>15, <1>17 DEF o

LEMMA AndroidX86Line ==
  ASSUME mon \in Mons, SeenInv, AndroidX86Inv, mon.kind = "android_x86", Started,
         NEW line \in SUBSET Sigs, process_line(line)
  PROVE  mon' \in Mons /\ mon'.kind = mon.kind /\ AndroidX86Inv' /\ PhaseKept
<1> DEFINE p == Processed(AndroidX86Phases, AndroidX86Rules, mon, line)
           a == BumpIf("avc_denied1" \in line, p, "denials")
           g == [a EXCEPT !.phase = "GatePassed"]
           R(x) == Rank(AndroidX86Phases, x)
           order == {"hwc", "home"}
           early == {"vulkan", "hwc", "home"}
<1>1. mon' = IF AndroidX86Passes(a) THEN g ELSE a
  BY DEF process_line, Process, AndroidX86Process
<1>2. /\ mon.phase \in {"IcdSelected"} \cup Late
      /\ {"no_software", "user"} \subseteq mon.bits
      /\ \A s \in {"home", "glmark2", "nproc"} : s \in mon.bits <=> s \in Sighted
      /\ mon.phase \in Late <=> \E s \in early : s \in Sighted
      /\ "vulkan" \in mon.bits <=> "vulkan" \in Sighted /\ NotAfter("vulkan", order)
      /\ mon.phase = "GatePassed" <=> AndroidX86Passes(mon)
  <2>1. mon.phase # "NotStarted"
    BY DEF AndroidX86Inv, Started, Fresh
  <2> QED BY <2>1 DEF AndroidX86Inv
<1>3. /\ WellFormed(AndroidX86Phases, AndroidX86Rules) /\ OwnSigns(AndroidX86Rules)
      /\ EntersOnly(AndroidX86Rules, {}) /\ AreRules(AndroidX86Rules)
  BY AndroidX86RulesForm, FormIsRules
<1>4. p \in Mons /\ p.kind = mon.kind
  BY <1>3, RulesType DEF SameBut
<1>5. mon.bits \subseteq p.bits
  BY <1>3, RulesGive DEF Given
<1>6. ASSUME NEW s \in {"home", "glmark2", "nproc"} PROVE s \in p.bits <=> s \in mon.bits \/ s \in line
  <2>1. Gives(AndroidX86Rules, s)
    BY AndroidX86RulesGive
  <2> QED BY <1>3, <2>1, RulesShow
<1>7. /\ p.phase \in {"IcdSelected"} \cup Late
      /\ p.phase \in Late <=> mon.phase \in Late \/ \E s \in early : s \in line
      /\ "vulkan" \in p.bits <=> "vulkan" \in mon.bits \/ ("vulkan" \in line /\ mon.phase = "IcdSelected")
  BY <1>2, AndroidX86Run
<1>8. {"IcdSelected", "GatePassed"} \cup Late \subseteq PhasesIn(AndroidX86Phases)
  BY AndroidX86Ranks DEF Late
<1>9. R(mon.phase) \in Nat
  BY <1>2, <1>8, PhaseLists, RankIsPlace
<1>10. R(mon.phase) <= R(p.phase)
  <2>1. Climbs(AndroidX86Phases, AndroidX86Rules, R(mon.phase))
    BY <1>3, <1>9, FormClimbs
  <2> QED BY <1>2, <1>3, <1>8, <1>9, <2>1, PhaseLists, RulesClimb
<1>11. p.phase = "GatePassed" => mon.phase = "GatePassed"
  BY <1>3, RulesEnd
<1> HIDE DEF p
<1>12. a \in Mons /\ a.kind = mon.kind /\ a.phase = p.phase /\ a.bits = p.bits
  <2>1. "denials" \in Counters
    BY DEF Counters
  <2> QED BY <1>4, <2>1, Counted DEF SameBut
<1> HIDE DEF a
<1>13. g \in Mons /\ g.kind = mon.kind /\ g.phase = "GatePassed" /\ g.bits = p.bits
  <2>1. "GatePassed" \in PhaseNames
    BY DEF PhaseNames
  <2> QED BY <1>12, <2>1, PhaseSet DEF SameBut
<1> HIDE DEF g
<1>14. AndroidX86Passes(a) <=> AndroidX86Passes(p)
  BY <1>12 DEF AndroidX86Passes
<1>15. mon' \in Mons /\ mon'.kind = mon.kind /\ mon'.bits = p.bits
       /\ mon'.phase = IF AndroidX86Passes(p) THEN "GatePassed" ELSE p.phase
  BY <1>1, <1>12, <1>13, <1>14
<1>16. Sighted' = Sighted \cup line
  BY LineSeen
<1>17. /\ \A s \in Sighted : Sighting(s)' = Sighting(s) /\ Sighting(s) \in 1 .. Len(seen)
       /\ \A s \in line \ Sighted : Sighting(s)' = Len(seen) + 1
       /\ Len(seen) \in Nat
  BY LineSeen DEF SeenInv
<1>18. AndroidX86Passes(mon) => AndroidX86Passes(p)
  BY <1>5 DEF AndroidX86Passes
<1>19. AndroidX86Passes(p) => p.phase \in Late
  <2>1. AndroidX86Passes(p) => "home" \in p.bits
    BY DEF AndroidX86Passes
  <2>2. "home" \in p.bits => "home" \in Sighted \/ "home" \in line
    BY <1>2, <1>6
  <2> QED BY <1>2, <1>7, <2>1, <2>2
<1>20. "GatePassed" \in Late /\ "IcdSelected" \notin Late /\ "NotStarted" \notin Late
  BY DEF Late
<1>21. AndroidX86Inv'
  <2>1. mon'.phase \in {"IcdSelected"} \cup Late /\ mon'.phase # "NotStarted"
    BY <1>7, <1>15, <1>20
  <2>2. {"no_software", "user"} \subseteq mon'.bits
    BY <1>2, <1>5, <1>15
  <2>3. \A s \in {"home", "glmark2", "nproc"} : s \in mon'.bits <=> s \in Sighted'
    BY <1>2, <1>6, <1>15, <1>16
  <2>4. mon'.phase \in Late <=> \E s \in early : s \in Sighted'
    BY <1>2, <1>7, <1>15, <1>16, <1>19, <1>20
  <2>5. "vulkan" \in mon'.bits <=> "vulkan" \in Sighted' /\ NotAfter("vulkan", order)'
    <3>1. NotAfter("vulkan", order)' <=>
            \A s \in order \cap Sighted' : Sighting("vulkan")' <= Sighting(s)'
      BY DEF NotAfter
    <3>2. CASE mon.phase = "IcdSelected"
      <4>1. \A s \in early : s \notin Sighted
        BY <1>2, <1>20, <3>2
      <4>2. "vulkan" \in mon'.bits <=> "vulkan" \in line
        BY <1>2, <1>7, <1>15, <3>2, <4>1
      <4>3. ASSUME "vulkan" \in line PROVE NotAfter("vulkan", order)'
        <5>1. \A s \in order \cap Sighted' : s \in line \ Sighted
          BY <1>16, <4>1
        <5>2. "vulkan" \in line \ Sighted
          BY <4>1, <4>3
        <5> QED BY <1>17, <3>1, <5>1, <5>2
      <4> QED BY <1>16, <4>1, <4>2, <4>3
    <3>3. CASE mon.phase # "IcdSelected"
      <4>1. PICK t \in early : t \in Sighted
        BY <1>2, <3>3
      <4>2. "vulkan" \in mon'.bits <=> "vulkan" \in Sighted /\ NotAfter("vulkan", order)
        BY <1>2, <1>7, <1>15, <3>3
      <4>3. CASE "vulkan" \in Sighted
        <5>1. ASSUME NEW s \in order \cap Sighted', s \notin Sighted
              PROVE  Sighting("vulkan")' <= Sighting(s)'
          <6>1. Sighting(s)' = Len(seen) + 1
            BY <1>16, <1>17, <5>1
          <6>2. Sighting("vulkan")' \in 1 .. Len(seen)
            BY <1>17, <4>3
          <6> QED BY <1>17, <6>1, <6>2
        <5>2. \A s \in order \cap Sighted : Sighting("vulkan")' <= Sighting(s)'
                                            <=> Sighting("vulkan") <= Sighting(s)
          BY <1>17, <4>3
        <5>3. NotAfter("vulkan", order)' <=> NotAfter("vulkan", order)
          BY <1>16, <3>1, <5>1, <5>2 DEF NotAfter
        <5> QED BY <1>16, <4>2, <4>3, <5>3
      <4>4. CASE "vulkan" \notin Sighted
        <5>1. t \in order \cap Sighted'
          BY <1>16, <4>1, <4>4
        <5>2. ASSUME "vulkan" \in Sighted' PROVE ~ NotAfter("vulkan", order)'
          <6>1. Sighting("vulkan")' = Len(seen) + 1
            BY <1>16, <1>17, <4>4, <5>2
          <6>2. Sighting(t)' \in 1 .. Len(seen)
            BY <1>17, <4>1
          <6>3. ~ Sighting("vulkan")' <= Sighting(t)'
            BY <1>17, <6>1, <6>2
          <6> QED BY <3>1, <5>1, <6>3
        <5> QED BY <4>2, <4>4, <5>2
      <4> QED BY <4>3, <4>4
    <3> QED BY <3>2, <3>3
  <2>6. mon'.phase = "GatePassed" <=> AndroidX86Passes(mon')
    <3>1. AndroidX86Passes(mon') <=> AndroidX86Passes(p)
      BY <1>15 DEF AndroidX86Passes
    <3> QED BY <1>2, <1>11, <1>15, <1>18, <3>1
  <2> QED BY <2>1, <2>2, <2>3, <2>4, <2>5, <2>6 DEF AndroidX86Inv
<1>22. PhaseKept
  <2>1. PhasesOf(mon.kind) = AndroidX86Phases
    BY DEF PhasesOf
  <2>2. /\ R("GatePassed") = 9 /\ R(p.phase) \in 1 .. 9 /\ R(mon.phase) \in 1 .. 9
    BY <1>2, <1>7, <1>8, AndroidX86Ranks
  <2>3. ~ R(mon'.phase) < R(mon.phase)
    BY <1>10, <1>15, <2>2
  <2> QED BY <2>1, <2>3 DEF PhaseKept, Earlier
<1> QED BY <1>15, <1>21, <1>22

-------------------------------------------------------------------------------

(* The steps of a monitor's life.                                          *)

LEMMA MonStarted ==
  ASSUME MonInv, Unstarted, seen' = seen, NEW valid \in BOOLEAN, MonStart(valid)
  PROVE  MonInv'
<1>1. mon \in Mons /\ SeenInv /\ mon.bits = {} /\ mon.phase = "NotStarted"
  BY DEF MonInv, Unstarted
<1>2. mon.kind \in Kinds
  BY <1>1 DEF Mons
<1>3. seen = << >>
  <2>1. mon.kind = "userspace" => seen = << >>
    BY <1>1 DEF MonInv, UserspaceInv, Fresh
  <2>2. mon.kind = "android_x86" => seen = << >>
    BY <1>1 DEF MonInv, AndroidX86Inv, Fresh
  <2>3. mon.kind = "adreno" => seen = << >>
    BY <1>1 DEF MonInv, AdrenoInv, Fresh
  <2>4. mon.kind = "bridge" => seen = << >>
    BY <1>1 DEF MonInv, BridgeInv, Fresh
  <2>5. mon.kind = "sensors" => seen = << >>
    BY <1>1 DEF MonInv, SensorInv, Fresh
  <2>6. mon.kind = "x86_hw" => seen = << >>
    BY <1>1 DEF MonInv, X86HwInv, Fresh
  <2>7. mon.kind = "compat" => seen = << >>
    BY <1>1 DEF MonInv, CompatInv, Fresh
  <2> QED BY <1>2, <2>1, <2>2, <2>3, <2>4, <2>5, <2>6, <2>7 DEF Kinds
<1>4. seen' = << >> /\ Sighted' = {}
  <2>1. seen' = << >>
    BY <1>3
  <2>2. DOMAIN << >> = {}
    OBVIOUS
  <2> QED BY <2>1, <2>2 DEF Sighted
<1>5. SeenInv'
  BY <1>1 DEF SeenInv, AllApart
<1>6. ASSUME NEW p \in PhaseNames, NEW bits \in SUBSET Criteria, Start(p, bits)
      PROVE  mon' \in Mons /\ mon'.kind = mon.kind /\ mon'.phase = p /\ mon'.bits = bits
  <2>1. mon' = [[mon EXCEPT !.phase = p] EXCEPT !.bits = bits]
    BY <1>1, <1>6 DEF Start, Mons
  <2>2. [mon EXCEPT !.phase = p] \in Mons /\ [mon EXCEPT !.phase = p].kind = mon.kind
        /\ [mon EXCEPT !.phase = p].phase = p
    BY <1>1, PhaseSet DEF SameBut
  <2>3. \A m \in Mons : /\ [m EXCEPT !.bits = bits] \in Mons
                        /\ [m EXCEPT !.bits = bits].kind = m.kind
                        /\ [m EXCEPT !.bits = bits].phase = m.phase /\ [m EXCEPT !.bits = bits].bits = bits
    BY DEF Mons
  <2> QED BY <2>1, <2>2, <2>3
<1>7. ASSUME NEW why \in Failures, Refused(why)
      PROVE  mon' \in Mons /\ mon'.kind = mon.kind /\ mon'.phase = mon.phase /\ mon'.bits = mon.bits
  BY <1>1, <1>7, FailureSet DEF Refused, SameBut
<1>8. "config" \in Failures
  BY DEF Failures
<1>9. CASE init_userspace_boot_diagnostics(valid)
  <2>1. mon.kind = "userspace" /\ (Start("KernelHandoff", {}) \/ Refused("config"))
    BY <1>9 DEF init_userspace_boot_diagnostics
  <2>2. "KernelHandoff" \in PhaseNames /\ {} \in SUBSET Criteria /\ "KernelHandoff" # "NotStarted"
    BY DEF PhaseNames
  <2>3. "KernelHandoff" \in PhasesIn(UserspacePhases)
    BY UserspaceRanks
  <2>4. mon' \in Mons /\ mon'.kind = mon.kind /\ mon'.phase \in {"KernelHandoff", "NotStarted"}
        /\ mon'.bits = {}
    BY <1>1, <1>6, <1>7, <1>8, <2>1, <2>2
  <2>5. UserspaceInv'
    BY <1>4, <2>3, <2>4 DEF UserspaceInv, Fresh
  <2> QED BY <1>5, <2>1, <2>4, <2>5 DEF MonInv
<1>10. CASE \E gpu \in Gpus : init_android_x86_userspace(valid, gpu)
  <2>1. PICK gpu \in Gpus : init_android_x86_userspace(valid, gpu)
    BY <1>10
  <2>2. mon.kind = "android_x86" /\ \/ Start("IcdSelected", {"no_software", "user"})
                                    \/ \E why \in Failures : Refused(why)
    <3>1. AndroidX86Start(valid, gpu) \in {"Ok"} \cup Failures
      BY DEF AndroidX86Start, Failures
    <3> QED BY <2>1, <3>1 DEF init_android_x86_userspace
  <2>3. /\ "IcdSelected" \in PhaseNames /\ {"no_software", "user"} \in SUBSET Criteria
        /\ "IcdSelected" # "NotStarted" /\ "IcdSelected" \notin Late /\ "NotStarted" \notin Late
        /\ "GatePassed" \notin {"IcdSelected", "NotStarted"}
    BY DEF PhaseNames, Criteria, Late
  <2>4. /\ mon' \in Mons /\ mon'.kind = mon.kind
        /\ \/ mon'.phase = "IcdSelected" /\ mon'.bits = {"no_software", "user"}
           \/ mon'.phase = "NotStarted" /\ mon'.bits = {}
    BY <1>1, <1>6, <1>7, <2>2, <2>3
  <2>5. AndroidX86Inv'
    <3>1. \A s \in {"home", "glmark2", "nproc", "vulkan"} : s \notin mon'.bits /\ s \notin Sighted'
      BY <1>4, <2>4
    <3>2. ~ \E s \in {"vulkan", "hwc", "home"} : s \in Sighted'
      BY <1>4
    <3>3. ~ AndroidX86Passes(mon')
      BY <3>1 DEF AndroidX86Passes
    <3>4. mon'.phase = "NotStarted" => Fresh'
      BY <1>4, <2>3, <2>4 DEF Fresh
    <3> QED BY <2>3, <2>4, <3>1, <3>2, <3>3, <3>4 DEF AndroidX86Inv
  <2> QED BY <1>5, <2>2, <2>4, <2>5 DEF MonInv
<1>11. CASE init_adreno_render_pipeline(valid)
  <2>1. mon.kind = "adreno" /\ (Start("NotStarted", {"started"}) \/ Refused("config"))
    BY <1>11 DEF init_adreno_render_pipeline
  <2>2. "NotStarted" \in PhaseNames /\ {"started"} \in SUBSET Criteria
    BY DEF PhaseNames, Criteria
  <2>3. "NotStarted" \in PhasesIn(AdrenoPhases)
    BY AdrenoRanks
  <2>4. mon' \in Mons /\ mon'.kind = mon.kind /\ mon'.phase = "NotStarted"
        /\ mon'.bits \in {{"started"}, {}}
    BY <1>1, <1>6, <1>7, <1>8, <2>1, <2>2
  <2>5. AdrenoInv'
    BY <1>4, <2>3, <2>4 DEF AdrenoInv, Fresh
  <2> QED BY <1>5, <2>1, <2>4, <2>5 DEF MonInv
<1>12. CASE init_phone_bridge(valid)
  <2>1. mon.kind = "bridge" /\ (Start("UsbReady", {}) \/ Refused("config"))
    BY <1>12 DEF init_phone_bridge
  <2>2. "UsbReady" \in PhaseNames /\ {} \in SUBSET Criteria
    BY DEF PhaseNames
  <2>3. "UsbReady" \in PhasesIn(BridgePhases) /\ "NotStarted" \in PhasesIn(BridgePhases)
    BY BridgeRanks
  <2>4. mon' \in Mons /\ mon'.kind = mon.kind /\ mon'.phase \in {"UsbReady", "NotStarted"}
        /\ mon'.bits = {}
    BY <1>1, <1>6, <1>7, <1>8, <2>1, <2>2
  <2>5. BridgeInv'
    BY <1>4, <2>3, <2>4 DEF BridgeInv, Fresh, BridgePasses
  <2> QED BY <1>5, <2>1, <2>4, <2>5 DEF MonInv
<1>13. CASE init_virtual_sensors_and_modem(valid)
  <2>1. mon.kind = "sensors" /\ (Start("HvcRegistered", {}) \/ Refused("config"))
    BY <1>13 DEF init_virtual_sensors_and_modem
  <2>2. "HvcRegistered" \in PhaseNames /\ {} \in SUBSET Criteria
    BY DEF PhaseNames
  <2>3. "HvcRegistered" \in PhasesIn(SensorPhases) /\ "NotStarted" \in PhasesIn(SensorPhases)
    BY SensorRanks
  <2>4. mon' \in Mons /\ mon'.kind = mon.kind /\ mon'.phase \in {"HvcRegistered", "NotStarted"}
        /\ mon'.bits = {}
    BY <1>1, <1>6, <1>7, <1>8, <2>1, <2>2
  <2>5. SensorInv'
    BY <1>4, <2>3, <2>4 DEF SensorInv, Fresh
  <2> QED BY <1>5, <2>1, <2>4, <2>5 DEF MonInv
<1>14. (\E phase, bits : Start(phase, bits)) \/ (\E why : Refused(why)) => mon'.n = mon.n
  BY <1>1 DEF Start, Refused, Mons
<1>15. CASE init_x86_hw_validation(valid)
  <2>1. mon.kind = "x86_hw" /\ (Start("FexModeConfirmed", X86HwStart) \/ Refused("config"))
    BY <1>15 DEF init_x86_hw_validation
  <2>2. "FexModeConfirmed" \in PhaseNames /\ X86HwStart \in SUBSET Criteria
    BY DEF PhaseNames, Criteria, X86HwStart
  <2>3. "FexModeConfirmed" \in PhasesIn(X86HwPhases) /\ "NotStarted" \in PhasesIn(X86HwPhases)
    BY X86HwRanks
  <2>4. /\ mon' \in Mons /\ mon'.kind = mon.kind
        /\ \/ mon'.phase = "FexModeConfirmed" /\ mon'.bits = X86HwStart
           \/ mon'.phase = "NotStarted" /\ mon'.bits = {}
    BY <1>1, <1>6, <1>7, <1>8, <2>1, <2>2
  <2>5. \A s \in {"boot_intel", "boot_amd", "intel_passed", "amd_passed"} : s \notin mon'.bits
    BY <2>4 DEF X86HwStart
  <2>6. mon'.phase = "NotStarted" => Fresh'
    BY <1>4, <2>4 DEF Fresh
  <2>7. mon'.phase # "NotStarted" => Vouched \subseteq mon'.bits /\ "none_accepted" \in mon'.bits
    BY <2>4 DEF X86HwStart, Vouched
  <2>8. X86HwInv
    BY <2>1 DEF MonInv
  <2>9. /\ mon'.n.changes \in Nat /\ mon'.n.changes2 \in Nat
        /\ mon'.n.changes = 0 => mon'.n.acks = 0
        /\ mon'.n.changes2 = 0 => mon'.n.acks2 = 0
    BY <1>14, <2>1, <2>8 DEF X86HwInv
  <2>10. X86HwInv'
    BY <1>4, <2>3, <2>4, <2>5, <2>6, <2>7, <2>9 DEF X86HwInv, X86HwPasses
  <2> QED BY <1>5, <2>1, <2>4, <2>10 DEF MonInv
<1>16. CASE init_app_compat_validation(valid)
  <2>1. mon.kind = "compat" /\ (Start("NotStarted", {"started"}) \/ Refused("config"))
    BY <1>16 DEF init_app_compat_validation
  <2>2. "NotStarted" \in PhaseNames /\ {"started"} \in SUBSET Criteria
    BY DEF PhaseNames, Criteria
  <2>3. "NotStarted" \in PhasesIn(CompatPhases)
    BY CompatRanks
  <2>4. mon' \in Mons /\ mon'.kind = mon.kind /\ mon'.phase = "NotStarted"
        /\ mon'.bits \in {{"started"}, {}}
    BY <1>1, <1>6, <1>7, <1>8, <2>1, <2>2
  <2>5. CompatInv
    BY <2>1 DEF MonInv
  <2>6. mon'.n = mon.n /\ "pass" \notin Sighted
    BY <1>3, <1>14, <2>1 DEF Sighted
  <2>7. CompatInv'
    BY <1>4, <2>3, <2>4, <2>5, <2>6 DEF CompatInv, Fresh
  <2> QED BY <1>5, <2>1, <2>4, <2>7 DEF MonInv
<1> QED BY <1>9, <1>10, <1>11, <1>12, <1>13, <1>15, <1>16 DEF MonStart

LEMMA SignaturesKnown ==
  ASSUME mon \in Mons, NEW line \in LinesOf(Signatures(mon.kind), MonLine)
  PROVE  line \in SUBSET Sigs
<1>1. mon.kind \in Kinds
  BY DEF Mons
<1> QED BY <1>1 DEF LinesOf, Sigs

LEMMA LineKeeps ==
  ASSUME MonInv, Started, NEW line \in LinesOf(Signatures(mon.kind), MonLine), process_line(line)
  PROVE  MonInv' /\ PhaseKept
<1>1. mon \in Mons /\ SeenInv /\ line \in SUBSET Sigs
  BY SignaturesKnown DEF MonInv
<1>2. mon.kind \in Kinds
  BY <1>1 DEF Mons
<1>3. SeenInv'
  BY <1>1, LineSeen
<1>4. CASE mon.kind = "userspace"
  <2>1. mon' \in Mons /\ mon'.kind = mon.kind /\ UserspaceInv' /\ PhaseKept
    BY <1>1, <1>4, UserspaceLine DEF MonInv
  <2> QED BY <1>3, <1>4, <2>1 DEF MonInv
<1>5. CASE mon.kind = "android_x86"
  <2>1. mon' \in Mons /\ mon'.kind = mon.kind /\ AndroidX86Inv' /\ PhaseKept
    BY <1>1, <1>5, AndroidX86Line DEF MonInv
  <2> QED BY <1>3, <1>5, <2>1 DEF MonInv
<1>6. CASE mon.kind = "adreno"
  <2>1. mon' \in Mons /\ mon'.kind = mon.kind /\ AdrenoInv' /\ PhaseKept
    BY <1>1, <1>6, AdrenoLine DEF MonInv
  <2> QED BY <1>3, <1>6, <2>1 DEF MonInv
<1>7. CASE mon.kind = "bridge"
  <2>1. mon' \in Mons /\ mon'.kind = mon.kind /\ BridgeInv' /\ PhaseKept
    BY <1>1, <1>7, BridgeLineKept DEF MonInv
  <2> QED BY <1>3, <1>7, <2>1 DEF MonInv
<1>8. CASE mon.kind = "sensors"
  <2>1. mon' \in Mons /\ mon'.kind = mon.kind /\ SensorInv' /\ PhaseKept
    BY <1>1, <1>8, SensorLine DEF MonInv
  <2> QED BY <1>3, <1>8, <2>1 DEF MonInv
<1>9. CASE mon.kind = "x86_hw"
  <2>1. mon' \in Mons /\ mon'.kind = mon.kind /\ X86HwInv' /\ PhaseKept
    BY <1>1, <1>9, X86HwLine DEF MonInv
  <2> QED BY <1>3, <1>9, <2>1 DEF MonInv
<1>10. CASE mon.kind = "compat"
  <2>1. mon' \in Mons /\ mon'.kind = mon.kind /\ CompatInv' /\ PhaseKept
    BY <1>1, <1>10, CompatLine DEF MonInv
  <2> QED BY <1>3, <1>10, <2>1 DEF MonInv
<1> QED BY <1>2, <1>4, <1>5, <1>6, <1>7, <1>8, <1>9, <1>10 DEF Kinds

(* The owner's calls: a criterion, a phase that nothing else sets, a count.*)
LEMMA CallKeeps ==
  ASSUME MonInv, Started,
         \/ \E bit \in {"glmark2", "youtube"} : SetBit(bit)
         \/ mark_harness_ready
         \/ \E c \in {"changes", "acks", "changes2", "acks2"} : record(c)
  PROVE  MonInv' /\ PhaseKept
<1>1. mon \in Mons /\ SeenInv
  BY DEF MonInv
<1>2. seen' = seen
  BY DEF SetBit, mark_harness_ready, record
<1>3. SeenInv' /\ Sighted' = Sighted
  BY <1>1, <1>2 DEF SeenInv, AllApart, Sighted
<1>4. CASE \E bit \in {"glmark2", "youtube"} : SetBit(bit)
  <2>1. PICK bit \in {"glmark2", "youtube"} : SetBit(bit)
    BY <1>4
  <2>2. mon.kind = "adreno" /\ mon' = Grant(mon, bit) /\ bit \in Criteria
    BY <2>1 DEF SetBit, Criteria
  <2>3. mon' \in Mons /\ mon'.kind = mon.kind /\ mon'.phase = mon.phase
        /\ mon'.bits = mon.bits \cup {bit}
    BY <1>1, <2>2, BitsSet DEF SameBut
  <2>4. AdrenoInv /\ "started" \in mon.bits
    BY <2>2 DEF MonInv, AdrenoInv, Started, Fresh
  <2>5. AdrenoInv'
    BY <1>3, <2>1, <2>3, <2>4 DEF AdrenoInv, AdrenoPasses
  <2>6. PhaseKept
    <3>1. PhasesOf(mon.kind) = AdrenoPhases
      BY <2>2 DEF PhasesOf
    <3>2. Rank(AdrenoPhases, mon.phase) \in Nat
      BY <2>4, PhaseLists, RankIsPlace DEF AdrenoInv
    <3> QED BY <2>3, <3>1, <3>2 DEF PhaseKept, Earlier
  <2> QED BY <1>3, <2>2, <2>3, <2>5, <2>6 DEF MonInv
<1>5. CASE mark_harness_ready
  <2>1. mon.kind = "compat" /\ mon.phase = "NotStarted"
        /\ mon' = [mon EXCEPT !.phase = "HarnessReady"]
    BY <1>5 DEF mark_harness_ready
  <2>2. "HarnessReady" \in PhaseNames
    BY DEF PhaseNames
  <2>3. mon' \in Mons /\ mon'.kind = mon.kind /\ mon'.phase = "HarnessReady" /\ mon'.bits = mon.bits
        /\ mon'.n = mon.n
    <3>1. mon'.n = mon.n
      BY <1>1, <2>1 DEF Mons
    <3> QED BY <1>1, <2>1, <2>2, <3>1, PhaseSet DEF SameBut
  <2>4. CompatInv /\ "started" \in mon.bits
    BY <2>1 DEF MonInv, CompatInv, Started, Fresh
  <2>5. "HarnessReady" \in PhasesIn(CompatPhases)
    BY CompatRanks
  <2>6. CompatInv'
    BY <1>3, <2>3, <2>4, <2>5 DEF CompatInv
  <2>7. PhaseKept
    <3>1. PhasesOf(mon.kind) = CompatPhases
      BY <2>1 DEF PhasesOf
    <3>2. Rank(CompatPhases, "NotStarted") = 1 /\ Rank(CompatPhases, "HarnessReady") = 2
      BY CompatRanks
    <3> QED BY <2>1, <2>3, <3>1, <3>2 DEF PhaseKept, Earlier
  <2> QED BY <1>3, <2>1, <2>3, <2>6, <2>7 DEF MonInv
<1>6. CASE \E c \in {"changes", "acks", "changes2", "acks2"} : record(c)
  <2>1. PICK c \in {"changes", "acks", "changes2", "acks2"} : record(c)
    BY <1>6
  <2>2. mon.kind = "x86_hw" /\ mon' = Bump(mon, c) /\ c \in Counters
    BY <2>1 DEF record, Counters
  <2>3. mon' \in Mons /\ mon'.kind = mon.kind /\ mon'.phase = mon.phase /\ mon'.bits = mon.bits
    BY <1>1, <2>2, Counted DEF SameBut
  <2>4. X86HwInv
    BY <2>2 DEF MonInv
  <2>5. \A x \in Counters : mon'.n[x] = IF x = c THEN mon.n[x] + 1 ELSE mon.n[x]
    BY <1>1, <2>2 DEF Bump, Mons
  <2>6. /\ mon'.n.changes = (IF c = "changes" THEN mon.n.changes + 1 ELSE mon.n.changes)
        /\ mon'.n.acks = (IF c = "acks" THEN mon.n.acks + 1 ELSE mon.n.acks)
        /\ mon'.n.changes2 = (IF c = "changes2" THEN mon.n.changes2 + 1 ELSE mon.n.changes2)
        /\ mon'.n.acks2 = (IF c = "acks2" THEN mon.n.acks2 + 1 ELSE mon.n.acks2)
    BY <2>5 DEF Counters
  <2>7. /\ c = "acks" => mon.n.acks < mon.n.changes
        /\ c = "acks2" => mon.n.acks2 < mon.n.changes2
    BY <2>1 DEF record
  <2>8. /\ mon.n.changes \in Nat /\ mon.n.changes2 \in Nat
        /\ mon.n.changes = 0 => mon.n.acks = 0 /\ ("boot_intel" \in mon.bits => "intel_passed" \in mon.bits)
        /\ mon.n.changes2 = 0 => mon.n.acks2 = 0 /\ ("boot_amd" \in mon.bits => "amd_passed" \in mon.bits)
    BY <2>4 DEF X86HwInv
  <2>9. /\ mon'.n.changes \in Nat /\ mon'.n.changes2 \in Nat
        /\ mon'.n.changes = 0 => mon.n.changes = 0 /\ c # "acks"
        /\ mon'.n.changes2 = 0 => mon.n.changes2 = 0 /\ c # "acks2"
    BY <2>6, <2>7, <2>8
  <2>10. /\ mon'.n.changes = 0 => mon'.n.acks = 0 /\ ("boot_intel" \in mon'.bits => "intel_passed" \in mon'.bits)
         /\ mon'.n.changes2 = 0 => mon'.n.acks2 = 0 /\ ("boot_amd" \in mon'.bits => "amd_passed" \in mon'.bits)
    BY <2>3, <2>6, <2>8, <2>9
  <2>11. X86HwPasses(mon') = X86HwPasses(mon) /\ (Fresh => Fresh')
    BY <1>2, <2>3 DEF X86HwPasses, Fresh
  <2>12. X86HwInv'
    BY <1>3, <2>3, <2>4, <2>9, <2>10, <2>11 DEF X86HwInv
  <2>13. PhaseKept
    <3>1. PhasesOf(mon.kind) = X86HwPhases
      BY <2>2 DEF PhasesOf
    <3>2. Rank(X86HwPhases, mon.phase) \in Nat
      BY <2>4, PhaseLists, RankIsPlace DEF X86HwInv
    <3> QED BY <2>3, <3>1, <3>2 DEF PhaseKept, Earlier
  <2> QED BY <1>3, <2>2, <2>3, <2>12, <2>13 DEF MonInv
<1> QED BY <1>4, <1>5, <1>6

LEMMA MonFirst == MonInit => MonInv
<1> SUFFICES ASSUME MonInit PROVE MonInv
  OBVIOUS
<1> USE MonitorAssumption
<1>1. PICK k \in MonitorKinds : MonOf(k)
  BY DEF MonInit
<1>2. k \in Kinds /\ mon = New(k, "NotStarted", {}) /\ seen = << >>
  BY <1>1 DEF MonOf, Kinds, MonitorAssumption
<1>3. NoCounts \in [Counters -> Int]
  BY DEF NoCounts, Counters
<1>4. mon \in Mons /\ mon.kind = k /\ mon.phase = "NotStarted" /\ mon.bits = {}
  <2>1. "NotStarted" \in PhaseNames /\ "none" \in Failures
    BY DEF PhaseNames, Failures
  <2> QED BY <1>2, <1>3, <2>1 DEF New, Mons
<1>5. SeenInv /\ Sighted = {} /\ Fresh
  BY <1>2, <1>4 DEF SeenInv, AllApart, Sighted, Fresh
<1>6. /\ "NotStarted" \in PhasesIn(AdrenoPhases) /\ "NotStarted" \in PhasesIn(BridgePhases)
      /\ "NotStarted" \in PhasesIn(SensorPhases) /\ "NotStarted" \in PhasesIn(X86HwPhases)
      /\ "NotStarted" \in PhasesIn(CompatPhases)
  BY AdrenoRanks, BridgeRanks, SensorRanks, X86HwRanks, CompatRanks
<1>7. UserspaceInv
  BY <1>4, <1>5 DEF UserspaceInv
<1>8. AndroidX86Inv
  BY <1>4, <1>5 DEF AndroidX86Inv, AndroidX86Passes, Late
<1>9. AdrenoInv
  BY <1>4, <1>5, <1>6 DEF AdrenoInv
<1>10. BridgeInv
  BY <1>4, <1>5, <1>6 DEF BridgeInv, BridgePasses
<1>11. SensorInv
  BY <1>4, <1>5, <1>6 DEF SensorInv
<1>12. \A c \in Counters : mon.n[c] = 0
  BY <1>2 DEF New, NoCounts, Counters
<1>13. /\ mon.n.changes = 0 /\ mon.n.changes2 = 0 /\ mon.n.acks = 0 /\ mon.n.acks2 = 0
       /\ mon.n.passing = 0 /\ mon.n.failing = 0
  BY <1>12 DEF Counters
<1>14. X86HwInv
  BY <1>4, <1>5, <1>6, <1>13 DEF X86HwInv, X86HwPasses
<1>15. CompatInv
  BY <1>4, <1>5, <1>6, <1>13 DEF CompatInv
<1> QED BY <1>4, <1>5, <1>7, <1>8, <1>9, <1>10, <1>11, <1>14, <1>15 DEF MonInv

LEMMA MonStep ==
  ASSUME MonInv, MonNext
  PROVE  MonInv' /\ (Started => PhaseKept)
<1>1. CASE Unstarted /\ seen' = seen /\ \E valid \in BOOLEAN : MonStart(valid)
  <2>1. MonInv'
    BY <1>1, MonStarted
  <2>2. ~ Started
    BY <1>1 DEF Started, Unstarted
  <2> QED BY <2>1, <2>2
<1>2. CASE /\ Started
           /\ \/ \E line \in LinesOf(Signatures(mon.kind), MonLine) : process_line(line)
              \/ \E bit \in {"glmark2", "youtube"} : SetBit(bit)
              \/ mark_harness_ready
              \/ \E c \in {"changes", "acks", "changes2", "acks2"} : record(c)
  <2>1. CASE \E line \in LinesOf(Signatures(mon.kind), MonLine) : process_line(line)
    BY <1>2, <2>1, LineKeeps
  <2>2. CASE \/ \E bit \in {"glmark2", "youtube"} : SetBit(bit)
             \/ mark_harness_ready
             \/ \E c \in {"changes", "acks", "changes2", "acks2"} : record(c)
    BY <1>2, <2>2, CallKeeps
  <2> QED BY <1>2, <2>1, <2>2
<1> QED BY <1>1, <1>2 DEF MonNext

LEMMA MonStutters ==
  ASSUME MonInv, UNCHANGED monVars
  PROVE  MonInv'
<1>1. mon' = mon /\ seen' = seen
  BY DEF monVars
<1>2. Sighted' = Sighted /\ Fresh' = Fresh /\ SeenInv' = SeenInv /\ X86HwPasses(mon)' = X86HwPasses(mon)
  BY <1>1 DEF Sighted, Fresh, SeenInv, AllApart, X86HwPasses
<1>3. X86HwInv' = X86HwInv
  BY <1>1, <1>2 DEF X86HwInv
<1>4. CompatInv' = CompatInv
  BY <1>1, <1>2 DEF CompatInv
<1> QED BY <1>1, <1>2, <1>3, <1>4
        DEF MonInv, UserspaceInv, AndroidX86Inv, AdrenoInv, BridgeInv, SensorInv, Sighted, Sighting,
            Fresh, NotAfter, AndroidX86Passes, AdrenoPasses, BridgePasses

LEMMA MonEvidence == MonInv => GateIsEvidence
<1> SUFFICES ASSUME MonInv PROVE GateIsEvidence
  OBVIOUS
<1>1. mon \in Mons
  BY DEF MonInv
<1>2. mon.kind \in Kinds
  BY <1>1 DEF Mons
<1>3. CASE mon.kind = "userspace"
  <2>1. UserspacePasses(mon) <=> {"home", "settings", "user"} \subseteq Sighted
    BY <1>3 DEF MonInv, UserspaceInv, UserspacePasses
  <2> QED BY <1>3, <2>1 DEF GateIsEvidence
<1>4. CASE mon.kind = "android_x86" /\ Started
  <2>1. /\ AndroidX86Passes(mon) <=> /\ {"home", "glmark2", "nproc", "vulkan"} \subseteq Sighted
                                     /\ NotAfter("vulkan", {"hwc", "home"})
        /\ mon.phase = "GatePassed" <=> AndroidX86Passes(mon)
    BY <1>4 DEF MonInv, AndroidX86Inv, AndroidX86Passes, Started, Fresh
  <2> QED BY <1>4, <2>1 DEF GateIsEvidence
<1>5. CASE mon.kind = "android_x86" /\ ~ Started
  BY <1>5 DEF GateIsEvidence
<1>6. CASE mon.kind = "adreno"
  <2>1. /\ "vulkan" \in mon.bits <=> "vulkan" \in Sighted
        /\ mon.phase = "GatePassed" => AdrenoPasses(mon)
    BY <1>6 DEF MonInv, AdrenoInv
  <2> QED BY <1>6, <2>1 DEF GateIsEvidence
<1>7. CASE mon.kind = "bridge"
  <2> DEFINE lines == {"toggled_on", "toggled_off", "gap_free", "identity"}
  <2>1. BridgeInv
    BY <1>7 DEF MonInv
  <2>2. BridgePasses(mon) => lines \subseteq Sighted
    BY <2>1 DEF BridgeInv, BridgePasses
  <2>3. lines \subseteq Sighted /\ NotAfter("toggled_on", {"toggled_off"}) => BridgePasses(mon)
    <3> SUFFICES ASSUME lines \subseteq Sighted, NotAfter("toggled_on", {"toggled_off"})
                 PROVE  BridgePasses(mon)
      OBVIOUS
    <3>1. Sighting("toggled_on") <= Sighting("toggled_off")
      BY DEF NotAfter
    <3> QED BY <2>1, <3>1 DEF BridgeInv, BridgePasses
  <2>4. mon.phase = "GatePassed" <=> BridgePasses(mon)
    BY <2>1 DEF BridgeInv
  <2> QED BY <1>7, <2>2, <2>3, <2>4 DEF GateIsEvidence
<1>8. CASE mon.kind = "sensors"
  <2>1. mon.phase = "GatePassed" <=> SensorBits \cup {"no_sim"} \subseteq Sighted
    BY <1>8 DEF MonInv, SensorInv
  <2> QED BY <1>8, <2>1 DEF GateIsEvidence
<1>9. CASE mon.kind = "x86_hw" /\ Started
  <2> DEFINE shown == {"boot_intel", "boot_amd"} \subseteq Sighted /\ "workaround" \notin Sighted
  <2>1. X86HwInv /\ mon.phase # "NotStarted"
    BY <1>9 DEF MonInv, X86HwInv, Started, Fresh
  <2>2. X86HwPasses(mon) => shown /\ mon.phase = "GatePassed"
    BY <2>1 DEF X86HwInv, X86HwPasses
  <2>3. shown /\ mon.n.changes = 0 /\ mon.n.changes2 = 0 => X86HwPasses(mon)
    BY <2>1 DEF X86HwInv, X86HwPasses, Vouched
  <2>4. mon.phase = "GatePassed" => X86HwPasses(mon) \/ "workaround" \in Sighted
    BY <2>1 DEF X86HwInv
  <2> QED BY <1>9, <2>2, <2>3, <2>4 DEF GateIsEvidence
<1>10. CASE mon.kind = "x86_hw" /\ ~ Started
  BY <1>10 DEF GateIsEvidence
<1>11. CASE mon.kind = "compat"
  <2>1. CompatInv
    BY <1>11 DEF MonInv
  <2>2. mon.n.passing = 0 => ObservedRate(mon) = 0
    <3>1. mon.n.passing = 0 => (mon.n.passing * 1000) \div (mon.n.passing + mon.n.failing) = 0
                               \/ mon.n.passing + mon.n.failing = 0
      BY <2>1 DEF CompatInv
    <3> QED BY <3>1 DEF ObservedRate
  <2>3. CompatPasses(mon) => {"pass", "bugs_resolved", "user"} \subseteq Sighted
    BY <2>1, <2>2, MonitorAssumption DEF CompatInv, CompatPasses
  <2>4. mon.phase = "GatePassed" => "gate_pass" \in Sighted
    BY <2>1 DEF CompatInv
  <2> QED BY <1>11, <2>3, <2>4 DEF GateIsEvidence
<1> QED BY <1>2, <1>3, <1>4, <1>5, <1>6, <1>7, <1>8, <1>9, <1>11, <1>10 DEF Kinds

(* No boot monitor's gate passes without the lines it waits for, whatever  *)
(* lines the guest's console shows, in whatever order and however they     *)
(* share signatures; apart from Adreno's and compatibility's, which need   *)
(* more than lines, a gate passes once it has had them, in the order it    *)
(* asks for.  The phase GatePassed is bound to the gate as GateIsEvidence  *)
(* says: for compatibility only to a line of the harness.                  *)
THEOREM GatesAreEvidence == MonSpec => []GateIsEvidence
<1>1. MonInit => MonInv
  BY MonFirst
<1>2. MonInv /\ [MonNext]_monVars => MonInv'
  BY MonStep, MonStutters
<1>3. MonInv => GateIsEvidence
  BY MonEvidence
<1> QED BY <1>1, <1>2, <1>3, PTL DEF MonSpec

(* No line and no call of the owner takes a monitor's phase back, but for  *)
(* the home screen's to ZygoteReady and the bridge's to SensorStreamActive,*)
(* neither of them from GatePassed.                                        *)
THEOREM PhasesOnlyAdvance == MonSpec => PhasesAdvance
<1>1. MonInit => MonInv
  BY MonFirst
<1>2. MonInv /\ [MonNext]_monVars => MonInv'
  BY MonStep, MonStutters
<1>3. MonInv /\ [MonNext]_monVars => [Started => PhaseKept]_monVars
  BY MonStep
<1> QED BY <1>1, <1>2, <1>3, PTL DEF MonSpec, PhasesAdvance

(***************************************************************************)
(* The phone bridge.                                                       *)
(***************************************************************************)

Bytes == Seq(Nat)
Decodings == [bridge : Bytes, frames : Nat, discards : Nat, identity : Bytes, handshake : BOOLEAN]
Scans == [at : Nat, frames : Seq(Bytes)]

(* What the scanning loop does at position i: it stops, skips a byte, or   *)
(* takes a frame and goes on behind it.                                    *)
EndsAt(s, i) ==
  \/ Len(s) - i + 1 < HEADER_SIZE
  \/ MagicAt(s, i) /\ Len(s) - i + 1 < FrameTotal(s, i)
FrameAt(s, i) == SubSeq(s, i, i + FrameTotal(s, i) - 1)
Onward(s, i) == IF MagicAt(s, i) THEN i + FrameTotal(s, i) ELSE i + 1
TakingAt(s, i, rest) ==
  IF MagicAt(s, i) THEN [rest EXCEPT !.frames = <<FrameAt(s, i)>> \o @] ELSE rest

IsScan(f, s) ==
  /\ f \in [1 .. Len(s) + 1 -> Scans]
  /\ \A i \in 1 .. Len(s) + 1 :
       f[i] = IF EndsAt(s, i) THEN [at |-> i, frames |-> << >>]
              ELSE TakingAt(s, i, f[Onward(s, i)])

IsDecode(g, d, frames) ==
  /\ g \in [0 .. Len(frames) -> Decodings]
  /\ g[0] = d /\ \A n \in 1 .. Len(frames) : g[n] = Delivered(g[n - 1], frames[n])

LEMMA HeaderIsNat == HEADER_SIZE \in Nat /\ HEADER_SIZE = Len(BRIDGE_MAGIC) + 2 /\ Len(BRIDGE_MAGIC) \in Nat
BY BridgeAssumption DEF HEADER_SIZE

LEMMA OnwardInside ==
  ASSUME NEW s \in Bytes, NEW i \in 1 .. Len(s) + 1, ~ EndsAt(s, i)
  PROVE  /\ i + 1 <= Onward(s, i) /\ Onward(s, i) \in 1 .. Len(s) + 1
         /\ i <= Len(s) /\ HEADER_SIZE <= Len(s) - i + 1
         /\ FrameTotal(s, i) \in Nat /\ FrameTotal(s, i) >= HEADER_SIZE
         /\ MagicAt(s, i) => i + FrameTotal(s, i) - 1 <= Len(s)
         /\ MagicAt(s, i) => FrameAt(s, i) \in Bytes
<1>1. Len(s) \in Nat /\ \A x \in 1 .. Len(s) : s[x] \in Nat
  BY DEF Bytes
<1>2. Len(s) - i + 1 >= HEADER_SIZE
  BY <1>1, HeaderIsNat DEF EndsAt
<1>3. i + Len(BRIDGE_MAGIC) + 1 \in 1 .. Len(s)
  BY <1>1, <1>2, HeaderIsNat
<1>4. s[i + Len(BRIDGE_MAGIC) + 1] \in Nat
  BY <1>1, <1>3
<1>5. FrameTotal(s, i) \in Nat /\ FrameTotal(s, i) >= HEADER_SIZE
  BY <1>4, HeaderIsNat DEF FrameTotal
<1>6. MagicAt(s, i) => Len(s) - i + 1 >= FrameTotal(s, i)
  BY <1>1, <1>5 DEF EndsAt
<1>7. i + 1 <= Onward(s, i) /\ Onward(s, i) \in 1 .. Len(s) + 1
  <2>1. CASE MagicAt(s, i)
    BY <1>1, <1>5, <1>6, <2>1, HeaderIsNat DEF Onward
  <2>2. CASE ~ MagicAt(s, i)
    BY <1>1, <1>2, <2>2, HeaderIsNat DEF Onward
  <2> QED BY <2>1, <2>2
<1>8. i <= Len(s)
  BY <1>1, <1>2, HeaderIsNat
<1>9. ASSUME MagicAt(s, i) PROVE FrameAt(s, i) \in Bytes
  <2>1. \A x \in i .. i + FrameTotal(s, i) - 1 : s[x] \in Nat
    BY <1>1, <1>5, <1>6, <1>9
  <2>2. i \in Int /\ i + FrameTotal(s, i) - 1 \in Int
    BY <1>5
  <2> QED BY <2>1, <2>2, SubSeqProperties DEF FrameAt, Bytes
<1>10. MagicAt(s, i) => i + FrameTotal(s, i) - 1 <= Len(s)
  BY <1>1, <1>5, <1>6
<1> QED BY <1>2, <1>5, <1>7, <1>8, <1>9, <1>10

(* One place of a scan, given the later ones.                              *)
LEMMA BehindTyped ==
  ASSUME NEW s \in Bytes, NEW i \in 1 .. Len(s) + 1, ~ EndsAt(s, i), NEW rest \in Scans
  PROVE  /\ TakingAt(s, i, rest) \in Scans
         /\ TakingAt(s, i, rest).at = rest.at
         /\ TakingAt(s, i, rest).frames =
              IF MagicAt(s, i) THEN <<FrameAt(s, i)>> \o rest.frames ELSE rest.frames
<1>1. CASE MagicAt(s, i)
  <2>1. <<FrameAt(s, i)>> \in Seq(Bytes)
    BY <1>1, OnwardInside
  <2>2. <<FrameAt(s, i)>> \o rest.frames \in Seq(Bytes)
    BY <2>1, ConcatProperties DEF Scans
  <2> QED BY <1>1, <2>2 DEF TakingAt, Scans
<1>2. CASE ~ MagicAt(s, i)
  BY <1>2 DEF TakingAt
<1> QED BY <1>1, <1>2

ScanBody(g, s) ==
  [i \in 1 .. Len(s) + 1 |->
     LET left == Len(s) - i + 1 IN
     IF left < HEADER_SIZE THEN [at |-> i, frames |-> << >>]
     ELSE IF ~ MagicAt(s, i) THEN g[i + 1]
     ELSE IF left < FrameTotal(s, i) THEN [at |-> i, frames |-> << >>]
     ELSE LET rest == g[i + FrameTotal(s, i)] IN
          [rest EXCEPT !.frames = <<SubSeq(s, i, i + FrameTotal(s, i) - 1)>> \o @]]
Scan(s) == CHOOSE g : g = ScanBody(g, s)

LEMMA BodyForm ==
  ASSUME NEW s, NEW g, NEW i \in 1 .. Len(s) + 1
  PROVE  ScanBody(g, s)[i] = IF EndsAt(s, i) THEN [at |-> i, frames |-> << >>]
                             ELSE TakingAt(s, i, g[Onward(s, i)])
BY DEF ScanBody, EndsAt, TakingAt, Onward, FrameAt

LEMMA ScanExists == \A s \in Bytes : IsScan(Scan(s), s)
<1> SUFFICES ASSUME NEW s \in Bytes PROVE IsScan(Scan(s), s)
  OBVIOUS
<1> DEFINE n == Len(s) + 1
           End(i) == [at |-> i, frames |-> << >>]
           One(i, g) == IF EndsAt(s, i) THEN End(i) ELSE TakingAt(s, i, g[Onward(s, i)])
           F == [x \in (1 .. n) \X [1 .. n -> Scans] |-> One(x[1], x[2])]
<1>1. n \in Nat /\ 1 \in 1 .. n /\ Len(s) \in Nat
  BY DEF Bytes
<1>2. \A i \in 1 .. n : End(i) \in Scans
  BY <1>1, EmptySeq DEF Scans
<1>3. ASSUME NEW i \in 1 .. n, ~ EndsAt(s, i)
      PROVE  /\ Onward(s, i) \in i + 1 .. n /\ Onward(s, i) \in 1 .. n
             /\ \A rest \in Scans : TakingAt(s, i, rest) \in Scans
  <2>1. i + 1 <= Onward(s, i) /\ Onward(s, i) \in 1 .. n
    BY <1>3, OnwardInside
  <2>2. Onward(s, i) \in i + 1 .. n
    BY <1>1, <2>1
  <2>3. \A rest \in Scans : TakingAt(s, i, rest) \in Scans
    BY <1>3, BehindTyped
  <2> QED BY <2>1, <2>2, <2>3
<1>4. ASSUME NEW i \in 1 .. n, NEW g \in [1 .. n -> Scans] PROVE One(i, g) \in Scans
  <2> HIDE DEF End, n
  <2>1. CASE EndsAt(s, i)
    BY <1>2, <2>1
  <2>2. CASE ~ EndsAt(s, i)
    BY <1>3, <2>2
  <2> QED BY <2>1, <2>2
<1>5. \A i \in 1 .. n, g \in [1 .. n -> Scans] : F[<<i, g>>] = One(i, g)
  <2> HIDE DEF n, One
  <2> QED OBVIOUS
<1>6. F \in [(1 .. n) \X [1 .. n -> Scans] -> Scans]
  <2> HIDE DEF n, One
  <2> QED BY <1>4
<1>7. ASSUME NEW i \in 1 .. n, NEW g \in [1 .. n -> Scans], NEW h \in [1 .. n -> Scans],
             \A j \in i + 1 .. n : g[j] = h[j]
      PROVE  F[<<i, g>>] = F[<<i, h>>]
  <2>1. One(i, g) = One(i, h)
    <3>1. ~ EndsAt(s, i) => g[Onward(s, i)] = h[Onward(s, i)]
      <4> HIDE DEF n
      <4> QED BY <1>3, <1>7
    <3> HIDE DEF n, End
    <3> QED BY <3>1
  <2> HIDE DEF F, One, n
  <2> QED BY <1>5, <2>1
<1>8. PICK f \in [1 .. n -> Scans] : \A i \in 1 .. n : f[i] = F[<<i, f>>]
  <2> HIDE DEF F, n, End, One
  <2>1. End(1) \in Scans
    BY <1>1, <1>2
  <2>2. FromLater(F, n, Scans)
    BY <1>7 DEF FromLater
  <2>3. \E f : ByLater(f, n, Scans, F)
    BY <1>1, <1>6, <2>1, <2>2, CourseOfValues
  <2> QED BY <2>3 DEF ByLater
<1>9. f = ScanBody(f, s)
  <2>1. \A i \in 1 .. n : f[i] = ScanBody(f, s)[i]
    <3> HIDE DEF F
    <3> QED BY <1>5, <1>8, BodyForm
  <2>2. DOMAIN ScanBody(f, s) = 1 .. n /\ ScanBody(f, s) = [i \in 1 .. n |-> ScanBody(f, s)[i]]
    BY DEF ScanBody
  <2> HIDE DEF n, F
  <2> QED BY <1>8, <2>1, <2>2
<1>10. Scan(s) = ScanBody(Scan(s), s)
  BY <1>9 DEF Scan
<1> DEFINE a == Scan(s)
<1>11. DOMAIN a = 1 .. n /\ a = [i \in 1 .. n |-> a[i]]
  BY <1>10 DEF ScanBody
<1>12. \A i \in 1 .. n : a[i] = One(i, a)
  BY <1>10, BodyForm
<1> HIDE DEF a
<1>13. \A i \in 1 .. n : a[i] \in Scans
  <2> DEFINE T == {k \in 0 .. n - 1 : a[n - k] \notin Scans}
  <2>1. T = {}
    <3>1. SUFFICES ASSUME T # {} PROVE FALSE
      OBVIOUS
    <3>2. PICK k \in T : \A y \in T : k <= y
      <4>1. T \subseteq Nat
        BY <1>1
      <4> HIDE DEF T
      <4> QED BY <3>1, <4>1, LeastOf
    <3> DEFINE i == n - k
               o == Onward(s, i)
    <3>3. k \in 0 .. n - 1 /\ i \in 1 .. n /\ a[i] \notin Scans
      BY <1>1, <3>2
    <3>4. ~ EndsAt(s, i)
      <4> HIDE DEF n, i, End
      <4> QED BY <1>2, <1>12, <3>3
    <3>5. o \in i + 1 .. n /\ o \in 1 .. n /\ \A rest \in Scans : TakingAt(s, i, rest) \in Scans
      <4> HIDE DEF n, i
      <4> QED BY <1>3, <3>3, <3>4
    <3>6. n - o \in 0 .. n - 1 /\ ~ k <= n - o /\ n - (n - o) = o
      <4> HIDE DEF n, o
      <4> QED BY <1>1, <3>3, <3>5
    <3>7. n - o \notin T
      <4> HIDE DEF T, n, o
      <4> QED BY <3>2, <3>6
    <3>8. a[o] \in Scans
      <4> HIDE DEF n, o
      <4> QED BY <3>6, <3>7
    <3>9. a[i] = TakingAt(s, i, a[o])
      <4> HIDE DEF n, i
      <4> QED BY <1>12, <3>3, <3>4
    <3> HIDE DEF n, i, o
    <3> QED BY <3>3, <3>5, <3>8, <3>9
  <2> SUFFICES ASSUME NEW i \in 1 .. n PROVE a[i] \in Scans
    OBVIOUS
  <2>2. n - i \in 0 .. n - 1 /\ n - (n - i) = i
    BY <1>1
  <2> HIDE DEF n
  <2> QED BY <2>1, <2>2
<1>14. a \in [1 .. n -> Scans]
  <2> HIDE DEF n
  <2> QED BY <1>11, <1>13
<1> QED BY <1>12, <1>14 DEF IsScan, a

(* A scan ends where the loop stops.                                       *)
LEMMA ScanLands ==
  ASSUME NEW s \in Bytes, NEW f, IsScan(f, s), NEW i \in 1 .. Len(s) + 1
  PROVE  f[i].at \in i .. Len(s) + 1 /\ EndsAt(s, f[i].at)
<1> DEFINE n == Len(s) + 1
           P(j) == f[j].at \in j .. n /\ EndsAt(s, f[j].at)
           T == {k \in 0 .. n - 1 : ~ P(n - k)}
<1>1. n \in Nat /\ n >= 1 /\ i \in 1 .. n
  BY DEF Bytes
<1>2. \A j \in 1 .. n : f[j] \in Scans /\ f[j] = IF EndsAt(s, j) THEN [at |-> j, frames |-> << >>]
                                               ELSE TakingAt(s, j, f[Onward(s, j)])
  BY DEF IsScan
<1>3. T = {}
  <2>1. SUFFICES ASSUME T # {} PROVE FALSE
    OBVIOUS
  <2>2. PICK k \in T : \A y \in T : k <= y
    <3>1. T \subseteq Nat
      BY <1>1
    <3> HIDE DEF T
    <3> QED BY <2>1, <3>1, LeastOf
  <2> DEFINE j == n - k
             o == Onward(s, j)
  <2>3. k \in 0 .. n - 1 /\ j \in 1 .. n /\ ~ P(j)
    BY <1>1, <2>2
  <2>4. ~ EndsAt(s, j)
    <3>1. ASSUME EndsAt(s, j) PROVE f[j].at = j
      <4>1. j \in 1 .. n
        BY <2>3
      <4> HIDE DEF n, j, P, T
      <4>2. f[j] = [at |-> j, frames |-> << >>]
        BY <1>2, <3>1, <4>1
      <4> QED BY <4>2
    <3>2. j \in j .. n
      <4> HIDE DEF n, j
      <4> QED BY <1>1, <2>3
    <3> HIDE DEF n, j
    <3> QED BY <2>3, <3>1, <3>2
  <2>5. j + 1 <= o /\ o \in 1 .. n
    <3> HIDE DEF j
    <3> QED BY <2>3, <2>4, OnwardInside
  <2>6. n - o \in 0 .. n - 1 /\ ~ k <= n - o /\ n - (n - o) = o
    <3> HIDE DEF n, o
    <3> QED BY <1>1, <2>3, <2>5
  <2>7. n - o \notin T
    <3> HIDE DEF T, n, o
    <3> QED BY <2>2, <2>6
  <2>8. P(o)
    <3> HIDE DEF n, o, P
    <3> QED BY <2>6, <2>7
  <2>9. f[j].at = f[o].at
    <3>1. f[j] = TakingAt(s, j, f[o]) /\ f[o] \in Scans
      <4> HIDE DEF n, j
      <4> QED BY <1>2, <2>3, <2>4, <2>5
    <3>2. j \in 1 .. Len(s) + 1
      BY <2>3
    <3> HIDE DEF j, o, P, T, n
    <3>3. \A rest \in Scans : TakingAt(s, j, rest).at = rest.at
      BY <2>4, <3>2, BehindTyped
    <3>4. TakingAt(s, j, f[o]).at = f[o].at
      BY <3>1, <3>3
    <3> QED BY <3>1, <3>4
  <2>10. P(j)
    <3> HIDE DEF n, j, o
    <3> QED BY <1>1, <2>3, <2>5, <2>8, <2>9
  <2> QED BY <2>3, <2>10
<1>4. n - i \in 0 .. n - 1 /\ n - (n - i) = i
  BY <1>1
<1>5. P(i)
  <2> HIDE DEF P, n
  <2> QED BY <1>3, <1>4
<1> QED BY <1>5

(* Where two streams agree, so do their pieces.                            *)
Agree(p, q, off) ==
  /\ off + Len(p) <= Len(q)
  /\ \A x \in 1 .. Len(p) : q[off + x] = p[x]

LEMMA SamePiece ==
  ASSUME NEW p \in Bytes, NEW q \in Bytes, NEW off \in Nat, Agree(p, q, off),
         NEW i \in Nat \ {0}, NEW l \in Int, l <= Len(p)
  PROVE  SubSeq(q, off + i, off + l) = SubSeq(p, i, l)
<1>1. Len(p) \in Nat /\ \A x \in 1 .. Len(p) : p[x] \in Nat
  BY DEF Bytes
<1>2. \A x \in i .. l : p[x] \in Nat
  BY <1>1
<1>3. \A x \in off + i .. off + l : q[x] \in Nat
  <2>1. \A x \in 1 .. Len(q) : q[x] \in Nat
    BY DEF Bytes
  <2>2. Len(q) \in Nat
    BY DEF Bytes
  <2> QED BY <1>1, <2>1, <2>2 DEF Agree
<1> DEFINE a == SubSeq(p, i, l)
           b == SubSeq(q, off + i, off + l)
<1>4. /\ a \in Seq(Nat) /\ Len(a) = (IF i <= l THEN l - i + 1 ELSE 0)
      /\ \A x \in 1 .. l - i + 1 : a[x] = p[i + x - 1]
  BY <1>2, SubSeqProperties
<1>5. /\ b \in Seq(Nat) /\ Len(b) = (IF off + i <= off + l THEN off + l - (off + i) + 1 ELSE 0)
      /\ \A x \in 1 .. off + l - (off + i) + 1 : b[x] = q[off + i + x - 1]
  <2>1. off + i \in Int /\ off + l \in Int
    OBVIOUS
  <2> QED BY <1>3, <2>1, SubSeqProperties
<1> HIDE DEF a, b
<1>6. Len(a) = Len(b)
  BY <1>4, <1>5
<1>7. ASSUME NEW x \in 1 .. Len(a) PROVE b[x] = a[x]
  <2>1. x \in 1 .. l - i + 1 /\ x \in 1 .. off + l - (off + i) + 1 /\ i + x - 1 \in 1 .. Len(p)
        /\ off + i + x - 1 = off + (i + x - 1)
    BY <1>1, <1>4
  <2> QED BY <1>4, <1>5, <2>1 DEF Agree
<1>8. a = b
  BY <1>4, <1>5, <1>6, <1>7, SeqEqual
<1> QED BY <1>8 DEF a, b

GoesAlike(p, q, off, i) ==
  /\ ~ EndsAt(q, off + i) /\ Onward(q, off + i) = off + Onward(p, i)
  /\ MagicAt(q, off + i) = MagicAt(p, i)
  /\ MagicAt(p, i) => FrameAt(q, off + i) = FrameAt(p, i)

LEMMA SamePlace ==
  ASSUME NEW p \in Bytes, NEW q \in Bytes, NEW off \in Nat, Agree(p, q, off),
         NEW i \in 1 .. Len(p) + 1
  PROVE  /\ Len(p) - i + 1 >= HEADER_SIZE =>
              /\ MagicAt(q, off + i) = MagicAt(p, i) /\ FrameTotal(q, off + i) = FrameTotal(p, i)
         /\ ~ EndsAt(p, i) => GoesAlike(p, q, off, i)
         /\ off + Len(p) = Len(q) /\ EndsAt(p, i) => EndsAt(q, off + i)
         /\ off + i \in 1 .. Len(q) + 1
<1>1. Len(p) \in Nat /\ Len(q) \in Nat /\ i \in Nat \ {0}
  BY DEF Bytes
<1>2. ASSUME Len(p) - i + 1 >= HEADER_SIZE
      PROVE  MagicAt(q, off + i) = MagicAt(p, i) /\ FrameTotal(q, off + i) = FrameTotal(p, i)
  <2>1. i + Len(BRIDGE_MAGIC) - 1 \in Int /\ i + Len(BRIDGE_MAGIC) - 1 <= Len(p)
        /\ off + i + Len(BRIDGE_MAGIC) - 1 = off + (i + Len(BRIDGE_MAGIC) - 1)
    BY <1>1, <1>2, HeaderIsNat
  <2>2. SubSeq(q, off + i, off + i + Len(BRIDGE_MAGIC) - 1) = SubSeq(p, i, i + Len(BRIDGE_MAGIC) - 1)
    <3> DEFINE l == i + Len(BRIDGE_MAGIC) - 1
    <3>1. l \in Int /\ l <= Len(p) /\ off + i + Len(BRIDGE_MAGIC) - 1 = off + l
      BY <2>1
    <3> HIDE DEF l
    <3>2. SubSeq(q, off + i, off + l) = SubSeq(p, i, l)
      BY <1>1, <3>1, SamePiece
    <3> QED BY <3>1, <3>2 DEF l
  <2>3. i + Len(BRIDGE_MAGIC) + 1 \in 1 .. Len(p)
        /\ off + i + Len(BRIDGE_MAGIC) + 1 = off + (i + Len(BRIDGE_MAGIC) + 1)
    BY <1>1, <1>2, HeaderIsNat
  <2>4. q[off + i + Len(BRIDGE_MAGIC) + 1] = p[i + Len(BRIDGE_MAGIC) + 1]
    BY <2>3 DEF Agree
  <2> QED BY <2>2, <2>4 DEF MagicAt, FrameTotal
<1>3. off + i \in 1 .. Len(q) + 1
  BY <1>1 DEF Agree
<1>4. ASSUME ~ EndsAt(p, i)
      PROVE  GoesAlike(p, q, off, i)
  <2>1. /\ HEADER_SIZE <= Len(p) - i + 1 /\ FrameTotal(p, i) \in Nat
        /\ MagicAt(p, i) => i + FrameTotal(p, i) - 1 <= Len(p)
    BY <1>4, OnwardInside
  <2>2. MagicAt(q, off + i) = MagicAt(p, i) /\ FrameTotal(q, off + i) = FrameTotal(p, i)
    BY <1>1, <1>2, <2>1, HeaderIsNat
  <2>3. ~ EndsAt(q, off + i)
    <3>1. ~ Len(q) - (off + i) + 1 < HEADER_SIZE
      BY <1>1, <2>1, HeaderIsNat DEF Agree
    <3>2. MagicAt(p, i) => ~ Len(q) - (off + i) + 1 < FrameTotal(p, i)
      BY <1>1, <2>1 DEF Agree
    <3> QED BY <2>2, <3>1, <3>2 DEF EndsAt
  <2>4. Onward(q, off + i) = off + Onward(p, i)
    <3>1. off + i + FrameTotal(p, i) = off + (i + FrameTotal(p, i)) /\ off + i + 1 = off + (i + 1)
      BY <1>1, <2>1
    <3> QED BY <2>2, <3>1 DEF Onward
  <2>5. ASSUME MagicAt(p, i) PROVE FrameAt(q, off + i) = FrameAt(p, i)
    <3>1. i + FrameTotal(p, i) - 1 \in Int
          /\ off + i + FrameTotal(p, i) - 1 = off + (i + FrameTotal(p, i) - 1)
      BY <1>1, <2>1
    <3>2. i + FrameTotal(p, i) - 1 <= Len(p)
      BY <2>1, <2>5
    <3>3. SubSeq(q, off + i, off + (i + FrameTotal(p, i) - 1)) = SubSeq(p, i, i + FrameTotal(p, i) - 1)
      <4> DEFINE l == i + FrameTotal(p, i) - 1
      <4>1. l \in Int /\ l <= Len(p)
        BY <3>1, <3>2
      <4> HIDE DEF l
      <4>2. SubSeq(q, off + i, off + l) = SubSeq(p, i, l)
        BY <1>1, <4>1, SamePiece
      <4> QED BY <4>2 DEF l
    <3> QED BY <2>2, <3>1, <3>3 DEF FrameAt
  <2> QED BY <2>2, <2>3, <2>4, <2>5 DEF GoesAlike
<1>5. ASSUME off + Len(p) = Len(q), EndsAt(p, i) PROVE EndsAt(q, off + i)
  <2>1. Len(q) - (off + i) + 1 = Len(p) - i + 1
    BY <1>1, <1>5
  <2>2. CASE Len(p) - i + 1 < HEADER_SIZE
    BY <2>1, <2>2 DEF EndsAt
  <2>3. CASE Len(p) - i + 1 >= HEADER_SIZE
    BY <1>1, <1>2, <1>5, <2>1, <2>3, HeaderIsNat DEF EndsAt
  <2> QED BY <1>1, <2>2, <2>3, HeaderIsNat
<1> QED BY <1>2, <1>3, <1>4, <1>5

(* The scan of the longer stream finds the frames of the shorter one, and  *)
(* goes on where that ends.                                                *)
Follows(f, h, off, i) ==
  /\ h[off + i].at = h[off + f[i].at].at
  /\ h[off + i].frames = f[i].frames \o h[off + f[i].at].frames

LEMMA ScanTyped ==
  ASSUME NEW s \in Bytes, NEW f, IsScan(f, s), NEW j \in 1 .. Len(s) + 1
  PROVE  f[j] \in Scans /\ f[j].frames \in Seq(Bytes)
BY DEF IsScan, Scans

LEMMA ScanStops ==
  ASSUME NEW s \in Bytes, NEW f, IsScan(f, s), NEW j \in 1 .. Len(s) + 1, EndsAt(s, j)
  PROVE  f[j].at = j /\ f[j].frames = << >>
<1>1. f[j] = [at |-> j, frames |-> << >>]
  BY DEF IsScan
<1> QED BY <1>1

LEMMA ScanGoes ==
  ASSUME NEW s \in Bytes, NEW f, IsScan(f, s), NEW j \in 1 .. Len(s) + 1, ~ EndsAt(s, j),
         NEW o, o = Onward(s, j)
  PROVE  /\ o \in 1 .. Len(s) + 1 /\ f[j].at = f[o].at
         /\ f[j].frames = IF MagicAt(s, j) THEN <<FrameAt(s, j)>> \o f[o].frames ELSE f[o].frames
<1>1. o \in 1 .. Len(s) + 1
  BY OnwardInside
<1>2. f[o] \in Scans
  BY <1>1, ScanTyped
<1>3. f[j] = TakingAt(s, j, f[o])
  BY DEF IsScan
<1> DEFINE rest == f[o]
<1>4. /\ TakingAt(s, j, rest).at = rest.at
      /\ TakingAt(s, j, rest).frames =
           IF MagicAt(s, j) THEN <<FrameAt(s, j)>> \o rest.frames ELSE rest.frames
  <2>1. rest \in Scans
    BY <1>2
  <2> HIDE DEF rest
  <2> QED BY <2>1, BehindTyped
<1>5. f[j] = TakingAt(s, j, rest)
  BY <1>3
<1> HIDE DEF rest
<1>6. f[j].at = rest.at
  BY <1>4, <1>5
<1>7. f[j].frames = IF MagicAt(s, j) THEN <<FrameAt(s, j)>> \o rest.frames ELSE rest.frames
  BY <1>4, <1>5
<1> QED BY <1>1, <1>6, <1>7 DEF rest

LEMMA FramesJoin == \A a, b, c \in Seq(Bytes) : a \o (b \o c) = (a \o b) \o c
BY ConcatAssociative

LEMMA FollowsOne ==
  ASSUME NEW p \in Bytes, NEW q \in Bytes, NEW off \in Nat, Agree(p, q, off),
         NEW f, IsScan(f, p), NEW h, IsScan(h, q), NEW j \in 1 .. Len(p) + 1,
         EndsAt(p, j) \/ Follows(f, h, off, Onward(p, j))
  PROVE  Follows(f, h, off, j)
<1> DEFINE y == off + j
           o == Onward(p, j)
           z == off + o
           c == h[off + f[o].at]
<1>1. y \in 1 .. Len(q) + 1
  BY SamePlace
<1>2. CASE EndsAt(p, j)
  <2>1. f[j].at = j /\ f[j].frames = << >>
    BY <1>2, ScanStops
  <2> HIDE DEF y
  <2>2. h[y].frames \in Seq(Bytes)
    BY <1>1, ScanTyped
  <2>3. << >> \o h[y].frames = h[y].frames
    BY <2>2, ConcatEmptySeq
  <2> QED BY <2>1, <2>3 DEF Follows, y
<1>3. CASE ~ EndsAt(p, j)
  <2>1. /\ ~ EndsAt(q, y) /\ Onward(q, y) = z /\ MagicAt(q, y) = MagicAt(p, j)
        /\ MagicAt(p, j) => FrameAt(q, y) = FrameAt(p, j)
    <3>1. GoesAlike(p, q, off, j)
      BY <1>3, SamePlace
    <3> QED BY <3>1 DEF GoesAlike
  <2>2. o \in 1 .. Len(p) + 1 /\ Len(p) \in Nat
    BY <1>3, OnwardInside DEF Bytes
  <2>3. z = off + o /\ z \in 1 .. Len(q) + 1
    <3> HIDE DEF o
    <3> QED BY <2>2, SamePlace
  <2>4. f[o].at \in 1 .. Len(p) + 1 /\ f[o].frames \in Seq(Bytes)
    <3> HIDE DEF o
    <3>1. f[o].at \in o .. Len(p) + 1 /\ f[o].frames \in Seq(Bytes)
      BY <2>2, ScanLands, ScanTyped
    <3> QED BY <2>2, <3>1
  <2>5. c.frames \in Seq(Bytes)
    <3> DEFINE w == off + f[o].at
    <3>1. w \in 1 .. Len(q) + 1
      <4> HIDE DEF o
      <4> QED BY <2>4, SamePlace
    <3> HIDE DEF w
    <3>2. h[w].frames \in Seq(Bytes)
      BY <3>1, ScanTyped
    <3> QED BY <3>2 DEF w
  <2>6. h[z].at = c.at /\ h[z].frames = f[o].frames \o c.frames
    BY <1>3 DEF Follows
  <2>7. /\ f[j].at = f[o].at
        /\ f[j].frames = IF MagicAt(p, j) THEN <<FrameAt(p, j)>> \o f[o].frames ELSE f[o].frames
    <3>1. o = Onward(p, j)
      OBVIOUS
    <3> HIDE DEF o
    <3> QED BY <1>3, <3>1, ScanGoes
  <2>8. h[off + f[j].at] = c
    BY <2>7
  <2> HIDE DEF c, z, y, o
  <2>9. /\ h[y].at = h[z].at
        /\ h[y].frames = IF MagicAt(q, y) THEN <<FrameAt(q, y)>> \o h[z].frames ELSE h[z].frames
    BY <1>1, <2>1, ScanGoes
  <2>10. h[y].frames = f[j].frames \o c.frames
    <3>1. CASE MagicAt(p, j)
      <4>1. FrameAt(p, j) \in Bytes
        BY <1>3, <3>1, OnwardInside
      <4>2. <<FrameAt(p, j)>> \in Seq(Bytes)
        BY <4>1
      <4>3. <<FrameAt(p, j)>> \o (f[o].frames \o c.frames) = (<<FrameAt(p, j)>> \o f[o].frames) \o c.frames
        BY <2>4, <2>5, <4>2, FramesJoin
      <4> QED BY <2>1, <2>6, <2>7, <2>9, <3>1, <4>3
    <3>2. CASE ~ MagicAt(p, j)
      BY <2>1, <2>6, <2>7, <2>9, <3>2
    <3> QED BY <3>1, <3>2
  <2>11. h[y].at = c.at
    BY <2>6, <2>9
  <2> QED BY <2>8, <2>10, <2>11 DEF Follows, y
<1> QED BY <1>2, <1>3

LEMMA SameScan ==
  ASSUME NEW p \in Bytes, NEW q \in Bytes, NEW off \in Nat, Agree(p, q, off),
         NEW f, IsScan(f, p), NEW h, IsScan(h, q), NEW i \in 1 .. Len(p) + 1
  PROVE  Follows(f, h, off, i)
<1> DEFINE n == Len(p) + 1
           T == {k \in 0 .. n - 1 : ~ Follows(f, h, off, n - k)}
<1>1. n \in Nat /\ n >= 1 /\ i \in 1 .. n
  BY DEF Bytes
<1>2. T = {}
  <2>1. SUFFICES ASSUME T # {} PROVE FALSE
    OBVIOUS
  <2>2. PICK k \in T : \A y \in T : k <= y
    <3>1. T \subseteq Nat
      BY <1>1
    <3> HIDE DEF T
    <3> QED BY <2>1, <3>1, LeastOf
  <2> DEFINE j == n - k
             o == Onward(p, j)
  <2>3. k \in 0 .. n - 1 /\ j \in 1 .. n /\ ~ Follows(f, h, off, j)
    BY <1>1, <2>2
  <2>4. j \in 1 .. Len(p) + 1
    BY <2>3
  <2>5. ~ EndsAt(p, j)
    <3> HIDE DEF j
    <3> QED BY <2>3, <2>4, FollowsOne
  <2>6. j + 1 <= o /\ o \in 1 .. n
    <3> HIDE DEF j
    <3> QED BY <2>4, <2>5, OnwardInside
  <2>7. n - o \in 0 .. n - 1 /\ ~ k <= n - o /\ n - (n - o) = o
    <3> HIDE DEF n, o
    <3> QED BY <1>1, <2>3, <2>6
  <2>8. Follows(f, h, off, o)
    <3>1. n - o \notin T
      <4> HIDE DEF T, n, o
      <4> QED BY <2>2, <2>7
    <3> HIDE DEF n, o
    <3> QED BY <2>7, <3>1
  <2>9. Follows(f, h, off, j)
    <3> HIDE DEF j
    <3> QED BY <2>4, <2>8, FollowsOne
  <2> QED BY <2>3, <2>9
<1>3. n - i \in 0 .. n - 1 /\ n - (n - i) = i
  BY <1>1
<1> HIDE DEF n
<1> QED BY <1>2, <1>3

(* What a stream gives: the frames in it, and what is left behind them.    *)
Frames(s) == Scan(s)[1].frames
Rest(s) == SubSeq(s, Scan(s)[1].at, Len(s))

LEMMA RestTyped ==
  ASSUME NEW s \in Bytes
  PROVE  /\ Frames(s) \in Seq(Bytes) /\ Rest(s) \in Bytes
         /\ Scan(s)[1].at \in 1 .. Len(s) + 1 /\ EndsAt(s, Scan(s)[1].at)
         /\ Len(Rest(s)) = Len(s) + 1 - Scan(s)[1].at
         /\ \A x \in 1 .. Len(Rest(s)) : Rest(s)[x] = s[Scan(s)[1].at + x - 1]
<1> DEFINE a == Scan(s)[1].at
<1>1. Len(s) \in Nat /\ \A x \in 1 .. Len(s) : s[x] \in Nat
  BY DEF Bytes
<1>2. IsScan(Scan(s), s) /\ 1 \in 1 .. Len(s) + 1
  BY <1>1, ScanExists
<1>3. a \in 1 .. Len(s) + 1 /\ EndsAt(s, a)
  BY <1>2, ScanLands
<1>4. Frames(s) \in Seq(Bytes)
  BY <1>2 DEF Frames, IsScan, Scans
<1> HIDE DEF a
<1>5. /\ SubSeq(s, a, Len(s)) \in Seq(Nat)
      /\ Len(SubSeq(s, a, Len(s))) = (IF a <= Len(s) THEN Len(s) - a + 1 ELSE 0)
      /\ \A x \in 1 .. Len(s) - a + 1 : SubSeq(s, a, Len(s))[x] = s[a + x - 1]
  <2>1. \A x \in a .. Len(s) : s[x] \in Nat
    BY <1>1, <1>3
  <2> QED BY <1>1, <1>3, <2>1, SubSeqProperties
<1>6. Rest(s) = SubSeq(s, a, Len(s))
  BY DEF Rest, a
<1>7. Len(Rest(s)) = Len(s) + 1 - a
  BY <1>1, <1>3, <1>5, <1>6
<1>8. Rest(s) \in Bytes /\ \A x \in 1 .. Len(Rest(s)) : Rest(s)[x] = s[a + x - 1]
  BY <1>1, <1>3, <1>5, <1>6, <1>7 DEF Bytes
<1> QED BY <1>3, <1>4, <1>7, <1>8 DEF a

(* Scanning what was left together with what comes next finds the rest of  *)
(* the frames of the whole.                                                *)
LEMMA ScansJoin ==
  ASSUME NEW s \in Bytes, NEW t \in Bytes
  PROVE  /\ Frames(s \o t) = Frames(s) \o Frames(Rest(s) \o t)
         /\ Rest(s \o t) = Rest(Rest(s) \o t)
<1> DEFINE q == s \o t
           p == Rest(s) \o t
           f == Scan(s)
           h == Scan(q)
           k == Scan(p)
           a == f[1].at
           off == a - 1
<1>1. /\ Len(s) \in Nat /\ Len(t) \in Nat /\ q \in Bytes /\ Len(q) = Len(s) + Len(t)
      /\ \A x \in 1 .. Len(s) + Len(t) : q[x] = IF x <= Len(s) THEN s[x] ELSE t[x - Len(s)]
  BY ConcatProperties DEF Bytes
<1>2. /\ Frames(s) \in Seq(Bytes) /\ Rest(s) \in Bytes /\ a \in 1 .. Len(s) + 1 /\ Len(Rest(s)) \in Nat
      /\ Len(Rest(s)) = Len(s) + 1 - a
      /\ \A x \in 1 .. Len(Rest(s)) : Rest(s)[x] = s[a + x - 1]
  BY RestTyped DEF Bytes
<1>3. /\ p \in Bytes /\ Len(p) = Len(Rest(s)) + Len(t)
      /\ \A x \in 1 .. Len(Rest(s)) + Len(t) :
           p[x] = IF x <= Len(Rest(s)) THEN Rest(s)[x] ELSE t[x - Len(Rest(s))]
  BY <1>2, ConcatProperties DEF Bytes
<1>4. IsScan(f, s) /\ IsScan(h, q) /\ IsScan(k, p)
  BY <1>1, <1>3, ScanExists
<1>5. /\ Frames(q) = h[1].frames /\ Rest(q) = SubSeq(q, h[1].at, Len(q))
      /\ Frames(p) = k[1].frames /\ Rest(p) = SubSeq(p, k[1].at, Len(p))
      /\ Frames(s) = f[1].frames
  BY DEF Frames, Rest
<1>6. /\ k[1].at \in 1 .. Len(p) + 1 /\ EndsAt(p, k[1].at) /\ Frames(p) \in Seq(Bytes)
  BY <1>3, RestTyped
<1> HIDE DEF q, p, f, h, k, a
<1>7. Agree(s, q, 0)
  BY <1>1 DEF Agree
<1>8. Agree(p, q, off) /\ off + Len(p) = Len(q) /\ off \in Nat
  <2>1. off + Len(p) = Len(q) /\ off \in Nat
    BY <1>1, <1>2, <1>3
  <2>2. ASSUME NEW x \in 1 .. Len(p) PROVE q[off + x] = p[x]
    <3>1. CASE x <= Len(Rest(s))
      <4>1. off + x = a + x - 1 /\ a + x - 1 <= Len(s) /\ a + x - 1 \in 1 .. Len(s) + Len(t)
            /\ x \in 1 .. Len(Rest(s)) /\ x \in 1 .. Len(Rest(s)) + Len(t)
        BY <1>1, <1>2, <3>1
      <4> HIDE DEF off, a
      <4> QED BY <1>1, <1>2, <1>3, <3>1, <4>1
    <3>2. CASE ~ x <= Len(Rest(s))
      <4>1. ~ off + x <= Len(s) /\ off + x \in 1 .. Len(s) + Len(t)
            /\ x \in 1 .. Len(Rest(s)) + Len(t) /\ off + x - Len(s) = x - Len(Rest(s))
        BY <1>1, <1>2, <1>3, <3>2
      <4> HIDE DEF off
      <4> DEFINE y == off + x
                 z == x - Len(Rest(s))
      <4>2. p[x] = t[z]
        BY <1>3, <3>2, <4>1
      <4>3. y \in 1 .. Len(s) + Len(t) /\ ~ y <= Len(s) /\ y - Len(s) = z
        BY <2>1, <4>1
      <4> HIDE DEF y, z
      <4>4. q[y] = t[z]
        BY <1>1, <4>3
      <4> QED BY <4>2, <4>4 DEF y
    <3> QED BY <3>1, <3>2
  <2> HIDE DEF off
  <2> QED BY <2>1, <2>2 DEF Agree
<1>9. h[1].at = h[a].at /\ h[1].frames = f[1].frames \o h[a].frames
  <2>1. 1 \in 1 .. Len(s) + 1 /\ 0 \in Nat
    BY <1>1
  <2>2. Follows(f, h, 0, 1)
    BY <1>1, <1>4, <1>7, <2>1, SameScan
  <2>3. 0 + 1 = 1 /\ 0 + a = a
    BY <1>2
  <2> QED BY <2>2, <2>3 DEF Follows, a
<1> DEFINE e == off + k[1].at
<1>10. h[a].at = h[e].at /\ h[a].frames = k[1].frames \o h[e].frames
  <2>1. 1 \in 1 .. Len(p) + 1 /\ off + 1 = a
    BY <1>1, <1>2, <1>3
  <2> HIDE DEF off
  <2>2. Follows(k, h, off, 1)
    BY <1>1, <1>3, <1>4, <1>8, <2>1, SameScan
  <2> QED BY <2>1, <2>2 DEF Follows
<1>11. h[e].at = e /\ h[e].frames = << >>
  <2> HIDE DEF off
  <2>1. e \in 1 .. Len(q) + 1 /\ EndsAt(q, e)
    BY <1>1, <1>3, <1>6, <1>8, SamePlace
  <2> HIDE DEF e
  <2>2. h[e] = [at |-> e, frames |-> << >>]
    BY <1>4, <2>1 DEF IsScan
  <2> QED BY <2>2
<1>12. h[1].frames = f[1].frames \o k[1].frames /\ h[1].at = e
  <2> HIDE DEF e
  <2>1. k[1].frames \o << >> = k[1].frames
    BY <1>5, <1>6, ConcatEmptySeq
  <2> QED BY <1>9, <1>10, <1>11, <2>1
<1>13. SubSeq(q, e, Len(q)) = SubSeq(p, k[1].at, Len(p))
  <2>1. k[1].at \in Nat \ {0} /\ Len(p) \in Int /\ Len(p) <= Len(p)
    BY <1>1, <1>2, <1>3, <1>6
  <2> DEFINE b == k[1].at
             l == Len(p)
  <2> HIDE DEF off, b, l
  <2>2. SubSeq(q, off + b, off + l) = SubSeq(p, b, l)
    <3>1. b \in Nat \ {0} /\ l \in Int /\ l <= Len(p)
      BY <2>1 DEF b, l
    <3>2. p \in Bytes /\ q \in Bytes
      BY <1>1, <1>3
    <3>3. Agree(p, q, off) /\ off \in Nat
      BY <1>8
    <3> QED BY <3>1, <3>2, <3>3, SamePiece
  <2> QED BY <1>8, <2>2 DEF b, l
<1> HIDE DEF e
<1> QED BY <1>5, <1>12, <1>13 DEF q, p

(* The frames are delivered one after the other.                           *)
DecodeBody(g, d, frames) ==
  [n \in 0 .. Len(frames) |-> IF n = 0 THEN d ELSE Delivered(g[n - 1], frames[n])]
Decode(d, frames) == CHOOSE g : g = DecodeBody(g, d, frames)
Result(d, frames) == Decode(d, frames)[Len(frames)]

LEMMA DeliveredTyped ==
  ASSUME NEW d \in Decodings, NEW frame \in Bytes
  PROVE  Delivered(d, frame) \in Decodings
<1> DEFINE payload == SubSeq(frame, HEADER_SIZE + 1, Len(frame))
           r == parse_bridge_frame(frame)
<1>1. payload \in Bytes
  <2>1. \A x \in HEADER_SIZE + 1 .. Len(frame) : frame[x] \in Nat
    BY HeaderIsNat DEF Bytes
  <2>2. HEADER_SIZE + 1 \in Int /\ Len(frame) \in Int
    BY HeaderIsNat DEF Bytes
  <2> QED BY <2>1, <2>2, SubSeqProperties DEF Bytes
<1>2. Delivered(d, frame) =
        CASE r = "Sensor" -> [d EXCEPT !.bridge = payload, !.frames = @ + 1]
          [] r = "Identity" -> [d EXCEPT !.identity = payload]
          [] r = "Handshake" -> [d EXCEPT !.handshake = TRUE]
          [] r = "VersionMismatch" -> [d EXCEPT !.handshake = FALSE, !.discards = @ + 1]
          [] OTHER -> [d EXCEPT !.discards = @ + 1]
  BY DEF Delivered
<1> HIDE DEF payload, r
<1>3. CASE r = "Sensor"
  <2>1. Delivered(d, frame) = [d EXCEPT !.bridge = payload, !.frames = @ + 1]
    BY <1>2, <1>3
  <2>2. Delivered(d, frame) = [bridge |-> payload, frames |-> d.frames + 1, discards |-> d.discards,
                               identity |-> d.identity, handshake |-> d.handshake]
    BY <2>1 DEF Decodings
  <2> QED BY <1>1, <2>2 DEF Decodings
<1>4. CASE r = "Identity"
  <2>1. Delivered(d, frame) = [d EXCEPT !.identity = payload]
    BY <1>2, <1>4
  <2> QED BY <1>1, <2>1 DEF Decodings
<1>5. CASE r = "Handshake"
  <2>1. Delivered(d, frame) = [d EXCEPT !.handshake = TRUE]
    BY <1>2, <1>5
  <2> QED BY <2>1 DEF Decodings
<1>6. CASE r = "VersionMismatch"
  <2>1. Delivered(d, frame) = [d EXCEPT !.handshake = FALSE, !.discards = @ + 1]
    BY <1>2, <1>6
  <2>2. Delivered(d, frame) = [bridge |-> d.bridge, frames |-> d.frames, discards |-> d.discards + 1,
                               identity |-> d.identity, handshake |-> FALSE]
    BY <2>1 DEF Decodings
  <2> QED BY <2>2 DEF Decodings
<1>7. CASE r \notin {"Sensor", "Identity", "Handshake", "VersionMismatch"}
  <2>1. Delivered(d, frame) = [d EXCEPT !.discards = @ + 1]
    BY <1>2, <1>7
  <2> QED BY <2>1 DEF Decodings
<1> QED BY <1>3, <1>4, <1>5, <1>6, <1>7

LEMMA DecodeExists ==
  ASSUME NEW d \in Decodings, NEW frames \in Seq(Bytes)
  PROVE  IsDecode(Decode(d, frames), d, frames)
<1> DEFINE N == Len(frames)
           F == [x \in (0 .. N) \X Decodings |-> IF x[1] = 0 THEN d ELSE Delivered(x[2], frames[x[1]])]
<1>1. N \in Nat /\ \A n \in 1 .. N : frames[n] \in Bytes
  OBVIOUS
<1>2. \A n \in 1 .. N, o \in Decodings : Delivered(o, frames[n]) \in Decodings
  BY <1>1, DeliveredTyped
<1>3. F \in [(0 .. N) \X Decodings -> Decodings]
  <2>1. ASSUME NEW x \in (0 .. N) \X Decodings
        PROVE  (IF x[1] = 0 THEN d ELSE Delivered(x[2], frames[x[1]])) \in Decodings
    <3>1. x[1] \in 0 .. N /\ x[2] \in Decodings /\ (x[1] # 0 => x[1] \in 1 .. N)
      BY <1>1, <2>1
    <3> HIDE DEF N
    <3> QED BY <1>2, <3>1
  <2> HIDE DEF N
  <2> QED BY <2>1
<1>4. \A n \in 0 .. N, o \in Decodings : F[<<n, o>>] = IF n = 0 THEN d ELSE Delivered(o, frames[n])
  <2> HIDE DEF N
  <2> QED OBVIOUS
<1>5. PICK f : FromItsStart(f, N, Decodings, d, F)
  <2> HIDE DEF N, F
  <2> QED BY <1>1, <1>3, UpRecursion
<1>6. f \in [0 .. N -> Decodings] /\ f[0] = d /\ \A n \in 0 .. N : n # 0 => f[n] = F[<<n, f[n - 1]>>]
  BY <1>5 DEF FromItsStart
<1>7. \A n \in 0 .. N : f[n] = IF n = 0 THEN d ELSE Delivered(f[n - 1], frames[n])
  <2> SUFFICES ASSUME NEW n \in 0 .. N
               PROVE  f[n] = IF n = 0 THEN d ELSE Delivered(f[n - 1], frames[n])
    OBVIOUS
  <2>1. CASE n = 0
    BY <1>6, <2>1
  <2>2. CASE n # 0
    <3>1. n - 1 \in 0 .. N
      BY <1>1, <2>2
    <3>2. f[n - 1] \in Decodings
      BY <1>6, <3>1
    <3> HIDE DEF N, F
    <3> QED BY <1>4, <1>6, <2>2, <3>2
  <2> QED BY <2>1, <2>2
<1>8. f = DecodeBody(f, d, frames)
  <2> HIDE DEF F
  <2> QED BY <1>6, <1>7 DEF DecodeBody
<1> DEFINE a == Decode(d, frames)
<1>9. a = DecodeBody(a, d, frames)
  BY <1>8 DEF Decode
<1> HIDE DEF a, F
<1>10. \A n \in 0 .. N : a[n] = IF n = 0 THEN d ELSE Delivered(a[n - 1], frames[n])
  BY <1>9 DEF DecodeBody
<1>11. \A n \in 0 .. N : a[n] \in Decodings
  <2> DEFINE T == {n \in 0 .. N : a[n] \notin Decodings}
  <2>1. SUFFICES ASSUME T # {} PROVE FALSE
    OBVIOUS
  <2>2. PICK n \in T : \A y \in T : n <= y
    <3>1. T \subseteq Nat
      BY <1>1
    <3> HIDE DEF T
    <3> QED BY <2>1, <3>1, LeastOf
  <2>3. n \in 0 .. N /\ a[n] \notin Decodings
    BY <2>2
  <2>4. CASE n = 0
    BY <1>10, <2>3, <2>4
  <2>5. CASE n # 0
    <3>1. n - 1 \in 0 .. N /\ ~ n <= n - 1 /\ n \in 1 .. N
      BY <1>1, <2>3, <2>5
    <3>2. n - 1 \notin T
      <4> HIDE DEF T
      <4> QED BY <2>2, <3>1
    <3>3. a[n - 1] \in Decodings
      BY <3>1, <3>2
    <3> HIDE DEF N, T
    <3> QED BY <1>2, <1>10, <2>3, <2>5, <3>1, <3>3
  <2> QED BY <2>4, <2>5
<1>12. a \in [0 .. N -> Decodings]
  <2>1. a = [n \in 0 .. N |-> a[n]]
    BY <1>9 DEF DecodeBody
  <2> HIDE DEF N
  <2> QED BY <1>11, <2>1
<1>13. a[0] = d /\ \A n \in 1 .. N : a[n] = Delivered(a[n - 1], frames[n])
  <2>1. 0 \in 0 .. N /\ \A n \in 1 .. N : n \in 0 .. N /\ n # 0
    BY <1>1
  <2> HIDE DEF N
  <2> QED BY <1>10, <2>1
<1> QED BY <1>12, <1>13 DEF IsDecode, a

(* Delivering frames in two parts gives the same.                          *)
LEMMA ResultsJoin ==
  ASSUME NEW d \in Decodings, NEW fs \in Seq(Bytes), NEW gs \in Seq(Bytes)
  PROVE  /\ Result(d, fs) \in Decodings
         /\ Result(d, fs \o gs) = Result(Result(d, fs), gs)
<1> DEFINE e == Result(d, fs)
           a == Decode(d, fs)
           b == Decode(e, gs)
           c == Decode(d, fs \o gs)
           N == Len(fs)
           M == Len(gs)
<1>1. /\ N \in Nat /\ M \in Nat /\ fs \o gs \in Seq(Bytes) /\ Len(fs \o gs) = N + M
      /\ \A n \in 1 .. N + M : (fs \o gs)[n] = IF n <= N THEN fs[n] ELSE gs[n - N]
  BY ConcatProperties
<1>2. a \in [0 .. N -> Decodings] /\ a[0] = d /\ \A n \in 1 .. N : a[n] = Delivered(a[n - 1], fs[n])
  BY DecodeExists DEF IsDecode
<1>3. e = a[N] /\ e \in Decodings
  BY <1>1, <1>2 DEF Result
<1>4. b[0] = e /\ \A n \in 1 .. M : b[n] = Delivered(b[n - 1], gs[n])
  <2> HIDE DEF e
  <2> QED BY <1>3, DecodeExists DEF IsDecode
<1>5. c[0] = d /\ \A n \in 1 .. N + M : c[n] = Delivered(c[n - 1], (fs \o gs)[n])
  <2> DEFINE hs == fs \o gs
  <2>1. hs \in Seq(Bytes) /\ Len(hs) = N + M
    BY <1>1
  <2> HIDE DEF hs, N, M
  <2>2. IsDecode(Decode(d, hs), d, hs)
    BY <2>1, DecodeExists
  <2> QED BY <2>1, <2>2 DEF IsDecode, hs
<1>6. Result(d, fs \o gs) = c[N + M] /\ Result(e, gs) = b[M]
  BY <1>1 DEF Result
<1> DEFINE P(n) == c[n] = IF n <= N THEN a[n] ELSE b[n - N]
           T == {n \in 0 .. N + M : ~ P(n)}
<1> HIDE DEF e, a, b, c, N, M
<1>7. b[0] = a[N]
  BY <1>3, <1>4
<1>8. T = {}
  <2>1. SUFFICES ASSUME T # {} PROVE FALSE
    OBVIOUS
  <2>2. PICK n \in T : \A y \in T : n <= y
    <3>1. T \subseteq Nat
      BY <1>1
    <3> HIDE DEF T
    <3> QED BY <2>1, <3>1, LeastOf
  <2>3. n \in 0 .. N + M /\ ~ P(n)
    BY <2>2
  <2>4. n # 0
    BY <1>1, <1>2, <1>5, <2>3
  <2>5. n - 1 \in 0 .. N + M /\ ~ n <= n - 1 /\ n \in 1 .. N + M
    BY <1>1, <2>3, <2>4
  <2>6. P(n - 1)
    <3>1. n - 1 \notin T
      <4> HIDE DEF T
      <4> QED BY <2>2, <2>5
    <3> HIDE DEF P
    <3> QED BY <2>5, <3>1
  <2>7. c[n] = Delivered(c[n - 1], (fs \o gs)[n])
    BY <1>5, <2>5
  <2>8. CASE n <= N
    <3>1. n \in 1 .. N /\ n - 1 <= N /\ (fs \o gs)[n] = fs[n]
      BY <1>1, <2>5, <2>8
    <3> QED BY <1>2, <2>3, <2>6, <2>7, <2>8, <3>1
  <2>9. CASE ~ n <= N
    <3>1. n - N \in 1 .. M /\ (fs \o gs)[n] = gs[n - N] /\ n - 1 - N = n - N - 1
      BY <1>1, <2>5, <2>9
    <3>2. c[n - 1] = b[n - N - 1]
      <4>1. CASE n - 1 <= N
        <5>1. n - 1 = N /\ n - N - 1 = 0
          BY <1>1, <2>5, <2>9, <4>1
        <5> QED BY <1>7, <2>6, <4>1, <5>1
      <4>2. CASE ~ n - 1 <= N
        BY <2>6, <3>1, <4>2
      <4> QED BY <4>1, <4>2
    <3>3. b[n - N] = Delivered(b[n - N - 1], gs[n - N])
      BY <1>4, <3>1
    <3> QED BY <2>3, <2>7, <2>9, <3>1, <3>2, <3>3
  <2> QED BY <2>8, <2>9
<1>9. c[N + M] = b[M]
  <2>1. N + M \in 0 .. N + M
    BY <1>1
  <2>2. P(N + M)
    <3> HIDE DEF P
    <3> QED BY <1>8, <2>1
  <2>3. CASE M = 0
    <3>1. N + M = N /\ N + M <= N
      BY <1>1, <2>3
    <3> QED BY <1>7, <2>2, <2>3, <3>1
  <2>4. CASE M # 0
    <3>1. ~ N + M <= N /\ N + M - N = M
      BY <1>1, <2>4
    <3> DEFINE k == N + M
    <3>2. P(k)
      <4> HIDE DEF P
      <4> QED BY <2>2
    <3>3. k > N /\ k - N = M
      BY <1>1, <2>4
    <3>4. k \in Int /\ N \in Int
      BY <1>1
    <3> HIDE DEF k
    <3>5. c[k] = b[k - N]
      BY <3>2, <3>3, <3>4
    <3>6. c[k] = b[M]
      BY <3>3, <3>5
    <3> QED BY <3>6 DEF k
  <2> QED BY <2>3, <2>4
<1> QED BY <1>3, <1>6, <1>9 DEF e

(* One call of the loop.                                                   *)
LEMMA ScannedIs ==
  ASSUME NEW s, NEW d
  PROVE  Scanned(s, d) = [decoded |-> Result(d, Frames(s)), left |-> Rest(s)]
BY DEF Scanned, Result, Decode, DecodeBody, Frames, Rest, Scan, ScanBody

LEMMA ScannedTyped ==
  ASSUME NEW s \in Bytes, NEW d \in Decodings
  PROVE  Scanned(s, d).decoded \in Decodings /\ Scanned(s, d).left \in Bytes
<1>1. Frames(s) \in Seq(Bytes) /\ Rest(s) \in Bytes
  BY RestTyped
<1>2. << >> \in Seq(Bytes)
  OBVIOUS
<1> QED BY <1>1, <1>2, ScannedIs, ResultsJoin

(* In two pieces, or in one.                                               *)
LEMMA ScannedJoin ==
  ASSUME NEW s \in Bytes, NEW t \in Bytes, NEW d \in Decodings
  PROVE  Scanned(s \o t, d) = Scanned(Scanned(s, d).left \o t, Scanned(s, d).decoded)
<1>1. Frames(s) \in Seq(Bytes) /\ Rest(s) \in Bytes
  BY RestTyped
<1>2. Rest(s) \o t \in Bytes
  BY <1>1, ConcatProperties DEF Bytes
<1>3. Frames(Rest(s) \o t) \in Seq(Bytes)
  BY <1>2, RestTyped
<1>4. Frames(s \o t) = Frames(s) \o Frames(Rest(s) \o t) /\ Rest(s \o t) = Rest(Rest(s) \o t)
  BY ScansJoin
<1>5. Result(d, Frames(s) \o Frames(Rest(s) \o t)) = Result(Result(d, Frames(s)), Frames(Rest(s) \o t))
  BY <1>1, <1>3, ResultsJoin
<1>6. Scanned(s, d).left = Rest(s) /\ Scanned(s, d).decoded = Result(d, Frames(s))
  BY ScannedIs
<1> QED BY <1>4, <1>5, <1>6, ScannedIs

(* What is left fills the buffer only when its frame is longer.            *)
LEMMA LeftShort ==
  ASSUME NEW s \in Bytes, NEW d, Len(Scanned(s, d).left) = RX_BUF_MAX
  PROVE  FrameTotal(Scanned(s, d).left, 1) > RX_BUF_MAX
<1> DEFINE a == Scan(s)[1].at
<1>1. /\ Rest(s) \in Bytes /\ a \in 1 .. Len(s) + 1 /\ EndsAt(s, a) /\ Len(Rest(s)) = Len(s) + 1 - a
      /\ \A x \in 1 .. Len(Rest(s)) : Rest(s)[x] = s[a + x - 1]
  BY RestTyped
<1>2. Len(s) \in Nat /\ RX_BUF_MAX \in Nat /\ RX_BUF_MAX >= HEADER_SIZE
  BY HeaderIsNat, BridgeAssumption DEF RX_BUF_MAX, Bytes
<1>3. Len(Rest(s)) = RX_BUF_MAX /\ Scanned(s, d).left = Rest(s)
  BY ScannedIs
<1> HIDE DEF a
<1>4. Len(s) - a + 1 = RX_BUF_MAX
  <2>1. a \in 1 .. Len(s) + 1 /\ Len(s) + 1 - a = RX_BUF_MAX
    BY <1>1, <1>3
  <2> QED BY <1>2, <2>1
<1>5. RX_BUF_MAX < FrameTotal(s, a)
  <2>1. ~ RX_BUF_MAX < HEADER_SIZE
    BY <1>2, HeaderIsNat
  <2> QED BY <1>1, <1>4, <2>1 DEF EndsAt
<1>6. FrameTotal(Rest(s), 1) = FrameTotal(s, a)
  <2>1. 1 + Len(BRIDGE_MAGIC) + 1 \in 1 .. Len(Rest(s))
        /\ a + (1 + Len(BRIDGE_MAGIC) + 1) - 1 = a + Len(BRIDGE_MAGIC) + 1
    BY <1>1, <1>2, <1>3, HeaderIsNat
  <2>2. Rest(s)[1 + Len(BRIDGE_MAGIC) + 1] = s[a + Len(BRIDGE_MAGIC) + 1]
    BY <1>1, <2>1
  <2> QED BY <2>2 DEF FrameTotal
<1>7. FrameTotal(s, a) > RX_BUF_MAX
  <2>1. FrameTotal(Rest(s), 1) \in Nat
    <3>1. 1 + Len(BRIDGE_MAGIC) + 1 \in 1 .. Len(Rest(s))
      BY <1>1, <1>2, <1>3, HeaderIsNat
    <3>2. Rest(s)[1 + Len(BRIDGE_MAGIC) + 1] \in Nat
      <4>1. Rest(s) \in Seq(Nat)
        BY <1>1 DEF Bytes
      <4> QED BY <3>1, <4>1, ElementOfSeq
    <3> QED BY <3>2, HeaderIsNat DEF FrameTotal
  <2> QED BY <1>2, <1>5, <1>6, <2>1
<1> QED BY <1>3, <1>6, <1>7

LEMMA NothingLeft ==
  ASSUME NEW d \in Decodings
  PROVE  Scanned(<< >>, d) = [decoded |-> d, left |-> << >>]
<1> DEFINE s == << >>
<1>1. s \in Bytes /\ Len(s) = 0 /\ 1 \in 1 .. Len(s) + 1
  BY EmptySeq DEF Bytes
<1>2. IsScan(Scan(s), s)
  <2> HIDE DEF s
  <2> QED BY <1>1, ScanExists
<1>3. EndsAt(s, 1)
  BY <1>1, HeaderIsNat DEF EndsAt
<1>4. Scan(s)[1].at = 1 /\ Frames(s) = << >>
  <2> HIDE DEF s
  <2> QED BY <1>1, <1>2, <1>3, ScanStops DEF Frames
<1>5. Rest(s) = << >>
  <2>1. Rest(s) = SubSeq(s, 1, 0)
    BY <1>1, <1>4 DEF Rest
  <2>2. SubSeq(s, 1, 0) = << >>
    <3> HIDE DEF s
    <3> QED BY SubSeqEmpty
  <2> QED BY <2>1, <2>2
<1>6. Result(d, << >>) = d
  <2>1. << >> \in Seq(Bytes) /\ Len(<< >>) = 0
    BY EmptySeq
  <2> QED BY <2>1, DecodeExists DEF Result, IsDecode
<1> QED BY <1>4, <1>5, <1>6, ScannedIs

-------------------------------------------------------------------------------

(* The invariant of the reader.                                            *)
BridgeTypes ==
  /\ reader \in [rx : Bytes]
  /\ toggle \in [decoded : Decodings, model : Bytes]
  /\ stream \in Bytes /\ before \in Decodings
BridgeWhole ==
  LET whole == Scanned(stream, before) IN
  toggle.decoded = whole.decoded /\ reader.rx = whole.left
BridgeFits == Len(reader.rx) = RX_BUF_MAX => FrameTotal(reader.rx, 1) > RX_BUF_MAX
BridgeDataInv == BridgeTypes /\ BridgeWhole /\ BridgeFits

LEMMA BridgeStarts == BridgeInit => BridgeDataInv
<1> SUFFICES ASSUME BridgeInit PROVE BridgeDataInv
  OBVIOUS
<1>1. << >> \in Bytes
  BY EmptySeq DEF Bytes
<1>2. Nothing \in Decodings
  BY <1>1 DEF Nothing, Decodings
<1>3. BridgeTypes
  BY <1>1, <1>2 DEF BridgeInit, BridgeTypes
<1>4. Scanned(<< >>, Nothing).decoded = Nothing /\ Scanned(<< >>, Nothing).left = << >>
  BY <1>2, NothingLeft
<1>5. BridgeWhole
  BY <1>4 DEF BridgeInit, BridgeWhole
<1>6. BridgeFits
  BY <1>1, <1>4, LeftShort DEF BridgeInit, BridgeFits
<1> QED BY <1>3, <1>5, <1>6 DEF BridgeDataInv

LEMMA KeptTyped ==
  ASSUME BridgeTypes, NEW data \in Bytes
  PROVE  /\ Kept(data) \in Bytes
         /\ ~ Overflows(data) => Kept(data) = reader.rx \o data
<1>1. reader.rx \in Bytes /\ Len(data) \in Nat /\ RX_BUF_MAX \in Nat
  BY HeaderIsNat, BridgeAssumption DEF BridgeTypes, Bytes, RX_BUF_MAX
<1>2. CASE Overflows(data)
  <2> DEFINE l == IF Len(data) < RX_BUF_MAX THEN Len(data) ELSE RX_BUF_MAX
  <2>1. l \in Nat /\ l <= Len(data)
    BY <1>1
  <2> HIDE DEF l
  <2>2. \A x \in 1 .. l : data[x] \in Nat
    BY <1>1, <2>1 DEF Bytes
  <2>3. SubSeq(data, 1, l) \in Bytes
    BY <2>1, <2>2, SubSeqProperties DEF Bytes
  <2> QED BY <1>2, <2>3 DEF Kept, l
<1>3. CASE ~ Overflows(data)
  <2>1. reader.rx \o data \in Bytes
    BY <1>1, ConcatProperties DEF Bytes
  <2> QED BY <1>3, <2>1 DEF Kept
<1> QED BY <1>2, <1>3

(* A transfer of any bytes.                                                *)
LEMMA TransferKeeps ==
  ASSUME BridgeDataInv, NEW data \in Bytes, process_rx_bytes(data)
  PROVE  BridgeDataInv'
<1> DEFINE k == Kept(data)
           r == Scanned(k, toggle.decoded)
<1>1. /\ reader.rx \in Bytes /\ toggle.decoded \in Decodings /\ toggle.model \in Bytes
      /\ stream \in Bytes /\ before \in Decodings /\ BridgeTypes
      /\ toggle \in [decoded : Decodings, model : Bytes]
  BY DEF BridgeDataInv, BridgeTypes
<1>2. k \in Bytes /\ (~ Overflows(data) => k = reader.rx \o data)
  BY <1>1, KeptTyped
<1>3. /\ reader' = [rx |-> r.left] /\ toggle' = [toggle EXCEPT !.decoded = r.decoded]
      /\ stream' = (IF Overflows(data) THEN k ELSE stream \o data)
      /\ before' = (IF Overflows(data) THEN toggle.decoded ELSE before)
  BY DEF process_rx_bytes
<1> HIDE DEF k
<1>4. r.decoded \in Decodings /\ r.left \in Bytes
  BY <1>1, <1>2, ScannedTyped
<1>5. Len(r.left) = RX_BUF_MAX => FrameTotal(r.left, 1) > RX_BUF_MAX
  BY <1>2, LeftShort
<1>6. Scanned(stream', before') = r
  <2>1. CASE Overflows(data)
    BY <1>3, <2>1
  <2>2. CASE ~ Overflows(data)
    <3>1. Scanned(stream, before).left = reader.rx /\ Scanned(stream, before).decoded = toggle.decoded
      BY DEF BridgeDataInv, BridgeWhole
    <3>2. Scanned(stream \o data, before) = Scanned(reader.rx \o data, toggle.decoded)
      BY <1>1, <3>1, ScannedJoin
    <3>3. stream' = stream \o data /\ before' = before /\ k = reader.rx \o data
      BY <1>2, <1>3, <2>2
    <3> QED BY <3>2, <3>3
  <2> QED BY <2>1, <2>2
<1>7. stream' \in Bytes /\ before' \in Decodings
  <2>1. stream \o data \in Bytes
    BY <1>1, ConcatProperties DEF Bytes
  <2> QED BY <1>1, <1>2, <1>3, <2>1
<1> HIDE DEF r
<1>8. /\ reader'.rx = r.left /\ toggle'.decoded = r.decoded /\ reader' \in [rx : Bytes]
      /\ toggle' \in [decoded : Decodings, model : Bytes]
  BY <1>1, <1>3, <1>4
<1>9. BridgeTypes'
  BY <1>7, <1>8 DEF BridgeTypes
<1>10. BridgeWhole'
  BY <1>6, <1>8 DEF BridgeWhole
<1>11. BridgeFits'
  BY <1>5, <1>8 DEF BridgeFits
<1> QED BY <1>9, <1>10, <1>11 DEF BridgeDataInv

LEMMA ModelKeeps ==
  ASSUME BridgeDataInv, NEW sample \in Bytes, update_virtual(sample)
  PROVE  BridgeDataInv'
<1>1. toggle'.decoded = toggle.decoded /\ toggle' \in [decoded : Decodings, model : Bytes]
  BY DEF BridgeDataInv, BridgeTypes, update_virtual
<1> QED BY <1>1 DEF BridgeDataInv, BridgeTypes, BridgeWhole, BridgeFits, update_virtual

LEMMA ResetKeeps == BridgeDataInv /\ reset => BridgeDataInv'
<1> SUFFICES ASSUME BridgeDataInv, reset PROVE BridgeDataInv'
  OBVIOUS
<1>1. << >> \in Bytes
  BY EmptySeq DEF Bytes
<1>2. toggle' \in [decoded : Decodings, model : Bytes]
  BY DEF BridgeDataInv, BridgeTypes, reset, Decodings
<1>3. reader' = [rx |-> << >>] /\ stream' = << >> /\ before' = toggle'.decoded /\ before' \in Decodings
  BY <1>2 DEF reset
<1>4. BridgeTypes'
  BY <1>1, <1>2, <1>3 DEF BridgeTypes
<1>5. Scanned(<< >>, before').decoded = before' /\ Scanned(<< >>, before').left = << >>
  BY <1>3, NothingLeft
<1>6. BridgeWhole'
  BY <1>3, <1>5 DEF BridgeWhole
<1>7. BridgeFits'
  <2>1. Len(Scanned(<< >>, before').left) = RX_BUF_MAX =>
          FrameTotal(Scanned(<< >>, before').left, 1) > RX_BUF_MAX
    BY <1>1, LeftShort
  <2> QED BY <1>3, <1>5, <2>1 DEF BridgeFits
<1> QED BY <1>4, <1>6, <1>7 DEF BridgeDataInv

LEMMA BridgeStep == BridgeDataInv /\ [BridgeNext]_bridgeVars => BridgeDataInv'
<1> SUFFICES ASSUME BridgeDataInv, [BridgeNext]_bridgeVars PROVE BridgeDataInv'
  OBVIOUS
<1>1. ASSUME NEW data \in BridgeChunks, process_rx_bytes(data) PROVE BridgeDataInv'
  <2>1. data \in Bytes
    BY BridgeAssumption DEF Bytes
  <2> QED BY <1>1, <2>1, TransferKeeps
<1>2. ASSUME NEW sample \in [1 .. SENSOR_LEN -> {4}], update_virtual(sample) PROVE BridgeDataInv'
  <2>1. SENSOR_LEN \in Nat
    BY BridgeAssumption
  <2>2. sample \in Bytes
    BY <2>1 DEF Bytes
  <2> QED BY <1>2, <2>2, ModelKeeps
<1>3. CASE reset
  BY <1>3, ResetKeeps
<1>4. CASE UNCHANGED bridgeVars
  BY <1>4 DEF bridgeVars, BridgeDataInv, BridgeTypes, BridgeWhole, BridgeFits
<1> QED BY <1>1, <1>2, <1>3, <1>4 DEF BridgeNext

LEMMA WholeIsDecoded == BridgeDataInv => DecodedWhole
BY DEF BridgeDataInv, BridgeWhole, BridgeFits, DecodedWhole, read_sample, Or

(* However the transfers cut the phone's stream, the reader decodes the    *)
(* frames of the whole of it, each once and in order, and keeps the rest;  *)
(* in either mode a read finds a sample if there is one                    *)
(* (PhoneBridgeReader::process_rx_bytes, ToggleBuffer::read_accel).        *)
THEOREM StreamsAreDecoded == BridgeSpec => []DecodedWhole
<1>1. BridgeInit => BridgeDataInv
  BY BridgeStarts
<1>2. BridgeDataInv /\ [BridgeNext]_bridgeVars => BridgeDataInv'
  BY BridgeStep
<1>3. BridgeDataInv => DecodedWhole
  BY WholeIsDecoded
<1> QED BY <1>1, <1>2, <1>3, PTL DEF BridgeSpec

===============================================================================
