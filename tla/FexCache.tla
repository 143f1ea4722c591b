------------------------------- MODULE FexCache --------------------------------
(***************************************************************************)
(* The memory init_fex_integration hands to the FEX translator: the bump   *)
(* allocators of the code cache and of the arena, the table of translated  *)
(* blocks and the spin lock.  The translator is external; it is modelled   *)
(* as the comments of these types ask: cores that translate at the same    *)
(* time hold the lock around the allocators and the table (lines 477 to    *)
(* 479 and 536), while the dispatcher reads the table without it and may   *)
(* find an entry of which some fields have been stored and others not.     *)
(*                                                                         *)
(* Addresses and sizes are in units, FexAlign of them to the 16 bytes to   *)
(* which translated code is aligned.                                       *)
(***************************************************************************)
EXTENDS FexBoot

CONSTANTS
  FexBlocks,   \* ARM64 block addresses, divided by 4
  FexBuckets,  \* FEX_BLOCK_HASH_BUCKETS, a power of two
  FexProbes,   \* slots an insertion or lookup looks at: 8
  FexAlign,    \* alignment of translated code
  FexCores,    \* host cores that translate
  FexLengths,  \* lengths of translated code and of scratch areas
  NoCore

ASSUME FexCacheAssumption ==
  /\ FexBuckets \in Nat \ {0} /\ FexProbes \in 1 .. FexBuckets
  /\ FexAlign \in Nat \ {0} /\ FexPage % FexAlign = 0
  /\ FexLengths \subseteq Nat \ {0} /\ FexBlocks \subseteq Nat
  /\ NoCore \notin FexCores

VARIABLES
  jit,     \* FexJitCache: base, size, used
  arena,   \* FexHostBindings: base, size, used
  lock,    \* the core that holds the spin lock, or NoCore
  blocks,  \* FexBlockHashTable.entries, without the insertion in progress
  stored,  \* the fields the insertion in progress has stored
  emitting,    \* what each core has allocated and not yet entered in the table
  newest,  \* history: each block's newest translation since the last reset
  scratch  \* history: the areas given out by the bump arena

cacheVars == <<jit, arena, lock, blocks, stored, emitting, newest, scratch>>

NoBlock == [va |-> 0, pa |-> 0, len |-> 0, valid |-> FALSE]
NoCode == [va |-> 0, pa |-> 0, len |-> 0]
FexSlots == 0 .. FexBuckets - 1
RoundUp(n, a) == ((n + (a - 1)) \div a) * a
Area(pa, len) == pa .. pa + len - 1

CanAllocate(cache, len) == cache.used + RoundUp(len, FexAlign) <= cache.size
Allocated(cache, len) == [cache EXCEPT !.used = @ + RoundUp(len, FexAlign)]

(* --------------------------- the table of blocks --------------------------- *)

(* The low bits of the multiplicative hash: 7189 is its constant modulo    *)
(* 8192, and the table is a power of two.                                  *)
bucket_for(va) == (va * 7189) % FexBuckets
Probe(va, i) == (bucket_for(va) + i) % FexBuckets
FexProbed == 0 .. FexProbes - 1

(* The first probe at which the scan stops: a free slot or this block's.   *)
Stops(table, va) ==
  {i \in FexProbed : LET e == table[Probe(va, i)] IN ~ e.valid \/ e.va = va}
FirstStop(table, va) ==
  CHOOSE i \in Stops(table, va) : \A j \in Stops(table, va) : i <= j

FexEntry(w) == [va |-> w.va, pa |-> w.pa, len |-> w.len, valid |-> TRUE]

(* Mutant: only free slots are looked for, not the block's own entry.      *)
FirstFree(table, va) ==
  LET free == {i \in FexProbed : ~ table[Probe(va, i)].valid} IN
  Probe(va, IF free = {} THEN 0 ELSE CHOOSE i \in free : \A j \in free : i <= j)

PlaceFor(table, va) ==
  Probe(va, IF Stops(table, va) = {} THEN 0 ELSE FirstStop(table, va))

block_insert(table, w) == [table EXCEPT ![PlaceFor(table, w.va)] = FexEntry(w)]

LookupAt(table, va) == Probe(va, FirstStop(table, va))

block_lookup(table, va) ==
  IF Stops(table, va) = {} THEN NoBlock ELSE table[LookupAt(table, va)]

(* What the memory of the table holds.  An insertion stores the fields of  *)
(* its entry one by one, in an order that is the compiler's.               *)
EntryFields == {"va", "pa", "len", "valid"}
Halfway(old, new) ==
  [va |-> IF "va" \in stored THEN new.va ELSE old.va,
   pa |-> IF "pa" \in stored THEN new.pa ELSE old.pa,
   len |-> IF "len" \in stored THEN new.len ELSE old.len,
   valid |-> IF "valid" \in stored THEN new.valid ELSE old.valid]
InsertedAt == PlaceFor(blocks, emitting[lock].va)
Entries ==
  IF stored = {} THEN blocks
  ELSE [blocks EXCEPT ![InsertedAt] = Halfway(blocks[InsertedAt], FexEntry(emitting[lock]))]

(* ------------------------------ the translator ------------------------------ *)

FexCacheOf(c) ==
  /\ FexValid(c)
  /\ jit = [base |-> c.jitBase, size |-> c.jitSize, used |-> 0]
  /\ arena = [base |-> c.arenaBase, size |-> c.arenaSize, used |-> 0]
  /\ lock = NoCore
  /\ blocks = [s \in FexSlots |-> NoBlock]
  /\ stored = {}
  /\ emitting = [d \in FexCores |-> NoCode]
  /\ newest = [b \in FexBlocks |-> NoCode]
  /\ scratch = {}

FexCacheInit == \E c \in FexConfigs : FexCacheOf(c)

fex_lock(c) ==
  /\ lock = NoCore
  /\ lock' = c
  /\ UNCHANGED <<jit, arena, blocks, stored, emitting, newest, scratch>>

fex_unlock(c) ==
  /\ lock = c /\ emitting[c] = NoCode
  /\ lock' = NoCore
  /\ UNCHANGED <<jit, arena, blocks, stored, emitting, newest, scratch>>

(* FexJitCache::allocate, for the code of a block.                         *)
jit_allocate(c, va, len) ==
  /\ lock = c /\ emitting[c] = NoCode /\ CanAllocate(jit, len)
  /\ emitting' = [emitting EXCEPT ![c] = [va |-> va, pa |-> jit.base + jit.used, len |-> len]]
  /\ jit' = Allocated(jit, len)
  /\ UNCHANGED <<arena, lock, blocks, stored, newest, scratch>>

(* FexBlockHashTable::insert, once the code has been emitted: a field of   *)
(* the entry is stored, and in the end all that are left.                  *)
fex_store(c) ==
  /\ lock = c /\ emitting[c] # NoCode
  /\ \E f \in EntryFields \ stored : stored' = stored \cup {f}
  /\ UNCHANGED <<jit, arena, lock, blocks, emitting, newest, scratch>>

fex_enter(c) ==
  /\ lock = c /\ emitting[c] # NoCode
  /\ blocks' = block_insert(blocks, emitting[c])
  /\ newest' = [newest EXCEPT ![emitting[c].va] = emitting[c]]
  /\ stored' = {}
  /\ emitting' = [emitting EXCEPT ![c] = NoCode]
  /\ UNCHANGED <<jit, arena, lock, scratch>>

(* FexHostBindings::alloc: aligned from the start of the arena.            *)
bump_alloc(c, len, align) ==
  LET off == RoundUp(arena.used, align) IN
  /\ lock = c /\ emitting[c] = NoCode /\ off + len <= arena.size
  /\ arena' = [arena EXCEPT !.used = off + len]
  /\ scratch' = scratch \cup {[pa |-> arena.base + off, len |-> len, align |-> align]}
  /\ UNCHANGED <<jit, lock, blocks, stored, emitting, newest>>

(* FexJitCache::reset, for an AOT rebuild while no core translates.  The   *)
(* table keeps its entries: none of its operations removes one.            *)
jit_reset ==
  /\ lock = NoCore /\ jit.used > 0
  /\ jit' = [jit EXCEPT !.used = 0]
  /\ newest' = [b \in FexBlocks |-> NoCode]
  /\ UNCHANGED <<arena, lock, blocks, stored, emitting, scratch>>

FexCacheNext ==
  \/ \E c \in FexCores : fex_lock(c) \/ fex_unlock(c) \/ fex_store(c) \/ fex_enter(c)
  \/ \E c \in FexCores, va \in FexBlocks, len \in FexLengths : jit_allocate(c, va, len)
  \/ \E c \in FexCores, len \in FexLengths, align \in {1, FexAlign} : bump_alloc(c, len, align)
  \/ jit_reset

FexCacheSpec == FexCacheInit /\ [][FexCacheNext]_cacheVars

-------------------------------------------------------------------------------

(* The dispatcher reads the table on every guest branch, without the lock. *)
(* For an address translated since the last reset it finds the newest      *)
(* translation or nothing, also in the middle of an insertion, unless it   *)
(* stops at the very entry that is being stored.  And the code of those    *)
(* translations lies in the used part of the code cache and apart from all *)
(* other such code, from a translation in progress and from the scratch    *)
(* areas of the translator.                                                *)
(*                                                                         *)
(* Nothing is said of the addresses a reset has forgotten: reset leaves    *)
(* their entries in the table although their memory is given out again.    *)
Settled == {s \in FexSlots : stored = {} \/ s # InsertedAt}

BlocksLive ==
  LET current == {s \in Settled : Entries[s].valid /\ newest[Entries[s].va] # NoCode}
      code == {[va |-> Entries[s].va, pa |-> Entries[s].pa, len |-> Entries[s].len] : s \in current}
              \cup {emitting[c] : c \in {d \in FexCores : emitting[d] # NoCode}}
      Disjoint(a, b) == Area(a.pa, a.len) \cap Area(b.pa, b.len) = {}
  IN /\ \A va \in FexBlocks :
          newest[va] # NoCode /\ (Stops(Entries, va) # {} => LookupAt(Entries, va) \in Settled)
            => block_lookup(Entries, va) \in {NoBlock, FexEntry(newest[va])}
     /\ \A a \in code : Area(a.pa, a.len) \subseteq Area(jit.base, jit.used)
     /\ \A a, b \in code : a = b \/ Disjoint(a, b)
     /\ \A a \in code, b \in scratch : Disjoint(a, b)
     /\ \A a, b \in scratch : a = b \/ Disjoint(a, b)
===============================================================================
