-------------------------------- MODULE FexBoot --------------------------------
(***************************************************************************)
(* init_fex_integration and the monitor that follows the first ARM64       *)
(* binary under the FEX translator: configuration, the ELF image, the      *)
(* queue of libraries to translate ahead of time, and the console lines.   *)
(* The translator is linked in from outside; FexCache models what it does  *)
(* with the regions handed over here.  Addresses and sizes are in units,   *)
(* FexPage of them to a page.                                              *)
(***************************************************************************)
EXTENDS LogMonitor

CONSTANTS
  FexPage,      \* alignment of the two regions
  FexCacheMin,  \* FEX_JIT_CACHE_SIZE
  FexArenaMin,  \* least size of the bump arena
  FexConfigs,   \* records with the fields of FexIntegrationConfig
  FexSegments,  \* FEX_ELF_MAX_LOAD_SEGMENTS
  FexElfs,      \* ELF images: header, phentsize, the program headers in order
  FexLibraries, \* AOT_DEFAULT_LIBRARIES: a sequence, TRUE for a mandatory one
  FexQueueMax   \* FEX_AOT_QUEUE_CAPACITY

ASSUME FexBootAssumption ==
  /\ {FexPage, FexCacheMin, FexArenaMin, FexSegments} \subseteq Nat \ {0}
  /\ FexConfigs \subseteq [inHypervisor : BOOLEAN, jitBase : Nat, jitSize : Nat,
                           arenaBase : Nat, arenaSize : Nat, aot : BOOLEAN]
  /\ FexQueueMax \in Nat

VARIABLES
  fex,   \* the monitor: phase, bits, whether the dispatcher stalled, error
  given, \* the configuration handed over, or NoConfig
  todo   \* AotPreTranslationQueue: count, completed

fexVars == <<fex, given, todo>>

FexPhases == <<"NotStarted", "FexLinked", "AllocatorBound", "JitCacheReady",
               "ArmElfLoaded", "BlockTranslated", "HelloWorldExecuted",
               "GatePassed">>
FexGate == {"fex_linked", "allocator_bound", "jit_cache_ready",
            "arm64_elf_validated", "hello_world_observed", "no_libc_symbols"}
FexSignatures == {"translated", "stalled", "hello"}

(* Mutant: only the start of the code cache is looked for in the arena.    *)
StartInArena(c) == c.jitBase \in c.arenaBase .. c.arenaBase + c.arenaSize - 1

RegionsOverlap(c) ==
  /\ c.jitBase < c.arenaBase + c.arenaSize
  /\ c.arenaBase < c.jitBase + c.jitSize

FexValid(c) ==
  /\ c.inHypervisor
  /\ c.jitBase % FexPage = 0 /\ c.arenaBase % FexPage = 0
  /\ c.jitSize >= FexCacheMin /\ c.arenaSize >= FexArenaMin
  /\ ~ RegionsOverlap(c)

FexNew == [phase |-> "NotStarted", bits |-> {}, stalled |-> FALSE, error |-> "none"]
NoConfig == [jitSize |-> 0]

aot_defaults ==
  [count |-> IF Len(FexLibraries) < FexQueueMax THEN Len(FexLibraries) ELSE FexQueueMax,
   completed |-> 0]

FexInit ==
  /\ fex = FexNew
  /\ given = NoConfig
  /\ todo = [count |-> 0, completed |-> 0]

(* An invalid configuration, another host architecture and a build without *)
(* libfex.a each end the call before anything is written.                  *)
init_fex_integration(config, x86, linked) ==
  /\ fex = FexNew
  /\ IF FexValid(config) /\ x86 /\ linked
       THEN /\ fex' = [fex EXCEPT
                 !.phase = "JitCacheReady",
                 !.bits = {"fex_linked", "allocator_bound", "jit_cache_ready",
                           "no_libc_symbols"}]
            /\ given' = config
            /\ todo' = IF config.aot THEN aot_defaults ELSE todo
       ELSE /\ fex' = [fex EXCEPT !.error = CASE ~ FexValid(config) -> "config"
                                              [] FexValid(config) /\ ~ x86 -> "host"
                                              [] OTHER -> "not_linked"]
            /\ UNCHANGED <<given, todo>>

(* ------------------------------- the ELF image ------------------------------- *)

(* Walks the program headers until the segment array is full; table may    *)
(* end in "short", an entry that lies past the end of the file.            *)
HeadersWalked(elf) ==
  LET Loads(i) == {j \in 1 .. i : elf.table[j] \in {"load", "loadx"}}
      reached == {i \in 0 .. Len(elf.table) :
                    \A j \in 1 .. i : Cardinality(Loads(j - 1)) < FexSegments}
      last == CHOOSE i \in reached : \A j \in reached : j <= i
  IN SubSeq(elf.table, 1, last)

ElfResult(elf) ==
  LET seen == {HeadersWalked(elf)[i] : i \in DOMAIN HeadersWalked(elf)} IN
  CASE elf.header # "arm64" -> elf.header
    [] elf.header = "arm64" /\ ~ elf.phentsize -> "BadProgramHeaderSize"
    [] elf.header = "arm64" /\ elf.phentsize /\ "short" \in seen -> "ElfTruncated"
    [] OTHER -> IF seen \cap {"load", "loadx"} = {} THEN "NoLoadSegments"
                ELSE IF "loadx" \notin seen THEN "NoExecutableSegment" ELSE "Ok"

process_elf_load(elf) ==
  /\ fex.phase # "NotStarted"
  /\ fex' = IF ElfResult(elf) = "Ok"
            THEN Advance(FexPhases, Grant(fex, "arm64_elf_validated"), "ArmElfLoaded")
            ELSE fex
  /\ UNCHANGED <<given, todo>>

(* -------------------------------- the monitor -------------------------------- *)

FexAfterTranslated(m, line) ==
  IF "translated" \in line /\ m.phase = "ArmElfLoaded"
  THEN [m EXCEPT !.phase = "BlockTranslated"] ELSE m

FexAfterHello(m, line) ==
  IF "hello" \notin line THEN m
  ELSE LET n == Advance(FexPhases, Grant(m, "hello_world_observed"), "HelloWorldExecuted")
       IN IF FexGate \subseteq n.bits THEN [n EXCEPT !.phase = "GatePassed"] ELSE n

fex_process_line(line) ==
  /\ fex.phase # "NotStarted"
  /\ fex' = FexAfterHello([FexAfterTranslated(fex, line) EXCEPT
                             !.stalled = @ \/ "stalled" \in line], line)
  /\ UNCHANGED <<given, todo>>

(* The translator has finished the next library of the queue.              *)
library_translated ==
  /\ fex.phase # "NotStarted" /\ todo.completed < todo.count
  /\ todo' = [todo EXCEPT !.completed = @ + 1]
  /\ UNCHANGED <<fex, given>>

mandatory_remaining ==
  Cardinality({i \in todo.completed + 1 .. todo.count : FexLibraries[i]})

FexNext ==
  \/ \E config \in FexConfigs, x86, linked \in BOOLEAN :
       init_fex_integration(config, x86, linked)
  \/ \E elf \in FexElfs : process_elf_load(elf)
  \/ \E line \in LinesOf(FexSignatures, 2) : fex_process_line(line)
  \/ library_translated
===============================================================================
