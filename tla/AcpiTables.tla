------------------------------- MODULE AcpiTables -------------------------------
(***************************************************************************)
(* The ACPI tables of a partition (acpi.rs) and their readers: the walk of *)
(* the XSDT (boot.rs) and of the MADT (gic.rs).  acpi.rs writes each table *)
(* into a buffer; its caller (external) writes the six tables of a set one *)
(* after the other into a buffer of AcpiTableSet::total_size bytes.        *)
(*                                                                         *)
(* An entry of the MADT is kept as its 32-bit words, so that writer and    *)
(* reader agree only if they use the same offsets; a 64-bit address is the *)
(* pair <<low, high>> of its words.  Checksums are left out: only tests    *)
(* verify one.                                                             *)
(***************************************************************************)
EXTENDS Naturals, Sequences

CONSTANT AcpiSets  \* the sets of tables asked for: see AcpiInit

Words == Nat \X Nat

(* The fields of a set are unsigned.                                       *)
ASSUME AcpiAssumption ==
  \A s \in AcpiSets :
    /\ {s.cpus, s.maint, s.gicrLen, s.buffer} \subseteq Nat
    /\ {s.gicd, s.gicr, s.its, s.giccGicr} \subseteq Words

VARIABLE acpi

ACPI_HEADER_LEN == 36
RSDP_V2_LEN == 36
MADT_FIXED_BODY_LEN == 8
GTDT_TOTAL_LEN == ACPI_HEADER_LEN + 60
FADT_TOTAL_LEN == ACPI_HEADER_LEN + 244
IORT_MIN_LEN == 184
MAX_GICC_ENTRIES == 16
EntryLen == [GICC |-> 80, GICD |-> 24, GICR |-> 16, GIC_ITS |-> 20]

Zero64 == <<0, 0>>
GicVersions == 1 .. 4

(* ------------------------------- the writers ------------------------------- *)

(* An entry: word 0 holds type and length, `at` gives the other words that *)
(* are written, by word offset.                                            *)
Entry(type, at) ==
  [type |-> type, len |-> EntryLen[type],
   word |-> [w \in 1 .. EntryLen[type] \div 4 - 1 |-> IF w \in DOMAIN at THEN at[w] ELSE 0]]

GiccEntry(g) == Entry("GICC", [w \in {14, 15, 16, 17} |->
  CASE w = 14 -> g.maint [] w = 15 -> g.gicr[1] [] w = 16 -> g.gicr[2] [] w = 17 -> g.mpidr])

GicdEntry(base, version) == Entry("GICD", [w \in {2, 3, 5} |->
  CASE w = 2 -> base[1] [] w = 3 -> base[2] [] w = 5 -> version])

GicrEntry(base, length) == Entry("GICR", [w \in {1, 2, 3} |->
  CASE w = 1 -> base[1] [] w = 2 -> base[2] [] w = 3 -> length])

GicItsEntry(base) == Entry("GIC_ITS", [w \in {2, 3} |-> base[w - 1]])

SizeOf(entries) ==
  LET upTo[i \in 0 .. Len(entries)] == IF i = 0 THEN 0 ELSE upTo[i - 1] + entries[i].len
  IN upTo[Len(entries)]

(* What write_header puts before the body.                                 *)
SdtTable(sig, len, body) == [sig |-> sig, len |-> len, body |-> body]

xsdt_size(n) == ACPI_HEADER_LEN + 8 * n
madt_entries(s) ==
  [i \in 1 .. s.cpus |-> GiccEntry([maint |-> s.maint, gicr |-> s.giccGicr, mpidr |-> i - 1])]
  \o <<GicdEntry(s.gicd, s.version), GicrEntry(s.gicr, s.gicrLen), GicItsEntry(s.its)>>
madt_size(cpus) == ACPI_HEADER_LEN + MADT_FIXED_BODY_LEN + 80 * cpus + 24 + 16 + 20

total_size(s) ==
  RSDP_V2_LEN + xsdt_size(4) + FADT_TOTAL_LEN + madt_size(s.cpus) + GTDT_TOTAL_LEN + IORT_MIN_LEN

TimerValid(timer) == \A i \in DOMAIN timer : timer[i] \in 16 .. 31

set_validate(s) ==
  CASE s.cpus = 0 \/ s.cpus > MAX_GICC_ENTRIES -> "TooManyEntries"
    [] s.cpus \in 1 .. MAX_GICC_ENTRIES /\ s.version \notin GicVersions -> "InvalidGicVersion"
    [] s.cpus \in 1 .. MAX_GICC_ENTRIES /\ s.version \in GicVersions /\ ~ TimerValid(s.timer) ->
         "InvalidTimerInterrupt"
    [] OTHER -> "none"

(* ------------------------------- the readers ------------------------------- *)

U64(e, w) == <<e.word[w], e.word[w + 1]>>

(* The walk of the MADT: the last distributor, the first redistributor     *)
(* range or address of a CPU interface, the first virtual CPU interface    *)
(* and the last maintenance interrupt, 25 if none is given.                *)
NoGic == [gicd |-> << >>, gicr |-> << >>, gicv |-> Zero64, maint |-> 25]
(* Mutant: the maintenance interrupt is read one word too far.             *)
MaintMisread(found, e) ==
  CASE e.type = "GICD" -> [found EXCEPT !.gicd = U64(e, 2)]
    [] e.type = "GICR" /\ found.gicr = << >> -> [found EXCEPT !.gicr = U64(e, 2)]
    [] e.type = "GICC" -> [found EXCEPT !.maint = IF e.word[15] # 0 THEN e.word[15] ELSE @]
    [] OTHER -> found

EntryRead(found, e) ==
  CASE e.type = "GICD" -> [found EXCEPT !.gicd = U64(e, 2)]
    [] e.type = "GICR" /\ found.gicr = << >> -> [found EXCEPT !.gicr = U64(e, 2)]
    [] e.type = "GICC" ->
         [found EXCEPT !.gicr = IF found.gicr = << >> /\ U64(e, 15) # Zero64 THEN U64(e, 15) ELSE @,
                       !.gicv = IF @ = Zero64 THEN U64(e, 10) ELSE @,
                       !.maint = IF e.word[14] # 0 THEN e.word[14] ELSE @]
    [] OTHER -> found

discover_gic_from_madt(table) ==
  LET after[i \in 0 .. Len(table.body)] ==
        IF i = 0 THEN NoGic ELSE EntryRead(after[i - 1], table.body[i])
      found == after[Len(table.body)]
  IN [found EXCEPT !.gicr = IF @ = << >> THEN Zero64 ELSE @]

GicFound(gic) == gic.gicd # << >>

(* Main believes a redistributor below 2^40 only; the device tree of QEMU  *)
(* is the fallback.                                                        *)
Believed(gicr) == gicr # Zero64 /\ gicr[2] <= 255

(* The first entry of the XSDT, zero ones skipped, with this signature.    *)
acpi_find_table(xsdt, memory, sig) ==
  IF xsdt.sig # "XSDT" \/ xsdt.len < ACPI_HEADER_LEN THEN 0
  ELSE LET hits == {i \in DOMAIN xsdt.body : xsdt.body[i] # 0 /\ memory[xsdt.body[i]].sig = sig}
       IN IF hits = {} THEN 0 ELSE xsdt.body[CHOOSE i \in hits : \A j \in hits : i <= j]

(* ------------------------------ building a set ------------------------------ *)

NoTable == SdtTable("none", 0, << >>)

AcpiOf(s) ==
  acpi = [set |-> s, at |-> IF set_validate(s) = "none" THEN "FADT" ELSE "refused",
          err |-> set_validate(s), off |-> 0,
          memory |-> [t \in {"FADT", "MADT", "GTDT", "IORT", "XSDT"} |-> NoTable]]

AcpiInit == \E s \in AcpiSets : AcpiOf(s)

(* Each builder refuses a buffer that is too small.                        *)
Placed(t, next, len, body) ==
  /\ acpi.at = t
  /\ acpi' = IF acpi.off + len > acpi.set.buffer
             THEN [acpi EXCEPT !.at = "refused", !.err = "BufferTooSmall"]
             ELSE [acpi EXCEPT !.at = next, !.off = @ + len,
                     !.memory[t] = SdtTable(t, len, body)]

build_fadt == Placed("FADT", "MADT", FADT_TOTAL_LEN, << >>)
build_gtdt == Placed("GTDT", "IORT", GTDT_TOTAL_LEN, acpi.set.timer)
build_iort == Placed("IORT", "XSDT", IORT_MIN_LEN, << >>)
build_xsdt == Placed("XSDT", "RSDP", xsdt_size(4), <<1, 2, 3, 4>>)

(* The entries must come to the size computed for them.                    *)
build_madt ==
  LET body == madt_entries(acpi.set)
      total == madt_size(acpi.set.cpus)
  IN IF ACPI_HEADER_LEN + MADT_FIXED_BODY_LEN + SizeOf(body) = total
     THEN Placed("MADT", "GTDT", total, body)
     ELSE /\ acpi.at = "MADT"
          /\ acpi' = [acpi EXCEPT !.at = "refused", !.err = "LengthMismatch"]

place_rsdp ==
  /\ acpi.at = "RSDP"
  /\ acpi' = IF acpi.off + RSDP_V2_LEN > acpi.set.buffer
             THEN [acpi EXCEPT !.at = "refused", !.err = "BufferTooSmall"]
             ELSE [acpi EXCEPT !.at = "done", !.off = @ + RSDP_V2_LEN]

AcpiNext == build_fadt \/ build_madt \/ build_gtdt \/ build_iort \/ build_xsdt \/ place_rsdp
AcpiSpec == AcpiInit /\ [][AcpiNext]_acpi

-------------------------------------------------------------------------------

Found == discover_gic_from_madt(acpi.memory["MADT"])

(* A valid set fills the buffer of total_size bytes to its last byte and   *)
(* never fails for lack of room in one at least that large, and the walk   *)
(* of its MADT finds the distributor and the maintenance interrupt where   *)
(* they were written.  When the CPU interfaces name redistributors the     *)
(* walk finds an address the writer gave.  Which one is left open: the     *)
(* comment at gic.rs:187 prefers the range entry, the code takes whichever *)
(* entry comes first, and build_madt writes the CPU interfaces first.      *)
AcpiSetReads ==
  /\ acpi.err = "BufferTooSmall" => acpi.set.buffer < total_size(acpi.set)
  /\ acpi.err # "LengthMismatch"
  /\ acpi.at = "done" =>
       /\ acpi.off = total_size(acpi.set)
       /\ GicFound(Found) /\ Found.gicd = acpi.set.gicd
       /\ acpi.set.maint # 0 => Found.maint = acpi.set.maint
       /\ acpi.set.giccGicr # Zero64 => Found.gicr \in {acpi.set.gicr, acpi.set.giccGicr}

(* gic.rs documents the walk as extracting all GIC component addresses:    *)
(* that includes the redistributors which only the range entry names.      *)
RedistributorsFound ==
  acpi.at = "done" /\ acpi.set.giccGicr = Zero64 => Found.gicr = acpi.set.gicr
===============================================================================
