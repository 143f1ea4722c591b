----------------------------------- MODULE Dtb -----------------------------------
(***************************************************************************)
(* The device trees handed to the Android kernel: the tree of the first    *)
(* boot (kernel.rs) and the production one (kernel_defconfig.rs), and the  *)
(* builder both use, which writes a flattened device tree into a structure *)
(* block and a strings block of fixed capacity and copies it out at the    *)
(* end.  The two builders are the same code with different capacities.     *)
(*                                                                         *)
(* One step is one call of the builder.  Sizes are in bytes, and property  *)
(* values are kept as their length, and their value when it is one cell.   *)
(***************************************************************************)
EXTENDS Naturals, Sequences, SequencesExt

CONSTANTS
  DtbConfigs,  \* what a tree is built from: see DtbInit
  DtbCaps      \* capacity of the two blocks, for each builder

(* The counts and lengths of a configuration are unsigned.                 *)
ASSUME DtbAssumption ==
  \A c \in DtbConfigs : c.prod \in BOOLEAN /\ {c.cpus, c.cmdline, c.out} \subseteq Nat

VARIABLE dtb

FDT_STRUCT_OFFSET == 56
MAX_ANDROID_CPUS == 8
MAX_KERNEL_CMDLINE_LEN == 4096
Pad4(n) == ((n + 3) \div 4) * 4

(* --------------------------- the calls of a builder --------------------------- *)

prop_data(name, len) == [op |-> "prop", name |-> name, len |-> len, val |-> 0]
prop_cells(name, cells) == prop_data(name, 4 * cells)
prop_u32(name, val) == [op |-> "prop", name |-> name, len |-> 4, val |-> val]
prop_u64(name) == prop_data(name, 8)
prop_empty(name) == prop_data(name, 0)
prop_str(name, val) == prop_data(name, Len(val) + 1)
end_node == [op |-> "end", name |-> "", len |-> 0, val |-> 0]
begin_node(name) == [op |-> "begin", name |-> name, len |-> Len(name) + 1, val |-> 0]

Node(name, props, kids) == <<begin_node(name)>> \o props \o FlattenSeq(kids) \o <<end_node>>

(* ---------------------------------- the trees ---------------------------------- *)

AddressCells(address, size) ==
  <<prop_u32("#address-cells", address), prop_u32("#size-cells", size)>>

(* Mutant: the size of memory is one cell, two are declared.               *)
ShortMemory == Node("memory@40000000", <<prop_str("device_type", "memory"), prop_cells("reg", 3)>>, << >>)

Memory == Node("memory@40000000", <<prop_str("device_type", "memory"), prop_cells("reg", 4)>>, << >>)

Cpu(i) ==
  Node("cpu@" \o ToString(i),
       <<prop_str("compatible", "arm,armv8"), prop_str("device_type", "cpu"),
         prop_cells("reg", 2), prop_str("enable-method", "psci")>>, << >>)

Cpus(n) == Node("cpus", AddressCells(2, 0), [i \in 1 .. n |-> Cpu(i - 1)])

(* Only the first tree has the migrate call.                               *)
Psci(prod) ==
  Node("psci", <<prop_str("compatible", "arm,psci-1.0"), prop_str("method", "hvc"),
                 prop_cells("cpu_on", 1), prop_cells("cpu_off", 1), prop_cells("cpu_suspend", 1)>>
               \o (IF prod THEN << >> ELSE <<prop_cells("migrate", 1)>>), << >>)

Intc(prod) ==
  LET reg == <<prop_cells("reg", 8)>> IN
  Node("interrupt-controller@8000000",
       <<prop_str("compatible", "arm,gic-v3"), prop_u32("#interrupt-cells", 3),
         prop_empty("interrupt-controller")>>
       \o (IF prod THEN AddressCells(2, 2) \o reg ELSE reg \o AddressCells(2, 2)), << >>)

Timer == Node("timer", <<prop_str("compatible", "arm,armv8-timer"), prop_cells("interrupts", 12),
                         prop_empty("always-on")>>, << >>)

Serial(prod) ==
  LET head == <<prop_cells("reg", 4), prop_cells("interrupts", 3)>> IN
  Node("serial@9000000",
       IF prod
       THEN <<prop_str("compatible", "arm,pl011 arm,primecell")>> \o head
            \o <<prop_cells("clock-frequency", 1), prop_str("clock-names", "uartclk")>>
       ELSE <<prop_str("compatible", "arm,pl011")>> \o head \o <<prop_empty("interrupt-parent")>>,
       << >>)

StdoutPath == "/serial@9000000"

(* The production tree writes both strings without their terminator.       *)
Chosen(c) ==
  Node("chosen",
       IF c.prod
       THEN <<prop_data("bootargs", c.cmdline), prop_data("stdout-path", Len(StdoutPath))>>
            \o (IF c.initrd[1] = 0 THEN << >>
                ELSE <<prop_u64("linux,initrd-start"), prop_u64("linux,initrd-end")>>)
       ELSE <<prop_data("bootargs", c.cmdline + 1), prop_str("stdout-path", StdoutPath)>>,
       << >>)

Fstab(part) ==
  Node(part, <<prop_str("compatible", "android," \o part), prop_str("dev", "/dev/block/by-name/" \o part),
               prop_str("type", "ext4"), prop_str("mntflags", "ro,barrier=1,discard"),
               prop_str("fsmgr_flags", "wait,slotselect,avb,first_stage_mount")>>, << >>)

Firmware ==
  Node("firmware", << >>,
       <<Node("android", <<prop_str("compatible", "android,firmware")>>,
              <<Node("fstab", <<prop_str("compatible", "android,fstab")>>,
                     <<Fstab("system"), Fstab("vendor")>>)>>)>>)

ReservedMemory ==
  Node("reserved-memory", AddressCells(2, 2) \o <<prop_empty("ranges")>>,
       <<Node("ramoops@bfe00000",
              <<prop_str("compatible", "ramoops"), prop_cells("reg", 4), prop_cells("record-size", 1),
                prop_cells("console-size", 1), prop_empty("no-map")>>, << >>)>>)

Tree(c) ==
  Node("", AddressCells(2, 2) \o <<prop_str("compatible", "aether,android-partition")>>,
       <<Memory, Cpus(c.cpus), Psci(c.prod), Intc(c.prod), Timer, Serial(c.prod), Chosen(c)>>
       \o (IF c.prod THEN <<Firmware, ReservedMemory>> ELSE << >>))

(* ------------------------------- the validation ------------------------------- *)

PowerOfTwo(n) == \E k \in 0 .. 30 : n = 2 ^ k

(* AndroidDtbConfig::validate, then ProductionDtbExtras::validate, whose   *)
(* sizes are in KiB here: the error found first, or "none".                *)
DtbValidate(c) ==
  CASE c.cpus = 0 \/ c.cpus > MAX_ANDROID_CPUS -> "TooManyCpus"
    [] c.cmdline > MAX_KERNEL_CMDLINE_LEN -> "CmdlineTooLong"
    [] c.prod /\ ~ PowerOfTwo(c.ramoops) -> "RamoopsSizeNotPowerOfTwo"
    [] c.prod /\ c.ramoops < 128 -> "RamoopsTooSmall"
    [] c.prod /\ ~ PowerOfTwo(c.record) -> "RamoopsRecordSizeNotPowerOfTwo"
    [] c.prod /\ c.ramoops < 2 * c.record -> "RamoopsSizeTooSmallForRecords"
    [] c.prod /\ c.initrd[1] # 0 /\ c.initrd[2] <= c.initrd[1] -> "InitrdRangeInvalid"
    [] OTHER -> "none"

(* --------------------------------- the builder --------------------------------- *)

DtbCap(c) == DtbCaps[IF c.prod THEN "prod" ELSE "android"]

DtbOf(c) ==
  dtb = [cfg |-> c, err |-> DtbValidate(c), calls |-> IF DtbValidate(c) = "none" THEN Tree(c) ELSE << >>,
         struct |-> << >>, struct_len |-> 0, strings |-> << >>, strings_len |-> 0,
         open_nodes |-> 0, out |-> << >>]

DtbInit == \E c \in DtbConfigs : DtbOf(c)

(* An interned name keeps the place of its first use.                      *)
Interned(name) == \E k \in DOMAIN dtb.strings : dtb.strings[k] = name
NameOff(name) == IF Interned(name) THEN SelectInSeq(dtb.strings, LAMBDA s : s = name) ELSE Len(dtb.strings) + 1

(* Bytes a token takes in the structure block, with its padding.           *)
TokenLen(call) ==
  CASE call.op = "begin" -> 4 + Pad4(call.len)
    [] call.op = "end" -> 4
    [] OTHER -> 12 + Pad4(call.len)

Failed(e) == dtb' = [dtb EXCEPT !.err = e, !.calls = << >>]
Token(call, off) == [op |-> call.op, off |-> off, len |-> call.len, val |-> call.val]
Written(call, off) ==
  [dtb EXCEPT !.calls = Tail(@), !.struct = Append(@, Token(call, off)),
              !.struct_len = @ + TokenLen(call)]

Building(op) == dtb.err = "none" /\ dtb.calls # << >> /\ Head(dtb.calls).op = op
Fits(call) == dtb.struct_len + TokenLen(call) <= DtbCap(dtb.cfg)[1]

build_begin_node ==
  /\ Building("begin")
  /\ LET call == Head(dtb.calls) IN
     IF Fits(call) THEN dtb' = [Written(call, 0) EXCEPT !.open_nodes = @ + 1]
     ELSE Failed("DtbStructFull")

build_end_node ==
  /\ Building("end")
  /\ LET call == Head(dtb.calls) IN
     CASE dtb.open_nodes = 0 -> Failed("DtbNoOpenNode")
       [] dtb.open_nodes > 0 /\ ~ Fits(call) -> Failed("DtbStructFull")
       [] OTHER -> dtb' = [Written(call, 0) EXCEPT !.open_nodes = @ - 1]

(* The name is interned before the token is written.                       *)
build_prop ==
  /\ Building("prop")
  /\ LET call == Head(dtb.calls)
         bytes == IF Interned(call.name) THEN 0 ELSE Len(call.name) + 1
     IN CASE dtb.open_nodes = 0 -> Failed("DtbPropertyOutsideNode")
          [] dtb.open_nodes > 0 /\ dtb.strings_len + bytes > DtbCap(dtb.cfg)[2] -> Failed("DtbStringsFull")
          [] dtb.open_nodes > 0 /\ dtb.strings_len + bytes <= DtbCap(dtb.cfg)[2] /\ ~ Fits(call) ->
               Failed("DtbStructFull")
          [] OTHER -> dtb' = [Written(call, NameOff(call.name)) EXCEPT
                                !.strings = IF bytes = 0 THEN @ ELSE Append(@, call.name),
                                !.strings_len = @ + bytes]

(* The lengths and offsets of the header, the blocks, and the end token.   *)
TotalSize == FDT_STRUCT_OFFSET + dtb.struct_len + 4 + dtb.strings_len
finalize_into ==
  /\ dtb.err = "none" /\ dtb.calls = << >> /\ dtb.out = << >>
  /\ CASE dtb.open_nodes # 0 -> Failed("DtbOpenNodesRemain")
       [] dtb.open_nodes = 0 /\ dtb.cfg.out < TotalSize -> Failed("DtbOutputTooSmall")
       [] OTHER -> dtb' = [dtb EXCEPT !.out =
              <<[totalsize |-> TotalSize, off_dt_struct |-> FDT_STRUCT_OFFSET,
                 off_dt_strings |-> FDT_STRUCT_OFFSET + dtb.struct_len + 4,
                 size_dt_struct |-> dtb.struct_len + 4, size_dt_strings |-> dtb.strings_len,
                 struct |-> dtb.struct, strings |-> dtb.strings]>>]

DtbNext == build_begin_node \/ build_end_node \/ build_prop \/ finalize_into
DtbSpec == DtbInit /\ [][DtbNext]_dtb

-------------------------------------------------------------------------------
(* How a kernel reads the blob: token by token, keeping for each open node *)
(* how many cells it declares for an address and for a size of the nodes   *)
(* in it (2 and 1 if it does not say).                                     *)

NameOf(blob, t) ==
  IF t.op = "prop" /\ t.off \in DOMAIN blob.strings THEN blob.strings[t.off] ELSE ""

ReadToken(open, t, name) ==
  LET top == Len(open) IN
  CASE t.op = "begin" -> Append(open, [address |-> 2, size |-> 1])
    [] t.op = "end" -> Front(open)
    [] t.op = "prop" /\ name = "#address-cells" -> [open EXCEPT ![top].address = t.val]
    [] t.op = "prop" /\ name = "#size-cells" -> [open EXCEPT ![top].size = t.val]
    [] OTHER -> open

(* The open nodes after each token.                                        *)
Reading(blob) ==
  LET s == blob.struct
      after[i \in 0 .. Len(s)] ==
        IF i = 0 THEN << >> ELSE ReadToken(after[i - 1], s[i], NameOf(blob, s[i]))
  IN after

(* A property `reg` in the innermost node: whole entries of the node around it. *)
RegFits(open, len) ==
  /\ Len(open) > 1
  /\ LET around == open[Len(open) - 1]
         entry == 4 * (around.address + around.size)
     IN entry # 0 /\ len % entry = 0

(* The tokens as they were asked for, and as they are read back.           *)
CallsMade(calls) ==
  [i \in DOMAIN calls |-> [op |-> calls[i].op, len |-> calls[i].len, val |-> calls[i].val,
                           name |-> IF calls[i].op = "prop" THEN calls[i].name ELSE ""]]
ReadBack(blob) ==
  LET s == blob.struct IN
  [i \in DOMAIN s |-> [op |-> s[i].op, len |-> s[i].len, val |-> s[i].val, name |-> NameOf(blob, s[i])]]

Readable(blob) ==
  LET s == blob.struct
      after == Reading(blob)
  IN
  /\ s # << >> /\ s[1].op = "begin" /\ after[Len(s)] = << >>
  /\ \A i \in 1 .. Len(s) - 1 : after[i] # << >>
  /\ blob.off_dt_strings = blob.off_dt_struct + blob.size_dt_struct
  /\ blob.totalsize = blob.off_dt_strings + blob.size_dt_strings
  /\ \A i \in DOMAIN s : s[i].op = "prop" =>
       /\ s[i].off \in DOMAIN blob.strings
       /\ NameOf(blob, s[i]) = "reg" => RegFits(after[i], s[i].len)

(* A tree that is built is one a kernel can read: every call of the        *)
(* builder is read back from it, with its name found in the strings block, *)
(* its nodes are one tree, its blocks follow each other and fill the blob, *)
(* which fits the output, and every `reg` has as many cells as the node    *)
(* around it says.                                                         *)
DtbReadable ==
  dtb.out # << >> =>
    LET blob == dtb.out[1] IN
    /\ dtb.err = "none" /\ dtb.open_nodes = 0
    /\ blob.totalsize <= dtb.cfg.out
    /\ ReadBack(blob) = CallsMade(Tree(dtb.cfg))
    /\ Readable(blob)
===============================================================================
