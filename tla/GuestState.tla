------------------------------ MODULE GuestState ------------------------------
(***************************************************************************)
(* What starter_main saves of the processor for the guest that the monitor  *)
(* will start (src/pre_os/starter/starter_main.c): save_cpu_state reads the *)
(* segment registers and looks their descriptors up in the GDT, since the   *)
(* hidden parts of the registers cannot be read.                           *)
(*                                                                         *)
(* A processor is a record: gdt, the nonzero descriptors of the GDT, by     *)
(* index; entries, the number of all of them as gdtr.limit gives it         *)
(* (limit = 8 * entries - 1); beyond, what the memory after the table reads *)
(* as; sel, the selectors; ldtr; and hidden, for each register the segment  *)
(* in its hidden part, seg, and whether that is a 32-bit segment, big,      *)
(* which only the properties may look at.                                  *)
(***************************************************************************)
EXTENDS Integers

CONSTANTS
  Granule    \* 4096, the unit of a limit with the granularity bit

SegmentRegs == {"CS", "DS", "ES", "FS", "GS", "SS"}

Selector(index)  == [index |-> index, ti |-> FALSE]
NullDescriptor   ==
  [present |-> FALSE, s |-> FALSE, tss |-> FALSE, bit21 |-> FALSE, big |-> FALSE,
   code |-> FALSE, base |-> 0, limit |-> 0, granularity |-> FALSE, access |-> "none"]

\* mon_segment_struct_t as mon_memset leaves it.
NoSegment ==
  [base |-> 0, limit |-> 0, access |-> "none", selector |-> Selector(0)]

\* The eight bytes at gdtr.base + 8 * index, in the table or beyond it.
Descriptor(cpu, index) ==
  IF index \in DOMAIN cpu.gdt THEN cpu.gdt[index]
  ELSE IF index < cpu.entries THEN NullDescriptor ELSE cpu.beyond

\* Mutation: the default size of a segment is not looked at.
ValidateAnySize(d) ==
  /\ d.present /\ ~d.bit21
  /\ d.s \/ d.tss

\* validate_descriptor: a present 32-bit code or data segment, or a system
\* descriptor with the fixed bits of a TSS.
ValidateDescriptor(d) ==
  /\ d.present /\ ~d.bit21
  /\ IF d.s THEN d.big ELSE d.tss

\* The limit in bytes.
SegmentLimit(d) ==
  IF d.granularity THEN d.limit * Granule + Granule - 1 ELSE d.limit

\* save_segment_data.  The index is divided by the size of a descriptor before
\* it is compared with the last entry of the GDT, so that up to eight times the
\* table is read.
SaveSegmentData(cpu, sel) ==
  LET max == (8 * cpu.entries - 1) \div 8
      d   == Descriptor(cpu, sel.index)
  IN  IF sel.index = 0 \/ sel.index \div 8 > max \/ sel.ti \/ ~ValidateDescriptor(d)
      THEN NoSegment
      ELSE [base |-> d.base, limit |-> SegmentLimit(d), access |-> d.access,
            selector |-> sel]

\* save_cpu_state: with an LDT in use it returns before the segments.
SavedSegments(cpu) ==
  [r \in SegmentRegs |->
     IF cpu.ldtr.index # 0 THEN NoSegment ELSE SaveSegmentData(cpu, cpu.sel[r])]

-----------------------------------------------------------------------------
\* The selector names the null segment, the LDT or an entry of the GDT.  The others
\* were loaded from a table that GDTR no longer describes.
InTable(cpu, r) == cpu.sel[r].ti \/ cpu.sel[r].index \in 0 .. cpu.entries - 1

\* What the processor guarantees of a register that was loaded from the GDT as it
\* still is: the descriptor was a present code or data segment, with bit 21 clear
\* outside 64-bit mode, and the hidden part is its copy.
Loaded(cpu, r) ==
  LET sel == cpu.sel[r]
      d   == Descriptor(cpu, sel.index)
  IN  ~sel.ti /\ sel.index \in 1 .. cpu.entries - 1 =>
        /\ d.present /\ d.s /\ ~d.bit21
        /\ cpu.hidden[r] = [big |-> d.big,
                            seg |-> [base |-> d.base, limit |-> SegmentLimit(d),
                                     access |-> d.access, selector |-> sel]]

\* The registers whose segment a guest can be started with, by what the register
\* itself holds: a 32-bit segment of the GDT.
Usable(cpu, r) ==
  /\ ~cpu.sel[r].ti
  /\ cpu.sel[r].index \in 1 .. cpu.entries - 1
  /\ cpu.hidden[r].big
=============================================================================
