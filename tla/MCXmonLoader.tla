----------------------------- MODULE MCXmonLoader -----------------------------
(***************************************************************************)
(* XmonLoader for TLC, with the sizes of the real layout.  The heap has 160 *)
(* pages: 8 are for the map, the GDT and the tables, so that 76 APs have    *)
(* stacks and leave nothing for the kernel, 75 leave two pages, 77 to 79    *)
(* leave too little for the tables and 80 too little for the stacks.        *)
(* Limits with the granularity bit are in units of 16 bytes.                *)
(***************************************************************************)
EXTENDS XmonLoader, TLC

Code32 == [NullDescriptor EXCEPT !.present = TRUE, !.s = TRUE, !.big = TRUE,
             !.code = TRUE, !.limit = 1048575, !.granularity = TRUE,
             !.access = "code"]
Data32 == [Code32 EXCEPT !.code = FALSE, !.access = "data"]
Data16 == [Data32 EXCEPT !.big = FALSE, !.limit = 65535, !.granularity = FALSE]
Small  == [Data32 EXCEPT !.base = 4096, !.limit = 8191, !.granularity = FALSE]
Ldt    == [NullDescriptor EXCEPT !.present = TRUE, !.limit = 63, !.access = "ldt"]

\* What the hidden parts hold after a load of these descriptors.
FlatCode(sel)  == [big |-> TRUE, seg |-> [base |-> 0, limit |-> 16777215,
                                          access |-> "code", selector |-> sel]]
FlatData(sel)  == [big |-> TRUE, seg |-> [base |-> 0, limit |-> 16777215,
                                          access |-> "data", selector |-> sel]]
RealData(sel)  == [big |-> FALSE, seg |-> [base |-> 0, limit |-> 65535,
                                           access |-> "data", selector |-> sel]]
SmallData(sel) == [big |-> TRUE, seg |-> [base |-> 4096, limit |-> 8191,
                                          access |-> "data", selector |-> sel]]
Unloaded       == [big |-> FALSE, seg |-> NoSegment]

OneData(cs, ds) == [r \in SegmentRegs |-> IF r = "CS" THEN cs ELSE ds]

\* 0x10 and 0x18, as GRUB's relocator sets them; the last entry is in use.
Relocator ==
  [gdt |-> 2 :> Code32 @@ 3 :> Data32, entries |-> 4, ldtr |-> Selector(0),
   sel |-> OneData(Selector(2), Selector(3)),
   hidden |-> OneData(FlatCode(Selector(2)), FlatData(Selector(3))),
   beyond |-> NullDescriptor, mem |-> TRUE, memmap |-> TRUE, mmap_entries |-> 6]

\* 0x8 and 0x10, segments of the real mode left in FS and none in GS, and the
\* longest map that is accepted.
CodeFirst ==
  [Relocator EXCEPT
     !.gdt = 1 :> Code32 @@ 2 :> Data32 @@ 4 :> Data16, !.entries = 5,
     !.sel = [OneData(Selector(1), Selector(2)) EXCEPT !["FS"] = Selector(4),
                                                       !["GS"] = Selector(0)],
     !.hidden = [OneData(FlatCode(Selector(1)), FlatData(Selector(2)))
                   EXCEPT !["FS"] = RealData(Selector(4)), !["GS"] = Unloaded],
     !.mmap_entries = 170]

\* The largest GDT, its last entry in use and loaded.
LargeGdt ==
  [Relocator EXCEPT
     !.gdt = 2 :> Code32 @@ 3 :> Data32 @@ 509 :> Small, !.entries = 510,
     !.sel["GS"] = Selector(509), !.hidden["GS"] = SmallData(Selector(509))]

\* An LDT in use; the last entry of the GDT is free, and there is no memory map.
WithLdt ==
  [Relocator EXCEPT
     !.gdt = 2 :> Code32 @@ 3 :> Data32 @@ 4 :> Ldt, !.entries = 6,
     !.ldtr = Selector(4), !.sel["ES"] = [index |-> 1, ti |-> TRUE],
     !.hidden["ES"] = SmallData([index |-> 1, ti |-> TRUE]), !.memmap = FALSE]

\* FS was loaded from an earlier, longer table; where that lay there is now memory
\* that reads as another descriptor.
Stale ==
  [Relocator EXCEPT
     !.beyond = Data32, !.sel["FS"] = Selector(20),
     !.hidden["FS"] = SmallData(Selector(20)), !.mmap_entries = 1]

MCBootStates ==
  {Relocator, CodeFirst, LargeGdt, WithLdt, Stale,
   [Relocator EXCEPT !.mmap_entries = 171],
   [Relocator EXCEPT !.mem = FALSE]}

OneBootState == {Relocator}

MCByteRequests ==
  {MmapLength(b) + 2 * MapEntrySize : b \in MCBootStates}
    \cup {Uint32(BootParamsSize + n) : n \in CmdlineSizes}
=============================================================================
