------------------------------ MODULE MemoryMap ------------------------------
(***************************************************************************)
(* hide_runtime_memory (src/pre_os/xmon_loader/e820.c): the multiboot       *)
(* memory map is copied, entry by entry, into memory of the loader's heap,  *)
(* and the entry that holds startap and the monitor is split so that the    *)
(* kernel finds their memory RESERVED.  mbi is redirected to the copy only  *)
(* when the walk reaches the end of the map.                               *)
(*                                                                         *)
(* Entries have the size the boot loader gives them, sizeof(mmap->size)     *)
(* less than multiboot_memory_map_t, so that the walk by mmap->size and the *)
(* later walks by index visit the same entries.                            *)
(***************************************************************************)
EXTENDS Integers, Sequences

CONSTANTS
  Word32, Word64,      \* ranges of uint32_t and uint64_t, in the address unit
  Maps,                \* the memory maps a boot loader may pass
  HideAddr, HideSize   \* STARTAP_BASE(td), STARTAP_SIZE + XMON_SIZE(td)

MULTIBOOT_MEMORY_AVAILABLE == 1
MULTIBOOT_MEMORY_RESERVED  == 2

Entry(addr, len, type) == [addr |-> addr, len |-> len, type |-> type]
End(e) == e.addr + e.len

Apart(e, f) == End(e) <= f.addr \/ End(f) <= e.addr

\* The entries of a map do not overlap, and the memory from which the monitor
\* runs is reported: some entry holds its first byte.
ASSUME MapAssumption ==
  /\ Word32 \in Nat \ {0} /\ Word64 \in Nat \ {0} /\ Word32 <= Word64
  /\ HideAddr \in Nat /\ HideSize \in Nat \ {0} /\ HideAddr + HideSize < Word32
  /\ Maps \subseteq Seq([addr : Nat, len : Nat, type : 1 .. 5])
  /\ \A m \in Maps :
       /\ \A i \in DOMAIN m : End(m[i]) < Word64
       /\ \A i, j \in DOMAIN m : i # j => Apart(m[i], m[j])
       /\ \E i \in DOMAIN m : m[i].addr <= HideAddr /\ HideAddr < End(m[i])

VARIABLES
  pc,
  memmap,       \* MBI_MEMMAP of mbi->flags
  mmap,         \* the map at mbi->mmap_addr, mbi->mmap_length
  newmmap,      \* the entries newmmap_addr[0 .. entry_idx - 1]
  at,           \* the entry of mmap the walk is at, 0 before it begins
  hide_ret,     \* what hide_runtime_memory returned
  orig          \* history: the map the boot loader passed

mapVars == <<memmap, mmap, newmmap, at, hide_ret, orig>>

\* A boot loader that has no map leaves the flag and the fields 0.
MapInit ==
  /\ memmap \in BOOLEAN
  /\ mmap \in IF memmap THEN Maps ELSE {<<>>}
  /\ newmmap = <<>> /\ at = 0
  /\ hide_ret = "none"
  /\ orig = mmap

Uint32(n) == n % Word32
Uint64(n) == n % Word64

HideEnd == Uint32(HideAddr + HideSize)

-----------------------------------------------------------------------------
HideReturns(value) == pc' = "launch" /\ hide_ret' = value

\* No valid map, or no memory for two entries more than the map has.
HideRefused(room) ==
  /\ pc = "hide"
  /\ ~memmap \/ ~room
  /\ HideReturns("FALSE")
  /\ UNCHANGED <<memmap, mmap, newmmap, at, orig>>

HideBegin ==
  /\ pc = "hide"
  /\ memmap
  /\ pc' = "walk"
  /\ newmmap' = <<>> /\ at' = 1
  /\ UNCHANGED <<memmap, mmap, hide_ret, orig>>

\* "do not modify it"
Untouched(e) == Uint64(End(e)) <= HideAddr \/ HideEnd <= e.addr

\* The part before the hidden memory and the hidden memory.
Split(e) ==
  <<Entry(e.addr, Uint64(HideAddr - e.addr), e.type),
    Entry(HideAddr, HideSize, MULTIBOOT_MEMORY_RESERVED)>>

\* The part after it, unless the entry ends with it.
Rest(e) ==
  IF HideEnd < Uint64(End(e))
  THEN <<Entry(HideEnd, Uint64(End(e)) - HideEnd, e.type)>> ELSE <<>>

\* Mutation: the part of the entry after the hidden memory is lost.
SplitEntryNoRest ==
  /\ pc = "walk" /\ at <= Len(mmap)
  /\ LET e == mmap[at] IN
       /\ ~Untouched(e) /\ e.type = MULTIBOOT_MEMORY_AVAILABLE
       /\ newmmap' = newmmap \o Split(e)
       /\ IF HideEnd > Uint64(End(e))
          THEN HideReturns("FALSE") /\ UNCHANGED at
          ELSE at' = at + 1 /\ UNCHANGED <<pc, hide_ret>>
  /\ UNCHANGED <<memmap, mmap, orig>>

\* Mutation: memory that ends with the entry is taken for crossing it.
SplitEntryStrict ==
  /\ pc = "walk" /\ at <= Len(mmap)
  /\ LET e == mmap[at] IN
       /\ ~Untouched(e) /\ e.type = MULTIBOOT_MEMORY_AVAILABLE
       /\ newmmap' = newmmap \o Split(e) \o Rest(e)
       /\ IF HideEnd >= Uint64(End(e))
          THEN HideReturns("FALSE") /\ UNCHANGED at
          ELSE at' = at + 1 /\ UNCHANGED <<pc, hide_ret>>
  /\ UNCHANGED <<memmap, mmap, orig>>

\* Mutation: memory that crosses the end of the entry is hidden in every entry
\* it reaches.
SplitEntryNoCrossing ==
  /\ pc = "walk" /\ at <= Len(mmap)
  /\ LET e == mmap[at] IN
       /\ ~Untouched(e) /\ e.type = MULTIBOOT_MEMORY_AVAILABLE
       /\ newmmap' = newmmap \o Split(e) \o Rest(e)
       /\ at' = at + 1 /\ UNCHANGED <<pc, hide_ret>>
  /\ UNCHANGED <<memmap, mmap, orig>>

CopyEntry ==
  /\ pc = "walk" /\ at <= Len(mmap)
  /\ Untouched(mmap[at])
  /\ newmmap' = Append(newmmap, mmap[at])
  /\ at' = at + 1
  /\ UNCHANGED <<pc, memmap, mmap, hide_ret, orig>>

\* "the type of memory to hide is not AVAILABLE"
RefuseEntry ==
  /\ pc = "walk" /\ at <= Len(mmap)
  /\ ~Untouched(mmap[at]) /\ mmap[at].type # MULTIBOOT_MEMORY_AVAILABLE
  /\ HideReturns("FALSE")
  /\ UNCHANGED <<memmap, mmap, newmmap, at, orig>>

\* The two entries are written before "crossing two E820 entries" is tested.
SplitEntry ==
  /\ pc = "walk" /\ at <= Len(mmap)
  /\ LET e == mmap[at] IN
       /\ ~Untouched(e) /\ e.type = MULTIBOOT_MEMORY_AVAILABLE
       /\ newmmap' = newmmap \o Split(e) \o Rest(e)
       /\ IF HideEnd > Uint64(End(e))
          THEN HideReturns("FALSE") /\ UNCHANGED at
          ELSE at' = at + 1 /\ UNCHANGED <<pc, hide_ret>>
  /\ UNCHANGED <<memmap, mmap, orig>>

\* mbi is redirected to the new map, with the exact number of entries.
HideDone ==
  /\ pc = "walk" /\ at > Len(mmap)
  /\ HideReturns("TRUE")
  /\ mmap' = newmmap
  /\ UNCHANGED <<memmap, newmmap, at, orig>>

HideRuntimeMemory ==
  \/ \E room \in BOOLEAN : HideRefused(room)
  \/ HideBegin \/ CopyEntry \/ RefuseEntry \/ SplitEntry \/ HideDone

\* hide_runtime_memory on its own.
HideInit == MapInit /\ pc = "hide"

Hidden == pc = "launch" /\ UNCHANGED <<pc, mapVars>>

HideSpec == HideInit /\ [][HideRuntimeMemory \/ Hidden]_<<pc, mapVars>>

-----------------------------------------------------------------------------
MapTypeOK ==
  /\ memmap \in BOOLEAN
  /\ mmap \in Seq([addr : 0 .. Word64 - 1, len : 0 .. Word64 - 1, type : 1 .. 5])
  /\ newmmap \in Seq([addr : 0 .. Word64 - 1, len : 0 .. Word64 - 1, type : 1 .. 5])
  /\ at \in 0 .. Len(orig) + 1
  /\ hide_ret \in {"none", "TRUE", "FALSE"}

\* The types a map gives to the byte at p.
TypesAt(m, p) ==
  {m[i].type : i \in {j \in DOMAIN m : m[j].addr <= p /\ p < End(m[j])}}

\* Where the type of a byte can change: two maps that agree there agree on
\* every byte.
Cuts(m) == {m[i].addr : i \in DOMAIN m} \cup {End(m[i]) : i \in DOMAIN m}
             \cup {HideAddr, HideAddr + HideSize}

InHidden(p) == HideAddr <= p /\ p < HideAddr + HideSize

\* mbi holds the map of the boot loader, or, once TRUE is returned, a map that
\* gives RESERVED, and nothing else, to the hidden memory and to every other
\* byte what the boot loader's map gave: no RAM is lost, invented or hidden.
MapWholeOrHidden ==
  IF hide_ret = "TRUE"
  THEN \A p \in Cuts(orig) \cup Cuts(mmap) :
         TypesAt(mmap, p) = IF InHidden(p) THEN {MULTIBOOT_MEMORY_RESERVED}
                                           ELSE TypesAt(orig, p)
  ELSE mmap = orig

\* "add space for two more entries for boundary case" (e820.c:225): a walk of a
\* map that is sorted by address writes no entry past the block it allocated.
\* (Of an unsorted one it may: two adjacent entries, the higher one first.)
Sorted(m) == \A i, j \in DOMAIN m : i < j => m[i].addr <= m[j].addr

EntriesFit == Sorted(orig) => Len(newmmap) <= Len(orig) + 2

\* The walk fails only when it must: memory inside one AVAILABLE entry is hidden.
HidesWhatItCan ==
  (hide_ret = "FALSE" /\ at > 0) =>
    ~ \E i \in DOMAIN orig :
        /\ orig[i].type = MULTIBOOT_MEMORY_AVAILABLE
        /\ orig[i].addr <= HideAddr /\ HideAddr + HideSize <= End(orig[i])
=============================================================================
