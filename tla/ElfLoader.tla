------------------------------ MODULE ElfLoader ------------------------------
(***************************************************************************)
(* load_image (src/common/ld): the ELF images of the loader, the monitor    *)
(* and startap are copied from the package to their place in memory and     *)
(* relocated.  32-bit and 64-bit images take the same steps; they differ    *)
(* in the width of an address and in the relocation tables they may have.   *)
(*                                                                         *)
(* Memory and file consist of units that hold one number: an address, an    *)
(* instruction, or the p_paddr of a program header.  The file header is     *)
(* unit 0.  The image in the package is apart from the memory it is loaded  *)
(* to.  Neither caller asks for section headers or symbol tables.          *)
(***************************************************************************)
EXTENDS Integers, Sequences, FiniteSetsExt

CONSTANTS
  Word,        \* range of size_t and of a 32-bit address
  Page,        \* 4 KB
  Base,        \* image_base_address
  Allocated,   \* allocated_size, which bounds what is read
  Images       \* the files

Uint32(n) == n % Word

Loadable(ph) == ph.type = "LOAD" /\ ph.memsz # 0

\* "make sure we only load what we're supposed to!"
FileSize(ph) == Min({ph.filesz, ph.memsz})

PhdrType == [type : {"LOAD", "DYNAMIC", "other"}, offset : Nat, paddr : Nat,
             filesz : Nat, memsz : Nat]
RelocType == [kind : {"ABS", "RELATIVE", "NONE", "other"}, offset : Nat,
              addend : Nat, st_value : Nat]

Loads(f) == {f.phdrs[i] : i \in {j \in DOMAIN f.phdrs : Loadable(f.phdrs[j])}}

\* low_addr and max_addr of elf32_get_load_info and elf64_get_load_info.
LowAddr(f) == Min({Word - 1} \cup {ph.paddr : ph \in Loads(f)})
MaxAddr(f) == Max({0} \cup {ph.paddr + ph.memsz : ph \in Loads(f)})

\* What a unit of the file can hold.
Limit(f) == IF f.class = "elf32" THEN Word ELSE Word * Word

\* A place of a loaded segment, behind the program headers.
Place(f, p) ==
  /\ \E ph \in Loads(f) : ph.paddr <= p /\ p < ph.paddr + ph.memsz
  /\ p > LowAddr(f) + Len(f.phdrs)

\* The relocations of a table are for different places.
PlacesApart(f, relocs) ==
  \A j \in DOMAIN relocs : relocs[j].kind # "NONE" =>
    /\ Place(f, relocs[j].offset)
    /\ \A k \in DOMAIN relocs \ {j} :
         relocs[k].kind # "NONE" => relocs[k].offset # relocs[j].offset

\* What the linker makes (-pie -static): segments apart, inside the file and
\* the address space; the lowest one begins with the file header, followed by
\* the program headers; an image with relocations is linked at 0, and each of
\* its relocations is for a place of its own.  The last address is not the
\* beginning of a page.
ASSUME ImageAssumption ==
  /\ Page \in Nat \ {0} /\ Word \in Nat /\ Allocated \in Nat
  /\ Base \in 0 .. Word - 1 /\ (Word - 1) % Page # 0
  /\ \A f \in Images :
       /\ f.class \in {"elf32", "elf64", "other"}
       /\ f.type \in {"EXEC", "DYN", "other"}
       /\ f.entry \in Nat
       /\ f.data \in Seq(Nat) /\ f.phdrs \in Seq(PhdrType)
       /\ f.rela \in Seq(RelocType) /\ f.rel \in Seq(RelocType)
       /\ f.symtab \in BOOLEAN /\ f.syment \in BOOLEAN
       /\ \A i \in DOMAIN f.phdrs : f.data[i + 1] = f.phdrs[i].paddr
       /\ \A ph \in Loads(f) :
            /\ ph.offset + ph.filesz <= Len(f.data) /\ ph.offset <= Allocated
            /\ ph.paddr + ph.memsz < Word
            /\ Base + (ph.paddr - LowAddr(f)) + ph.memsz < Word
            /\ ph.paddr = LowAddr(f) =>
                 ph.offset = 0 /\ Len(f.phdrs) < FileSize(ph)
            /\ \A q \in Loads(f) \ {ph} : \/ ph.paddr + ph.memsz <= q.paddr
                                          \/ q.paddr + q.memsz <= ph.paddr
       /\ f.rela # <<>> \/ f.rel # <<>> => Loads(f) # {} /\ LowAddr(f) = 0
       /\ PlacesApart(f, f.rela) /\ PlacesApart(f, f.rel)
       /\ \A j \in DOMAIN f.data : f.data[j] < Limit(f)

VARIABLES
  pc,
  img,        \* the file
  want,       \* the machine type the caller insists on, "any" without a check
  info,       \* elf_load_info_t: start_addr, end_addr, entry_addr, offset
  i,          \* loop counter
  phdr_dyn,   \* index of the PT_DYNAMIC header, 0 for NULL
  table,      \* the relocation table in use
  mem,        \* memory
  entry       \* *p_entry_point_address

vars == <<pc, img, want, info, i, phdr_dyn, table, mem, entry>>

Old    == -1    \* what a unit of memory held before
NoInfo == [start |-> 0, end |-> 0, entry |-> 0, offset |-> 0]

ElfInit ==
  /\ img \in Images
  /\ want \in {"any", "elf32", "elf64"}
  /\ pc = IF want = "any" THEN "load_image" ELSE "get_image_info"
  /\ info = NoInfo /\ i = 1 /\ phdr_dyn = 0 /\ table = "none"
  /\ mem = [a \in 0 .. Word - 1 |-> Old]
  /\ entry = 0

-----------------------------------------------------------------------------
\* mem_image_read and mem_image_map_to_mem: "read no more than size".
Readable(offset, n) ==
  IF Uint32(offset + n) > Allocated THEN Uint32(Allocated - offset) ELSE n

\* elf32_header_is_valid, elf64_header_is_valid: magic, class and machine.
HeaderIsValid(f) == Readable(0, 1) = 1 /\ f.class \in {"elf32", "elf64"}

\* elf32_get_load_info, elf64_get_load_info: whether they succeed.
GetLoadInfo(f) ==
  /\ f.type \in {"EXEC", "DYN"}
  /\ Readable(1, Len(f.phdrs)) = Len(f.phdrs)
  /\ LowAddr(f) % Page = 0

ElfGetLoadInfo(f) == HeaderIsValid(f) /\ GetLoadInfo(f)

Fail == pc' = "FALSE"

\* get_image_info, and what the callers demand of it.
GetImageInfo ==
  /\ pc = "get_image_info"
  /\ IF /\ ElfGetLoadInfo(img) /\ img.class = want
        /\ MaxAddr(img) - LowAddr(img) # 0
     THEN pc' = "load_image" ELSE Fail
  /\ UNCHANGED <<img, want, info, i, phdr_dyn, table, mem, entry>>

\* load_elf_image up to elf_load_executable: the addresses of the header ...
LoadElfImage ==
  /\ pc = "load_image"
  /\ IF ElfGetLoadInfo(img)
     THEN /\ pc' = "load_executable"
          /\ info' = [start |-> LowAddr(img), end |-> MaxAddr(img),
                      entry |-> img.entry, offset |-> 0]
     ELSE Fail /\ UNCHANGED info
  /\ UNCHANGED <<img, want, i, phdr_dyn, table, mem, entry>>

\* ... are moved to the place where the image is loaded.
ElfLoadExecutable ==
  /\ pc = "load_executable"
  /\ pc' = "segments"
  /\ info' = LET offset == Base - info.start
             IN  [start |-> info.start + offset, end |-> info.end + offset,
                  entry |-> info.entry + offset, offset |-> offset]
  /\ UNCHANGED <<img, want, i, phdr_dyn, table, mem, entry>>

-----------------------------------------------------------------------------
\* Memory m after a copy of n units of the file, or after n zeros.
Copied(m, dest, offset, n) ==
  [a \in DOMAIN m |-> IF Uint32(a - dest) < n
                      THEN img.data[offset + Uint32(a - dest) + 1] ELSE m[a]]

Zeroed(m, dest, n) ==
  [a \in DOMAIN m |-> IF Uint32(a - dest) < n THEN 0 ELSE m[a]]

SkipSegment ==
  /\ pc = "segments" /\ i <= Len(img.phdrs)
  /\ ~Loadable(img.phdrs[i])
  /\ phdr_dyn' = IF img.phdrs[i].type = "DYNAMIC" THEN i ELSE phdr_dyn
  /\ i' = i + 1
  /\ UNCHANGED <<pc, img, want, info, table, mem, entry>>

\* Mutation: p_filesz units are copied, however large the segment is.
LoadSegmentUnclamped ==
  /\ pc = "segments" /\ i <= Len(img.phdrs)
  /\ LET ph   == img.phdrs[i]
         dest == Uint32(ph.paddr + info.offset)
         n    == Readable(ph.offset, ph.filesz)
         m    == Copied(mem, dest, ph.offset, n)
     IN  /\ Loadable(ph)
         /\ IF n # ph.filesz
            THEN Fail /\ mem' = m /\ UNCHANGED i
            ELSE /\ mem' = Zeroed(m, Uint32(dest + n), ph.memsz - n)
                 /\ i' = i + 1 /\ UNCHANGED pc
  /\ UNCHANGED <<img, want, info, phdr_dyn, table, entry>>

\* Mutation: the memory after the part that is in the file is not cleared.
LoadSegmentNoBss ==
  /\ pc = "segments" /\ i <= Len(img.phdrs)
  /\ LET ph   == img.phdrs[i]
         dest == Uint32(ph.paddr + info.offset)
         n    == Readable(ph.offset, FileSize(ph))
     IN  /\ Loadable(ph)
         /\ mem' = Copied(mem, dest, ph.offset, n)
         /\ IF n # FileSize(ph) THEN Fail /\ UNCHANGED i
                                ELSE i' = i + 1 /\ UNCHANGED pc
  /\ UNCHANGED <<img, want, info, phdr_dyn, table, entry>>

\* One PT_LOAD segment: the units in the file are copied, also when the file is
\* too short, and the rest of the segment is zeroed.
LoadSegment ==
  /\ pc = "segments" /\ i <= Len(img.phdrs)
  /\ LET ph   == img.phdrs[i]
         dest == Uint32(ph.paddr + info.offset)
         n    == Readable(ph.offset, FileSize(ph))
         m    == Copied(mem, dest, ph.offset, n)
     IN  /\ Loadable(ph)
         /\ IF n # FileSize(ph)
            THEN Fail /\ mem' = m /\ UNCHANGED i
            ELSE /\ mem' = Zeroed(m, Uint32(dest + n), ph.memsz - n)
                 /\ i' = i + 1 /\ UNCHANGED pc
  /\ UNCHANGED <<img, want, info, phdr_dyn, table, entry>>

\* An address in an image has the width of its class.
Value(n) == IF img.class = "elf32" THEN Uint32(n) ELSE n % (Word * Word)

\* The program headers of the loaded image, those of empty segments excepted.
UpdateHeaders ==
  /\ pc = "segments" /\ i > Len(img.phdrs)
  /\ mem' = [a \in DOMAIN mem |->
               IF \E j \in DOMAIN img.phdrs :
                     a = Uint32(info.start + j) /\ img.phdrs[j].memsz # 0
               THEN Value(mem[a] + info.offset) ELSE mem[a]]
  /\ pc' = IF phdr_dyn = 0 THEN "TRUE" ELSE "relocation"
  /\ entry' = IF phdr_dyn = 0 THEN info.entry ELSE entry
  /\ UNCHANGED <<img, want, info, i, phdr_dyn, table>>

-----------------------------------------------------------------------------
RelaUsable == img.rela # <<>> /\ img.symtab /\ img.syment
RelUsable  == img.class = "elf32" /\ img.rel # <<>> /\ img.symtab

\* elf32_do_relocation, elf64_do_relocation: the tables the dynamic section
\* names.  A 32-bit image may have either, and RELA is preferred.
FindTables ==
  /\ pc = "relocation"
  /\ LET ph == img.phdrs[phdr_dyn]
     IN  IF /\ Readable(ph.offset, ph.filesz) = ph.filesz
            /\ RelaUsable \/ RelUsable
         THEN /\ pc' = "relocate" /\ i' = 1
              /\ table' = IF RelaUsable THEN "RELA" ELSE "REL"
         ELSE Fail /\ UNCHANGED <<i, table>>
  /\ UNCHANGED <<img, want, info, phdr_dyn, mem, entry>>

Symbol(r) == IF r.kind = "ABS" THEN r.st_value ELSE 0

\* *target_addr, as wide as an address of the image's class.
Patch(r, value) ==
  mem' = [mem EXCEPT ![Uint32(r.offset + info.offset)] = Value(value)]

\* An entry with an explicit addend.
RelocateRela ==
  /\ pc = "relocate" /\ table = "RELA" /\ i <= Len(img.rela)
  /\ LET r == img.rela[i]
     IN  IF r.kind = "other"
         THEN Fail /\ UNCHANGED <<mem, i>>
         ELSE /\ IF r.kind = "NONE" THEN UNCHANGED mem
                 ELSE Patch(r, r.addend + info.offset + Symbol(r))
              /\ i' = i + 1 /\ UNCHANGED pc
  /\ UNCHANGED <<img, want, info, phdr_dyn, table, entry>>

\* An entry whose addend is what the place holds.
RelocateRel ==
  /\ pc = "relocate" /\ table = "REL" /\ i <= Len(img.rel)
  /\ LET r == img.rel[i]
     IN  IF r.kind \in {"NONE", "other"}
         THEN Fail /\ UNCHANGED <<mem, i>>
         ELSE /\ Patch(r, mem[Uint32(r.offset + info.offset)]
                            + info.offset + Symbol(r))
              /\ i' = i + 1 /\ UNCHANGED pc
  /\ UNCHANGED <<img, want, info, phdr_dyn, table, entry>>

Relocs == IF table = "RELA" THEN img.rela ELSE img.rel

\* The entry point is stored when everything is done.
Loaded ==
  /\ pc = "relocate" /\ i > Len(Relocs)
  /\ pc' = "TRUE"
  /\ entry' = info.entry
  /\ UNCHANGED <<img, want, info, i, phdr_dyn, table, mem>>

ElfStep ==
  \/ GetImageInfo \/ LoadElfImage \/ ElfLoadExecutable
  \/ SkipSegment \/ LoadSegment \/ UpdateHeaders
  \/ FindTables \/ RelocateRela \/ RelocateRel \/ Loaded

ElfDone == pc \in {"TRUE", "FALSE"} /\ UNCHANGED vars

ElfSpec == ElfInit /\ [][ElfStep \/ ElfDone]_vars

-----------------------------------------------------------------------------
\* Counters in the range of their loops, and memory that holds addresses of the
\* image's class.
ElfTypeOK ==
  /\ pc \in {"get_image_info", "load_image", "load_executable", "segments",
             "relocation", "relocate", "TRUE", "FALSE"}
  /\ i \in 1 .. Max({Len(img.phdrs), Len(img.rela), Len(img.rel)}) + 1
  /\ phdr_dyn \in 0 .. Len(img.phdrs)
  /\ \A a \in DOMAIN mem : mem[a] \in Old .. Value(-1)

(***************************************************************************)
(* What a loaded image is: the unit linked at address p holds what the file *)
(* has for it, or 0, and if it is an address, that address moved by as much *)
(* as the image.                                                           *)
(***************************************************************************)
Moved(f) == Base - LowAddr(f)

InSegment(ph, p) == ph.paddr <= p /\ p < ph.paddr + ph.memsz

SegmentOf(f, p) == CHOOSE ph \in Loads(f) : InSegment(ph, p)

Linked(f, p) ==
  LET ph == SegmentOf(f, p)
  IN  IF p - ph.paddr < FileSize(ph) THEN f.data[ph.offset + p - ph.paddr + 1]
                                     ELSE 0

IsHeader(f, p) == \E j \in DOMAIN f.phdrs :
                    p = LowAddr(f) + j /\ f.phdrs[j].memsz # 0

\* An address, moved if it is one of a program header.
Unpatched(f, p) == Linked(f, p) + (IF IsHeader(f, p) THEN Moved(f) ELSE 0)

Patches(p) == {r \in {Relocs[j] : j \in DOMAIN Relocs} :
                 r.offset = p /\ r.kind # "NONE"}

Expected(p) ==
  IF phdr_dyn # 0 /\ Patches(p) # {}
  THEN LET r == CHOOSE r \in Patches(p) : TRUE
       IN  (IF table = "RELA" THEN r.addend ELSE Linked(img, p))
             + Moved(img) + Symbol(r)
  ELSE Unpatched(img, p)

\* load_image returns TRUE only for an image that is loaded: every unit of every
\* segment holds what the file and its relocations say, zeroed memory and the
\* moved program headers included, and the entry point moved with them.
ImageLoaded ==
  pc = "TRUE" =>
    /\ entry = img.entry + Moved(img)
    /\ \A ph \in Loads(img) : \A p \in ph.paddr .. ph.paddr + ph.memsz - 1 :
         mem[p + Moved(img)] = Value(Expected(p))

\* Nothing is written outside the memory that the headers announce and
\* get_image_info reports as load_size, whether the load succeeds or fails.
WritesInLoadSize ==
  \A a \in DOMAIN mem :
    mem[a] # Old => Base <= a /\ a < Base + MaxAddr(img) - LowAddr(img)
=============================================================================
