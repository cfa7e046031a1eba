----------------------------- MODULE GuestLaunch -----------------------------
(***************************************************************************)
(* After the launch of the monitor the boot processor resumes, now as a     *)
(* guest, in load_primary_guest_kernel (src/pre_os/xmon_loader/             *)
(* primary_guest.c): the monitor is hidden (MemoryMap) and                  *)
(* launch_linux_kernel (linux_loader.c) starts the kernel that the boot     *)
(* loader passed as a module.  A failure returns to an endless loop.        *)
(* Addresses and sizes are in sectors of 512 bytes.                        *)
(***************************************************************************)
EXTENDS MemoryMap

CONSTANTS
  Page,          \* 4 KB
  Td,            \* the package; the loader occupies Td .. HideAddr - 1
  HeaderSize,    \* sizeof(linux_kernel_header_t), rounded up
  ModuleLists,   \* the modules the boot loader may pass
  Beyond,        \* what the memory after the module list may hold
  Headers        \* the setup headers a kernel image may have

DEFAULT_SECTOR_NUM == 4
MAX_SECTOR_NUM     == 64
MVMLINUZ           == 0
MINITRD            == 1
E820_RESERVED_MEM  == 2
E820_BAD_MEM       == 5
E820MAX            == 128
MemLimit           == Word32     \* 0x100000000ULL

NoModule == [mod_start |-> 0, mod_end |-> 0, cmdline |-> 0]
None     == [base |-> 0, size |-> 0]

ModuleType == [mod_start : Nat, mod_end : Nat, cmdline : Nat]
HeaderType ==
  [setup_sects : 0 .. 255, magic : BOOLEAN, load_high : BOOLEAN,
   version_210 : BOOLEAN, relocatable : BOOLEAN, init_size : Nat,
   initrd_addr_max : Nat, cmdline_size : Nat]

ASSUME LaunchAssumption ==
  /\ Page \in Nat \ {0} /\ Td \in Nat /\ Td < HideAddr /\ HeaderSize \in Nat \ {0}
  /\ ModuleLists \subseteq Seq(ModuleType)
  /\ Beyond \subseteq ModuleType
  /\ Headers \subseteq HeaderType

VARIABLES
  mods, beyond,   \* the modules, and the 16 bytes after the list
  hdr,            \* setup_hdr of the kernel image
  kernel, initrd, \* base and size of the two images
  ram,            \* the region get_highest_sized_ram found
  initrd_base, protected_mode_base,
  ramdisk,        \* ramdisk_image, ramdisk_size
  boot_e820       \* e820_map of boot_params

launchVars == <<mods, beyond, hdr, kernel, initrd, ram, initrd_base,
                protected_mode_base, ramdisk, boot_e820>>
vars == <<pc, mapVars, launchVars>>

\* The boot loader puts a module into available memory, off the package.
Placed(m) ==
  \/ m.mod_start = m.mod_end
  \/ /\ m.mod_end <= Td \/ HideAddr + HideSize <= m.mod_start
     /\ \E i \in DOMAIN mmap :
          /\ mmap[i].type = MULTIBOOT_MEMORY_AVAILABLE
          /\ mmap[i].addr <= m.mod_start /\ m.mod_end <= End(mmap[i])

LaunchInit ==
  /\ MapInit /\ pc = "hide"
  /\ mods \in ModuleLists /\ beyond \in Beyond /\ hdr \in Headers
  /\ memmap => \A i \in DOMAIN mods : Placed(mods[i])
  /\ kernel = None /\ initrd = None /\ ram = None
  /\ initrd_base = 0 /\ protected_mode_base = 0
  /\ ramdisk = None /\ boot_e820 = <<>>

PageAlign(n)     == Uint32(n + Page - 1) - (Uint32(n + Page - 1) % Page)
PageAlignDown(n) == n - (n % Page)

-----------------------------------------------------------------------------
\* get_mbi_module(mbi, midx): an index equal to mods_count passes the test.
GetMbiModule(midx) ==
  CASE Len(mods) = 0 \/ midx > Len(mods) -> NoModule
    [] midx < Len(mods)                  -> mods[midx + 1]
    [] OTHER                             -> beyond

\* The AVAILABLE entries get_highest_sized_ram looks at: those before the first
\* one that ends above the limit.
Examined(m, limit) ==
  {i \in DOMAIN m :
     \A j \in 1 .. i : m[j].type = MULTIBOOT_MEMORY_AVAILABLE
                         => Uint64(End(m[j])) <= limit}

\* Those of them that are large enough.
Fitting(m, size, limit) ==
  {i \in Examined(m, limit) :
     m[i].type = MULTIBOOT_MEMORY_AVAILABLE /\ size <= m[i].len}

\* Mutation: the first entry that fits is taken.
GetFirstSizedRam(m, size, limit) ==
  LET fit == {i \in Fitting(m, size, limit) : m[i].addr > 0}
  IN  IF fit = {} THEN None
      ELSE LET i == CHOOSE i \in fit : \A j \in fit : i <= j
           IN  [base |-> m[i].addr, size |-> m[i].len]

\* get_highest_sized_ram: of equal bases the first; base 0 is "none".
GetHighestSizedRam(m, size, limit) ==
  LET fit == {i \in Fitting(m, size, limit) : m[i].addr > 0}
  IN  IF fit = {} THEN None
      ELSE LET i == CHOOSE i \in fit :
                      \A j \in fit : \/ m[j].addr < m[i].addr
                                     \/ m[j].addr = m[i].addr /\ i <= j
           IN  [base |-> m[i].addr, size |-> m[i].len]

Image(m) == [base |-> m.mod_start, size |-> Uint32(m.mod_end - m.mod_start)]

HasInitrd == initrd.base # 0 /\ initrd.size # 0

\* The checks of expand_linux_image before anything is allocated.
HeaderOk ==
  /\ kernel.base # 0 /\ kernel.size # 0 /\ kernel.size >= HeaderSize
  /\ hdr.setup_sects <= MAX_SECTOR_NUM
  /\ hdr.magic /\ hdr.load_high

Fail == pc' = "spin"

\* launch_linux_kernel: the kernel, and the initrd if there is one.
LaunchLinuxKernel ==
  /\ pc = "launch"
  /\ IF GetMbiModule(MVMLINUZ) = NoModule
     THEN Fail /\ UNCHANGED <<kernel, initrd>>
     ELSE /\ pc' = "header"
          /\ kernel' = Image(GetMbiModule(MVMLINUZ))
          /\ initrd' = Image(GetMbiModule(MINITRD))
  /\ UNCHANGED <<mapVars, mods, beyond, hdr, ram, initrd_base,
                 protected_mode_base, ramdisk, boot_e820>>

\* expand_linux_image up to the allocation; setup_sects 0 means 4.
CheckHeader ==
  /\ pc = "header"
  /\ IF HeaderOk THEN pc' = "alloc" ELSE Fail
  /\ hdr' = IF kernel.base # 0 /\ kernel.size >= HeaderSize /\ hdr.setup_sects = 0
            THEN [hdr EXCEPT !.setup_sects = DEFAULT_SECTOR_NUM] ELSE hdr
  /\ UNCHANGED <<mapVars, mods, beyond, kernel, initrd, ram, initrd_base,
                 protected_mode_base, ramdisk, boot_e820>>

\* boot_params and the command line from the heap, then the version.
AllocBootParams(room) ==
  /\ pc = "alloc"
  /\ pc' = IF ~room \/ ~hdr.version_210 THEN "spin"
           ELSE IF HasInitrd THEN "place" ELSE "relocatable"
  /\ UNCHANGED <<mapVars, launchVars>>

\* Mutation: the initrd is put at the top of the memory, whatever the kernel's
\* limit is.
PlaceInitrdNoMax ==
  /\ pc = "place"
  /\ ram' = GetHighestSizedRam(mmap, initrd.size, MemLimit)
  /\ IF ram' = None
     THEN Fail /\ UNCHANGED initrd_base
     ELSE /\ initrd_base' = PageAlignDown(Uint32(ram'.base + ram'.size - initrd.size))
          /\ pc' = "relocatable"
  /\ UNCHANGED <<mapVars, mods, beyond, hdr, kernel, initrd, protected_mode_base,
                 ramdisk, boot_e820>>

\* As high as possible in available memory, then below initrd_addr_max.
PlaceInitrd ==
  /\ pc = "place"
  /\ ram' = GetHighestSizedRam(mmap, initrd.size, MemLimit)
  /\ IF ram'.base = 0 \/ ram'.size = 0
     THEN Fail /\ UNCHANGED initrd_base
     ELSE LET top == PageAlignDown(Uint32(ram'.base + ram'.size - initrd.size))
          IN  /\ pc' = "relocatable"
              /\ initrd_base' =
                   IF Uint32(top + initrd.size) > hdr.initrd_addr_max
                   THEN PageAlignDown(Uint32(hdr.initrd_addr_max - initrd.size))
                   ELSE top
  /\ UNCHANGED <<mapVars, mods, beyond, hdr, kernel, initrd, protected_mode_base,
                 ramdisk, boot_e820>>

\* A relocatable kernel runs where the boot loader put it.
CheckRelocatable ==
  /\ pc = "relocatable"
  /\ IF hdr.relocatable
     THEN /\ pc' = "copy"
          /\ protected_mode_base' = Uint32(kernel.base + hdr.setup_sects + 1)
     ELSE Fail /\ UNCHANGED protected_mode_base
  /\ UNCHANGED <<mapVars, mods, beyond, hdr, kernel, initrd, ram, initrd_base,
                 ramdisk, boot_e820>>

\* The end of the memory the protected mode kernel needs.
ProtectedEnd == Uint32(protected_mode_base + PageAlign(hdr.init_size))

Overlap(r, s) == r.base < s.base + s.size /\ s.base < r.base + r.size

\* mon_memcpy to r overwrites a byte of s; past 4 GB the copy goes on at 0.
Overwrites(r, s) == Overlap(r, s) \/ Overlap(r, [s EXCEPT !.base = @ + Word32])

\* Mutation: the copy goes downwards.
CopyIntactDown(r, src) == ~(r.base < src.base /\ src.base < r.base + src.size)

\* The copy goes upwards: into the source itself it repeats the first bytes.
CopyIntact(r, src) == ~(src.base < r.base /\ r.base < src.base + src.size)

\* What the rest of the launch needs: the running loader, with its heap that holds
\* the new map and boot_params, and the setup header of the kernel image.  (mbi and
\* what the boot loader put beside it are taken to lie elsewhere, in low memory.)
Loader == [base |-> Td, size |-> HideAddr - Td]
Needed == {Loader, [base |-> kernel.base, size |-> HeaderSize]}

\* mon_memcpy and the ramdisk fields.  A copy over what the launch needs does not
\* return to this code.
StoreInitrd ==
  LET r == [base |-> initrd_base, size |-> initrd.size]
  IN  /\ ramdisk' = r
      /\ pc' = IF \E s \in Needed : Overwrites(r, s) THEN "overwritten" ELSE "cmdline"

NoInitrd == pc' = "cmdline" /\ ramdisk' = None

\* Mutation: the test of the overlap is left out.
CopyInitrdUnchecked ==
  /\ pc = "copy"
  /\ IF HasInitrd THEN StoreInitrd ELSE NoInitrd
  /\ UNCHANGED <<mapVars, mods, beyond, hdr, kernel, initrd, ram, initrd_base,
                 protected_mode_base, boot_e820>>

\* "make sure no overlap", then mon_memcpy to initrd_base.
CopyInitrd ==
  /\ pc = "copy"
  /\ IF ~HasInitrd THEN NoInitrd
     ELSE IF ProtectedEnd > initrd_base THEN Fail /\ UNCHANGED ramdisk
     ELSE StoreInitrd
  /\ UNCHANGED <<mapVars, mods, beyond, hdr, kernel, initrd, ram, initrd_base,
                 protected_mode_base, boot_e820>>

\* A command line longer than the kernel accepts fails.
CopyCmdline ==
  /\ pc = "cmdline"
  /\ IF GetMbiModule(MVMLINUZ).cmdline > hdr.cmdline_size
     THEN Fail ELSE pc' = "boot_params"
  /\ UNCHANGED <<mapVars, launchVars>>

\* Mutation: bad memory keeps its type.
BootEntryBad(e) == e

\* Bad memory is reserved for the kernel.
BootEntry(e) ==
  [e EXCEPT !.type = IF @ = E820_BAD_MEM THEN E820_RESERVED_MEM ELSE @]

\* setup_boot_params
SetupBootParams ==
  /\ pc = "boot_params"
  /\ IF memmap
     THEN /\ pc' = "jump"
          /\ boot_e820' = [i \in DOMAIN mmap |-> BootEntry(mmap[i])]
     ELSE Fail /\ UNCHANGED boot_e820
  /\ UNCHANGED <<mapVars, mods, beyond, hdr, kernel, initrd, ram, initrd_base,
                 protected_mode_base, ramdisk>>

\* jump_linux_image: the kernel has the processor.
JumpLinuxImage ==
  /\ pc = "jump"
  /\ pc' = "kernel"
  /\ UNCHANGED <<mapVars, launchVars>>

LaunchStep ==
  \/ HideRuntimeMemory /\ UNCHANGED launchVars
  \/ LaunchLinuxKernel \/ CheckHeader
  \/ \E room \in BOOLEAN : AllocBootParams(room)
  \/ PlaceInitrd \/ CheckRelocatable \/ CopyInitrd \/ CopyCmdline
  \/ SetupBootParams \/ JumpLinuxImage

LaunchDone == pc \in {"kernel", "spin", "overwritten"} /\ UNCHANGED vars

LaunchSpec == LaunchInit /\ [][LaunchStep \/ LaunchDone]_vars

-----------------------------------------------------------------------------
LaunchTypeOK ==
  /\ MapTypeOK
  /\ pc \in {"hide", "walk", "launch", "header", "alloc", "place", "relocatable",
             "copy", "cmdline", "boot_params", "jump", "kernel", "spin",
             "overwritten"}
  /\ hdr \in HeaderType
  /\ {kernel, initrd, ramdisk} \subseteq [base : 0 .. Word32 - 1, size : 0 .. Word32 - 1]
  /\ {initrd_base, protected_mode_base} \subseteq 0 .. Word32 - 1

Within(r, p) == r.base <= p /\ p < r.base + r.size

Monitor == [base |-> HideAddr, size |-> HideSize]

\* The kernel starts with a map that says of every byte what the boot loader
\* said, but RESERVED for bad memory and, if the hiding succeeded, for startap
\* and the monitor: if the entries fit e820_map (linux_loader.h:158).  A launch
\* whose initrd went over the heap with the new map does not get here.
BootMapFaithful ==
  pc = "kernel" /\ Len(boot_e820) <= E820MAX =>
    \A p \in Cuts(orig) \cup Cuts(boot_e820) :
      TypesAt(boot_e820, p) =
        IF hide_ret = "TRUE" /\ InHidden(p) THEN {E820_RESERVED_MEM}
        ELSE {IF t = E820_BAD_MEM THEN E820_RESERVED_MEM ELSE t : t \in TypesAt(orig, p)}

\* The monitor is hidden, and the region found begins with a page, ends below
\* 4 GB and reaches low enough for the kernel.  Nothing in linux_loader.c:303-315
\* tests this: the move below initrd_addr_max is not confined to the region.
InitrdRoom ==
  /\ hide_ret = "TRUE"
  /\ ram.base % Page = 0 /\ ram.base + ram.size < Word32
  /\ ram.base + initrd.size <= hdr.initrd_addr_max

\* An initrd for which there is room is copied to pages of available memory, clear
\* of the monitor, that end below initrd_addr_max (linux_loader.c:303-315).
InitrdInRam ==
  ramdisk # None /\ InitrdRoom =>
    /\ ramdisk.base % Page = 0
    /\ ramdisk.base + ramdisk.size <= hdr.initrd_addr_max
    /\ ~Overlap(ramdisk, Monitor)
    /\ \A p \in {q \in Cuts(orig) \cup {ramdisk.base} : Within(ramdisk, q)} :
         TypesAt(orig, p) = {MULTIBOOT_MEMORY_AVAILABLE}

\* The initrd ends below this address.
InitrdLimit == IF ram.base + ram.size <= hdr.initrd_addr_max
               THEN ram.base + ram.size ELSE hdr.initrd_addr_max

\* The module lies low enough below the limit, or reaches up to it.
SourceClear ==
  \/ initrd.base + 2 * initrd.size + Page <= InitrdLimit
  \/ InitrdLimit <= initrd.base + initrd.size

\* The ramdisk that the kernel starts with holds the bytes of the module, though
\* mon_memcpy (common.c:32) copies upwards without regard to an overlap and the
\* module may lie in the region its copy goes to: if there is room, and the module
\* does not lie just below the place of its copy.
RamdiskIntact ==
  pc = "kernel" /\ ramdisk # None /\ InitrdRoom /\ SourceClear
    => CopyIntact(ramdisk, initrd)

\* No sum in the test of the overlap exceeds 32 bits (linux_loader.c:338): the
\* kernel needs no memory beyond 4 GB.
KernelFits == kernel.base + hdr.setup_sects + 1 + hdr.init_size + Page <= Word32

\* "make sure no overlap between initrd and protected mode kernel code"
\* (linux_loader.c:337): the copy touches none of the init_size bytes the kernel
\* needs where it lies.
InitrdSparesKernel ==
  ramdisk # None /\ KernelFits =>
    ~Overlap(ramdisk, [base |-> protected_mode_base, size |-> hdr.init_size])

FitsBelow(e) == /\ e.type = MULTIBOOT_MEMORY_AVAILABLE
                /\ End(e) <= MemLimit /\ initrd.size <= e.len

\* The break at the first AVAILABLE entry above the limit (linux_loader.c:73-75)
\* hides no entry that fits when the map is sorted or has no such entry.
SearchComplete ==
  \/ Sorted(orig)
  \/ \A i \in DOMAIN mmap : mmap[i].type = MULTIBOOT_MEMORY_AVAILABLE
                              => End(mmap[i]) <= MemLimit

\* "find highest (less than <limit>) RAM region of at least <size> bytes"
\* (linux_loader.c:52): the region found is one that fits, and, if the search is
\* complete, none that fits lies higher.  "do not assume the base is always larger"
\* (:78) promises that of every map; of an unsorted one with memory above 4 GB the
\* break defeats it.
HighestRam ==
  [][pc = "place" =>
       /\ SearchComplete =>
            \A i \in DOMAIN mmap : FitsBelow(mmap[i]) => mmap[i].addr <= ram'.base
       /\ ram' = None \/ \E i \in DOMAIN mmap :
            FitsBelow(mmap[i]) /\ ram' = [base |-> mmap[i].addr, size |-> mmap[i].len]]_vars

\* "module not exist" (linux_loader.c:40): a ramdisk is one of the modules.
RamdiskIsModule == ramdisk # None => Len(mods) > MINITRD

\* The copy of the initrd leaves the running loader and boot_params alone, though
\* their memory is AVAILABLE in the map (xmon_desc.h:85), if a region beyond the
\* monitor can take the initrd, the search is complete and the kernel accepts the
\* initrd there.
InitrdSparesLoader ==
  /\ ramdisk # None /\ SearchComplete
  /\ HideAddr + HideSize + ramdisk.size + Page <= hdr.initrd_addr_max
  /\ \E i \in DOMAIN mmap : FitsBelow(mmap[i]) /\ mmap[i].addr >= HideAddr + HideSize
  => ~Overlap(ramdisk, Loader)
=============================================================================
