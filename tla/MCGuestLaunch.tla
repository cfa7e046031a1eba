---------------------------- MODULE MCGuestLaunch ----------------------------
(* Real sizes, in sectors: a package at 256 MB, the monitor from STARTAP_BASE  *)
(* to 6 MB after it, and the maps, modules and headers of several machines.  *)
EXTENDS GuestLaunch

MB == 2048
GB == 1024 * MB

MCTd       == 256 * MB
MCHideAddr == MCTd + 2000
MCHideSize == 6 * MB - 2000

Low  == Entry(0, 1278, 1)
Bios == Entry(1920, 128, 2)
Ram(from, to)      == Entry(from, to - from, 1)
Reserved(from, to) == Entry(from, to - from, 2)

\* 3 GB below the hole and 4 GB above it, with a bad page; 1 GB; and a monitor
\* that ends with its region.
MCPc    == <<Low, Bios, Ram(MB, 3 * GB), Entry(3 * GB, 8, 5),
             Reserved(3 * GB + 8, 4 * GB), Ram(4 * GB, 8 * GB)>>
MCSmall == <<Low, Bios, Ram(MB, 1 * GB), Reserved(4 * GB - 4 * MB, 4 * GB)>>
MCTight == <<Low, Bios, Ram(MB, 262 * MB), Reserved(262 * MB, 300 * MB),
             Ram(300 * MB, 700 * MB)>>
\* No hole below 4 GB: one region crosses the limit.
MCFlat  == <<Low, Bios, Ram(MB, 5 * GB)>>
\* Unsorted: memory above 4 GB comes first, so that the search ends at once; and
\* two regions below 4 GB, the higher one first.
MCHighFirst == <<Ram(4 * GB, 5 * GB), Low, Bios, Ram(MB, 1 * GB)>>
MCDownwards == <<Ram(300 * MB, 700 * MB), Reserved(262 * MB, 300 * MB),
                 Ram(MB, 262 * MB), Bios, Low>>
MCMaps == {MCPc, MCSmall, MCTight, MCFlat, MCHighFirst, MCDownwards}

Module(start, size, cmdline) ==
  [mod_start |-> start, mod_end |-> start + size, cmdline |-> cmdline]

MCKernel == Module(32 * MB, 8 * MB, 100)
MCInitrd == Module(64 * MB, 20 * MB, 0)

\* No module; kernel and initrd; a long command line; a large initrd; a kernel
\* that is none; a kernel close to the end of 1 GB; an empty initrd; an initrd less than
\* its size below the end of 1 GB, and one that ends there.
MCModuleLists ==
  {<<>>, <<MCKernel, MCInitrd>>, <<Module(32 * MB, 8 * MB, 3000), MCInitrd>>,
   <<MCKernel, Module(300 * MB, 400 * MB, 0)>>, <<Module(32 * MB, 1, 100), MCInitrd>>,
   <<Module(1000 * MB, 8 * MB, 100), MCInitrd>>, <<MCKernel, Module(0, 0, 0)>>,
   <<MCKernel, Module(990 * MB, 20 * MB, 0)>>, <<MCKernel, Module(1004 * MB, 20 * MB, 0)>>}

MCKernelOnly == {<<MCKernel>>}
MCNothing   == {NoModule}
MCAnything  == {NoModule, Module(300 * MB, 7, 12)}

MCHeader ==
  [setup_sects |-> 0, magic |-> TRUE, load_high |-> TRUE, version_210 |-> TRUE,
   relocatable |-> TRUE, init_size |-> 24 * MB, initrd_addr_max |-> 2 * GB - 1,
   cmdline_size |-> 2047]

\* One header of each kind the loader refuses, and six it accepts: one of them
\* wants the initrd lower than any region of MCTight that takes it, one where a
\* module may lie, and one needs so much memory that the end of the kernel wraps.
MCHeaders ==
  {MCHeader, [MCHeader EXCEPT !.setup_sects = 30],
   [MCHeader EXCEPT !.initrd_addr_max = 4 * GB - 1],
   [MCHeader EXCEPT !.initrd_addr_max = 290 * MB],
   [MCHeader EXCEPT !.initrd_addr_max = 1014 * MB],
   [MCHeader EXCEPT !.init_size = 4 * GB - 10 * MB],
   [MCHeader EXCEPT !.setup_sects = 65], [MCHeader EXCEPT !.magic = FALSE],
   [MCHeader EXCEPT !.load_high = FALSE], [MCHeader EXCEPT !.version_210 = FALSE],
   [MCHeader EXCEPT !.relocatable = FALSE]}

MCOneHeader == {MCHeader}
=============================================================================
