------------------------------ MODULE XmonLoader ------------------------------
(***************************************************************************)
(* From the boot loader's jump to the monitor: starter_main and             *)
(* run_xmon_loader (src/pre_os/starter), xmon_loader with the GDT and the   *)
(* page tables of the 64-bit mode (src/pre_os/xmon_loader), and the switch  *)
(* to that mode (src/startap/x32_init64.c, wakeup_init64.S), on the memory  *)
(* layout of xmon_desc.h and the heap of LoaderHeap.  One processor runs,   *)
(* every stage may fail, and there are three ways to fail: xmon_loader      *)
(* returns and starter_main cleans up, an assertion spins where it is, or   *)
(* an exception ends in a handler.  After the monitor is up the loader runs *)
(* once more, as a guest, on the same heap.                                *)
(***************************************************************************)
EXTENDS LoaderHeap, GuestState, Sequences, FiniteSets

CONSTANTS
  HalfWord,       \* 2^16
  XmonIdt,        \* address of xmon_idt, in the loader image
  Td,             \* address of the package, xmon_desc_t *td
  PkgSize,        \* XMON_PKG_SIZE(td)
  LoaderStart,    \* td->xmon_loader_start * 512
  CpuidCounts,    \* what CPUID.1:EBX[23:16] may hold
  BootStates,     \* what a boot loader may leave: a processor of GuestState and
                  \* the multiboot fields mem (flags & 3), memmap (flags & 64)
                  \* and mmap_entries (mmap_length / 24)
  Exceptions,     \* the vectors of the exceptions that may come at any time
  CmdlineSizes    \* cmdline_size of the kernels

\* The macros of xmon_desc.h.
GUEST1_SIZE      == 1024
XMON_LOADER_SIZE == 65536
STARTAP_SIZE     == 12288
GUEST1_BASE      == Td + PkgSize
XMON_LOADER_BASE == AlignForward(GUEST1_BASE + GUEST1_SIZE)
STARTAP_BASE     == HeapBase + HeapSize
XMON_BASE        == STARTAP_BASE + STARTAP_SIZE

\* Sizes of the structures the loader fills: an entry of either kind of memory
\* map, the count before the monitor's map, boot_params_t.
MapEntrySize    == 24
MapHeaderSize   == 4
BootParamsSize  == 4096
XMON_CS_SELECTOR == Selector(2)    \* 0x10

MmapLength(b) == MapEntrySize * b.mmap_entries

\* The layout lies below 4 GB, 2048 frames of 2 MB, and the heap is the one of the
\* layout and serves the requests made of it.  cmdline_size is any uint32_t.
ASSUME LayoutAssumption ==
  /\ PageSize = 4096 /\ STARTAP_BASE \div 2097152 < 2048
  /\ Td \in Nat /\ PkgSize \in Nat /\ LoaderStart \in 0 .. PkgSize
  /\ GUEST1_BASE + GUEST1_SIZE + PageSize <= Word /\ XMON_BASE <= Word
  /\ HeapBase = XMON_LOADER_BASE + XMON_LOADER_SIZE
  /\ HalfWord \in Nat /\ HalfWord * HalfWord = Word
  /\ XmonIdt \in XMON_LOADER_BASE .. HeapBase - 1
  /\ CpuidCounts \subseteq 0 .. 255 /\ CmdlineSizes \subseteq 0 .. Word - 1
  /\ Exceptions \subseteq 0 .. 31
  /\ {1, 2} \subseteq PageRequests
  /\ \A b \in BootStates : MmapLength(b) + 2 * MapEntrySize \in ByteRequests
  /\ \A n \in CmdlineSizes : Uint32(BootParamsSize + n) \in ByteRequests

\* The boot loader leaves a GDT, of the null descriptor and at least one other, whose
\* copy with two entries more fits a page.
ASSUME BootAssumption ==
  \A b \in BootStates :
    /\ b.entries \in 2 .. (PageSize \div 8) - 2 /\ b.mmap_entries \in Nat
    /\ DOMAIN b.gdt \subseteq 0 .. b.entries - 1
    /\ \A r \in SegmentRegs : b.sel[r].index \in Nat /\ Loaded(b, r)

VARIABLES
  pc,           \* the stage
  boot,         \* the processor and the multiboot information at entry
  loaded,       \* the images load_image has put in place
  guest,        \* the guest state at GUEST1_BASE: RIP, RCX and the segments
  idt,          \* IDTR: the base and how many gates; the selector in those of xmon_idt
  e820,         \* e820_addr, and the number of entries written there
  env,          \* whether setup_env filled mon_startup_struct_t
  num_of_aps,
  i32_esp,      \* init32.i32_esp[0 .. i-1]
  gdt,          \* the 64-bit GDT: address, entries, contents, the code selector
  pt,           \* the pages of the tables: PML4, PDPT, then the PDs
  tables,       \* their entries: page -> index -> page, or 2 MB frame in a PD
  p_init32,     \* the argument of the call of startap
  cpu,          \* what the switch to 64-bit mode changes in the processor
  newmmap_addr, \* the copy of the map that hide_runtime_memory makes
  boot_params,  \* boot_params and the command line, with the size they need
  cleared       \* the bytes the error path of starter_main zeroes

starterVars == <<boot, guest, cleared>>
imageVars   == <<loaded, env, idt, e820>>
launchVars  == <<num_of_aps, i32_esp, gdt, pt, p_init32>>
switchVars  == <<tables, cpu>>
linuxVars   == <<newmmap_addr, boot_params>>
loaderVars  == <<starterVars, imageVars, launchVars, switchVars,
                linuxVars>>
vars        == <<pc, loaderVars, heapVars>>

NoBlock == Block(NULL, 0)
NoGdt   == [base |-> NULL, entries |-> 0, table |-> <<>>, cs |-> 0]
NoIdt   == [base |-> NULL, gates |-> 0, selector |-> Selector(0)]
NoCpu   == [gdtr |-> NULL, cr3 |-> NULL, pae |-> FALSE, lme |-> FALSE, lma |-> FALSE,
            cs |-> 0]
NoE820  == [base |-> NULL, entries |-> 0]

\* The stages that run with the IDT of xmon_loader, and where the processor stays.
IdtStages ==
  {"e820", "xmon_info", "xmon_load", "startap_info", "startap_load", "guest_env",
   "cpuid", "stacks", "gdt64", "pt64", "startap", "write_cr3", "write_cr4",
   "write_efer", "set_lme", "set_pg", "lret"}
Ends == {"halted", "assert", "breakpoint", "reset", "lost", "fault", "linux", "spin"}

LoaderTypeOK ==
  /\ TypeOK
  /\ pc \in {"starter_main", "check_vmx", "run_xmon_loader", "idt", "xmon",
            "error", "hide", "launch", "boot_params", "expand"} \cup IdtStages \cup Ends
  /\ boot \in BootStates
  /\ loaded \subseteq {"xmon_loader", "xmon", "startap"}
  /\ guest.rip \in {"zero", "eip0", "primary_guest_entry"}
  /\ guest.rcx \in {"zero", "ecx", "td"}
  /\ DOMAIN guest.seg = SegmentRegs
  /\ env \in BOOLEAN
  /\ num_of_aps \in 0 .. 254
  /\ i32_esp \in Seq(Nat) /\ Len(i32_esp) <= num_of_aps
  /\ pt \in Seq(Nat) /\ Len(pt) <= 6
  /\ p_init32 \in {"none", "null", "init32"}
  /\ DOMAIN tables = {pt[i] : i \in DOMAIN pt}

LoaderInit ==
  /\ Init
  /\ pc = "starter_main"
  /\ boot \in BootStates
  /\ loaded = {}
  /\ guest = [rip |-> "zero", rcx |-> "zero", seg |-> [r \in SegmentRegs |-> NoSegment]]
  /\ idt = NoIdt /\ e820 = NoE820 /\ env = FALSE
  /\ num_of_aps = 0 /\ i32_esp = <<>>
  /\ gdt = NoGdt /\ pt = <<>>
  /\ p_init32 = "none"
  /\ tables = <<>> /\ cpu = NoCpu
  /\ newmmap_addr = NoBlock /\ boot_params = NoBlock
  /\ cleared = NoBlock

-----------------------------------------------------------------------------
(***************************************************************************)
(* starter_main and run_xmon_loader.                                       *)
(***************************************************************************)

\* The guest area is cleared, then the boot loader's registers are saved.
SaveCpuState ==
  /\ pc = "starter_main"
  /\ pc' = "check_vmx"
  /\ guest' = [rip |-> "eip0", rcx |-> "ecx", seg |-> SavedSegments(boot)]
  /\ UNCHANGED <<boot, cleared, imageVars, launchVars, switchVars, linuxVars, heapVars>>

\* No VT, or locked with VMX off.
CheckVmxSupport(supported) ==
  /\ pc = "check_vmx"
  /\ pc' = IF supported THEN "run_xmon_loader" ELSE "error"
  /\ UNCHANGED <<loaderVars, heapVars>>

RunXmonLoader(ok) ==
  /\ pc = "run_xmon_loader"
  /\ IF ok THEN pc' = "idt" /\ loaded' = loaded \cup {"xmon_loader"}
           ELSE pc' = "error" /\ UNCHANGED loaded
  /\ UNCHANGED <<starterVars, env, idt, e820, launchVars, switchVars, linuxVars, heapVars>>

\* Mutation: only the image of the loader is cleaned, not its heap.
CleanMemoryNoHeap ==
  /\ pc = "error"
  /\ pc' = "halted"
  /\ cleared' = Block(Td + LoaderStart, HeapBase - Td - LoaderStart)
  /\ UNCHANGED <<boot, guest, imageVars, launchVars, switchVars, linuxVars, heapVars>>

\* "clean memory": from the packaged loader image, HEAP_BASE + HEAP_SIZE less
\* the offset of that image bytes.
CleanMemory ==
  /\ pc = "error"
  /\ pc' = "halted"
  /\ cleared' = Block(Td + LoaderStart, HeapBase + HeapSize - LoaderStart)
  /\ UNCHANGED <<boot, guest, imageVars, launchVars, switchVars, linuxVars, heapVars>>

-----------------------------------------------------------------------------
(***************************************************************************)
(* xmon_loader.  A return leads back to starter_main's error path.          *)
(***************************************************************************)

\* What lidt takes for the base from an ia32_descriptor_t: the structure is not
\* packed, so that base is at offset 4, after two bytes of padding that are zero in
\* static storage, and lidt reads the base from offset 2.
LidtBase(base) == (base % HalfWord) * HalfWord

\* setup_idt: the first 32 gates are filled and lie inside the limit, all with
\* the code selector 0x10; then lidt.
SetupIdt ==
  /\ pc = "idt"
  /\ pc' = "e820"
  /\ idt' = [base |-> LidtBase(XmonIdt), gates |-> 32, selector |-> XMON_CS_SELECTOR]
  /\ UNCHANGED <<starterVars, loaded, env, e820, launchVars, switchVars, linuxVars, heapVars>>

\* The descriptors the selectors name: the boot loader's until lgdt.
Gdt == IF cpu.gdtr = NULL THEN boot.gdt ELSE gdt.table

\* The gate of the vector is one of xmon_idt and leads to code.  In long mode the
\* processor takes the table for one with gates of 16 bytes.
HandlerReached(vector) ==
  /\ idt.base = XmonIdt /\ vector < idt.gates /\ ~cpu.lma
  /\ idt.selector.index \in DOMAIN Gdt
  /\ LET d == Gdt[idt.selector.index] IN d.present /\ d.s /\ d.code

\* An exception or an NMI before the monitor runs: its handler prints the error and stops
\* in MON_UP_BREAKPOINT.  Without a handler the processor shuts down, or goes where
\* the memory that it takes for the gate leads.
Exception(vector) ==
  /\ pc \in IdtStages
  /\ pc' \in IF HandlerReached(vector) THEN {"breakpoint"} ELSE {"reset", "lost"}
  /\ UNCHANGED <<loaderVars, heapVars>>

\* Mutation: the length of the map is not compared with the page.
GetE820TableAnyLength ==
  /\ pc = "e820"
  /\ IF ~boot.mem
     THEN pc' = "error" /\ UNCHANGED <<e820, heapVars>>
     ELSE /\ MonPageAlloc(1)
          /\ IF PageAllocResult(1) = NULL
             THEN pc' = "error" /\ UNCHANGED e820
             ELSE /\ pc' = "xmon_info"
                  /\ e820' = [base |-> PageAllocResult(1), entries |-> boot.mmap_entries]
  /\ UNCHANGED <<starterVars, loaded, env, idt, launchVars, switchVars, linuxVars>>

\* get_e820_table: no usable map, no page, or the map is converted into a page.
GetE820Table ==
  /\ pc = "e820"
  /\ IF ~boot.mem \/ MmapLength(boot) > 4096
     THEN pc' = "error" /\ UNCHANGED <<e820, heapVars>>
     ELSE /\ MonPageAlloc(1)
          /\ IF PageAllocResult(1) = NULL
             THEN pc' = "error" /\ UNCHANGED e820
             ELSE /\ pc' = "xmon_info"
                  /\ e820' = [base |-> PageAllocResult(1), entries |-> boot.mmap_entries]
  /\ UNCHANGED <<starterVars, loaded, env, idt, launchVars, switchVars, linuxVars>>

\* get_image_info: the status, the machine type and load_size decide.
GetImageInfo(stage, next, usable) ==
  /\ pc = stage
  /\ pc' = IF usable THEN next ELSE "error"
  /\ UNCHANGED <<loaderVars, heapVars>>

LoadImage(stage, next, image, ok) ==
  /\ pc = stage
  /\ IF ok THEN pc' = next /\ loaded' = loaded \cup {image}
           ELSE pc' = "error" /\ UNCHANGED loaded
  /\ UNCHANGED <<starterVars, env, idt, e820, launchVars, switchVars, linuxVars, heapVars>>

\* setup_primary_guest_env: the return address and td in RCX.
SetupPrimaryGuestEnv ==
  guest' = [guest EXCEPT !.rip = "primary_guest_entry", !.rcx = "td"]

\* The saved state is redirected, then setup_env fills the monitor's structures.
SetupEnv ==
  /\ pc = "guest_env"
  /\ pc' = "cpuid"
  /\ SetupPrimaryGuestEnv
  /\ env' = TRUE
  /\ UNCHANGED <<boot, cleared, loaded, idt, e820, launchVars, switchVars, linuxVars, heapVars>>

\* CPUID.1:EBX[23:16] less one, at least 0.
CountAps(count) ==
  /\ pc = "cpuid"
  /\ pc' = "stacks"
  /\ num_of_aps' = IF count - 1 < 0 THEN 0 ELSE count - 1
  /\ UNCHANGED <<starterVars, imageVars, i32_esp, gdt, pt, p_init32, switchVars, linuxVars,
                 heapVars>>

\* Mutation: the loop stops before the last AP.
AllocStackOneShort ==
  /\ pc = "stacks"
  /\ IF Len(i32_esp) + 1 >= num_of_aps
     THEN pc' = "gdt64" /\ UNCHANGED <<i32_esp, heapVars>>
     ELSE /\ MonPageAlloc(2)
          /\ IF PageAllocResult(2) = NULL
             THEN pc' = "error" /\ UNCHANGED i32_esp
             ELSE /\ i32_esp' = Append(i32_esp, PageAllocResult(2) + 2 * PageSize)
                  /\ UNCHANGED pc
  /\ UNCHANGED <<starterVars, imageVars, num_of_aps, gdt, pt, p_init32, switchVars, linuxVars>>

\* Mutation: a failed allocation is tried again.
AllocStackRetries ==
  /\ pc = "stacks"
  /\ IF Len(i32_esp) = num_of_aps
     THEN pc' = "gdt64" /\ UNCHANGED <<i32_esp, heapVars>>
     ELSE /\ MonPageAlloc(2)
          /\ UNCHANGED pc
          /\ i32_esp' = IF PageAllocResult(2) = NULL THEN i32_esp
                        ELSE Append(i32_esp, PageAllocResult(2) + 2 * PageSize)
  /\ UNCHANGED <<starterVars, imageVars, num_of_aps, gdt, pt, p_init32, switchVars, linuxVars>>

\* One iteration of the loop that gives every AP a stack of two pages; esp is
\* the end of the block.
AllocStack ==
  /\ pc = "stacks"
  /\ IF Len(i32_esp) = num_of_aps
     THEN pc' = "gdt64" /\ UNCHANGED <<i32_esp, heapVars>>
     ELSE /\ MonPageAlloc(2)
          /\ IF PageAllocResult(2) = NULL
             THEN pc' = "error" /\ UNCHANGED i32_esp
             ELSE /\ i32_esp' = Append(i32_esp, PageAllocResult(2) + 2 * PageSize)
                  /\ UNCHANGED pc
  /\ UNCHANGED <<starterVars, imageVars, num_of_aps, gdt, pt, p_init32, switchVars, linuxVars>>

\* The table f with v stored at x.
With(f, x, v) == [i \in DOMAIN f \cup {x} |-> IF i = x THEN v ELSE f[i]]

\* The descriptors of the 64-bit mode, L set and D clear.
Code64 == [NullDescriptor EXCEPT !.present = TRUE, !.s = TRUE, !.code = TRUE,
             !.bit21 = TRUE, !.granularity = TRUE, !.access = "code64"]
Data64 == [Code64 EXCEPT !.code = FALSE, !.access = "data64"]

\* The GDT copied, with those descriptors from cs on.
Extended(table, cs) == With(With(table, cs, Code64), cs + 1, Data64)

\* Mutation: the last entry is replaced even when it is in use.
Gdt64SetupReplaces ==
  /\ pc = "gdt64"
  /\ MonPageAlloc(1)
  /\ IF PageAllocResult(1) = NULL
     THEN pc' = "assert" /\ UNCHANGED gdt
     ELSE /\ pc' = "pt64"
          /\ gdt' = [base |-> PageAllocResult(1), entries |-> boot.entries + 2,
                     table |-> Extended(boot.gdt, boot.entries - 1),
                     cs |-> boot.entries - 1]
  /\ UNCHANGED <<starterVars, imageVars, num_of_aps, i32_esp, pt, p_init32, switchVars, linuxVars>>

\* x32_gdt64_setup: the descriptors follow the last entry, or the first replaces
\* it when it is free (zero); the limit grows by two entries.
Gdt64Setup ==
  /\ pc = "gdt64"
  /\ MonPageAlloc(1)
  /\ IF PageAllocResult(1) = NULL
     THEN pc' = "assert" /\ UNCHANGED gdt
     ELSE LET last == boot.entries - 1
              cs   == IF last \in DOMAIN boot.gdt THEN last + 1 ELSE last
          IN  /\ pc' = "pt64"
              /\ gdt' = [base |-> PageAllocResult(1), entries |-> boot.entries + 2,
                         table |-> Extended(boot.gdt, cs), cs |-> cs]
  /\ UNCHANGED <<starterVars, imageVars, num_of_aps, i32_esp, pt, p_init32, switchVars, linuxVars>>

\* The entries that the next page of x32_pt64_setup_paging brings: an empty PML4,
\* an empty PDPT with its entry in the PML4, then PDs of 512 frames of 2 MB, each
\* with its entry in the PDPT.
NextTables(page, first) ==
  CASE Len(pt) = 0 -> With(tables, page, <<>>)
    [] Len(pt) = 1 -> With(With(tables, pt[1], With(<<>>, 0, page)), page, <<>>)
    [] OTHER       -> With(With(tables, pt[2], With(tables[pt[2]], Len(pt) - 2, page)),
                           page, [j \in 0 .. 511 |-> first + j])

\* Mutation: the address starts again at 0 in every PD.
Pt64SetupRestarts ==
  /\ pc = "pt64"
  /\ Len(pt) < 6
  /\ MonPageAlloc(1)
  /\ IF PageAllocResult(1) = NULL
     THEN pc' = "assert" /\ UNCHANGED <<pt, tables>>
     ELSE /\ pt' = Append(pt, PageAllocResult(1))
          /\ tables' = NextTables(PageAllocResult(1), 0)
          /\ UNCHANGED pc
  /\ UNCHANGED <<starterVars, imageVars, num_of_aps, i32_esp, gdt, p_init32, cpu,
                 linuxVars>>

\* x32_pt64_setup_paging, one table a step: PML4, PDPT and four PDs.
Pt64Setup ==
  /\ pc = "pt64"
  /\ Len(pt) < 6
  /\ MonPageAlloc(1)
  /\ IF PageAllocResult(1) = NULL
     THEN pc' = "assert" /\ UNCHANGED <<pt, tables>>
     ELSE /\ pt' = Append(pt, PageAllocResult(1))
          /\ tables' = NextTables(PageAllocResult(1), 512 * (Len(pt) - 2))
          /\ UNCHANGED pc
  /\ UNCHANGED <<starterVars, imageVars, num_of_aps, i32_esp, gdt, p_init32, cpu,
                 linuxVars>>

\* The call of startap: without APs it gets no init32.
CallStartap ==
  /\ pc = "pt64"
  /\ Len(pt) = 6
  /\ pc' = "startap"
  /\ p_init32' = IF num_of_aps # 0 THEN "init32" ELSE "null"
  /\ UNCHANGED <<starterVars, imageVars, num_of_aps, i32_esp, gdt, pt, switchVars, linuxVars,
                 heapVars>>

-----------------------------------------------------------------------------
(***************************************************************************)
(* start_application on the boot processor, with init64 as xmon_loader      *)
(* filled it.  The APs and the wait for them are in ApStartup.             *)
(***************************************************************************)

\* One instruction of the switch that only loads a register.
Load(stage, next, value) ==
  /\ pc = stage
  /\ pc' = next
  /\ cpu' = value
  /\ UNCHANGED <<starterVars, imageVars, launchVars, tables, linuxVars, heapVars>>

\* x32_init64_start: GDTR, CR3, PAE in CR4, and EFER, which i64_efer zeroes.
WriteGdtr == Load("startap", "write_cr3", [cpu EXCEPT !.gdtr = gdt.base])
WriteCr3  == Load("write_cr3", "write_cr4", [cpu EXCEPT !.cr3 = pt[1]])
WriteCr4  == Load("write_cr4", "write_efer", [cpu EXCEPT !.pae = TRUE])
WriteEfer == Load("write_efer", "set_lme", [cpu EXCEPT !.lme = FALSE])

\* start_64bit_mode: EFER.LME.
SetLme == Load("set_lme", "set_pg", [cpu EXCEPT !.lme = TRUE])

\* The frame that the tables translate a 2 MB frame below 4 GB to, or -1.
Walk(frame) ==
  LET pdpt == tables[cpu.cr3][0]
      pd   == frame \div 512
  IN  IF cpu.cr3 \in DOMAIN tables /\ pd \in DOMAIN tables[pdpt]
      THEN tables[tables[pdpt][pd]][frame % 512] ELSE -1

\* The first frame of startap, where the next instruction is.
Frame(address) == address \div 2097152

\* Paging: long mode needs LME and PAE, and the code must stay where it is.
SetPg ==
  /\ pc = "set_pg"
  /\ IF cpu.lme /\ cpu.pae /\ Walk(Frame(STARTAP_BASE)) = Frame(STARTAP_BASE)
     THEN pc' = "lret" /\ cpu' = [cpu EXCEPT !.lma = TRUE]
     ELSE pc' = "fault" /\ UNCHANGED cpu
  /\ UNCHANGED <<starterVars, imageVars, launchVars, tables, linuxVars, heapVars>>

\* lret to i64_cs: a 64-bit code segment inside the limit, then the call of the
\* monitor's entry point.
Lret ==
  /\ pc = "lret"
  /\ IF gdt.cs # 0 /\ gdt.cs < gdt.entries /\ Gdt[gdt.cs] = Code64
     THEN pc' = "xmon" /\ cpu' = [cpu EXCEPT !.cs = gdt.cs]
     ELSE pc' = "fault" /\ UNCHANGED cpu
  /\ UNCHANGED <<starterVars, imageVars, launchVars, tables, linuxVars, heapVars>>

-----------------------------------------------------------------------------
(***************************************************************************)
(* load_primary_guest_kernel, as far as it uses the heap.  What it does     *)
(* with the map and the kernel is in MemoryMap and GuestLaunch.             *)
(***************************************************************************)

\* The monitor starts the guest from the saved state (external).
GuestReturns ==
  /\ pc = "xmon"
  /\ pc' = "hide"
  /\ UNCHANGED <<loaderVars, heapVars>>

\* hide_runtime_memory takes the copy of the map, with two entries more, from the
\* heap.  Its caller ignores a failure.
HideCopy ==
  LET size == MmapLength(boot) + 2 * MapEntrySize
  IN  /\ pc = "hide"
      /\ pc' = "launch"
      /\ IF ~boot.memmap
         THEN UNCHANGED <<newmmap_addr, heapVars>>
         ELSE /\ AllocateMemory(size)
              /\ newmmap_addr' = IF AllocateResult(size) = NULL THEN NoBlock
                                 ELSE Block(AllocateResult(size), size)
  /\ UNCHANGED <<starterVars, imageVars, launchVars, switchVars, boot_params>>

\* launch_linux_kernel and expand_linux_image up to the allocation.
CheckKernel(ok) ==
  /\ pc = "launch"
  /\ pc' = IF ok THEN "boot_params" ELSE "spin"
  /\ UNCHANGED <<loaderVars, heapVars>>

\* Mutation: the result of allocate_memory is not tested.
AllocBootParamsUntested(cmdline_size) ==
  LET size == Uint32(BootParamsSize + cmdline_size)
  IN  /\ pc = "boot_params"
      /\ AllocateMemory(size)
      /\ pc' \in IF AllocateResult(size) + size < Word THEN {"expand"}
                ELSE {"expand", "lost"}
      /\ boot_params' = Block(AllocateResult(size), BootParamsSize + cmdline_size)
      /\ UNCHANGED <<starterVars, imageVars, launchVars, switchVars, newmmap_addr>>

\* boot_params_t and, after it, the kernel's command line.  The size is a 32-bit
\* sum with a field of the kernel's header.  A block that goes round the address
\* space is zeroed as well, with startap, the monitor and, it may be, this code.
AllocBootParams(cmdline_size) ==
  LET size == Uint32(BootParamsSize + cmdline_size)
  IN  /\ pc = "boot_params"
      /\ AllocateMemory(size)
      /\ IF AllocateResult(size) = NULL
         THEN pc' = "spin" /\ UNCHANGED boot_params
         ELSE /\ pc' \in IF AllocateResult(size) + size < Word THEN {"expand"}
                        ELSE {"expand", "lost"}
              /\ boot_params' = Block(AllocateResult(size),
                                      BootParamsSize + cmdline_size)
      /\ UNCHANGED <<starterVars, imageVars, launchVars, switchVars, newmmap_addr>>

\* The rest of expand_linux_image, then the jump.
ExpandLinuxImage(ok) ==
  /\ pc = "expand"
  /\ pc' = IF ok THEN "linux" ELSE "spin"
  /\ UNCHANGED <<loaderVars, heapVars>>

-----------------------------------------------------------------------------
\* startap, the monitor or the kernel has the processor, or an endless loop.
LoaderDone ==
  /\ pc \in Ends \cup {"startap", "xmon"}
  /\ UNCHANGED vars

LoaderStep ==
  \/ SaveCpuState \/ CleanMemory \/ SetupIdt \/ GetE820Table \/ SetupEnv
  \/ AllocStack \/ Gdt64Setup \/ Pt64Setup \/ CallStartap
  \/ WriteCr3 \/ WriteCr4 \/ WriteEfer \/ SetLme \/ SetPg \/ Lret \/ HideCopy
  \/ \E ok \in BOOLEAN :
       \/ CheckVmxSupport(ok) \/ RunXmonLoader(ok)
       \/ GetImageInfo("xmon_info", "xmon_load", ok)
       \/ LoadImage("xmon_load", "startap_info", "xmon", ok)
       \/ GetImageInfo("startap_info", "startap_load", ok)
       \/ LoadImage("startap_load", "guest_env", "startap", ok)
       \/ CheckKernel(ok) \/ ExpandLinuxImage(ok)
  \/ \E count \in CpuidCounts : CountAps(count)
  \/ \E n \in CmdlineSizes : AllocBootParams(n)

LoaderNext ==
  \/ LoaderStep \/ WriteGdtr \/ GuestReturns \/ LoaderDone
  \/ \E v \in Exceptions : Exception(v)

\* The processor executes its instructions.  When startap has woken the APs is a
\* matter of ApStartup, nothing obliges the monitor to return to the guest, and no
\* exception has to come.
LoaderSpec == LoaderInit /\ [][LoaderNext]_vars /\ WF_vars(LoaderStep)

-----------------------------------------------------------------------------
\* startap is called only with everything in place: both images and the map,
\* the guest state redirected to primary_guest_entry, a stack for every AP the
\* call announces, and all six tables.
LaunchReady ==
  pc = "startap" =>
    /\ loaded = {"xmon_loader", "xmon", "startap"}
    /\ guest.rip = "primary_guest_entry" /\ guest.rcx = "td" /\ env
    /\ e820 # NoE820
    /\ Len(i32_esp) = num_of_aps /\ (p_init32 = "null" <=> num_of_aps = 0)
    /\ Len(pt) = 6 /\ gdt # NoGdt

\* The memory that the loader writes into after it has the blocks: each AP's
\* stack, the tables, the entries of the GDT and of the map, the copy of the map
\* and boot_params.  Each is as large as what is put into it.
Regions ==
  {b \in {Block(i32_esp[i] - 2 * PageSize, 2 * PageSize) : i \in DOMAIN i32_esp}
          \cup {Block(pt[i], PageSize) : i \in DOMAIN pt}
          \cup {Block(e820.base, MapHeaderSize + MapEntrySize * e820.entries),
                Block(gdt.base, 8 * gdt.entries), newmmap_addr, boot_params} :
     b.base # NULL}

\* boot_params and the command line end below 4 GB: neither sum with the
\* cmdline_size of the header (linux_loader.c:247, memory.c:40) has wrapped.
HeaderFits == boot_params.base + boot_params.size < Word

\* They lie in the heap and apart from each other, as many as were asked for: no
\* stack grows into another stack, no map and no descriptor is written over what
\* was allocated after it, unless the kernel's header asks for a command line that
\* makes a sum wrap.
StacksApart ==
  HeaderFits =>
    /\ Cardinality({b.base : b \in Regions}) =
         Len(i32_esp) + Len(pt)
           + Cardinality({e820.base, gdt.base, newmmap_addr.base, boot_params.base} \ {NULL})
    /\ \A b \in Regions :
         /\ HeapBase <= b.base /\ b.base + b.size <= STARTAP_BASE
         /\ \A c \in Regions \ {b} :
              b.base + b.size <= c.base \/ c.base + c.size <= b.base

\* The new GDT still holds every descriptor of the boot loader, which CS, DS and
\* SS of startap come from; the two 64-bit selectors name their descriptors and
\* lie inside the limit; the GDT ends inside its page.
GdtCoversSelectors ==
  gdt # NoGdt =>
    /\ \A i \in DOMAIN boot.gdt : gdt.table[i] = boot.gdt[i]
    /\ gdt.cs # 0 /\ gdt.cs + 1 < gdt.entries
    /\ gdt.table[gdt.cs] = Code64 /\ gdt.table[gdt.cs + 1] = Data64
    /\ gdt.entries * 8 <= PageSize

\* When the loader gives up, nothing of it stays: the loader image, from its first
\* to its last byte, and every block of the heap are cleaned before starter_main
\* stops.
FailureCleansLoader ==
  pc = "halted" =>
    /\ cleared.base <= XMON_LOADER_BASE /\ cleared.base + cleared.size >= HeapBase
    /\ \A b \in blocks : cleared.base + cleared.size >= b.base + b.size

\* The guest gets the segments that a boot loader without an LDT ran with: for
\* every register with a 32-bit segment of the GDT, what the hidden part of the
\* register holds, and a null segment for every other (starter_main.c:148-246).
\* Nothing is said of a boot with an LDT, whose segments save_cpu_state leaves out
\* (starter_main.c:232), nor of a register whose selector lies beyond the GDT and
\* is looked up there all the same (starter_main.c:166).
GuestSegments ==
  pc # "starter_main" /\ boot.ldtr.index = 0 =>
    \A r \in SegmentRegs :
      InTable(boot, r) =>
        guest.seg[r] = IF Usable(boot, r) THEN boot.hidden[r].seg ELSE NoSegment

\* The switch to 64-bit mode does not fault, and the monitor is entered with
\* every address below 4 GB mapped to itself ("It should scope full 32-bit space",
\* x32_pt64.c:46), so that the pointers it gets from 32-bit code hold.
LongModeEntered ==
  /\ pc # "fault"
  /\ pc = "xmon" => /\ cpu.lma /\ Gdt[cpu.cs] = Code64
                    /\ \A f \in 0 .. 2047 : Walk(f) = f

\* A kernel is started only with boot_params, and with the copy of the memory map
\* if there is a map: where the heap is too full for the copy, so that the monitor
\* stays visible in the map, it is too full for boot_params as well, provided that
\* these take no less than the copy and that no sum with the size has wrapped.
LinuxReady ==
  pc = "linux" /\ HeaderFits /\ MmapLength(boot) + 2 * MapEntrySize <= boot_params.size =>
    boot_params.base # NULL /\ (boot.memmap => newmmap_addr.base # NULL)

\* Every boot ends in startap or in one of the endless loops; so do the switch of
\* the boot processor and, once the guest runs, the start of the kernel.
BootDecided ==
  /\ <>(pc \in Ends \cup {"startap"})
  /\ (pc = "write_cr3") ~> (pc \in Ends \cup {"xmon"})
  /\ (pc = "hide") ~> (pc \in {"linux", "spin", "lost"})

\* The exception handlers of idt.c, installed before the first stage that can fail
\* ("Init loader heap, run-time space, and idt.", xmon_loader.c:101), are reached:
\* up to the moment of long mode an exception is reported, whenever the boot loader
\* runs with 0x10 as the code selector, which the gates assume (idt.c:85).
FaultsReported ==
  boot.sel["CS"] = XMON_CS_SELECTOR /\ ~cpu.lma => pc \notin {"reset", "lost"}
=============================================================================
