# A TLA+ verification of ikgt-loader

ikgt-loader brings a machine from a multiboot boot loader into the xmon monitor
and from there into a Linux kernel that runs as the monitor's first guest. This
directory models that path, checks it with TLC and proves parts of it with TLAPS.
All definitions are taken from the sources under `src/`; `PROJECT.json` lists for
every definition the lines it models.

## 1. The system

```
 boot loader ── multiboot ──> starter_main ──> run_xmon_loader ──> xmon_loader
                                                                      │ loads xmon, startap
                                                                      │ stacks, GDT, page tables
                                                                      v
      APs  <── INIT, SIPI, SIPI ───────────────────────────────  startap_main
       │  presence array, lock, ready counter                         │
       v                                                              v
     xmon (on every AP)                                       xmon (on the BSP)
                                                                      │ VM entry
                                                                      v
                              load_primary_guest_kernel ──> launch_linux_kernel ──> Linux
```

| Component | Sources | State it keeps | Operations | Module |
|---|---|---|---|---|
| AP start-up (startap) | `startap/startap.c`, `ap_procs_init.c`, `wakeup_init64.S` | statics shared with the APs: `ap_presence_array`, `mp_bootstrap_state`, `g_aps_counter`, `g_ready_counter`, `g_user_func`, `g_any_data`, `application_params`, `gp_init64`; the low memory page; the APIC's ICR | `startap_main`, `ap_procs_startup`, `bsp_enumerate_aps`, `ap_procs_run`, the AP code | ApStartup, LaunchBarrier |
| Loader heap | `xmon_loader/utils/memory/memory.c` | `heap_current`, `heap_tops` | `initialize_memory_manager`, `allocate_memory`, `mon_page_alloc` | LoaderHeap |
| TSC stall | `startap/ap_procs_init.c` | `startap_tsc_ticks_per_msec` | `startap_stall_using_tsc`, `startap_calibrate_tsc_ticks_per_msec` | TscStall |
| Starter and xmon_loader | `starter/starter_main.c`, `run_xmon_loader.c`, `xmon_loader/xmon_loader.c`, `xmon_desc.h` | guest state at `GUEST1_BASE`, loaded images, AP stacks, `mon_startup_struct_t` | the stages of the boot, the error path | XmonLoader |
| 64-bit GDT and page tables | `xmon_loader/utils/x64/x32_gdt64.c`, `x32_pt64.c` | the new GDT, PML4, PDPT, PDs | `x32_gdt64_setup`, `x32_pt64_setup_paging` | XmonLoader |
| Switch to 64-bit mode | `startap/x32_init64.c`, `wakeup_init64.S` | GDTR, CR3, CR4, EFER, CR0, CS | `x32_init64_start`, `start_64bit_mode` | XmonLoader, ApStartup |
| Exception handlers | `xmon_loader/idt.c` | `xmon_idt` | `setup_idt`, the handlers | XmonLoader |
| Memory maps | `xmon_loader/e820.c` | `mbi->mmap_addr`, `mmap_length`, the copy of the map | `hide_runtime_memory`, `get_e820_table` | MemoryMap, XmonLoader |
| Primary guest, Linux loader | `xmon_loader/primary_guest.c`, `linux_loader.c`, `pg_entry.S` | the images, `boot_params` | `load_primary_guest_kernel`, `launch_linux_kernel` | GuestLaunch |
| Guest CPU state | `starter/starter_main.c` | saved segments and descriptor tables | `save_cpu_state`, `save_segment_data`, `validate_descriptor` | GuestState, XmonLoader |
| ELF loader, image accessors | `common/ld` | `elf_load_info_t`, the memory written | `get_image_info`, `load_image` | ElfLoader |
| Screen, strings, chain loader, package build | `screen.c`, `common.c`, `chain_load.S`, scripts | none to speak of | output and I/O | not modelled |

How they interact. Up to startap there is one processor and one thread, and
components call each other; all memory beyond the package comes from one heap
that is never freed. In startap the boot processor (BSP) and the application
processors (APs) run concurrently on plain shared memory without any lock but
the word `mp_bootstrap_state`. On a resume from S3 the monitor calls startap
again: the processors are reset, the statics are not. After the monitor has
started, the BSP returns, as a guest, into the loader, which still uses its heap.

What is hard, and what makes each part correct:

* **AP start-up.** The BSP counts the APs that reported, numbers them by rewriting
  the very array they report in, releases them and waits for exactly that many.
  APs answer the first SIPI, the second, or none; they come late; the page they
  execute is handed back. Correct: distinct ordered IDs in `1 .. g_aps_counter`, a
  private stack for each AP, the BSP waits for all that reported and for no other,
  nobody runs with the parameters of an earlier launch, everyone reaches the monitor.
* **TSC stall.** Times are 32-bit differences and products of a counter that wraps
  every few seconds, and the code between two reads takes any time. Correct: a stall is
  not shorter than asked for, not much longer, and ends.
* **Heap.** 32-bit sums that may wrap, one of them with a size that a kernel's header
  gives, and a limit reached by any of a dozen allocations. Correct: blocks inside the
  heap, disjoint.
* **xmon_loader.** Every stage may fail, after earlier ones changed memory.
  Correct: startap is called with everything in place, or the loader cleans up
  after itself and stops; exceptions on the way reach a handler (which they do not,
  section 6).
* **Guest state.** The hidden parts of the segment registers are guessed from the GDT.
  Correct: the guest is given the segments the boot loader ran with.
* **Switch to 64-bit mode.** A fixed order of register loads on tables built earlier in
  32-bit mode. Correct: no fault, and every address below 4 GB keeps its meaning.
* **ELF loader.** Segments, zeroed memory, program headers and relocations are written
  one after the other at moved addresses, and errors are found on the way. Correct:
  a load that succeeds leaves the relocated image, and no load writes outside it.
* **Memory maps.** Unsigned arithmetic on the borders of regions, a map that is
  written before it is known whether it can be used. Correct: the new map differs
  from the old one in the hidden memory and nowhere else, or is not used.
* **Linux loader.** Placement of an image in memory that is described by the map and
  bounded by the kernel's header, next to the images that are already there.
  Correct: the target is available memory, off the kernel, the monitor and the loader,
  and what arrives there is the initrd. Nothing in the code guarantees all of this; the
  properties name the conditions under which it holds.

## 2. The modules

**ApStartup** (startap). The BSP and every AP is a process with a program counter
(`bsp`, `ap[a]`). Each access to shared memory is a step of its own, so that all
interleavings occur: the stores of `g_user_func`, `g_any_data` and
`mp_bootstrap_state` in `ap_procs_run` are `RunFunc`, `RunData`, `RunState`;
each iteration of `bsp_enumerate_aps` is an `EnumerateAp`; an AP reports
(`ApReport`), passes the lock (`ApWaitLock1`), reads its ID (`ApReadId`), loads its
stack (`ApSetStack`), increments the counter (`ApIncReady`) and calls the user
function (`ApCallUser`). The local APIC is external: it delivers the pending IPI to
the addressed APs one after the other (`AcceptIpi`, `IgnoreIpi`), INIT stops an AP
anywhere and a SIPI starts only one that waits. The waits for the delivery
status and the stalls between two IPIs are the guard `icr = NoIpi`. The
length of the last stall is abstracted: with `TimeoutSufficient`, it ends only
when no AP is between its SIPI and its report; without, it ends any time.
`StartapMain` chooses the arguments the two callers pass: no `p_init32` (no APs), one
without a low memory page, or one with a page; with or without `p_init64`; pre-OS
or post-OS with a list of APIC ids. `p_init64` and `application_params` hold the
number of the call that set them, so that stale ones can be told from fresh ones.
`Resume` is the S3 resume. A `"wild"` processor has left this program's code: through a
reused page, a NULL function, or a `ret` from the monitor.

**LaunchBarrier**: the abstract specification. Processors that report while the BSP
gathers form the roster; after the barrier opens each of them arrives once; the
BSP passes when all have arrived, and does pass. `ApStartup!Barrier` is the
refinement mapping, `ImplementsBarrier` the claim.

**TscStall**: one processor, one action per read of the counter. Between two reads 1 to
`Gap` ticks pass, more during the calibration (`Rate`). The locals of the two functions are
`start_tsc` and `end_tsc`; `elapsed` is a history variable that counts from the first
read of a stall and stops at `Horizon`. The counter starts anywhere.

**LoaderHeap**: the cursor allocator with `uint32_t` arithmetic; a request may be any
`uint32_t`. `blocks` is a history variable. A request whose sum with the cursor goes round
passes the test of the code (`memory.c:40`) and the model's; `NoWrap` says that there
was none.

**GuestState**: save_cpu_state as pure operators on a processor (GDT, selectors, LDTR).
Descriptors are records of the bits that validate_descriptor tests and the fields that
are saved. The bits `mbo_11`, `mbo_12`, `mbz_11` it tests repeat the S and code bits. A
selector beyond the table is looked up in the memory after it (`beyond`), as the code
does. `hidden` is what the segment registers really hold; only the properties look at it.

**XmonLoader** extends LoaderHeap and GuestState: starter_main, run_xmon_loader and
xmon_loader as one sequential process (`pc`), each allocation a use of the heap's
actions. `boot` is what the boot loader left: the processor of GuestState and the fields
of the multiboot information that decide something. An allocation failure of a stack
or the map returns to starter_main's error path (`CleanMemory`); one in the GDT or the
page tables hits an assertion that spins (`"assert"`). `gdt.table` and `tables` hold the
descriptors and the entries of the 64-bit GDT and of the page tables. `SetupIdt` leaves in
IDTR the base that lidt finds in the unpacked `ia32_descriptor_t` (`LidtBase`). From then
to the far return an `Exception` may come at any step; it ends in a handler
(`"breakpoint"`) if the gate is one of `xmon_idt` and leads to code, and otherwise in a
reset or wherever the memory in the place of the gate leads (`"lost"`). `WriteGdtr` to `Lret` are the
instructions of x32_init64_start and start_64bit_mode on the boot processor, with the
checks the processor makes; a check that fails is `"fault"`. What startap does before
(`"startap"`) is ApStartup. After the monitor returns, `HideCopy` and `AllocBootParams` take
the two blocks that MemoryMap and GuestLaunch use, from what the boot left of the heap.
The size of the second is a 32-bit sum with `cmdline_size`; a block that goes round the
address space is zeroed with all memory above the heap, and the boot may be `"lost"`.
`mon_startup_struct_t` is abstracted to "set".

**MemoryMap**: hide_runtime_memory, one action per kind of map entry. `mmap` is what
`mbi` points to, `newmmap` the copy being written, `orig` a history variable.

**GuestLaunch** extends MemoryMap: load_primary_guest_kernel and all of
launch_linux_kernel. The unit of address is a sector of 512 bytes, so that real
addresses below 8 GB fit TLC's integers; `Word32` and `Word64` are the ranges
of the C types in that unit. `hide_ret` is deliberately not looked at: the
code does not look at it. A copy of the initrd over the running loader with its heap, where
the new map and boot_params are, or over the kernel's header ends the launch
(`"overwritten"`); `CopyIntact` says when a copy that goes upwards leaves the bytes of its
source.

**ElfLoader**: get_image_info and load_image. elf32_ld.c and elf64_ld.c are the same
code but for the width of addresses (`Value`) and the relocation tables they accept
(`RelaUsable`, `RelUsable`); the definitions stand for both. Memory and file are made
of units that hold one number, the program header table is one unit per header (its
`p_paddr`), and `Readable` is the bound the memory accessor puts on a read. `Expected`
is the reference: it says, without any order of steps, what each unit of a
loaded image holds.

**MC\*** modules give the constants their values. Definitions whose comment begins
with "Mutation" are faulty variants of the definition after them; nothing uses
them but the sensitivity checks listed in `PROJECT.json`, which put each in the
place of the original and expect the named property to fail.

## 3. The runs

| Run | Configuration | Result |
|---|---|---|
| `ap_boot` | 3 APs, APIC ids 1, 2, 4; any of them ignores any IPI; pre-OS, and post-OS lists of 0, 1 and 2 APs; all kinds of `p_init32` | distinct IDs, private stacks, exact counts, no AP leaves the code, the BSP and every AP that reports reach the monitor |
| `ap_resume` | 3 reliable APs, boot and one resume, `p_init64` given or not | nothing stale reaches the second launch; the launch implements LaunchBarrier |
| `ap_late` | 2 APs (ids 3, 1), no assumption on the stall, one AP unreliable, the monitor may return, the page is reused, one resume | whoever still enters the monitor does so with the arguments of its own call |
| `tsc_stall` | a counter of 128 ticks that starts anywhere, 9 to 11 ticks a millisecond, stalls of 0.4, 1.4 and 2 ms, 1 to 3 ticks between two reads | no stall is shorter than asked for; none is longer than twice that and three reads, but for a deadline in the last three ticks before the wrap, which two reads may jump over; the calibration ends, a deadline is found, and the wait ends unless the deadline can be missed |
| `xmon_boot` | the real sizes; 10 CPU counts around the limits; seven boot states: selectors 0x10 and 0x18, selectors 0x8 and 0x10 with a 16-bit FS and a null GS, a GDT of 510 entries, an LDT in use with a free last GDT entry, a stale FS beyond the GDT, a map that is too long, no map; five command line sizes, 0 and two that make a sum wrap among them; every stage fails or not; NMI, protection fault and machine check at every stage | as long as no sum wraps: blocks in the heap and disjoint, and stacks, tables, GDT, maps and boot_params apart; startap only with everything in place; without an LDT, the right segments saved for all selectors of the GDT; no fault in the switch and an identity mapping after it; loader and heap cleaned on the error path; no kernel without the copy of the map, if boot_params need no less than the copy; the boot ends |
| `hide_map` | every map of up to 3 disjoint entries, in any order, on a grid of 6 units, 2 of them hidden | hidden exactly, or the map is untouched; refused only when necessary; no entry past the block for sorted maps |
| `elf_load` | images of both classes: text and data in either order, data larger or smaller in the file than in memory, linked below and above the target; RELA and REL tables with each kind of entry; damaged files; 12 of 14 units readable | a successful load is the reference image; no write outside the load size, failures included |
| `guest_boot` | six machines, two of them with unsorted maps; nine module lists; eleven headers; allocations failing | the map of a kernel that is started is faithful; an initrd with `InitrdRoom` lies in available memory below its limit and off the monitor, and arrives intact if the module is not just below it (`SourceClear`); the initrd is off a kernel that ends below 4 GB, and off the loader if there is room above the monitor; the highest region is used if the search is complete |
| `stale_report` | `ap_boot`'s APs, one of which does not answer on the resume | **violated**, see 6 |
| `stall_overflow` | `tsc_stall` with a stall of 4 ms, whose product exceeds 128 | **violated**, see 6 |
| `idt_base` | `xmon_boot` with selectors 0x10 and 0x18, two CPUs and exceptions at every stage | **violated**, see 6 |
| `module_index` | the kernel is the only module | **violated**, see 6 |

Bounds, and why they suffice. Three APs give an ID that is the first, one in the
middle and one that is the last, and a gap in the APIC ids makes IDs differ from
APIC ids; two of them can race while the third is late. `MaxCalls = 2`: what a launch
leaves in memory can only reach the next one, and the second call starts from every
state the first can leave. `MaxCpu` is 5 (4), one more than the largest APIC id. `xmon_boot`
uses the real sizes with `Word = 2^30` and `HalfWord = 2^15`, since TLC's integers have 32
bits and no address there is above 18 MB; two of its command line sizes are so close to
`Word` that the size of the request, or its sum with the cursor, wraps. For the same reason a limit with the
granularity bit is in units of 16 bytes there (`Granule`). Its CPU counts leave the heap
empty, two pages short of it, and out of memory in the stacks and in the tables; what
sizes and orders of requests the heap is safe for is a theorem. The stall run scales the
counter to 128 ticks, so that the wrap meets the calibration, the deadline and both loops
at every offset; `Horizon` is beyond `2 * Asked + 3 * Gap` of its longest stall. The map run is exhaustive for its grid: an
entry before, at, across and after each border of the hidden memory, in all orders.
`guest_boot` has launches on both sides of every condition its properties name: a search
that ends before the region that fits, an initrd moved below its region into reserved
memory, copied over the loader or over itself, and a kernel whose end wraps.

The types of the other modules' variables (`TscTypeOK`, `LoaderTypeOK`, `MapTypeOK`,
`LaunchTypeOK`, `ElfTypeOK`) are stated for the reader and, as far as they need them, are part of
the inductive invariants of section 4; the runs list the properties above them, which fail when a value leaves its type where it matters.

Fairness. `ApStartup!Fairness` gives weak fairness to the BSP, to each AP and to the
delivery to each AP: a processor that can execute its next instruction does, and
the APIC ends a delivery (`IgnoreIpi` counts as an end). None is assumed of the
callers, of a suspend, of the reuse of the page or of a return of the monitor. The
sequential modules with liveness properties have weak fairness of the one processor;
XmonLoader's leaves out the end of startap's wait (ApStartup's `BspLaunches`), the return of
the monitor and exceptions, and TscStall's the calls. GuestLaunch, MemoryMap and ElfLoader
have none. Stuttering in a
wait loop (`RunPause`, `ApPause`) is a step of the model without fairness, so a wait
that never ends shows as a liveness violation, not as a deadlock.

## 4. The proofs

Each proof module extends the module it is about; a theorem holds for every value of
the constants that satisfies the `ASSUME`s of that module, and TLC evaluates those on the
constants of the runs. Each inductive invariant was checked with TLC on a run's
constants before it was proved.

**ApStartupProofs**, for every set of APs, assignment of APIC ids, number of stacks and
number of launches:

* `TypeCorrect`: `Spec => []TypeOK`. The only part that is not inductive is the range
  of the uint8_t counter of `bsp_enumerate_aps`; `CountBounds` bounds it by the loop
  index.
* `OrderedIds`: `TimeoutSufficient => (Spec => []OrderedIdsDistinct)`.
* `ReleasedIdsFrozen`: under the same assumption `Spec => IdsFrozen`.

The invariant of the last two is `IdInv == TypeInv /\ ControlInv /\ ArrayInv`.
`OrderedIdsDistinct` alone says nothing of the time before an AP has read its ID.
`ControlInv` says who may be where. Its part `LockInv` needs no assumption: no IPI is
pending outside the sending loops, the lock is closed from `ap_intialize_environment` to
`ap_procs_run` and an AP is past it only when the BSP has opened it. Its part
`NoneLate`, that no AP is between SIPI and report once the stall is over, rests on
`TimeoutSufficient`. `ArrayInv` says what the array holds: an AP that reported has a nonzero
entry; the entries below the loop index are strictly increasing, between 1 and the
count (`Ordered`); an AP that read its entry still agrees with it. The assumption on the
stall is needed: without it an AP that reports behind the loop reads its own report, 1,
for an ID (section 6).

**ApLaunchProofs**, on top of it:

* `LaunchContextFresh` (`LaunchContext`), from `LockInv` and `ParamsSet` alone: whatever the
  stall does, nobody is released before the arguments of the call are stored.
* `StacksPrivate`, `BspWaits` (`PrivateStacks`, `BspWaitsForAps`), with
  `TimeoutSufficient`; `ApsInCode`, `ProcessorsCounted` (`ApsStayInCode`,
  `ProcessorCountExact`), also with `~EntryReturns`: after a return of the monitor the AP
  leaves the code (section 6).
* `FirstCallCounts`: `ReturnsApsInit` in the first call. `stale_report` refutes it for the
  second.
* `BarrierImplemented`: the initial state and every step of ApStartup is one of
  LaunchBarrier, or a stutter, under the mapping of `ImplementsBarrier`. The weak
  fairness of the barrier is TLC's.

The invariant is `LaunchInv == IdInv /\ CodeInv /\ EntryInv /\ CountInv /\ ArriveInv /\ StackRead`.
The heart is counting: `Joined` is the set of APs that reported, `Arrived` of those
that accepted. `CountInv` ties `g_aps_counter` to the number of nonzero entries of the
array, `EntryInv` ties these entries to APs (one AP each, never cleared, so that the count
is at least `Cardinality(Joined)`, and exactly that in the first call), `ArriveInv` ties
`g_ready_counter` to `Cardinality(Arrived)`. A BSP that sees both counters equal then knows
`Arrived = Joined`: a subset of the same finite cardinality. `CodeInv` holds what keeps
APs in the code: the page is in use while an AP may execute it, and the function is
stored before the lock opens.

**LoaderHeapProofs**: `HeapSafe`, `Spec => [](BlocksInHeap /\ BlocksDisjoint)`, for every heap
that ends a page below 4 GB and requests of any `uint32_t`. Both properties hold up to the
first request that goes round (`NoWrap`), which the code does not refuse. `HeapInv` adds, for
the time before it, that every block lies below the cursor and the cursor below the top.

**XmonLoaderProofs**, for every layout, boot state, CPU count and command line size that
`LayoutAssumption` and `BootAssumption` allow, with failures and exceptions at every stage. All safety
properties of `xmon_boot` are theorems: `LoaderHeapSafe`, `LaunchIsReady`, `MemoryApart`,
`GdtComplete`, `FailureCleans`, `SegmentsSaved`, `SwitchSucceeds`, `LinuxIsReady`. The invariant is a conjunction of

* `HeapInv`, carried over from LoaderHeap: `StepUsesHeap` shows that every step of the loader
  is a request the heap serves or leaves the heap alone;
* `StageInv`: what each stage may rely on, from the images to the registers of the switch;
* `RegionInv` and `SequenceInv`: every region the loader writes to lies in a block of its own,
  so that `StacksApart`, which counts regions, follows from the disjointness of blocks;
* `PagingInv`: the tables that are filled so far map their frames to themselves, from
  which `WalkIdentity` computes the walk of any address below 4 GB;
* `CleanInv`, on the range the error path zeroes, and that no step of the switch faults.

`SegmentsSaved` needs what the processor guarantees of a loaded segment register
(`GuestState!Loaded`), a boot without an LDT, and selectors inside the GDT (`InTable`): of the
others `GuestSegments` says nothing, because the code is wrong there. `MemoryApart` and
`LinuxIsReady` are about headers that make no sum wrap (`HeaderFits`). `LinuxIsReady` also
needs boot_params that take no less than the copy of the map, as all do whose `cmdline_size`
is 255 or more; its invariant `RoomInv` compares the two requests: a heap that refuses the
copy refuses boot_params as well. It does not say that the entries fit `e820_map`; that is a
condition of `BootMapFaithful`.

**MemoryMapProofs**, for every map that `MapAssumption` allows, in any order and of any
length: `MapIsWholeOrHidden`, `HidesInOneEntry`, `NewMapFits` (all three properties of
`hide_map`). `Home` is the one entry that holds the first hidden byte, `Whole` says that it holds
all of them. `WalkInv`: as long as the walk is before `Home` the new map gives every
address the types that the entries so far give it; after it, RESERVED to the hidden ones
(`TypesInv`); the walk passes `Home` only if it is whole and available; for a
sorted map the copy is at most two entries ahead. `SplitsHome` is the one step that
splits an entry into up to three.

**TscStallProofs**: `StallsLast` and `StallsAreBounded`, under `ProductsFit`: the product of the
stall and any rate the calibration can measure fits the word, and the deadline is less
than a round of the counter away. The stalls of 10 usec satisfy it on every
processor; those of 10000 usec and more do not above 430 MHz, and `stall_overflow`
shows what happens then. `LastsInv` says that what has passed and what is left make up the time asked for;
`BoundInv` bounds what a first loop that sets the deadline again can add: it goes on
only while the deadline would wrap, so for at most as many ticks as were asked for.

**GuestLaunchProofs** extends MemoryMapProofs; the map's invariant holds during the launch.
`OrderInv` adds that the new map is sorted if the old one was and ends below 2^64, `GuestInv` what
each stage of launch_linux_kernel knows of the images and the region found. The conditions
below are parts of the properties themselves, not of the theorems.

* `KernelMapFaithful` (`BootMapFaithful`): of a kernel that is started, with at most the 128
  entries of `e820_map`. A launch whose copy of the initrd went over the map is not started.
* `KernelIsSpared` (`InitrdSparesKernel`), if the kernel's need ends below 4 GB (`KernelFits`):
  the sum in the overlap test is a uint32_t and wraps otherwise.
* `InitrdIsInRam` (`InitrdInRam`), with `InitrdRoom`. It excludes the cases in which the code
  places the initrd without looking at the map again: a region that does not begin on
  a page (the address is rounded down), that crosses 4 GB, or that lies above
  `initrd_addr_max`; and a monitor that could not be hidden.
* `RamdiskIsIntact` (`RamdiskIntact`), with `InitrdRoom` and `SourceClear`: the copy goes
  upwards, so a module that begins less than its size below its copy is damaged. The
  place is within a page of the limit less the size, which gives the two cases.
* `HighestRamFound` and `LoaderIsSpared` (`HighestRam`, `InitrdSparesLoader`), with
  `SearchComplete`: the search stops at the first AVAILABLE region above 4 GB, so the map must
  be sorted or have none; the latter for a monitor of at least a page.

**ElfLoaderProofs**, for every image that `ImageAssumption` allows, every place and every readable
size: `LoadsTheImage` and `LoadStaysInside` (`ImageLoaded`, `WritesInLoadSize`). The assumption
holds what the linker guarantees: segments apart from each other, relocations for
places of their own, inside segments and off the program headers. `ContentInv` follows the
steps: segments before the loop index hold what the file has for them; then every unit does,
with the headers moved (`Unpatched`); then the relocations before the index have left their
targets and no other unit has changed (`RelocatedBefore`). REL entries read the
place they patch, so their proof needs that no earlier entry and no header wrote there.
`StretchIs` shows that the unsigned difference in a copy means membership in the
stretch as long as the stretch does not wrap, and `ReadableIs` that a read of a
file that ends early is shorter than asked for, not longer. An image without segments is refused because
its `low_addr`, 0xffffffff, is not on a page.

Only model-checked, because TLAPS does not do fairness: `BspLaunches`, `ApsLaunch`,
`StallEnds`, `BootDecided` and the fairness of `ImplementsBarrier`. `ReturnsApsInit` is false after a
resume (`stale_report`); `ap_boot`, which has one call, checks what `FirstCallCounts` proves.

## 5. Assumptions and what is left out

* Memory is sequentially consistent and stores happen in program order. x86 keeps
  the order of stores; the compiler is not told to (no memory clobber at
  `ap_procs_init.c:654`).
* No NMI reaches an AP during its start-up (`ap_procs_init.c:56` names the problem).
* `Cardinality(APs) <= NumStacks`: CPUID announces at least as many processors as
  there are, which is what `xmon_loader.c` relies on.
* In ApStartup the length of the last stall is the constant `TimeoutSufficient`. TscStall
  shows that it does not follow from the code: a stall of 150000 or 200000 usec overflows.
* The ticks between two reads of the counter are bounded (`Gap`), a stall asks for at least
  that many, and the counter does not go round while the rate is measured.
* Segment registers whose selectors are inside the GDT were loaded from it as it is, in
  32-bit mode (`BootAssumption`), paging is off at entry, and the GDT has at most 510
  entries, so that the new one fits a page. Pages have 4 KB and startap lies below 4 GB (`LayoutAssumption`).
  MON_UP_BREAKPOINT, whose definition is not in the repository, does not return.
* Map entries have the usual size of 20 bytes, do not overlap, and one holds the first
  byte of the monitor; modules are in available memory off the package. All this is
  the boot loader's to guarantee (`MapAssumption`, `Placed`).
* The multiboot structure and what the boot loader put beside it are in low memory, where
  no initrd is copied to.
* In XmonLoader load_image and get_image_info are stages that succeed or fail; ElfLoader has
  the detail. The same holds for what launch_linux_kernel does outside the heap, and
  GuestLaunch.
* Images are what `-pie -static` links: the lowest segment begins with the file header,
  an image with relocations is linked at 0, and no two relocations are for one place
  (`ImageAssumption`). elf64_ld.c:274 and :332 rely on the first two. Nothing in the code
  looks whether a relocation's `r_offset` is inside the image.
* Not modelled: console output (the handlers' text included), the four arguments that
  start_64bit_mode passes on the stack, BIOS disk reads, build scripts,
  the SFI and EFI variants of the memory map that this build does not call, the file
  accessor, which is not built, and the copying of ELF sections, which no caller requests.

## 6. Where the code and its comments disagree

With a run that shows it:

* `stale_report`: `ap_intialize_environment` does not clear `ap_presence_array`. On a
  resume, an AP that reported at boot and does not answer now is counted, and
  `ap_procs_startup` returns more than "number of processors that were init"
  (`ap_procs_init.h:58`); the BSP then waits for it without end.
* `idt_base`: `ia32_descriptor_t` (`idt.c:72`) has two bytes of padding between `limit` and
  `base`, for nothing packs it. lidt (`:381`) takes the base from offset 2: the padding and
  the low half of the address. IDTR does not name `xmon_idt`, and no exception reaches a
  handler of "idt" (`xmon_loader.c:101`).
* `module_index`: `linux_loader.c:41` tests `midx > mods_count`; with one module, the
  16 bytes after the list are taken for the initrd.
* `stall_overflow`: `stall_usec * startap_tsc_ticks_per_msec` is a 32-bit product
  (`ap_procs_init.c:365`). For 200000 usec it overflows above 21 MHz, and the "200 miliseconds"
  of the manual (`:502`) are at most 2^32 / 1000 ticks, 2 ms at 2 GHz. The same is true of
  the 150000 usec that the BSP gives the APs (`:588`), on which `TimeoutSufficient` rests.

Met while modelling, without a run of their own:

* The loader's own memory is AVAILABLE in the map, and when it is the highest region that fits
  the initrd is copied over the running loader and its heap; `xmon_desc.h:85` wants both kept
  until Linux is launched. `guest_boot` has such a launch (`MCFlat`), which ends as
  `"overwritten"`; `InitrdSparesLoader` says when it does not happen.
* The size in `starter_main.c:330` is an address less an offset: with the layout of
  `xmon_desc.h:44-67` the "clean memory" of the error path writes `td` bytes beyond the
  loader's heap. `FailureCleansLoader` says only that enough is cleaned.
* `cmdline_size` is taken from the kernel's header without a check (`linux_loader.c:246`). The
  sum with the size of boot_params may wrap, so that too little is allocated, and so may the
  sum of the heap (`memory.c:40`), which then zeroes memory up to 4 GB and moves the cursor
  back.
* "While loop is to overcome the overflow of 32-bit rdtsc value" (`ap_procs_init.c:362`): a
  deadline in the last ticks before the wrap is still missed when no read falls between it
  and the wrap, and the stall lasts another 2^32 ticks (`CanBeMissed`).
* `INITIAL_WAIT_FOR_APS_TIMEOUT_IN_MILIS` (`:61`) is used as microseconds (`:588`).
* All gates name the selector 0x10 (`idt.c:85`), which multiboot does not promise to be code:
  with another layout the first exception resets the machine. The handlers are C functions
  that take `cs` and `eip` as arguments, which is not what the processor pushes.
* get_e820_table tests `flags & 3` (`e820.c:60`), the bits of mem_lower and the boot device,
  before it uses mmap_addr; hide_runtime_memory tests MBI_MEMMAP (`:219`).
* With an LDT in use no segment is saved, and the boot goes on with a null CS
  (`starter_main.c:232`); a boot state of `xmon_boot` does.
* The BSP may enter the monitor before the APs: an AP increments the counter and then
  calls the function (`startap.c:69`, `:75` say first the APs).
* After a return of the user function the AP does not wait again
  (`ap_procs_init.h:34`): `ret` takes the pushed ordered ID for an address
  (`wakeup_init64.S:57`). `ApReturns` models it.
* An AP later than the stall takes its report, 1, for an ordered ID and shares the stack
  of another AP (`wakeup_init64.S:44`).
* "It only waste some memory" (`xmon_loader.c:156`): from 78 logical processors in CPUID
  on, the heap is exhausted and the boot given up.
* `primary_guest.c:51` ignores the result of hide_runtime_memory: when the monitor lies in
  two adjacent entries, the kernel gets its memory as AVAILABLE. `BootMapFaithful` is
  stated with the result for that reason.
* `allocated_size` is "buffer size for image" (`elf_ld.c:197`), but it bounds what is read
  from the file and is not compared with the size of the loaded image.
* `run_xmon_loader.c:33` and `xmon_loader.c:139` let load_image store 64 bits in a 32-bit
  pointer.
* For an unsorted map with adjacent entries, hide_runtime_memory writes one entry past
  its block (`e820.c:225`); that is why `EntriesFit` is stated for sorted maps.
* Below `initrd_addr_max` the initrd is placed without looking at the map again
  (`linux_loader.c:311`) and copied upwards even over itself (`:346`). The overlap test
  (`:338`) adds in 32 bits, and a kernel that needs memory beyond 4 GB passes it.
* "do not assume the base is always larger" (`linux_loader.c:78`): the search ends at the
  first AVAILABLE region above the limit (`:73-75`), so in an unsorted map what comes
  after it is not found, and the launch may fail with memory free (`MCHighFirst`).
* A map of more than 128 entries does not fit `e820_map` (`linux_loader.c:113`); up to 168
  it runs into the fields after it, from 169 on into the command line that is already
  copied (`:380`); a command line of exactly `cmdline_size` bytes has no zero byte inside
  its block (`:372`).
* `starter_main.c:165` divides the index of a selector by the size of a descriptor twice, so an
  index up to eight times too large passes "Check the limit" (`:156`), and a register whose
  selector was loaded from an earlier GDT gets what the memory after the present one
  reads as.

## 7. Plan

Done: ApStartup with LaunchBarrier (the only concurrent part, first), TscStall, LoaderHeap,
XmonLoader on it with GuestState, the IDT, the contents of the tables and the switch to
64-bit mode, MemoryMap, GuestLaunch on it, ElfLoader; theorems for every safety property and
action property that the passing runs check but `ReturnsApsInit` on a resume, and for the
steps of LaunchBarrier.

Left, in this order:

1. Weaker conditions where the code allows them: `InitrdRoom` for regions that begin
   inside a page but are large enough; `StallsLast` for stalls that overflow, with the
   shorter time they really take.
2. The counts of a resume: by how much `ReturnsApsInit` fails (the APs that reported before and
   do not answer now), as a theorem for every call.
3. ElfLoader in XmonLoader's place of `LoadImage`, with the buffers of the layout.
4. The arguments on the stack of start_64bit_mode.
