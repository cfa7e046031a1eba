--------------------------- MODULE XmonLoaderProofs ---------------------------
(***************************************************************************)
(* Theorems about XmonLoader, for every layout, every boot state and every  *)
(* number of processors that LayoutAssumption allows.                      *)
(***************************************************************************)
EXTENDS XmonLoader, LoaderHeapProofs, FiniteSetTheorems

\* What the assumptions say of single constants.
LEMMA PageSizeIs == PageSize = 4096
BY SMT, LayoutAssumption

LEMMA MmapLengthType ==
  ASSUME NEW b \in BootStates
  PROVE  b.mmap_entries \in Nat /\ MmapLength(b) \in Nat
BY SMT, BootAssumption DEF MmapLength, MapEntrySize

\* The copy of the boot loader's GDT fits the page.
LEMMA BootIs ==
  ASSUME NEW b \in BootStates
  PROVE  b.entries \in 2 .. 510 /\ DOMAIN b.gdt \subseteq 0 .. b.entries - 1
<1>1. /\ b.entries \in 2 .. (PageSize \div 8) - 2
      /\ DOMAIN b.gdt \subseteq 0 .. b.entries - 1
      BY BootAssumption
<1>2. (PageSize \div 8) - 2 = 510
      BY SMT, PageSizeIs
<1> QED
      BY <1>1, <1>2

\* The loader keeps the boot state it was started with.
BootKept == boot \in BootStates

\* Every step of the loader is a request the heap serves, or leaves it alone.
LEMMA StepUsesHeap ==
  ASSUME BootKept, [LoaderNext]_vars
  PROVE  BootKept' /\ [Next]_heapVars
<1> USE DEF loaderVars, starterVars, imageVars, launchVars, switchVars,
           linuxVars
<1>1. {1, 2} \subseteq PageRequests
      BY LayoutAssumption
<1>2. ASSUME NEW n \in ByteRequests, AllocateMemory(n) PROVE [Next]_heapVars
      BY <1>2 DEF Next
<1>3. ASSUME NEW n \in {1, 2}, MonPageAlloc(n) PROVE [Next]_heapVars
      BY <1>1, <1>3 DEF Next
<1>4. CASE SaveCpuState \/ CleanMemory \/ SetupIdt \/ SetupEnv \/ CallStartap
           \/ GuestReturns
      BY <1>4 DEF BootKept, SaveCpuState, CleanMemory, SetupIdt, SetupEnv,
                  CallStartap, GuestReturns
<1>5. CASE GetE820Table
      BY <1>3, <1>5 DEF BootKept, GetE820Table
<1>6. CASE AllocStack
      BY <1>3, <1>6 DEF BootKept, AllocStack
<1>7. CASE Gdt64Setup
      BY <1>3, <1>7 DEF BootKept, Gdt64Setup
<1>8. CASE Pt64Setup
      BY <1>3, <1>8 DEF BootKept, Pt64Setup
<1>9. CASE HideCopy
  <2>1. MmapLength(boot) + 2 * MapEntrySize \in ByteRequests
        BY LayoutAssumption DEF BootKept
  <2> QED
        BY <1>2, <1>9, <2>1 DEF BootKept, HideCopy
<1>10. ASSUME NEW ok \in BOOLEAN, NEW stage, NEW next, NEW image,
              \/ CheckVmxSupport(ok) \/ RunXmonLoader(ok) \/ CheckKernel(ok)
              \/ ExpandLinuxImage(ok)
              \/ GetImageInfo(stage, next, ok) \/ LoadImage(stage, next, image, ok)
       PROVE  BootKept' /\ UNCHANGED heapVars
       BY <1>10 DEF BootKept, CheckVmxSupport, RunXmonLoader, CheckKernel,
                    ExpandLinuxImage, GetImageInfo, LoadImage
<1>11. ASSUME NEW n \in CpuidCounts, CountAps(n) PROVE BootKept' /\ UNCHANGED heapVars
       BY <1>11 DEF BootKept, CountAps
<1>12. ASSUME NEW n \in CmdlineSizes, AllocBootParams(n)
       PROVE  BootKept' /\ [Next]_heapVars
  <2>1. Uint32(BootParamsSize + n) \in ByteRequests
        BY LayoutAssumption
  <2> QED
        BY <1>2, <1>12, <2>1 DEF BootKept, AllocBootParams
<1>13. ASSUME NEW v \in Exceptions, Exception(v) PROVE BootKept' /\ UNCHANGED heapVars
       BY <1>13 DEF BootKept, Exception
<1>14. CASE UNCHANGED vars
       BY <1>14 DEF BootKept, vars
<1>15. CASE \/ WriteGdtr \/ WriteCr3 \/ WriteCr4 \/ WriteEfer \/ SetLme \/ SetPg
            \/ Lret
       BY <1>15 DEF BootKept, Load, WriteGdtr, WriteCr3, WriteCr4, WriteEfer, SetLme,
                    SetPg, Lret
<1>16. CASE LoaderStep
       BY <1>4, <1>5, <1>6, <1>7, <1>8, <1>9, <1>10, <1>11, <1>12, <1>15,
          <1>16 DEF LoaderStep
<1> QED
       BY <1>4, <1>13, <1>14, <1>15, <1>16 DEF LoaderNext, LoaderDone

\* From the first page of the map to boot_params, through every failure, what
\* the loader allocates lies in its heap, and no two blocks overlap, up to a
\* cmdline_size that makes a block go round the address space.
THEOREM LoaderHeapSafe == LoaderSpec => [](BlocksInHeap /\ BlocksDisjoint)
<1>1. LoaderInit => SoundHeap /\ BootKept
      BY InitHeapInv DEF LoaderInit, BootKept, SoundHeap
<1>2. SoundHeap /\ BootKept /\ [LoaderNext]_vars => (SoundHeap /\ BootKept)'
      BY StepUsesHeap, NextSoundHeap
<1>3. SoundHeap => BlocksInHeap /\ BlocksDisjoint
      BY SoundHeapSafe
<1> QED
      BY <1>1, <1>2, <1>3, PTL DEF LoaderSpec

-----------------------------------------------------------------------------
(***************************************************************************)
(* What every stage finds done.  The stages in the order of the code, each  *)
(* set with all that follow; an end of the boot is in none of them.         *)
(***************************************************************************)
Running      == {"xmon", "hide", "launch", "boot_params", "expand", "linux"}
AfterPaging  == {"lret"} \cup Running
AfterLme     == {"set_pg"} \cup AfterPaging
AfterCr4     == {"write_efer", "set_lme"} \cup AfterLme
AfterCr3     == {"write_cr4"} \cup AfterCr4
AfterGdtr    == {"write_cr3"} \cup AfterCr3
AfterTables  == {"startap"} \cup AfterGdtr
AfterGdt     == {"pt64"} \cup AfterTables
AfterStacks  == {"gdt64"} \cup AfterGdt
AfterEnv     == {"cpuid", "stacks"} \cup AfterStacks
AfterStartap == {"guest_env"} \cup AfterEnv
AfterXmon    == {"startap_info", "startap_load"} \cup AfterStartap
AfterE820    == {"xmon_info", "xmon_load"} \cup AfterXmon
AfterLoader  == {"idt", "e820"} \cup AfterE820
BeforeE820   == {"starter_main", "check_vmx", "run_xmon_loader", "idt", "e820"}
BeforeGdt    == BeforeE820 \cup
                  {"xmon_info", "xmon_load", "startap_info", "startap_load",
                   "guest_env", "cpuid", "stacks", "gdt64"}

\* The images, the saved guest and the environment.
ImagesInv ==
  /\ loaded \subseteq {"xmon_loader", "xmon", "startap"}
  /\ pc \in AfterLoader => "xmon_loader" \in loaded
  /\ pc \in AfterXmon => "xmon" \in loaded
  /\ pc \in AfterStartap => "startap" \in loaded
GuestInv ==
  /\ DOMAIN guest = {"rip", "rcx", "seg"}
  /\ pc # "starter_main" => guest.seg = SavedSegments(boot)
  /\ pc \in AfterEnv => guest.rip = "primary_guest_entry" /\ guest.rcx = "td" /\ env

\* The map, the stacks, the GDT, the tables.
E820Inv ==
  /\ pc \in BeforeE820 => e820 = NoE820
  /\ pc \in AfterE820 => e820.base # NULL
  /\ e820.base # NULL => e820.entries = boot.mmap_entries /\ MmapLength(boot) <= 4096
StackInv ==
  /\ pc \in AfterStacks => Len(i32_esp) = num_of_aps
  /\ pc = "startap" => (p_init32 = "null" <=> num_of_aps = 0)
GdtInv ==
  /\ pc \in BeforeGdt => gdt = NoGdt
  /\ pc \in AfterGdt => gdt.base # NULL
  /\ gdt.base = NULL => gdt = NoGdt
  /\ GdtCoversSelectors
  /\ gdt # NoGdt => /\ DOMAIN boot.gdt \subseteq DOMAIN gdt.table
                    /\ gdt.cs \in Nat /\ gdt.entries \in Nat
TableInv ==
  /\ pc \in BeforeGdt => pt = <<>> /\ tables = <<>>
  /\ pc \in AfterTables => Len(pt) = 6

\* The registers of the switch.
CpuInv ==
  /\ DOMAIN cpu = {"gdtr", "cr3", "pae", "lme", "lma", "cs"}
  /\ cpu.gdtr # NULL => gdt.base # NULL
  /\ pc \in AfterGdtr => cpu.gdtr = gdt.base
  /\ pc \in AfterCr3 => cpu.cr3 = pt[1]
  /\ pc \in AfterCr4 => cpu.pae
  /\ pc \in AfterLme => cpu.lme
  /\ pc \in AfterPaging => cpu.lma
  /\ pc \in Running => cpu.cs = gdt.cs

\* The two blocks of the guest's kernel.  Boot_params is the last block taken.
Late == {"expand", "linux", "spin", "lost"}
KernelInv ==
  /\ pc \notin {"launch", "boot_params", "expand", "linux", "spin", "lost"} =>
       newmmap_addr = NoBlock
  /\ pc \notin Late => boot_params = NoBlock
  /\ pc \in {"expand", "linux"} => boot_params.base # NULL

StageInv ==
  /\ BootKept /\ ImagesInv /\ GuestInv /\ E820Inv /\ StackInv /\ GdtInv
  /\ TableInv /\ CpuInv /\ KernelInv

LEMMA InitStage == LoaderInit => StageInv
<1> SUFFICES ASSUME LoaderInit PROVE StageInv
    OBVIOUS
<1> USE DEF AfterLoader, AfterE820, AfterXmon, AfterStartap, AfterEnv, AfterStacks,
        AfterGdt, AfterTables, AfterGdtr, AfterCr3, AfterCr4, AfterLme, AfterPaging,
        Running, BeforeGdt, BeforeE820
<1>1. BootKept /\ ImagesInv /\ GuestInv
      BY DEF LoaderInit, BootKept, ImagesInv, GuestInv
<1>2. E820Inv /\ StackInv
      BY DEF LoaderInit, E820Inv, NoE820, StackInv
<1>3. GdtInv /\ TableInv
      BY DEF LoaderInit, GdtInv, GdtCoversSelectors, TableInv
<1>4. CpuInv /\ KernelInv
      BY DEF LoaderInit, CpuInv, NoCpu, KernelInv, Late
<1> QED
      BY <1>1, <1>2, <1>3, <1>4 DEF StageInv

\* The GDT that x32_gdt64_setup builds keeps every descriptor of the boot loader.
LEMMA GdtBuilt ==
  ASSUME BootKept, NEW base, base # NULL, NEW cs,
         cs = IF boot.entries - 1 \in DOMAIN boot.gdt THEN boot.entries ELSE boot.entries - 1,
         gdt' = [base |-> base, entries |-> boot.entries + 2,
                 table |-> Extended(boot.gdt, cs), cs |-> cs],
         boot' = boot
  PROVE  /\ GdtCoversSelectors' /\ DOMAIN boot.gdt \subseteq DOMAIN gdt'.table
         /\ gdt'.cs \in Nat /\ gdt'.entries \in Nat
<1>1. /\ boot.entries \in 2 .. 510
      /\ DOMAIN boot.gdt \subseteq 0 .. boot.entries - 1
      BY BootIs DEF BootKept
<1>2. cs \in 1 .. 510 /\ cs \notin DOMAIN boot.gdt /\ cs + 1 \notin DOMAIN boot.gdt
      BY <1>1
<1> DEFINE t == Extended(boot.gdt, cs)
<1>3. /\ t[cs] = Code64 /\ t[cs + 1] = Data64
      /\ DOMAIN boot.gdt \subseteq DOMAIN t
      /\ \A i \in DOMAIN boot.gdt : t[i] = boot.gdt[i]
  <2> DEFINE u == With(boot.gdt, cs, Code64)
  <2>1. /\ DOMAIN u = DOMAIN boot.gdt \cup {cs} /\ u[cs] = Code64
        /\ \A i \in DOMAIN boot.gdt : u[i] = boot.gdt[i]
        BY <1>2 DEF With
  <2> HIDE DEF u
  <2>2. /\ DOMAIN t = DOMAIN u \cup {cs + 1} /\ t[cs + 1] = Data64
        /\ \A i \in DOMAIN u : i # cs + 1 => t[i] = u[i]
        BY DEF Extended, With, u
  <2> QED
        BY <1>2, <2>1, <2>2
<1>4. (boot.entries + 2) * 8 <= PageSize
      BY SMT, <1>1, PageSizeIs
<1>5. cs + 1 < boot.entries + 2
      BY <1>1, <1>2
<1> HIDE DEF t
<1>6. /\ gdt'.table = t /\ gdt'.cs = cs /\ gdt'.entries = boot.entries + 2
      BY DEF t
<1>7. \A i \in DOMAIN boot.gdt : gdt'.table[i] = boot'.gdt[i]
      BY <1>3, <1>6
<1>8. gdt'.table[gdt'.cs] = Code64 /\ gdt'.table[gdt'.cs + 1] = Data64
      BY <1>3, <1>6
<1>9. /\ gdt'.cs # 0 /\ gdt'.cs + 1 < gdt'.entries /\ gdt'.entries * 8 <= PageSize
      /\ gdt'.cs \in Nat /\ gdt'.entries \in Nat
  <2>1. cs # 0 /\ cs \in Nat /\ boot.entries + 2 \in Nat
        BY SMTT(30), <1>1, <1>2
  <2> QED
        BY Zenon, <1>4, <1>5, <1>6, <2>1
<1>10. GdtCoversSelectors'
      BY <1>6, <1>7, <1>8, <1>9 DEF GdtCoversSelectors
<1> QED
      BY <1>3, <1>6, <1>9, <1>10

LEMMA NextImages ==
  ASSUME ImagesInv, [LoaderNext]_vars
  PROVE  ImagesInv'
BY DEF ImagesInv, LoaderNext, LoaderStep, SaveCpuState, CleanMemory, SetupIdt,
   GetE820Table, SetupEnv, AllocStack, Gdt64Setup, Pt64Setup, CallStartap,
   WriteGdtr, WriteCr3, WriteCr4, WriteEfer, SetLme, SetPg, Lret, Load, HideCopy,
   CheckVmxSupport, RunXmonLoader, GetImageInfo, LoadImage, CheckKernel,
   ExpandLinuxImage, CountAps, AllocBootParams, GuestReturns, LoaderDone, Exception,
   vars, loaderVars, imageVars, AfterLoader, AfterE820, AfterXmon, AfterStartap,
   AfterEnv, AfterStacks, AfterGdt, AfterTables, AfterGdtr, AfterCr3, AfterCr4,
   AfterLme, AfterPaging, Running

LEMMA NextStage ==
  ASSUME StageInv, [LoaderNext]_vars
  PROVE  StageInv'
<1> USE DEF AfterLoader, AfterE820, AfterXmon, AfterStartap, AfterEnv, AfterStacks,
        AfterGdt, AfterTables, AfterGdtr, AfterCr3, AfterCr4, AfterLme, AfterPaging,
        Running, BeforeGdt, BeforeE820, IdtStages, Ends, Late
<1> USE DEF vars, loaderVars, starterVars, imageVars, launchVars, switchVars,
        linuxVars
<1>0. ImagesInv'
      BY NextImages DEF StageInv
<1> USE <1>0 DEF StageInv, BootKept, GuestInv, E820Inv, StackInv, GdtInv,
        TableInv, CpuInv, KernelInv
<1>1. UNCHANGED <<gdt, boot>> => (GdtCoversSelectors <=> GdtCoversSelectors')
      BY DEF GdtCoversSelectors
<1>2. CASE UNCHANGED vars
      BY SMT, <1>1, <1>2
<1>3. CASE SaveCpuState \/ CleanMemory \/ SetupIdt
      BY SMT, <1>1, <1>3 DEF SaveCpuState, CleanMemory, SetupIdt
<1>4. CASE GetE820Table
      BY SMT, <1>1, <1>4, MmapLengthType DEF GetE820Table, NoE820
<1>5. CASE SetupEnv
      BY SMT, <1>1, <1>5 DEF SetupEnv, SetupPrimaryGuestEnv
<1>6. CASE AllocStack
      BY SMT, <1>1, <1>6 DEF AllocStack
<1>7. CASE Gdt64Setup
  <2>1. CASE PageAllocResult(1) = NULL
        BY SMT, <1>1, <1>7, <2>1 DEF Gdt64Setup
  <2>2. CASE PageAllocResult(1) # NULL
    <3>1. boot.entries \in Int
          BY BootAssumption
    <3>2. /\ GdtCoversSelectors' /\ DOMAIN boot.gdt \subseteq DOMAIN gdt'.table
          /\ gdt'.cs \in Nat /\ gdt'.entries \in Nat
          BY <1>7, <2>2, <3>1, GdtBuilt DEF Gdt64Setup
    <3> QED
        BY SMT, <1>1, <1>7, <2>2, <3>2 DEF Gdt64Setup
  <2> QED
        BY <2>1, <2>2
<1>8. CASE Pt64Setup
      BY SMT, <1>1, <1>8 DEF Pt64Setup
<1>9. CASE CallStartap
      BY SMT, <1>1, <1>9 DEF CallStartap
<1>10. CASE WriteGdtr \/ WriteCr3 \/ WriteCr4 \/ WriteEfer \/ SetLme
      BY SMT, <1>1, <1>10 DEF WriteGdtr, WriteCr3, WriteCr4, WriteEfer, SetLme, Load
<1>11. CASE SetPg
      BY SMT, <1>1, <1>11 DEF SetPg
<1>12. CASE Lret
  <2>1. /\ pc = "lret" /\ pc' \in {"xmon", "fault"} /\ DOMAIN cpu' = DOMAIN cpu
        /\ pc' = "xmon" => cpu'.cs = gdt.cs
        /\ \A x \in {"gdtr", "cr3", "pae", "lme", "lma"} : cpu'[x] = cpu[x]
        BY SMT, <1>12 DEF Lret
  <2>2. CpuInv'
        BY SMT, <1>12, <2>1 DEF Lret
  <2> QED
        BY SMT, <1>1, <1>12, <2>1, <2>2 DEF Lret
<1>13. CASE HideCopy
      BY SMT, <1>1, <1>13 DEF HideCopy
<1>14. CASE GuestReturns
      BY SMT, <1>1, <1>14 DEF GuestReturns
<1>15. ASSUME NEW n \in CmdlineSizes, AllocBootParams(n)
       PROVE  StageInv'
      BY SMT, <1>1, <1>15 DEF AllocBootParams, Block
<1>16. ASSUME NEW ok \in BOOLEAN,
              \/ CheckVmxSupport(ok) \/ RunXmonLoader(ok)
              \/ GetImageInfo("xmon_info", "xmon_load", ok)
              \/ LoadImage("xmon_load", "startap_info", "xmon", ok)
              \/ GetImageInfo("startap_info", "startap_load", ok)
              \/ LoadImage("startap_load", "guest_env", "startap", ok)
              \/ CheckKernel(ok) \/ ExpandLinuxImage(ok)
       PROVE  StageInv'
  <2>1. CASE CheckVmxSupport(ok)
        BY SMT, <1>1, <2>1 DEF CheckVmxSupport
  <2>2. CASE RunXmonLoader(ok)
        BY SMT, <1>1, <2>2 DEF RunXmonLoader
  <2>3. CASE \/ GetImageInfo("xmon_info", "xmon_load", ok)
             \/ GetImageInfo("startap_info", "startap_load", ok)
        BY SMT, <1>1, <2>3 DEF GetImageInfo
  <2>4. CASE \/ LoadImage("xmon_load", "startap_info", "xmon", ok)
             \/ LoadImage("startap_load", "guest_env", "startap", ok)
        BY SMT, <1>1, <2>4 DEF LoadImage
  <2>5. CASE CheckKernel(ok) \/ ExpandLinuxImage(ok)
        BY SMT, <1>1, <2>5 DEF CheckKernel, ExpandLinuxImage
  <2> HIDE DEF StageInv
  <2> QED
        BY <1>16, <2>1, <2>2, <2>3, <2>4, <2>5
<1>17. ASSUME NEW count \in CpuidCounts, CountAps(count) PROVE StageInv'
      BY SMT, <1>1, <1>17 DEF CountAps
<1>18. ASSUME NEW v \in Exceptions, Exception(v) PROVE StageInv'
  <2>1. pc \in IdtStages /\ pc' \in {"breakpoint", "reset", "lost"}
        BY <1>18 DEF Exception
  <2> QED
      BY SMT, <1>1, <1>18, <2>1 DEF Exception
<1> QED
  <2> HIDE DEF StageInv
  <2> QED
      BY <1>2, <1>3, <1>4, <1>5, <1>6, <1>7, <1>8, <1>10, <1>11, <1>13, <1>15, <1>16,
         <1>17, <1>18, <1>9, <1>12, <1>14 DEF LoaderNext, LoaderStep, LoaderDone

-----------------------------------------------------------------------------
(***************************************************************************)
(* The blocks the loader holds.  Every region lies at the start of a block  *)
(* of its own: the cursor is above all earlier ones when a block is taken.  *)
(***************************************************************************)
Bases  == {b.base : b \in Regions}
Single == {e820.base, gdt.base, newmmap_addr.base, boot_params.base} \ {NULL}

RegionInv ==
  /\ \A b \in Regions : b.base \in Nat /\ b.size \in Nat \ {0}
                        /\ \E c \in blocks : c.base = b.base /\ b.size <= c.size
  /\ \A b, c \in Regions : b.base = c.base => b = c
  /\ IsFiniteSet(Bases)
  /\ Cardinality(Bases) = Len(i32_esp) + Len(pt) + Cardinality(Single)
SequenceInv == i32_esp \in Seq(Nat) /\ pt \in Seq(Nat)

\* What the two allocators do on a heap that HeapInv describes.
LEMMA PageTaken ==
  ASSUME HeapInv, NEW n \in PageRequests, n \in {1, 2}, MonPageAlloc(n),
         PageAllocResult(n) # NULL
  PROVE  /\ PageAllocResult(n) \in Nat /\ heap_current <= PageAllocResult(n)
         /\ blocks' = blocks \cup {Block(PageAllocResult(n), n * PageSize)}
<1> DEFINE address == AlignForward(heap_current)
           size == n * PageSize
<1>1. /\ HeapBase \in Nat \ {0} /\ HeapSize \in Nat /\ PageSize \in Nat \ {0}
      /\ Word \in Nat /\ n \in Nat
      /\ heap_current \in Nat /\ heap_current <= HeapBase + HeapSize
      /\ HeapBase + HeapSize + PageSize < Word /\ n * PageSize < Word
      BY HeapAssumption DEF HeapInv, TypeOK
<1>2. size \in Nat /\ size < Word
      BY <1>1
<1>3. address \in Nat /\ heap_current <= address
      BY <1>1, AlignBound
<1>4. Uint32(size) = size
      BY <1>2, Uint32Id
<1> HIDE DEF size
<1>5. PageAllocResult(n) = address /\ Fits(address, size)
      BY <1>4 DEF PageAllocResult, size
<1> HIDE DEF address
<1>6. Take(address, size)
      BY <1>4, <1>5 DEF MonPageAlloc, address, size
<1> QED
      BY <1>3, <1>5, <1>6 DEF Take, size

\* A refusal changes nothing: an address in the heap is never NULL.
LEMMA PageRefused ==
  ASSUME HeapInv, NEW n \in {1, 2}, MonPageAlloc(n), PageAllocResult(n) = NULL
  PROVE  UNCHANGED blocks
<1>1. /\ HeapBase \in Nat \ {0} /\ HeapBase <= heap_current /\ heap_current \in Nat
      /\ heap_current + PageSize <= Word
      BY HeapAssumption DEF HeapInv, TypeOK
<1>2. AlignForward(heap_current) # NULL
      BY <1>1, AlignBound DEF NULL
<1> QED
      BY <1>2 DEF MonPageAlloc, PageAllocResult, heapVars

LEMMA BytesTaken ==
  ASSUME HeapInv, NEW n, AllocateMemory(n), AllocateResult(n) # NULL
  PROVE  /\ AllocateResult(n) \in Nat /\ heap_current <= AllocateResult(n)
         /\ blocks' = blocks \cup {Block(AllocateResult(n), n)}
BY DEF HeapInv, TypeOK, AllocateMemory, AllocateResult, Take

\* Every region starts below the cursor.
LEMMA BasesBelow ==
  ASSUME HeapInv, RegionInv, NEW b \in Regions
  PROVE  b.base < heap_current
<1>1. PICK c \in blocks : c.base = b.base /\ b.size <= c.size
      BY DEF RegionInv
<1>2. /\ b.base \in Nat /\ b.size \in Nat \ {0} /\ c.size \in Nat
      /\ c.base + c.size <= heap_current /\ heap_current \in Nat
      BY DEF RegionInv, HeapInv, TypeOK, BelowCursor
<1> QED
      BY <1>1, <1>2

\* A region in a block taken at or above the cursor is apart from the others.
LEMMA RegionAdded ==
  ASSUME HeapInv, RegionInv, NEW x \in Nat, heap_current <= x, x # NULL,
         NEW m \in Nat, NEW n \in Nat \ {0}, n <= m,
         blocks' = blocks \cup {Block(x, m)},
         Regions' = Regions \cup {Block(x, n)}
  PROVE  /\ \A b \in Regions' : b.base \in Nat /\ b.size \in Nat \ {0}
                        /\ \E c \in blocks' : c.base = b.base /\ b.size <= c.size
         /\ \A b, c \in Regions' : b.base = c.base => b = c
         /\ IsFiniteSet(Bases') /\ Cardinality(Bases') = Cardinality(Bases) + 1
         /\ x \notin Bases
<1>1. \A b \in Regions : b.base < heap_current
      BY BasesBelow
<1>2. heap_current \in Nat
      BY DEF HeapInv, TypeOK
<1>3. \A b \in Regions : b.base # x
      BY <1>1, <1>2 DEF RegionInv
<1>4. x \notin Bases
      BY <1>3 DEF Bases
<1>5. Block(x, n).base = x /\ Block(x, n).size = n
      BY DEF Block
<1>6. Bases' = Bases \cup {x}
      BY <1>5 DEF Bases
<1>7. IsFiniteSet(Bases') /\ Cardinality(Bases') = Cardinality(Bases) + 1
      BY <1>4, <1>6, FS_AddElement DEF RegionInv
<1>8. ASSUME NEW b \in Regions'
      PROVE  /\ b.base \in Nat /\ b.size \in Nat \ {0}
             /\ \E c \in blocks' : c.base = b.base /\ b.size <= c.size
  <2>1. CASE b \in Regions
        BY <2>1 DEF RegionInv
  <2>2. CASE b = Block(x, n)
    <3>1. Block(x, m) \in blocks' /\ Block(x, m).base = x /\ Block(x, m).size = m
          BY DEF Block
    <3> QED
          BY <1>5, <2>2, <3>1
  <2> QED
        BY <1>8, <2>1, <2>2
<1>9. \A b, c \in Regions' : b.base = c.base => b = c
      BY <1>3, <1>5 DEF RegionInv
<1> QED
      BY <1>4, <1>7, <1>8, <1>9

\* What the regions are made of: one block for every stack and every table, and
\* the four blocks of which there is at most one.
Stacks     == {Block(i32_esp[i] - 2 * PageSize, 2 * PageSize) : i \in DOMAIN i32_esp}
TablePages == {Block(pt[i], PageSize) : i \in DOMAIN pt}
MapBlock   == Block(e820.base, MapHeaderSize + MapEntrySize * e820.entries)
GdtBlock   == Block(gdt.base, 8 * gdt.entries)

LEMMA RegionsAre ==
  LET Held == Stacks \cup TablePages \cup {MapBlock, GdtBlock, newmmap_addr, boot_params}
  IN  Regions = {b \in Held : b.base # NULL} /\ Regions' = {b \in Held' : b.base # NULL}
BY DEF Regions, Stacks, TablePages, MapBlock, GdtBlock

\* The bases of the four that are there are bases of regions.
LEMMA SingleFinite ==
  IsFiniteSet(Single) /\ Cardinality(Single) \in Nat /\ Single \subseteq Bases
<1>1. IsFiniteSet({e820.base, gdt.base, newmmap_addr.base, boot_params.base})
  <2>1. IsFiniteSet({e820.base}) /\ IsFiniteSet({gdt.base})
        /\ IsFiniteSet({newmmap_addr.base}) /\ IsFiniteSet({boot_params.base})
        BY FS_Singleton
  <2>2. IsFiniteSet({e820.base} \cup {gdt.base})
        BY <2>1, FS_Union
  <2>3. IsFiniteSet({newmmap_addr.base} \cup {boot_params.base})
        BY <2>1, FS_Union
  <2>4. IsFiniteSet(({e820.base} \cup {gdt.base})
                    \cup ({newmmap_addr.base} \cup {boot_params.base}))
        BY <2>2, <2>3, FS_Union
  <2>5. {e820.base, gdt.base, newmmap_addr.base, boot_params.base} =
          ({e820.base} \cup {gdt.base}) \cup ({newmmap_addr.base} \cup {boot_params.base})
        OBVIOUS
  <2> QED
        BY <2>4, <2>5
<1>2. IsFiniteSet(Single)
      BY <1>1, FS_Subset DEF Single
<1>3. MapBlock.base = e820.base /\ GdtBlock.base = gdt.base
      BY DEF MapBlock, GdtBlock, Block
<1>4. Single \subseteq Bases
      BY <1>3, RegionsAre DEF Single, Bases
<1> QED
      BY <1>2, <1>4, FS_CardinalityType

\* A step that takes a block for one stack or one table.
LEMMA ItemAdded ==
  ASSUME HeapInv, RegionInv, SequenceInv, NEW x \in Nat, heap_current <= x, x # NULL,
         NEW m \in Nat, NEW n \in Nat \ {0}, n <= m,
         blocks' = blocks \cup {Block(x, m)},
         Regions' = Regions \cup {Block(x, n)},
         SequenceInv', Len(i32_esp') + Len(pt') = Len(i32_esp) + Len(pt) + 1,
         Single' = Single
  PROVE  RegionInv'
<1>1. /\ \A b \in Regions' : b.base \in Nat /\ b.size \in Nat \ {0}
                        /\ \E c \in blocks' : c.base = b.base /\ b.size <= c.size
      /\ \A b, c \in Regions' : b.base = c.base => b = c
      /\ IsFiniteSet(Bases') /\ Cardinality(Bases') = Cardinality(Bases) + 1
      BY RegionAdded
<1>2. Len(i32_esp) \in Nat /\ Len(pt) \in Nat /\ Len(i32_esp') \in Nat /\ Len(pt') \in Nat
      BY DEF SequenceInv
<1>3. Cardinality(Bases') = Len(i32_esp') + Len(pt') + Cardinality(Single')
      BY <1>1, <1>2, SingleFinite DEF RegionInv
<1> QED
      BY <1>1, <1>3 DEF RegionInv

\* A step that takes the block for one of the four others.
LEMMA SingleAdded ==
  ASSUME HeapInv, RegionInv, SequenceInv, NEW x \in Nat, heap_current <= x, x # NULL,
         NEW m \in Nat, NEW n \in Nat \ {0}, n <= m,
         blocks' = blocks \cup {Block(x, m)},
         Regions' = Regions \cup {Block(x, n)},
         UNCHANGED <<i32_esp, pt>>, Single' = Single \cup {x}
  PROVE  RegionInv'
<1>1. /\ \A b \in Regions' : b.base \in Nat /\ b.size \in Nat \ {0}
                        /\ \E c \in blocks' : c.base = b.base /\ b.size <= c.size
      /\ \A b, c \in Regions' : b.base = c.base => b = c
      /\ IsFiniteSet(Bases') /\ Cardinality(Bases') = Cardinality(Bases) + 1
      /\ x \notin Bases
      BY RegionAdded
<1>2. Cardinality(Single') = Cardinality(Single) + 1
      BY <1>1, SingleFinite, FS_AddElement
<1>3. Len(i32_esp) \in Nat /\ Len(pt) \in Nat
      BY DEF SequenceInv
<1>4. Cardinality(Bases') = Len(i32_esp') + Len(pt') + Cardinality(Single')
      BY <1>1, <1>2, <1>3, SingleFinite DEF RegionInv
<1> QED
      BY <1>1, <1>4 DEF RegionInv

\* A block for boot_params that does not go round was asked for by its true size.
LEMMA KernelSizeFits ==
  ASSUME HeapInv, StageInv, HeaderFits', NEW c \in CmdlineSizes, AllocBootParams(c),
         ~UNCHANGED <<boot_params, blocks>>
  PROVE  Uint32(BootParamsSize + c) = BootParamsSize + c
<1> DEFINE need == BootParamsSize + c
           size == Uint32(need)
           x    == AllocateResult(size)
<1>1. need \in Nat
      BY SMT, LayoutAssumption DEF BootParamsSize
<1> HIDE DEF need
<1>2. AllocateMemory(size) /\ (x # NULL => boot_params' = Block(x, need))
      BY <1>1 DEF AllocBootParams, need
<1>3. x = NULL => UNCHANGED <<boot_params, blocks>>
  <2>1. heap_current # NULL
        BY HeapAssumption DEF HeapInv, TypeOK, NULL
  <2> QED
        BY <1>2, <2>1 DEF AllocBootParams, AllocateMemory, AllocateResult, heapVars, need
<1>4. x # NULL /\ boot_params'.base = x /\ boot_params'.size = need
      BY <1>2, <1>3 DEF Block
<1>5. x \in Nat
      BY <1>4 DEF AllocateResult, HeapInv, TypeOK
<1>6. x + need < Word
      BY <1>4 DEF HeaderFits
<1> HIDE DEF x
<1>7. need < Word
      BY <1>1, <1>5, <1>6, HeapAssumption
<1> QED
      BY <1>1, <1>7, Uint32Id DEF need

LEMMA NextRegion ==
  ASSUME HeapInv, StageInv, RegionInv, SequenceInv, [LoaderNext]_vars
  PROVE  (HeaderFits' => RegionInv') /\ SequenceInv'
<1> USE DEF vars, loaderVars, starterVars, imageVars, launchVars, switchVars, linuxVars
<1>1. ASSUME UNCHANGED <<i32_esp, pt, e820, gdt, newmmap_addr, boot_params>>,
             UNCHANGED blocks
      PROVE  RegionInv' /\ SequenceInv'
  <2>1. Regions' = Regions /\ Bases' = Bases /\ Single' = Single
        BY <1>1 DEF Regions, Bases, Single
  <2> QED
        BY <1>1, <2>1 DEF RegionInv, SequenceInv
<1>2. 1 \in PageRequests /\ 2 \in PageRequests
      BY LayoutAssumption
<1>3. /\ PageSize \in Nat \ {0} /\ 1 * PageSize = PageSize /\ 2 * PageSize \in Nat \ {0}
      /\ 1 * PageSize <= PageSize
      BY PageSizeIs
<1>4. CASE GetE820Table
  <2>1. CASE UNCHANGED <<e820, blocks>>
        BY <1>1, <1>4, <2>1 DEF GetE820Table
  <2>2. CASE ~UNCHANGED <<e820, blocks>>
    <3> DEFINE x == PageAllocResult(1)
               n == MapHeaderSize + MapEntrySize * boot.mmap_entries
    <3>1. /\ MonPageAlloc(1) /\ x # NULL /\ MmapLength(boot) <= 4096
          /\ e820' = [base |-> x, entries |-> boot.mmap_entries]
          /\ UNCHANGED <<i32_esp, pt, gdt, newmmap_addr, boot_params>>
          /\ e820 = NoE820
      <4>1. boot \in BootStates /\ e820 = NoE820
            BY <1>4 DEF StageInv, BootKept, E820Inv, BeforeE820, GetE820Table
      <4>2. ~(MmapLength(boot) > 4096) => MmapLength(boot) <= 4096
            BY <4>1, MmapLengthType
      <4>3. PageAllocResult(1) = NULL => UNCHANGED blocks
            BY <1>4, PageRefused DEF GetE820Table, heapVars
      <4> QED
            BY <1>4, <2>2, <4>1, <4>2, <4>3 DEF GetE820Table, heapVars
    <3>2. /\ x \in Nat /\ heap_current <= x
          /\ blocks' = blocks \cup {Block(x, 1 * PageSize)}
          BY <1>2, <3>1, PageTaken
    <3>3. n \in Nat \ {0} /\ n <= 1 * PageSize
          BY SMT, <3>1, MmapLengthType, PageSizeIs
          DEF StageInv, BootKept, MmapLength, MapHeaderSize, MapEntrySize
    <3> HIDE DEF x
    <3>4. MapBlock' = Block(x, n) /\ MapBlock.base = NULL /\ GdtBlock' = GdtBlock
          /\ Stacks' = Stacks /\ TablePages' = TablePages
          BY <3>1 DEF MapBlock, GdtBlock, Stacks, TablePages, Block, NoE820
    <3> HIDE DEF n
    <3>5. Block(x, n).base = x
          BY DEF Block
    <3>6. Regions' = Regions \cup {Block(x, n)}
          BY <3>1, <3>4, <3>5, RegionsAre
    <3>7. Single' = Single \cup {x}
          BY <3>1 DEF Single, NoE820
    <3>8. 1 * PageSize \in Nat
          BY <1>3
    <3>9. RegionInv'
          BY <3>1, <3>2, <3>3, <3>6, <3>7, <3>8, SingleAdded
    <3> QED
          BY <3>1, <3>9 DEF SequenceInv
  <2> QED
        BY <2>1, <2>2
<1>5. CASE Gdt64Setup
  <2>1. CASE UNCHANGED <<gdt, blocks>>
        BY <1>1, <1>5, <2>1 DEF Gdt64Setup
  <2>2. CASE ~UNCHANGED <<gdt, blocks>>
    <3> DEFINE x == PageAllocResult(1)
               n == 8 * (boot.entries + 2)
    <3>1. /\ MonPageAlloc(1) /\ x # NULL /\ gdt = NoGdt
          /\ gdt'.base = x /\ gdt'.entries = boot.entries + 2
          /\ UNCHANGED <<i32_esp, pt, e820, newmmap_addr, boot_params>>
      <4>1. gdt = NoGdt
            BY <1>5 DEF StageInv, GdtInv, BeforeGdt, Gdt64Setup
      <4>2. PageAllocResult(1) = NULL => UNCHANGED blocks
            BY <1>5, PageRefused DEF Gdt64Setup
      <4> QED
            BY <1>5, <2>2, <4>1, <4>2 DEF Gdt64Setup
    <3>2. /\ x \in Nat /\ heap_current <= x
          /\ blocks' = blocks \cup {Block(x, 1 * PageSize)}
          BY <1>2, <3>1, PageTaken
    <3>3. n \in Nat \ {0} /\ n <= 1 * PageSize
      <4>1. boot.entries \in 1 .. 510
            BY BootIs DEF StageInv, BootKept
      <4> QED
            BY SMT, <4>1, PageSizeIs
    <3> HIDE DEF x
    <3>4. GdtBlock' = Block(x, n) /\ GdtBlock.base = NULL /\ MapBlock' = MapBlock
          /\ Stacks' = Stacks /\ TablePages' = TablePages
          BY <3>1 DEF MapBlock, GdtBlock, Stacks, TablePages, Block, NoGdt
    <3> HIDE DEF n
    <3>5. Block(x, n).base = x
          BY DEF Block
    <3>6. Regions' = Regions \cup {Block(x, n)}
          BY <3>1, <3>4, <3>5, RegionsAre
    <3>7. Single' = Single \cup {x}
          BY <3>1 DEF Single, NoGdt
    <3>8. 1 * PageSize \in Nat
          BY <1>3
    <3>9. RegionInv'
          BY <3>1, <3>2, <3>3, <3>6, <3>7, <3>8, SingleAdded
    <3> QED
          BY <3>1, <3>9 DEF SequenceInv
  <2> QED
        BY <2>1, <2>2
<1>6. CASE HideCopy
  <2>1. CASE UNCHANGED <<newmmap_addr, blocks>>
        BY <1>1, <1>6, <2>1 DEF HideCopy
  <2>2. CASE ~UNCHANGED <<newmmap_addr, blocks>>
    <3> DEFINE n == MmapLength(boot) + 2 * MapEntrySize
               x == AllocateResult(n)
    <3>0. n \in Nat \ {0}
          BY SMT, MmapLengthType DEF StageInv, BootKept, MapEntrySize
    <3> HIDE DEF n
    <3>1. /\ AllocateMemory(n) /\ x # NULL /\ newmmap_addr = NoBlock
          /\ newmmap_addr' = Block(x, n)
          /\ UNCHANGED <<i32_esp, pt, e820, gdt, boot_params>>
      <4>1. newmmap_addr = NoBlock
            BY <1>6 DEF StageInv, KernelInv, HideCopy
      <4>2. AllocateMemory(n) /\ x = NULL => UNCHANGED blocks
            BY HeapAssumption DEF AllocateMemory, AllocateResult, heapVars, HeapInv, NULL
      <4> QED
            BY <1>6, <2>2, <4>1, <4>2 DEF HideCopy, heapVars, n
    <3>2. /\ x \in Nat /\ heap_current <= x
          /\ blocks' = blocks \cup {Block(x, n)}
          BY <3>1, BytesTaken
    <3> HIDE DEF x
    <3>3. n <= n
          BY <3>0
    <3>4. GdtBlock' = GdtBlock /\ MapBlock' = MapBlock
          /\ Stacks' = Stacks /\ TablePages' = TablePages
          BY <3>1 DEF MapBlock, GdtBlock, Stacks, TablePages
    <3>5. Block(x, n).base = x /\ NoBlock.base = NULL
          BY DEF Block, NoBlock
    <3>6. Regions' = Regions \cup {Block(x, n)}
          BY <3>1, <3>4, <3>5, RegionsAre
    <3>7. Single' = Single \cup {x}
          BY <3>1, <3>5 DEF Single
    <3>8. RegionInv'
          BY <3>0, <3>1, <3>2, <3>3, <3>6, <3>7, SingleAdded
    <3> QED
          BY <3>1, <3>8 DEF SequenceInv
  <2> QED
        BY <2>1, <2>2
<1>7. ASSUME NEW c \in CmdlineSizes, AllocBootParams(c)
      PROVE  (HeaderFits' => RegionInv') /\ SequenceInv'
  <2>1. CASE UNCHANGED <<boot_params, blocks>>
        BY <1>1, <1>7, <2>1 DEF AllocBootParams
  <2>2. CASE ~UNCHANGED <<boot_params, blocks>>
    <3> SUFFICES ASSUME HeaderFits' PROVE RegionInv' /\ SequenceInv'
        BY <1>7 DEF AllocBootParams, SequenceInv
    <3> DEFINE n == BootParamsSize + c
               x == AllocateResult(n)
    <3>0. n \in Nat \ {0}
          BY SMT, LayoutAssumption DEF BootParamsSize
    <3>n. Uint32(n) = n
          BY <1>7, <2>2, KernelSizeFits
    <3> HIDE DEF n
    <3>1. /\ AllocateMemory(n) /\ x # NULL /\ boot_params = NoBlock
          /\ boot_params' = Block(x, n)
          /\ UNCHANGED <<i32_esp, pt, e820, gdt, newmmap_addr>>
      <4>1. boot_params = NoBlock
            BY <1>7 DEF StageInv, KernelInv, AllocBootParams, Late
      <4>2. AllocateMemory(n) /\ x = NULL => UNCHANGED blocks
            BY HeapAssumption DEF AllocateMemory, AllocateResult, heapVars, HeapInv, NULL
      <4> QED
            BY <1>7, <2>2, <3>n, <4>1, <4>2 DEF AllocBootParams, n
    <3>2. /\ x \in Nat /\ heap_current <= x
          /\ blocks' = blocks \cup {Block(x, n)}
          BY <3>1, BytesTaken
    <3> HIDE DEF x
    <3>3. n <= n
          BY <3>0
    <3>4. GdtBlock' = GdtBlock /\ MapBlock' = MapBlock
          /\ Stacks' = Stacks /\ TablePages' = TablePages
          BY <3>1 DEF MapBlock, GdtBlock, Stacks, TablePages
    <3>5. Block(x, n).base = x /\ NoBlock.base = NULL
          BY DEF Block, NoBlock
    <3>6. Regions' = Regions \cup {Block(x, n)}
          BY <3>1, <3>4, <3>5, RegionsAre
    <3>7. Single' = Single \cup {x}
          BY <3>1, <3>5 DEF Single
    <3>8. RegionInv'
          BY <3>0, <3>1, <3>2, <3>3, <3>6, <3>7, SingleAdded
    <3> QED
          BY <3>1, <3>8 DEF SequenceInv
  <2> QED
        BY <2>1, <2>2
<1>8. CASE AllocStack
  <2>1. CASE UNCHANGED <<i32_esp, blocks>>
        BY <1>1, <1>8, <2>1 DEF AllocStack
  <2>2. CASE ~UNCHANGED <<i32_esp, blocks>>
    <3> DEFINE x == PageAllocResult(2)
    <3>1. /\ MonPageAlloc(2) /\ x # NULL
          /\ i32_esp' = Append(i32_esp, x + 2 * PageSize)
          /\ UNCHANGED <<pt, e820, gdt, newmmap_addr, boot_params>>
      <4>1. PageAllocResult(2) = NULL /\ MonPageAlloc(2) => UNCHANGED blocks
            BY PageRefused
      <4> QED
            BY <1>8, <2>2, <4>1 DEF AllocStack, heapVars
    <3>2. /\ x \in Nat /\ heap_current <= x
          /\ blocks' = blocks \cup {Block(x, 2 * PageSize)}
          BY <1>2, <3>1, PageTaken
    <3> HIDE DEF x
    <3>3. /\ DOMAIN i32_esp' = DOMAIN i32_esp \cup {Len(i32_esp) + 1}
          /\ \A i \in DOMAIN i32_esp : i32_esp'[i] = i32_esp[i] /\ i # Len(i32_esp) + 1
          /\ i32_esp'[Len(i32_esp) + 1] - 2 * PageSize = x
          /\ Len(i32_esp') = Len(i32_esp) + 1 /\ SequenceInv'
          BY <1>3, <3>1, <3>2 DEF SequenceInv
    <3>4. GdtBlock' = GdtBlock /\ MapBlock' = MapBlock /\ TablePages' = TablePages
          /\ Single' = Single
          BY <3>1 DEF MapBlock, GdtBlock, TablePages, Single
    <3>5. Stacks' = Stacks \cup {Block(x, 2 * PageSize)}
          BY Zenon, <3>3 DEF Stacks
    <3>6. Block(x, 2 * PageSize).base = x
          BY DEF Block
    <3>7. Regions' = Regions \cup {Block(x, 2 * PageSize)}
          BY <3>1, <3>4, <3>5, <3>6, RegionsAre
    <3>8. /\ Len(i32_esp') + Len(pt') = Len(i32_esp) + Len(pt) + 1
          /\ 2 * PageSize <= 2 * PageSize
          BY <1>3, <3>1, <3>3 DEF SequenceInv
    <3>9. RegionInv'
          BY <1>3, <3>1, <3>2, <3>3, <3>4, <3>7, <3>8, ItemAdded
    <3> QED
          BY <3>3, <3>9
  <2> QED
        BY <2>1, <2>2
<1>9. CASE Pt64Setup
  <2>1. CASE UNCHANGED <<pt, blocks>>
        BY <1>1, <1>9, <2>1 DEF Pt64Setup
  <2>2. CASE ~UNCHANGED <<pt, blocks>>
    <3> DEFINE x == PageAllocResult(1)
    <3>1. /\ MonPageAlloc(1) /\ x # NULL
          /\ pt' = Append(pt, x)
          /\ UNCHANGED <<i32_esp, e820, gdt, newmmap_addr, boot_params>>
      <4>1. PageAllocResult(1) = NULL /\ MonPageAlloc(1) => UNCHANGED blocks
            BY PageRefused
      <4> QED
            BY <1>9, <2>2, <4>1 DEF Pt64Setup
    <3>2. /\ x \in Nat /\ heap_current <= x
          /\ blocks' = blocks \cup {Block(x, 1 * PageSize)}
          BY <1>2, <3>1, PageTaken
    <3> HIDE DEF x
    <3>3. /\ DOMAIN pt' = DOMAIN pt \cup {Len(pt) + 1}
          /\ \A i \in DOMAIN pt : pt'[i] = pt[i] /\ i # Len(pt) + 1
          /\ pt'[Len(pt) + 1] = x
          /\ Len(pt') = Len(pt) + 1 /\ SequenceInv'
          BY <3>1, <3>2 DEF SequenceInv
    <3>4. GdtBlock' = GdtBlock /\ MapBlock' = MapBlock /\ Stacks' = Stacks
          /\ Single' = Single
          BY <3>1 DEF MapBlock, GdtBlock, Stacks, Single
    <3>5. TablePages' = TablePages \cup {Block(x, PageSize)}
          BY Zenon, <3>3 DEF TablePages
    <3>6. Block(x, PageSize).base = x
          BY DEF Block
    <3>7. Regions' = Regions \cup {Block(x, PageSize)}
          BY <3>1, <3>4, <3>5, <3>6, RegionsAre
    <3>8. /\ Len(i32_esp') + Len(pt') = Len(i32_esp) + Len(pt) + 1
          /\ PageSize <= PageSize
          BY <1>3, <3>1, <3>3 DEF SequenceInv
    <3>9. blocks' = blocks \cup {Block(x, PageSize)}
          BY <1>3, <3>2
    <3>10. RegionInv'
          BY <1>3, <3>1, <3>2, <3>3, <3>4, <3>7, <3>8, <3>9, ItemAdded
    <3> QED
          BY <3>3, <3>10
  <2> QED
        BY <2>1, <2>2
<1>10. CASE \/ SaveCpuState \/ CleanMemory \/ SetupIdt \/ SetupEnv \/ CallStartap
            \/ WriteGdtr \/ WriteCr3 \/ WriteCr4 \/ WriteEfer \/ SetLme \/ SetPg
            \/ Lret \/ GuestReturns \/ UNCHANGED vars
       BY <1>1, <1>10 DEF SaveCpuState, CleanMemory, SetupIdt, SetupEnv, CallStartap,
          WriteGdtr, WriteCr3, WriteCr4, WriteEfer, SetLme, Load, SetPg, Lret,
          GuestReturns, heapVars
<1>11. ASSUME NEW ok \in BOOLEAN, NEW stage, NEW next, NEW image,
              \/ CheckVmxSupport(ok) \/ RunXmonLoader(ok) \/ CheckKernel(ok)
              \/ ExpandLinuxImage(ok)
              \/ GetImageInfo(stage, next, ok) \/ LoadImage(stage, next, image, ok)
       PROVE  RegionInv' /\ SequenceInv'
       BY <1>1, <1>11 DEF CheckVmxSupport, RunXmonLoader, CheckKernel,
          ExpandLinuxImage, GetImageInfo, LoadImage, heapVars
<1>12. ASSUME NEW n \in CpuidCounts, CountAps(n) PROVE RegionInv' /\ SequenceInv'
       BY <1>1, <1>12 DEF CountAps, heapVars
<1>13. ASSUME NEW v \in Exceptions, Exception(v) PROVE RegionInv' /\ SequenceInv'
       BY <1>1, <1>13 DEF Exception, heapVars
<1>14. CASE LoaderStep
       BY <1>4, <1>5, <1>6, <1>7, <1>8, <1>9, <1>10, <1>11, <1>12,
          <1>14 DEF LoaderStep
<1> QED
       BY <1>10, <1>13, <1>14 DEF LoaderNext, LoaderDone

LEMMA InitRegion == LoaderInit => RegionInv /\ SequenceInv
<1> SUFFICES ASSUME LoaderInit PROVE RegionInv /\ SequenceInv
    OBVIOUS
<1>1. SequenceInv /\ Len(i32_esp) = 0 /\ Len(pt) = 0
      BY DEF LoaderInit, SequenceInv
<1>2. /\ Stacks = {} /\ TablePages = {} /\ MapBlock.base = NULL /\ GdtBlock.base = NULL
      /\ newmmap_addr.base = NULL /\ boot_params.base = NULL
      BY DEF LoaderInit, Stacks, TablePages, MapBlock, GdtBlock, Block, NoBlock, NoE820,
         NoGdt
<1>3. Regions = {}
      BY <1>2, RegionsAre
<1>4. Bases = {}
      BY <1>3 DEF Bases
<1>5. Single = {}
      BY <1>2 DEF Single, MapBlock, GdtBlock, Block
<1> QED
      BY <1>1, <1>3, <1>4, <1>5, FS_EmptySet DEF RegionInv

LEMMA RegionsApart == (HeaderFits => HeapInv /\ RegionInv) => StacksApart
<1> SUFFICES ASSUME HeapInv, RegionInv PROVE StacksApart
    BY DEF StacksApart
<1>1. Cardinality(Bases) = Len(i32_esp) + Len(pt) + Cardinality(Single)
      BY DEF RegionInv
<1>2. ASSUME NEW b \in Regions
      PROVE  /\ HeapBase <= b.base /\ b.base + b.size <= STARTAP_BASE
             /\ \A c \in Regions \ {b} :
                  b.base + b.size <= c.base \/ c.base + c.size <= b.base
  <2>1. PICK d \in blocks : d.base = b.base /\ b.size <= d.size
        BY DEF RegionInv
  <2>2. /\ b.base \in Nat /\ b.size \in Nat /\ d.size \in Nat
        /\ HeapBase \in Nat /\ HeapSize \in Nat
        BY HeapAssumption DEF RegionInv, HeapInv, TypeOK
  <2>3. HeapBase <= d.base /\ d.base + d.size <= HeapBase + HeapSize
        BY HeapBounds
  <2>4. HeapBase <= b.base /\ b.base + b.size <= STARTAP_BASE
        BY <2>1, <2>2, <2>3 DEF STARTAP_BASE
  <2>5. ASSUME NEW c \in Regions \ {b}
        PROVE  b.base + b.size <= c.base \/ c.base + c.size <= b.base
    <3>1. PICK e \in blocks : e.base = c.base /\ c.size <= e.size
          BY DEF RegionInv
    <3>2. c.base \in Nat /\ c.size \in Nat /\ e.size \in Nat /\ b.base # c.base
          BY DEF RegionInv, HeapInv, TypeOK
    <3>3. d.base + d.size <= e.base \/ e.base + e.size <= d.base
          BY <2>1, <3>1, <3>2 DEF HeapInv, Apart
    <3> QED
          BY <2>1, <2>2, <3>1, <3>2, <3>3
  <2> QED
        BY <2>4, <2>5
<1> QED
      BY <1>1, <1>2 DEF StacksApart, Bases, Single

-----------------------------------------------------------------------------
(***************************************************************************)
(* The page tables: what x32_pt64_setup_paging has built after each page,   *)
(* and that the walk through all six is the identity.                      *)
(***************************************************************************)
Frames(d) == [j \in 0 .. 511 |-> 512 * d + j]

PagingInv ==
  /\ Len(pt) \in 0 .. 6
  /\ \A i \in 1 .. Len(pt) : pt[i] # NULL
  /\ \A i, j \in 1 .. Len(pt) : pt[i] = pt[j] => i = j
  /\ DOMAIN tables = {pt[i] : i \in 1 .. Len(pt)}
  /\ Len(pt) >= 2 =>
       /\ tables[pt[1]][0] = pt[2]
       /\ DOMAIN tables[pt[2]] = 0 .. Len(pt) - 3
       /\ \A d \in 0 .. Len(pt) - 3 : tables[pt[2]][d] = pt[d + 3]
  /\ \A d \in 0 .. Len(pt) - 3 : tables[pt[d + 3]] = Frames(d)

LEMMA FrameSplit ==
  ASSUME NEW f \in 0 .. 2047
  PROVE  /\ f \div 512 \in 0 .. 3 /\ f % 512 \in 0 .. 511
         /\ 512 * (f \div 512) + (f % 512) = f
<1>1. f \div 512 \in Int /\ f % 512 \in 0 .. 511 /\ 512 * (f \div 512) + (f % 512) = f
      BY SMT
<1> DEFINE pd == f \div 512
           j == f % 512
<1> HIDE DEF pd, j
<1>2. pd \in Int /\ j \in 0 .. 511 /\ 512 * pd + j = f
      BY SMT, <1>1 DEF pd, j
<1>3. j \in Int /\ 0 <= j /\ j <= 511 /\ f \in Int /\ 0 <= f /\ f <= 2047
      BY SMT, <1>2
<1>4. pd >= 0 /\ pd <= 3
      BY SMT, <1>2, <1>3
<1> QED
      BY SMT, <1>1, <1>2, <1>4 DEF pd

\* With all six tables every frame below 4 GB is mapped to itself.
LEMMA WalkIdentity ==
  ASSUME PagingInv, Len(pt) = 6, cpu.cr3 = pt[1], NEW f \in 0 .. 2047
  PROVE  Walk(f) = f
<1> DEFINE pd == f \div 512
           j  == f % 512
<1>1. pd \in 0 .. 3 /\ j \in 0 .. 511 /\ 512 * pd + j = f
      BY ONLY FrameSplit, f \in 0 .. 2047, SMT
<1> HIDE DEF pd, j
<1>2. /\ cpu.cr3 \in DOMAIN tables
      /\ tables[cpu.cr3][0] = pt[2]
      /\ DOMAIN tables[pt[2]] = 0 .. 3
      BY DEF PagingInv
<1>3. pd \in DOMAIN tables[pt[2]] /\ tables[pt[2]][pd] = pt[pd + 3]
      BY <1>1, <1>2 DEF PagingInv
<1>4. tables[pt[pd + 3]] = Frames(pd)
      BY <1>1 DEF PagingInv
<1>5. Frames(pd)[j] = f
      BY SMT, <1>1 DEF Frames
<1>6. Walk(f) = IF cpu.cr3 \in DOMAIN tables /\ pd \in DOMAIN tables[tables[cpu.cr3][0]]
                THEN tables[tables[tables[cpu.cr3][0]][pd]][j] ELSE -1
      BY DEF Walk, pd, j
<1> QED
      BY SMT, <1>2, <1>3, <1>4, <1>5, <1>6

\* The three kinds of page that x32_pt64_setup_paging takes.
LEMMA PageLinked ==
  ASSUME PagingInv, NEW n \in 0 .. 5, n = Len(pt), NEW x \in Nat, x # NULL,
         \A i \in 1 .. n : pt[i] # x,
         Len(pt') = n + 1, pt'[n + 1] = x, \A i \in 1 .. n : pt'[i] = pt[i],
         tables' = NextTables(x, 512 * (n - 2))
  PROVE  PagingInv'
<1>1. /\ \A i \in 1 .. n + 1 : pt'[i] # NULL
      /\ \A i, j \in 1 .. n + 1 : pt'[i] = pt'[j] => i = j
  <2>1. /\ \A i \in 1 .. n : pt[i] # NULL
        /\ \A i, j \in 1 .. n : pt[i] = pt[j] => i = j
        BY DEF PagingInv
  <2> QED
        BY <2>1
<1>2. {pt'[i] : i \in 1 .. n + 1} = {pt[i] : i \in 1 .. n} \cup {x}
      OBVIOUS
<1>3. CASE n = 0
  <2>1. tables' = With(tables, x, <<>>)
        BY <1>3 DEF NextTables
  <2>2. DOMAIN tables' = DOMAIN tables \cup {x}
        BY <2>1 DEF With
  <2> QED
        BY SMT, <1>1, <1>2, <1>3, <2>2 DEF PagingInv
<1>4. CASE n = 1
  <2> DEFINE t == With(tables, pt[1], With(<<>>, 0, x))
  <2>1. tables' = With(t, x, <<>>)
        BY <1>4 DEF NextTables
  <2>2. pt[1] # x /\ pt[1] \in DOMAIN tables
        BY <1>4 DEF PagingInv
  <2>3. DOMAIN t = DOMAIN tables /\ t[pt[1]][0] = x
        BY <2>2 DEF With
  <2> HIDE DEF t
  <2>4. /\ DOMAIN tables' = DOMAIN tables \cup {x}
        /\ tables'[pt[1]][0] = x /\ DOMAIN tables'[x] = {}
        BY <2>1, <2>2, <2>3 DEF With
  <2>5. pt'[1] = pt[1] /\ pt'[2] = x /\ 0 .. Len(pt') - 3 = {}
        BY <1>4
  <2> QED
        BY SMT, <1>1, <1>2, <1>4, <2>4, <2>5 DEF PagingInv
<1>5. CASE n >= 2
  <2> DEFINE link == With(tables[pt[2]], n - 2, x)
             t == With(tables, pt[2], link)
  <2>1. tables' = With(t, x, [j \in 0 .. 511 |-> 512 * (n - 2) + j])
    <3>1. Len(pt) # 0 /\ Len(pt) # 1
          BY <1>5
    <3> QED
          BY <3>1 DEF NextTables
  <2>2. tables' = With(t, x, Frames(n - 2))
        BY Zenon, <2>1 DEF Frames
  <2>3. \A i \in 1 .. n : pt[i] \in DOMAIN tables
        BY DEF PagingInv
  <2>4. /\ DOMAIN t = DOMAIN tables /\ t[pt[2]] = link
        /\ \A y \in DOMAIN tables : y # pt[2] => t[y] = tables[y]
    <3>1. pt[2] \in DOMAIN tables
          BY <1>5, <2>3
    <3> HIDE DEF link
    <3> QED
          BY <3>1 DEF With
  <2> HIDE DEF t, link
  <2>5. /\ DOMAIN tables' = DOMAIN tables \cup {x} /\ tables'[x] = Frames(n - 2)
        /\ \A y \in DOMAIN tables : y # x => tables'[y] = t[y]
        BY <2>2, <2>4 DEF With
  <2>6. /\ pt[1] \in DOMAIN tables /\ pt[2] \in DOMAIN tables
        /\ pt[1] # pt[2] /\ pt[1] # x /\ pt[2] # x
        /\ pt'[1] = pt[1] /\ pt'[2] = pt[2]
        BY <1>5, <2>3 DEF PagingInv
  <2>7. tables'[pt'[1]][0] = pt'[2]
        BY <1>5, <2>4, <2>5, <2>6 DEF PagingInv
  <2>8. tables'[pt'[2]] = link
        BY <2>4, <2>5, <2>6
  <2>9. DOMAIN link = 0 .. n - 2 /\ \A d \in 0 .. n - 2 : link[d] = pt'[d + 3]
    <3>1. /\ DOMAIN tables[pt[2]] = 0 .. n - 3
          /\ \A d \in 0 .. n - 3 : tables[pt[2]][d] = pt[d + 3]
          BY <1>5 DEF PagingInv
    <3>2. (0 .. n - 3) \cup {n - 2} = 0 .. n - 2
          BY <1>5
    <3>3. \A d \in 0 .. n - 3 : d # n - 2 /\ pt'[d + 3] = pt[d + 3]
          BY <1>5
    <3>4. pt'[(n - 2) + 3] = x
          OBVIOUS
    <3> QED
          BY <3>1, <3>2, <3>3, <3>4 DEF link, With
  <2>10. ASSUME NEW d \in 0 .. n - 2
        PROVE  tables'[pt'[d + 3]] = Frames(d)
    <3>1. CASE d = n - 2
          BY <2>5, <3>1
    <3>2. CASE d \in 0 .. n - 3
      <4>1. d + 3 \in 1 .. n /\ pt'[d + 3] = pt[d + 3] /\ d + 3 # 2
            BY <3>2
      <4>2. pt[d + 3] # pt[2] /\ pt[d + 3] # x /\ pt[d + 3] \in DOMAIN tables
            BY <1>5, <2>3, <4>1 DEF PagingInv
      <4>3. tables'[pt'[d + 3]] = tables[pt[d + 3]]
            BY <2>4, <2>5, <4>1, <4>2
      <4> QED
            BY <3>2, <4>3 DEF PagingInv
    <3> QED
          BY <3>1, <3>2
  <2>11. Len(pt') - 3 = n - 2 /\ Len(pt') \in 0 .. 6
        OBVIOUS
  <2>12. DOMAIN tables' = {pt'[i] : i \in 1 .. Len(pt')}
    <3> DEFINE old == {pt[i] : i \in 1 .. n}
               new == {pt'[i] : i \in 1 .. n + 1}
    <3>1. DOMAIN tables = old
          BY DEF PagingInv
    <3>2. {pt'[i] : i \in 1 .. Len(pt')} = new
          OBVIOUS
    <3>3. new = old \cup {x}
          BY <1>2
    <3>4. DOMAIN tables' = DOMAIN tables \cup {x}
          BY <2>5
    <3> HIDE DEF old, new
    <3> QED
          BY Zenon, <3>1, <3>2, <3>3, <3>4
  <2>13. /\ DOMAIN link = 0 .. Len(pt') - 3
         /\ \A d \in 0 .. Len(pt') - 3 : link[d] = pt'[d + 3]
         /\ \A d \in 0 .. Len(pt') - 3 : tables'[pt'[d + 3]] = Frames(d)
         /\ \A i \in 1 .. Len(pt') : pt'[i] # NULL
         /\ \A i, j \in 1 .. Len(pt') : pt'[i] = pt'[j] => i = j
    <3>1. 0 .. Len(pt') - 3 = 0 .. n - 2 /\ 1 .. Len(pt') = 1 .. n + 1
          BY <2>11
    <3> QED
          BY SMT, <1>1, <2>9, <2>10, <3>1
  <2> QED
        BY SMT, <2>7, <2>8, <2>11, <2>12, <2>13 DEF PagingInv
<1> QED
      BY <1>3, <1>4, <1>5

LEMMA InitPaging == LoaderInit => PagingInv
BY DEF LoaderInit, PagingInv

LEMMA NextPaging ==
  ASSUME HeapInv, RegionInv, SequenceInv, PagingInv, [LoaderNext]_vars
  PROVE  PagingInv'
<1> USE DEF vars, loaderVars, switchVars, launchVars
<1>1. ASSUME UNCHANGED <<pt, tables>> PROVE PagingInv'
      BY SMT, <1>1 DEF PagingInv
<1>2. CASE Pt64Setup
  <2>1. CASE PageAllocResult(1) = NULL
        BY <1>1, <1>2, <2>1 DEF Pt64Setup
  <2>2. CASE PageAllocResult(1) # NULL
    <3> DEFINE x == PageAllocResult(1)
               n == Len(pt)
    <3>1. /\ MonPageAlloc(1) /\ pt' = Append(pt, x) /\ n < 6
          /\ tables' = NextTables(x, 512 * (n - 2))
          BY <1>2, <2>2 DEF Pt64Setup
    <3>2. n \in 0 .. 6 /\ \A i \in 1 .. n : pt[i] # NULL
          BY DEF PagingInv
    <3>3. x \in Nat /\ heap_current <= x
      <4>1. 1 \in PageRequests
            BY LayoutAssumption
      <4> QED
            BY <2>2, <3>1, <4>1, PageTaken
    <3> HIDE DEF x
    <3>4. \A i \in 1 .. n : pt[i] # x
      <4> SUFFICES ASSUME NEW i \in 1 .. n PROVE pt[i] # x
          OBVIOUS
      <4>1. i \in DOMAIN pt
            BY DEF SequenceInv
      <4>2. Block(pt[i], PageSize) \in TablePages
            BY <4>1 DEF TablePages
      <4>3. Block(pt[i], PageSize).base = pt[i]
            BY DEF Block
      <4>4. Block(pt[i], PageSize) \in Regions
            BY <3>2, <4>2, <4>3, RegionsAre
      <4>5. pt[i] < heap_current /\ pt[i] \in Nat
            BY <4>3, <4>4, BasesBelow DEF RegionInv
      <4>6. heap_current \in Nat
            BY DEF HeapInv, TypeOK
      <4> QED
            BY <3>3, <4>5, <4>6
    <3>5. /\ Len(pt') = n + 1 /\ pt'[n + 1] = x
          /\ \A i \in 1 .. n : pt'[i] = pt[i]
          BY <3>1, <3>3 DEF SequenceInv
    <3>6. n \in 0 .. 5
          BY <3>1, <3>2
    <3>7. x # NULL
          BY <2>2 DEF x
    <3> HIDE DEF n
    <3>8. n = Len(pt)
          BY DEF n
    <3> QED
          BY <3>1, <3>3, <3>4, <3>5, <3>6, <3>7, <3>8, PageLinked
  <2> QED
        BY <2>1, <2>2
<1>3. CASE \/ SaveCpuState \/ CleanMemory \/ SetupIdt \/ GetE820Table \/ SetupEnv
           \/ AllocStack \/ Gdt64Setup \/ CallStartap
           \/ WriteGdtr \/ WriteCr3 \/ WriteCr4 \/ WriteEfer \/ SetLme \/ SetPg
           \/ Lret \/ HideCopy \/ GuestReturns \/ UNCHANGED vars
      BY <1>1, <1>3 DEF SaveCpuState, CleanMemory, SetupIdt, GetE820Table, SetupEnv,
         AllocStack, Gdt64Setup, CallStartap, WriteGdtr, WriteCr3, WriteCr4, WriteEfer,
         SetLme, Load, SetPg, Lret, HideCopy, GuestReturns
<1>4. ASSUME NEW ok \in BOOLEAN, NEW stage, NEW next, NEW image,
             \/ CheckVmxSupport(ok) \/ RunXmonLoader(ok) \/ CheckKernel(ok)
             \/ ExpandLinuxImage(ok)
             \/ GetImageInfo(stage, next, ok) \/ LoadImage(stage, next, image, ok)
      PROVE  PagingInv'
      BY <1>1, <1>4 DEF CheckVmxSupport, RunXmonLoader, CheckKernel,
         ExpandLinuxImage, GetImageInfo, LoadImage
<1>5. ASSUME NEW n, CountAps(n) \/ AllocBootParams(n) \/ Exception(n) PROVE PagingInv'
      BY <1>1, <1>5 DEF CountAps, AllocBootParams, Exception
<1>6. CASE LoaderStep
      BY <1>2, <1>3, <1>4, <1>5, <1>6 DEF LoaderStep
<1> QED
      BY <1>3, <1>5, <1>6 DEF LoaderNext, LoaderDone

\* Neither the first fetch with paging nor the far return into 64-bit code faults.
LEMMA NextNoFault ==
  ASSUME StageInv, PagingInv, pc # "fault", [LoaderNext]_vars
  PROVE  pc' # "fault"
<1>1. CASE SetPg
  <2>1. Len(pt) = 6 /\ cpu.lme /\ cpu.pae /\ cpu.cr3 = pt[1]
        BY <1>1 DEF SetPg, StageInv, TableInv, CpuInv, AfterTables, AfterGdtr, AfterCr3,
           AfterCr4, AfterLme
  <2>2. Frame(STARTAP_BASE) \in 0 .. 2047
    <3>1. STARTAP_BASE \in Nat /\ STARTAP_BASE \div 2097152 < 2048
          BY SMT, HeapAssumption, LayoutAssumption DEF STARTAP_BASE
    <3> HIDE DEF STARTAP_BASE
    <3> QED
          BY SMT, <3>1 DEF Frame
  <2>3. Walk(Frame(STARTAP_BASE)) = Frame(STARTAP_BASE)
        BY SMTT(30), <2>1, <2>2, WalkIdentity
  <2> QED
        BY <1>1, <2>1, <2>3 DEF SetPg
<1>2. CASE Lret
  <2>1. gdt.base # NULL /\ cpu.gdtr = gdt.base
        BY <1>2 DEF Lret, StageInv, GdtInv, CpuInv, AfterGdt, AfterTables, AfterGdtr,
           AfterCr3, AfterCr4, AfterLme, AfterPaging
  <2>2. gdt # NoGdt /\ Gdt = gdt.table
        BY <2>1 DEF NoGdt, Gdt
  <2>3. /\ gdt.cs # 0 /\ gdt.cs + 1 < gdt.entries /\ gdt.table[gdt.cs] = Code64
        /\ gdt.cs \in Nat /\ gdt.entries \in Nat
        BY <2>2 DEF StageInv, GdtInv, GdtCoversSelectors
  <2>4. gdt.cs < gdt.entries
        BY <2>3
  <2> QED
        BY <1>2, <2>2, <2>3, <2>4 DEF Lret
<1>3. CASE \/ SaveCpuState \/ CleanMemory \/ SetupIdt \/ GetE820Table \/ SetupEnv
           \/ AllocStack \/ Gdt64Setup \/ Pt64Setup \/ CallStartap
           \/ WriteGdtr \/ WriteCr3 \/ WriteCr4 \/ WriteEfer \/ SetLme
           \/ HideCopy \/ GuestReturns \/ UNCHANGED vars
      BY <1>3 DEF SaveCpuState, CleanMemory, SetupIdt, GetE820Table, SetupEnv,
         AllocStack, Gdt64Setup, Pt64Setup, CallStartap, WriteGdtr, WriteCr3, WriteCr4,
         WriteEfer, SetLme, Load, HideCopy, GuestReturns, vars
<1>4. ASSUME NEW ok \in BOOLEAN,
             \/ CheckVmxSupport(ok) \/ RunXmonLoader(ok)
             \/ GetImageInfo("xmon_info", "xmon_load", ok)
             \/ LoadImage("xmon_load", "startap_info", "xmon", ok)
             \/ GetImageInfo("startap_info", "startap_load", ok)
             \/ LoadImage("startap_load", "guest_env", "startap", ok)
             \/ CheckKernel(ok) \/ ExpandLinuxImage(ok)
      PROVE  pc' # "fault"
      BY <1>4 DEF CheckVmxSupport, RunXmonLoader, CheckKernel,
         ExpandLinuxImage, GetImageInfo, LoadImage
<1>5. ASSUME NEW n, CountAps(n) \/ AllocBootParams(n) \/ Exception(n) PROVE pc' # "fault"
      BY <1>5 DEF CountAps, AllocBootParams, Exception
<1>6. CASE LoaderStep
      BY <1>1, <1>2, <1>3, <1>4, <1>5, <1>6 DEF LoaderStep
<1> QED
      BY <1>3, <1>5, <1>6 DEF LoaderNext, LoaderDone

-----------------------------------------------------------------------------
(***************************************************************************)
(* The error path and the kernel's blocks.                                 *)
(***************************************************************************)
CleanInv ==
  pc = "halted" => cleared = Block(Td + LoaderStart, HeapBase + HeapSize - LoaderStart)

\* Where the copy of the map was refused, less is left than it would take; once
\* boot_params is there, so is the copy.
CopySize == MmapLength(boot) + 2 * MapEntrySize
RoomInv ==
  /\ pc \in {"launch", "boot_params"} /\ boot.memmap /\ newmmap_addr.base = NULL =>
       heap_current + CopySize > HeapBase + HeapSize
  /\ pc \in {"expand", "linux"} /\ boot.memmap /\ HeaderFits /\ CopySize <= boot_params.size =>
       newmmap_addr.base # NULL

\* The action of the error path is the only one that stops in "halted".
LEMMA NextClean ==
  ASSUME CleanInv, [LoaderNext]_vars
  PROVE  CleanInv'
<1>1. CASE CleanMemory
      BY <1>1 DEF CleanMemory, CleanInv
<1>2. CASE UNCHANGED vars
      BY <1>2 DEF vars, loaderVars, starterVars, CleanInv
<1>3. CASE ~CleanMemory /\ ~UNCHANGED vars
  <2>1. pc' # "halted"
        BY <1>3 DEF LoaderNext, LoaderStep, SaveCpuState, SetupIdt, GetE820Table,
           SetupEnv, AllocStack, Gdt64Setup, Pt64Setup, CallStartap, WriteGdtr, WriteCr3,
           WriteCr4, WriteEfer, SetLme, SetPg, Lret, Load, HideCopy, CheckVmxSupport,
           RunXmonLoader, GetImageInfo, LoadImage, CheckKernel, ExpandLinuxImage,
           CountAps, AllocBootParams, GuestReturns, LoaderDone, Exception
  <2> QED
        BY <2>1 DEF CleanInv
<1> QED
      BY <1>1, <1>2, <1>3

\* What is cleaned begins below the loader image and ends above the heap.
LEMMA CleanCovers == (pc = "halted" => HeapInv) /\ CleanInv => FailureCleansLoader
<1> SUFFICES ASSUME HeapInv, CleanInv, pc = "halted"
             PROVE  /\ cleared.base <= XMON_LOADER_BASE
                    /\ cleared.base + cleared.size >= HeapBase
                    /\ \A b \in blocks : cleared.base + cleared.size >= b.base + b.size
    BY DEF FailureCleansLoader
<1>1. cleared.base = Td + LoaderStart /\ cleared.size = HeapBase + HeapSize - LoaderStart
      BY DEF CleanInv, Block
<1>2. /\ Td \in Nat /\ PkgSize \in Nat /\ LoaderStart \in Nat /\ LoaderStart <= PkgSize
      /\ GUEST1_BASE + GUEST1_SIZE + PageSize <= Word
      BY SMT, LayoutAssumption
<1>3. GUEST1_BASE + GUEST1_SIZE \in Nat /\ GUEST1_BASE <= GUEST1_BASE + GUEST1_SIZE
      BY <1>2 DEF GUEST1_BASE, GUEST1_SIZE
<1>4. /\ XMON_LOADER_BASE \in Nat
      /\ GUEST1_BASE + GUEST1_SIZE <= XMON_LOADER_BASE
      BY <1>2, <1>3, AlignBound DEF XMON_LOADER_BASE
<1> HIDE DEF XMON_LOADER_BASE
<1>5. cleared.base <= XMON_LOADER_BASE
      BY SMT, <1>1, <1>2, <1>3, <1>4 DEF GUEST1_BASE, GUEST1_SIZE
<1>6. ASSUME NEW b \in blocks PROVE cleared.base + cleared.size >= b.base + b.size
  <2>1. b.base + b.size <= HeapBase + HeapSize /\ b.base \in Nat /\ b.size \in Nat
        BY HeapBounds DEF HeapInv, TypeOK
  <2> QED
        BY <1>1, <1>2, <2>1, HeapAssumption
<1>7. cleared.base + cleared.size >= HeapBase
      BY <1>1, <1>2, HeapAssumption
<1> QED
      BY <1>5, <1>6, <1>7

\* The copy of the map is so small that its size makes no sum wrap.
LEMMA CopyBelow ==
  ASSUME StageInv, pc = "hide"
  PROVE  CopySize \in Nat /\ HeapBase + HeapSize + CopySize < Word /\ Word \in Nat
<1>1. MmapLength(boot) \in Nat /\ MmapLength(boot) <= 4096
  <2>1. MmapLength(boot) <= 4096
        BY SMT DEF StageInv, E820Inv, AfterE820, AfterXmon, AfterStartap,
           AfterEnv, AfterStacks, AfterGdt, AfterTables, AfterGdtr, AfterCr3,
           AfterCr4, AfterLme, AfterPaging, Running
  <2> QED
        BY <2>1, MmapLengthType DEF StageInv, BootKept
<1>2. HeapBase + HeapSize + 12288 <= Word /\ Word \in Nat
      BY SMT, LayoutAssumption, HeapAssumption DEF XMON_BASE, STARTAP_BASE, STARTAP_SIZE
<1> QED
      BY SMT, <1>1, <1>2, HeapAssumption DEF CopySize, MapEntrySize

LEMMA NextRoom ==
  ASSUME pc \notin Late => HeapInv, StageInv, RoomInv, [LoaderNext]_vars
  PROVE  RoomInv'
<1> DEFINE Kernel == {"launch", "boot_params", "expand", "linux"}
<1>1. CASE HideCopy
  <2>1. pc' = "launch" /\ boot' = boot /\ CopySize' = CopySize
        BY <1>1 DEF HideCopy, starterVars, CopySize
  <2>0. HeapInv
        BY <1>1 DEF HideCopy, Late
  <2>2. ASSUME boot.memmap, newmmap_addr'.base = NULL
        PROVE  heap_current' + CopySize > HeapBase + HeapSize
    <3>1. AllocateMemory(CopySize)
          BY <1>1, <2>2 DEF HideCopy, CopySize
    <3>2. AllocateResult(CopySize) = NULL
          BY <1>1, <2>2 DEF HideCopy, CopySize, Block
    <3>3. /\ HeapBase \in Nat \ {0} /\ HeapSize \in Nat /\ heap_current \in Nat
          /\ HeapBase <= heap_current /\ heap_current <= HeapBase + HeapSize
          /\ heap_tops = HeapBase + HeapSize
          BY <2>0, HeapAssumption DEF HeapInv, TypeOK
    <3>4. ~Fits(heap_current, CopySize) /\ heap_current' = heap_current
          BY <3>1, <3>2, <3>3 DEF AllocateResult, AllocateMemory, heapVars, NULL
    <3>5. /\ CopySize \in Nat /\ HeapBase + HeapSize + CopySize < Word /\ Word \in Nat
          BY <1>1, CopyBelow DEF HideCopy
    <3>6. heap_current + CopySize \in Nat /\ heap_current + CopySize < Word
          BY <3>3, <3>5
    <3>7. Uint32(heap_current + CopySize) = heap_current + CopySize
          BY <3>6, Uint32Id
    <3> QED
          BY <3>3, <3>4, <3>5, <3>7 DEF Fits
  <2> QED
        BY <2>1, <2>2 DEF RoomInv
<1>2. ASSUME NEW c \in CmdlineSizes, AllocBootParams(c) PROVE RoomInv'
  <2> SUFFICES ASSUME pc' \in {"expand", "linux"}, boot.memmap, HeaderFits',
                      CopySize <= boot_params'.size
               PROVE  newmmap_addr'.base # NULL
    <3>1. pc = "boot_params" /\ boot' = boot /\ pc' \in {"spin", "expand", "lost"}
          BY <1>2 DEF AllocBootParams, starterVars
    <3> QED
          BY <3>1 DEF RoomInv, CopySize
  <2> DEFINE n == BootParamsSize + c
  <2>1. HeapInv /\ pc = "boot_params" /\ UNCHANGED <<boot, newmmap_addr>>
        BY <1>2 DEF AllocBootParams, Late, starterVars
  <2>2. /\ HeapBase \in Nat \ {0} /\ HeapSize \in Nat /\ heap_current \in Nat
        /\ HeapBase <= heap_current
        /\ heap_current <= HeapBase + HeapSize /\ heap_tops = HeapBase + HeapSize
        BY <2>1, HeapAssumption DEF HeapInv, TypeOK
  <2>3. /\ AllocateResult(Uint32(n)) # NULL
        /\ boot_params' = Block(AllocateResult(Uint32(n)), n)
        BY <1>2 DEF AllocBootParams
  <2>4. /\ AllocateResult(Uint32(n)) = heap_current /\ Fits(heap_current, Uint32(n))
        /\ boot_params'.base = heap_current /\ boot_params'.size = n
        BY <2>3 DEF AllocateResult, Block
  <2>5. n \in Nat
        BY SMT, LayoutAssumption DEF BootParamsSize
  <2> HIDE DEF n
  <2>6. heap_current + n < Word
        BY <2>4 DEF HeaderFits
  <2>7. Uint32(n) = n /\ Uint32(heap_current + n) = heap_current + n
    <3>1. n < Word /\ heap_current + n \in Nat
          BY <2>2, <2>5, <2>6, HeapAssumption
    <3> QED
          BY <2>5, <2>6, <3>1, Uint32Id
  <2>8. heap_current + n <= HeapBase + HeapSize
        BY <2>2, <2>4, <2>7 DEF Fits
  <2>9. CopySize \in Nat /\ CopySize <= n
    <3>1. MmapLength(boot) \in Nat
          BY MmapLengthType DEF StageInv, BootKept
    <3> QED
          BY <2>4, <3>1, SMT DEF CopySize, MapEntrySize
  <2> QED
        BY <2>1, <2>2, <2>5, <2>8, <2>9 DEF RoomInv
<1>3. ASSUME NEW ok \in BOOLEAN, CheckKernel(ok) \/ ExpandLinuxImage(ok) PROVE RoomInv'
      BY <1>3 DEF CheckKernel, ExpandLinuxImage, RoomInv, loaderVars, heapVars,
         starterVars, linuxVars, CopySize, HeaderFits
<1>4. CASE UNCHANGED vars
      BY <1>4 DEF vars, loaderVars, heapVars, starterVars, linuxVars, RoomInv, CopySize,
         HeaderFits
<1>5. ASSUME pc' \notin Kernel PROVE RoomInv'
      BY <1>5 DEF RoomInv
<1>6. CASE \/ SaveCpuState \/ CleanMemory \/ SetupIdt \/ GetE820Table \/ SetupEnv
           \/ AllocStack \/ Gdt64Setup \/ Pt64Setup \/ CallStartap
           \/ WriteGdtr \/ WriteCr3 \/ WriteCr4 \/ WriteEfer \/ SetLme \/ SetPg
           \/ Lret \/ GuestReturns
  <2>1. pc' \notin Kernel
        BY <1>6 DEF SaveCpuState, CleanMemory, SetupIdt, GetE820Table, SetupEnv,
           AllocStack, Gdt64Setup, Pt64Setup, CallStartap, WriteGdtr, WriteCr3, WriteCr4,
           WriteEfer, SetLme, Load, SetPg, Lret, GuestReturns
  <2> QED
        BY <1>5, <2>1
<1>7. ASSUME NEW ok \in BOOLEAN,
             \/ CheckVmxSupport(ok) \/ RunXmonLoader(ok)
             \/ GetImageInfo("xmon_info", "xmon_load", ok)
             \/ LoadImage("xmon_load", "startap_info", "xmon", ok)
             \/ GetImageInfo("startap_info", "startap_load", ok)
             \/ LoadImage("startap_load", "guest_env", "startap", ok)
      PROVE  RoomInv'
      BY <1>5, <1>7 DEF CheckVmxSupport, RunXmonLoader, GetImageInfo, LoadImage
<1>8. ASSUME NEW n, CountAps(n) \/ Exception(n) PROVE RoomInv'
      BY <1>5, <1>8 DEF CountAps, Exception
<1>9. CASE LoaderStep
      BY <1>1, <1>2, <1>3, <1>6, <1>7, <1>8, <1>9 DEF LoaderStep
<1> QED
      BY <1>4, <1>6, <1>8, <1>9 DEF LoaderNext, LoaderDone

\* What starter_main looks up in the GDT is what the hidden parts hold.
LEMMA SavedAreHidden ==
  ASSUME NEW b \in BootStates, NEW r \in SegmentRegs
  PROVE  b.ldtr.index = 0 /\ InTable(b, r) =>
           SavedSegments(b)[r] = IF Usable(b, r) THEN b.hidden[r].seg ELSE NoSegment
<1> SUFFICES ASSUME b.ldtr.index = 0, InTable(b, r)
             PROVE  SavedSegments(b)[r] = IF Usable(b, r) THEN b.hidden[r].seg ELSE NoSegment
    OBVIOUS
<1> DEFINE sel == b.sel[r]
           d == Descriptor(b, sel.index)
<1>1. SavedSegments(b)[r] = IF b.ldtr.index # 0 THEN NoSegment ELSE SaveSegmentData(b, sel)
      BY DEF SavedSegments
<1>2. CASE sel.ti \/ sel.index = 0
      BY <1>1, <1>2 DEF Usable, SaveSegmentData
<1>3. CASE ~sel.ti /\ sel.index # 0
  <2>0. sel.index \in 1 .. b.entries - 1 /\ Loaded(b, r)
        BY <1>3, BootAssumption DEF InTable
  <2>1. /\ sel.index \in 1 .. b.entries - 1 /\ d.present /\ d.s /\ ~d.bit21
        /\ b.hidden[r] = [big |-> d.big,
                          seg |-> [base |-> d.base, limit |-> SegmentLimit(d),
                                   access |-> d.access, selector |-> sel]]
        BY <1>3, <2>0 DEF Loaded
  <2>2. b.entries \in Nat
        BY BootAssumption
  <2> HIDE DEF d, sel
  <2>3. ~(sel.index \div 8 > (8 * b.entries - 1) \div 8)
    <3>1. sel.index \in Nat /\ sel.index <= b.entries - 1
          BY <2>1, <2>2
    <3> QED
          BY SMT, <2>2, <3>1
  <2>4. ValidateDescriptor(d) <=> d.big
        BY <2>1 DEF ValidateDescriptor
  <2>5. Usable(b, r) <=> d.big
        BY <1>3, <2>1 DEF Usable, sel
  <2>6. SaveSegmentData(b, sel) =
          IF ~d.big THEN NoSegment
          ELSE [base |-> d.base, limit |-> SegmentLimit(d), access |-> d.access,
                selector |-> sel]
        BY <1>3, <2>3, <2>4 DEF SaveSegmentData, d
  <2> QED
        BY <1>1, <1>3, <2>1, <2>5, <2>6
<1> QED
      BY <1>2, <1>3

-----------------------------------------------------------------------------
(***************************************************************************)
(* The theorems.                                                           *)
(***************************************************************************)
LoaderInv ==
  /\ StageInv /\ SequenceInv /\ PagingInv /\ CleanInv
  /\ HeaderFits => HeapInv /\ RegionInv
  /\ pc # "fault"

LEMMA InitLoaderInv == LoaderInit => LoaderInv
<1> SUFFICES ASSUME LoaderInit PROVE LoaderInv
    OBVIOUS
<1>1. HeapInv
      BY InitHeapInv DEF LoaderInit
<1>2. CleanInv /\ pc # "fault"
      BY DEF LoaderInit, CleanInv
<1> QED
      BY <1>1, <1>2, InitStage, InitRegion, InitPaging DEF LoaderInv

\* Before the block for boot_params is taken there is none that could go round.
LEMMA EarlyFits == StageInv /\ pc \notin Late => HeaderFits
<1> SUFFICES ASSUME StageInv, pc \notin Late PROVE HeaderFits
    OBVIOUS
<1>1. boot_params.base = 0 /\ boot_params.size = 0
      BY DEF StageInv, KernelInv, NoBlock, Block, NULL
<1>2. 0 + 0 < Word
      BY HeapAssumption
<1> QED
      BY <1>1, <1>2 DEF HeaderFits

\* Once it is taken the loader allocates nothing more.
LEMMA LateStays ==
  ASSUME pc \in Late, [LoaderNext]_vars, pc # "fault"
  PROVE  UNCHANGED <<heap_current, heap_tops, blocks, i32_esp, pt, tables, e820, gdt,
                     newmmap_addr, boot_params>> /\ pc' # "fault"
<1> USE DEF Late, vars, loaderVars, starterVars, imageVars, launchVars, switchVars,
        linuxVars, heapVars
<1>1. CASE UNCHANGED vars
      BY <1>1
<1>2. ASSUME NEW ok \in BOOLEAN, ExpandLinuxImage(ok)
      PROVE  UNCHANGED <<loaderVars, heapVars>> /\ pc' # "fault"
      BY <1>2 DEF ExpandLinuxImage
<1>3. ASSUME NEW v, Exception(v) \/ CountAps(v) \/ AllocBootParams(v) PROVE FALSE
      BY <1>3 DEF Exception, CountAps, AllocBootParams, IdtStages
<1>4. CASE \/ SaveCpuState \/ CleanMemory \/ SetupIdt \/ GetE820Table \/ SetupEnv
           \/ AllocStack \/ Gdt64Setup \/ Pt64Setup \/ CallStartap
           \/ WriteGdtr \/ WriteCr3 \/ WriteCr4 \/ WriteEfer \/ SetLme \/ SetPg
           \/ Lret \/ HideCopy \/ GuestReturns
      BY <1>4 DEF SaveCpuState, CleanMemory, SetupIdt, GetE820Table, SetupEnv,
         AllocStack, Gdt64Setup, Pt64Setup, CallStartap, WriteGdtr, WriteCr3, WriteCr4,
         WriteEfer, SetLme, Load, SetPg, Lret, HideCopy, GuestReturns
<1>5. ASSUME NEW ok \in BOOLEAN,
             \/ CheckVmxSupport(ok) \/ RunXmonLoader(ok)
             \/ GetImageInfo("xmon_info", "xmon_load", ok)
             \/ LoadImage("xmon_load", "startap_info", "xmon", ok)
             \/ GetImageInfo("startap_info", "startap_load", ok)
             \/ LoadImage("startap_load", "guest_env", "startap", ok)
             \/ CheckKernel(ok)
      PROVE  FALSE
      BY <1>5 DEF CheckVmxSupport, RunXmonLoader, GetImageInfo, LoadImage, CheckKernel
<1> QED
      BY <1>1, <1>2, <1>3, <1>4, <1>5 DEF LoaderNext, LoaderStep, LoaderDone

\* A block of pages or the copy of the map ends below 4 GB, so that only boot_params
\* can make the heap go round.
LEMMA HeapKept ==
  ASSUME HeapInv, StageInv, [LoaderNext]_vars, HeaderFits'
  PROVE  HeapInv'
<1> USE DEF vars, loaderVars, starterVars, imageVars, launchVars, switchVars, linuxVars,
        heapVars
<1>1. /\ HeapBase \in Nat \ {0} /\ HeapSize \in Nat /\ Word \in Nat
      /\ heap_current \in Nat /\ HeapBase <= heap_current
      /\ heap_current <= HeapBase + HeapSize
      /\ HeapBase + HeapSize + 12288 <= Word
      BY SMT, LayoutAssumption, HeapAssumption
      DEF HeapInv, TypeOK, XMON_BASE, STARTAP_BASE, STARTAP_SIZE
<1>2. NoWrap
  <2>1. ASSUME NEW b \in blocks PROVE b.base + b.size < Word
    <3>1. b.base + b.size <= HeapBase + HeapSize /\ b.base \in Nat /\ b.size \in Nat
          BY HeapBounds DEF HeapInv, TypeOK
    <3> QED
          BY SMT, <1>1, <3>1
  <2> QED
        BY <2>1 DEF NoWrap
<1>3. ASSUME NEW x \in Nat, NEW n \in Nat, x + n < Word,
             blocks' = blocks \cup {Block(x, n)}
      PROVE  NoWrap'
  <2>1. Block(x, n).base + Block(x, n).size < Word
        BY <1>3 DEF Block
  <2> QED
        BY <1>2, <1>3, <2>1 DEF NoWrap
<1>4. UNCHANGED blocks => NoWrap'
      BY <1>2 DEF NoWrap
<1>5. ASSUME NEW n \in {1, 2}, MonPageAlloc(n) PROVE NoWrap'
  <2> DEFINE x == AlignForward(heap_current)
             k == Uint32(n * PageSize)
  <2>1. x \in Nat /\ x < heap_current + 4096
        BY SMT, <1>1, AlignBound, PageSizeIs
  <2>2. k \in Nat /\ k <= 8192
    <3>1. n * PageSize \in Nat /\ n * PageSize <= 8192 /\ n * PageSize < Word
          BY SMT, <1>1, PageSizeIs
    <3> QED
          BY <3>1, Uint32Id
  <2>3. UNCHANGED blocks \/ blocks' = blocks \cup {Block(x, k)}
        BY <1>5 DEF MonPageAlloc, Take
  <2> HIDE DEF x, k
  <2>4. x + k < Word
        BY SMT, <1>1, <2>1, <2>2
  <2> QED
        BY <1>3, <1>4, <2>1, <2>2, <2>3, <2>4
<1>6. CASE GetE820Table \/ AllocStack \/ Gdt64Setup \/ Pt64Setup
  <2>1. (\E n \in {1, 2} : MonPageAlloc(n)) \/ UNCHANGED blocks
        BY <1>6 DEF GetE820Table, AllocStack, Gdt64Setup, Pt64Setup
  <2>2. NoWrap'
        BY <1>4, <1>5, <2>1
  <2> QED
        BY <2>2, StepUsesHeap, NextHeapInv DEF StageInv
<1>7. CASE HideCopy
  <2>1. CopySize \in Nat /\ HeapBase + HeapSize + CopySize < Word
        BY <1>7, CopyBelow DEF HideCopy
  <2>2. UNCHANGED blocks \/ blocks' = blocks \cup {Block(heap_current, CopySize)}
        BY <1>7 DEF HideCopy, AllocateMemory, Take, CopySize
  <2> HIDE DEF CopySize
  <2>3. heap_current + CopySize < Word
        BY <1>1, <2>1
  <2>4. NoWrap'
        BY <1>1, <1>3, <1>4, <2>1, <2>2, <2>3
  <2> QED
        BY <2>4, StepUsesHeap, NextHeapInv DEF StageInv
<1>8. ASSUME NEW c \in CmdlineSizes, AllocBootParams(c) PROVE HeapInv'
  <2> DEFINE n == BootParamsSize + c
  <2>1. CASE UNCHANGED blocks
        BY <1>4, <2>1, StepUsesHeap, NextHeapInv DEF StageInv
  <2>2. CASE ~UNCHANGED blocks
    <3>1. Uint32(n) = n
          BY <1>8, <2>2, KernelSizeFits
    <3>2. n \in Nat
          BY SMT, LayoutAssumption DEF BootParamsSize
    <3> HIDE DEF n
    <3>3. AllocateMemory(n)
          BY <1>8, <3>1 DEF AllocBootParams, n
    <3>4. /\ AllocateResult(n) = heap_current /\ heap_current # NULL
          /\ blocks' = blocks \cup {Block(heap_current, n)}
          BY <1>1, <2>2, <3>3 DEF AllocateMemory, AllocateResult, Take, NULL
    <3>5. boot_params' = Block(heap_current, n)
          BY <1>8, <3>1, <3>4 DEF AllocBootParams, n
    <3>6. heap_current + n < Word
          BY <3>5 DEF HeaderFits, Block
    <3>7. NoWrap'
          BY <1>1, <1>3, <3>2, <3>4, <3>6
    <3> QED
          BY <3>7, StepUsesHeap, NextHeapInv DEF StageInv
  <2> QED
        BY <2>1, <2>2
<1>9. ASSUME UNCHANGED heapVars PROVE HeapInv'
      BY <1>9 DEF HeapInv, TypeOK, BelowCursor, Apart
<1>10. CASE \/ SaveCpuState \/ CleanMemory \/ SetupIdt \/ SetupEnv \/ CallStartap
            \/ WriteGdtr \/ WriteCr3 \/ WriteCr4 \/ WriteEfer \/ SetLme \/ SetPg
            \/ Lret \/ GuestReturns \/ UNCHANGED vars
       BY <1>9, <1>10 DEF SaveCpuState, CleanMemory, SetupIdt, SetupEnv, CallStartap,
          WriteGdtr, WriteCr3, WriteCr4, WriteEfer, SetLme, Load, SetPg, Lret,
          GuestReturns
<1>11. ASSUME NEW ok \in BOOLEAN, NEW stage, NEW next, NEW image,
              \/ CheckVmxSupport(ok) \/ RunXmonLoader(ok) \/ CheckKernel(ok)
              \/ ExpandLinuxImage(ok)
              \/ GetImageInfo(stage, next, ok) \/ LoadImage(stage, next, image, ok)
       PROVE  HeapInv'
       BY <1>9, <1>11 DEF CheckVmxSupport, RunXmonLoader, CheckKernel,
          ExpandLinuxImage, GetImageInfo, LoadImage
<1>12. ASSUME NEW n, CountAps(n) \/ Exception(n) PROVE HeapInv'
       BY <1>9, <1>12 DEF CountAps, Exception
<1>13. CASE LoaderStep
       BY <1>6, <1>7, <1>8, <1>10, <1>11, <1>12, <1>13 DEF LoaderStep
<1> QED
       BY <1>10, <1>12, <1>13 DEF LoaderNext, LoaderDone

LEMMA NextLoaderInv == LoaderInv /\ [LoaderNext]_vars => LoaderInv'
<1> SUFFICES ASSUME LoaderInv, [LoaderNext]_vars PROVE LoaderInv'
    OBVIOUS
<1>1. StageInv' /\ CleanInv'
      BY NextStage, NextClean DEF LoaderInv
<1>2. CASE pc \in Late
  <2>1. UNCHANGED <<heap_current, heap_tops, blocks, i32_esp, pt, tables, e820, gdt,
                    newmmap_addr, boot_params>> /\ pc' # "fault"
        BY <1>2, LateStays DEF LoaderInv
  <2>2. Regions' = Regions /\ Bases' = Bases /\ Single' = Single
        BY <2>1 DEF Regions, Bases, Single
  <2>3. HeapInv => HeapInv'
        BY <2>1 DEF HeapInv, TypeOK, BelowCursor, Apart
  <2>4. RegionInv => RegionInv'
        BY <2>1, <2>2 DEF RegionInv
  <2>5. PagingInv'
        BY SMT, <2>1 DEF PagingInv, LoaderInv
  <2>6. SequenceInv' /\ (HeaderFits' <=> HeaderFits)
        BY <2>1 DEF SequenceInv, HeaderFits, LoaderInv
  <2> QED
        BY <1>1, <2>1, <2>3, <2>4, <2>5, <2>6 DEF LoaderInv
<1>3. CASE pc \notin Late
  <2>1. HeapInv /\ RegionInv
        BY <1>3, EarlyFits DEF LoaderInv
  <2>2. HeaderFits' => HeapInv'
        BY <2>1, HeapKept DEF LoaderInv
  <2>3. (HeaderFits' => RegionInv') /\ SequenceInv'
        BY <2>1, NextRegion DEF LoaderInv
  <2>4. PagingInv' /\ pc' # "fault"
        BY <2>1, NextPaging, NextNoFault DEF LoaderInv
  <2> QED
        BY <1>1, <2>2, <2>3, <2>4 DEF LoaderInv
<1> QED
      BY <1>2, <1>3

LEMMA LoaderInvHolds == LoaderSpec => []LoaderInv
BY InitLoaderInv, NextLoaderInv, PTL DEF LoaderSpec

\* Whatever fails on the way, startap is called only when both images, the map,
\* the redirected guest state, a stack for every announced AP, the GDT and the six
\* tables are in place.
THEOREM LaunchIsReady == LoaderSpec => []LaunchReady
<1>1. LoaderInv => LaunchReady
  <2> SUFFICES ASSUME LoaderInv, pc = "startap" PROVE LaunchReady
      BY DEF LaunchReady
  <2> USE DEF LoaderInv, StageInv, AfterLoader, AfterE820, AfterXmon, AfterStartap,
          AfterEnv, AfterStacks, AfterGdt, AfterTables
  <2>1. loaded = {"xmon_loader", "xmon", "startap"}
        BY DEF ImagesInv
  <2>2. guest.rip = "primary_guest_entry" /\ guest.rcx = "td" /\ env
        BY DEF GuestInv
  <2>3. e820 # NoE820 /\ gdt # NoGdt
        BY DEF E820Inv, GdtInv, NoE820, NoGdt
  <2>4. /\ Len(i32_esp) = num_of_aps /\ (p_init32 = "null" <=> num_of_aps = 0)
        /\ Len(pt) = 6
        BY DEF StackInv, TableInv
  <2> QED
        BY <2>1, <2>2, <2>3, <2>4 DEF LaunchReady
<1> QED
      BY <1>1, LoaderInvHolds, PTL

\* The stacks, the tables, the GDT, both maps and boot_params lie in the heap and
\* apart from each other, for every number of APs, every length of the map and every
\* cmdline_size that makes no sum wrap.
THEOREM MemoryApart == LoaderSpec => []StacksApart
<1>1. LoaderInv => StacksApart
      BY RegionsApart DEF LoaderInv
<1> QED
      BY <1>1, LoaderInvHolds, PTL

\* The GDT of x32_gdt64_setup keeps the boot loader's descriptors, holds both of the
\* 64-bit mode inside its limit and ends inside its page.
THEOREM GdtComplete == LoaderSpec => []GdtCoversSelectors
<1>1. LoaderInv => GdtCoversSelectors
      BY DEF LoaderInv, StageInv, GdtInv
<1> QED
      BY <1>1, LoaderInvHolds, PTL

\* The error path of starter_main zeroes the loader image and all of its heap.
THEOREM FailureCleans == LoaderSpec => []FailureCleansLoader
<1>1. LoaderInv => FailureCleansLoader
  <2>1. LoaderInv /\ pc = "halted" => HeapInv
        BY EarlyFits DEF LoaderInv, Late
  <2> QED
        BY <2>1, CleanCovers DEF LoaderInv
<1> QED
      BY <1>1, LoaderInvHolds, PTL

\* The guest gets the segments the boot loader ran with, if it uses no LDT, for every
\* selector inside its GDT and whatever the memory beyond the GDT holds.
THEOREM SegmentsSaved == LoaderSpec => []GuestSegments
<1>1. LoaderInv => GuestSegments
  <2> SUFFICES ASSUME LoaderInv, pc # "starter_main", boot.ldtr.index = 0,
                      NEW r \in SegmentRegs, InTable(boot, r)
               PROVE  guest.seg[r] = IF Usable(boot, r) THEN boot.hidden[r].seg
                                     ELSE NoSegment
      BY DEF GuestSegments
  <2>1. guest.seg = SavedSegments(boot) /\ boot \in BootStates
        BY DEF LoaderInv, StageInv, GuestInv, BootKept
  <2> QED
        BY <2>1, SavedAreHidden
<1> QED
      BY <1>1, LoaderInvHolds, PTL

\* The switch does not fault, and the monitor is entered in long mode, in a 64-bit
\* code segment, with the first 4 GB mapped to themselves.
THEOREM SwitchSucceeds == LoaderSpec => []LongModeEntered
<1>1. LoaderInv => LongModeEntered
  <2> SUFFICES ASSUME LoaderInv, pc = "xmon"
               PROVE  /\ cpu.lma /\ Gdt[cpu.cs] = Code64
                      /\ \A f \in 0 .. 2047 : Walk(f) = f
      BY SMT DEF LongModeEntered, LoaderInv
  <2> USE DEF AfterGdt, AfterTables, AfterGdtr, AfterCr3, AfterCr4, AfterLme,
          AfterPaging, Running
  <2>1. /\ cpu.lma /\ cpu.cs = gdt.cs /\ cpu.gdtr = gdt.base /\ gdt.base # NULL
        /\ cpu.cr3 = pt[1] /\ Len(pt) = 6
        BY DEF LoaderInv, StageInv, CpuInv, GdtInv, TableInv
  <2>2. gdt # NoGdt /\ Gdt = gdt.table
        BY <2>1 DEF NoGdt, Gdt
  <2>3. Gdt[cpu.cs] = Code64
        BY <2>1, <2>2 DEF LoaderInv, StageInv, GdtInv, GdtCoversSelectors
  <2>4. \A f \in 0 .. 2047 : Walk(f) = f
        BY SMTT(40), <2>1, WalkIdentity DEF LoaderInv
  <2> QED
        BY SMT, <2>1, <2>3, <2>4
<1> QED
      BY <1>1, LoaderInvHolds, PTL

\* A kernel whose boot_params take no less than the copy of the map, with no sum
\* wrapped, is started only with boot_params and with the copy.
THEOREM LinuxIsReady == LoaderSpec => []LinuxReady
<1>1. LoaderInit => LoaderInv /\ RoomInv
      BY InitLoaderInv DEF LoaderInit, RoomInv
<1>2. LoaderInv /\ RoomInv /\ [LoaderNext]_vars => (LoaderInv /\ RoomInv)'
  <2> SUFFICES ASSUME LoaderInv, RoomInv, [LoaderNext]_vars
               PROVE  LoaderInv' /\ RoomInv'
      OBVIOUS
  <2>1. pc \notin Late => HeapInv
        BY EarlyFits DEF LoaderInv
  <2> QED
        BY <2>1, NextLoaderInv, NextRoom DEF LoaderInv
<1>3. LoaderInv /\ RoomInv => LinuxReady
  <2> SUFFICES ASSUME LoaderInv, RoomInv, pc = "linux", HeaderFits,
                      CopySize <= boot_params.size
               PROVE  boot_params.base # NULL /\ (boot.memmap => newmmap_addr.base # NULL)
      BY DEF LinuxReady, CopySize
  <2>1. boot_params.base # NULL
        BY DEF LoaderInv, StageInv, KernelInv
  <2> QED
        BY <2>1 DEF RoomInv
<1> QED
      BY <1>1, <1>2, <1>3, PTL DEF LoaderSpec
=============================================================================
