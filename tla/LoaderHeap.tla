------------------------------ MODULE LoaderHeap ------------------------------
(***************************************************************************)
(* The loader's heap (src/pre_os/xmon_loader/utils/memory/memory.c): a      *)
(* cursor that only moves up.  Nothing is ever freed; the heap outlives the *)
(* launch of the monitor, because the loader resumes on it to start the     *)
(* guest kernel.  Addresses are uint32_t.                                  *)
(***************************************************************************)
EXTENDS Integers

CONSTANTS
  Word,        \* 2^32, the range of uint32_t
  PageSize,    \* PAGE_SIZE
  HeapBase,    \* XMON_LOADER_HEAP_BASE(td)
  HeapSize,    \* XMON_LOADER_HEAP_SIZE
  ByteRequests,  \* the sizes allocate_memory is asked for
  PageRequests   \* the page counts mon_page_alloc is asked for

\* The heap ends a page or more below 4 GB.  A request may be any uint32_t: nothing
\* keeps heap_current + size_request below 2^32.
ASSUME HeapAssumption ==
  /\ Word \in Nat /\ PageSize \in Nat \ {0}
  /\ HeapBase \in Nat \ {0} /\ HeapSize \in Nat
  /\ HeapBase + HeapSize + PageSize < Word
  /\ ByteRequests \subseteq 0 .. Word - 1
  /\ PageRequests \subseteq Nat /\ \A n \in PageRequests : n * PageSize < Word

VARIABLES
  heap_current, heap_tops,
  blocks     \* history: the blocks handed out, each zeroed by zero_mem

heapVars == <<heap_current, heap_tops, blocks>>

Uint32(n) == n % Word
NULL      == 0

\* ALIGN_FORWARD(n, PAGE_SIZE), a mask after a 32-bit sum.
AlignForward(n) ==
  LET up == Uint32(n + PageSize - 1) IN up - (up % PageSize)

Block(address, size) == [base |-> address, size |-> size]

\* initialize_memory_manager
InitializeMemoryManager ==
  /\ heap_current = HeapBase
  /\ heap_tops = Uint32(HeapBase + HeapSize)
  /\ blocks = {}

-----------------------------------------------------------------------------
\* Mutation: the size is compared with the whole heap, not with what is left.
FitsWholeHeap(address, size) == Uint32(HeapBase + size) <= heap_tops

\* The test both allocators make: a 32-bit sum against heap_tops.
Fits(address, size) == Uint32(address + size) <= heap_tops

\* Mutation: the cursor moves by the size in pages.
TakeInPages(address, size) ==
  /\ heap_current' = Uint32(address + size \div PageSize)
  /\ blocks' = blocks \cup {Block(address, size)}
  /\ UNCHANGED heap_tops

\* The block is taken, the cursor moved and the memory zeroed.
Take(address, size) ==
  /\ heap_current' = Uint32(address + size)
  /\ blocks' = blocks \cup {Block(address, size)}
  /\ UNCHANGED heap_tops

\* allocate_memory(size_request): NULL when it does not fit.
AllocateMemory(size) ==
  IF Fits(heap_current, size) THEN Take(heap_current, size)
                              ELSE UNCHANGED heapVars

\* mon_page_alloc(pages): the aligned address is computed before the test.
MonPageAlloc(pages) ==
  LET address == AlignForward(heap_current)
      size    == Uint32(pages * PageSize)
  IN  IF Fits(address, size) THEN Take(address, size) ELSE UNCHANGED heapVars

\* Whether the next call returns an address, and which.
AllocateResult(size) == IF Fits(heap_current, size) THEN heap_current ELSE NULL

PageAllocResult(pages) ==
  LET address == AlignForward(heap_current)
  IN  IF Fits(address, Uint32(pages * PageSize)) THEN address ELSE NULL

Init == InitializeMemoryManager

Next ==
  \/ \E n \in ByteRequests : AllocateMemory(n)
  \/ \E n \in PageRequests : MonPageAlloc(n)

Spec == Init /\ [][Next]_heapVars

-----------------------------------------------------------------------------
TypeOK ==
  /\ heap_current \in Nat
  /\ heap_tops = HeapBase + HeapSize
  /\ \A b \in blocks : b.base \in Nat /\ b.size \in Nat

\* No request so far went round the address space.  One that does passes the test
\* of memory.c:40: the cursor goes back and zero_mem clears all memory above it.
NoWrap == \A b \in blocks : b.base + b.size < Word

\* As long as no request goes round the address space, every byte of every block
\* lies between the base and the top of the heap: what zero_mem and the owners
\* write stays off the loader image below and off startap and the monitor above
\* (xmon_desc.h:38-65).
BlocksInHeap ==
  NoWrap =>
    \A b \in blocks : HeapBase <= b.base /\ b.base + b.size <= HeapBase + HeapSize

\* As long as no request goes round the address space, no two blocks share a byte:
\* an AP's stack, the GDT, the page tables, the memory maps and boot_params do not
\* overwrite each other.
BlocksDisjoint ==
  NoWrap =>
    \A b, c \in blocks :
      b # c => b.base + b.size <= c.base \/ c.base + c.size <= b.base
=============================================================================
