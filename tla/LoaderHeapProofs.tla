--------------------------- MODULE LoaderHeapProofs ---------------------------
(***************************************************************************)
(* Theorems about LoaderHeap, for every heap and every set of requests: a   *)
(* run is safe up to the first request that goes round the address space.  *)
(***************************************************************************)
EXTENDS LoaderHeap, TLAPS

\* The inductive invariant: every block lies below the cursor.
BelowCursor ==
  \A b \in blocks : HeapBase <= b.base /\ b.base + b.size <= heap_current

Apart ==
  \A b, c \in blocks :
    b # c => b.base + b.size <= c.base \/ c.base + c.size <= b.base

HeapInv ==
  /\ TypeOK
  /\ HeapBase <= heap_current /\ heap_current <= heap_tops
  /\ BelowCursor
  /\ Apart

\* A value below 2^32 is its own uint32_t.
LEMMA Uint32Id ==
  ASSUME NEW n \in Nat, n < Word
  PROVE  Uint32(n) = n
BY HeapAssumption DEF Uint32

\* Rounding up to a page moves the cursor by less than a page.
LEMMA AlignBound ==
  ASSUME NEW n \in Nat, n + PageSize <= Word
  PROVE  AlignForward(n) \in Nat /\ n <= AlignForward(n) /\ AlignForward(n) < n + PageSize
<1> DEFINE up == n + PageSize - 1
<1>1. up \in Nat /\ up < Word /\ up = n + PageSize - 1
      BY HeapAssumption
<1> HIDE DEF up
<1>2. Uint32(up) = up
      BY <1>1, Uint32Id
<1>3. up % PageSize \in 0 .. PageSize - 1
      BY <1>1, HeapAssumption
<1>4. AlignForward(n) = up - (up % PageSize)
      BY <1>2, Zenon DEF AlignForward, up
<1> QED
      BY <1>1, <1>3, <1>4, HeapAssumption

\* A block taken at or above the cursor, and below the top, keeps the invariant.
LEMMA TakeKeeps ==
  ASSUME HeapInv, NEW address \in Nat, NEW size \in Nat,
         heap_current <= address, address + size < Word,
         Fits(address, size), Take(address, size)
  PROVE  HeapInv'
<1>1. Uint32(address + size) = address + size
      BY Uint32Id
<1>2. /\ heap_current' = address + size /\ heap_tops' = heap_tops
      /\ address + size <= heap_tops
      /\ blocks' = blocks \cup {[base |-> address, size |-> size]}
      BY <1>1 DEF Take, Fits, Block
<1>3. HeapBase \in Nat /\ heap_current \in Nat
      BY HeapAssumption DEF HeapInv, TypeOK
<1>4. TypeOK' /\ HeapBase <= heap_current' /\ heap_current' <= heap_tops'
      BY <1>2, <1>3 DEF HeapInv, TypeOK
<1>5. BelowCursor'
      BY <1>2, <1>3 DEF HeapInv, TypeOK, BelowCursor
<1>6. Apart'
      BY <1>2, <1>3 DEF HeapInv, TypeOK, BelowCursor, Apart
<1> QED
      BY <1>4, <1>5, <1>6 DEF HeapInv

\* A block that was taken without going round ends below 4 GB.
LEMMA TakenBelow ==
  ASSUME NEW address \in Nat, NEW size \in Nat, Take(address, size), NoWrap'
  PROVE  address + size < Word
<1> DEFINE b == [base |-> address, size |-> size]
<1>1. b \in blocks' /\ b.base = address /\ b.size = size
      BY DEF Take, Block
<1>2. b.base + b.size < Word
      BY <1>1 DEF NoWrap
<1> QED
      BY <1>1, <1>2

LEMMA NextHeapInv == HeapInv /\ [Next]_heapVars /\ NoWrap' => HeapInv'
<1> SUFFICES ASSUME HeapInv, [Next]_heapVars, NoWrap' PROVE HeapInv'
    OBVIOUS
<1>1. /\ HeapBase \in Nat \ {0} /\ HeapSize \in Nat /\ PageSize \in Nat \ {0}
      /\ Word \in Nat
      /\ heap_current \in Nat /\ heap_current <= HeapBase + HeapSize
      BY HeapAssumption DEF HeapInv, TypeOK
<1>2. ASSUME NEW n \in ByteRequests, AllocateMemory(n)
      PROVE  HeapInv' \/ UNCHANGED heapVars
  <2>1. n \in Nat
        BY HeapAssumption
  <2>2. heap_current <= heap_current
        BY <1>1
  <2>3. Take(heap_current, n) => heap_current + n < Word
        BY <1>1, <2>1, TakenBelow
  <2> QED
        BY <1>1, <1>2, <2>1, <2>2, <2>3, TakeKeeps DEF AllocateMemory
<1>3. ASSUME NEW n \in PageRequests, MonPageAlloc(n)
      PROVE  HeapInv' \/ UNCHANGED heapVars
  <2> DEFINE address == AlignForward(heap_current)
             size == n * PageSize
  <2>1. n \in Nat /\ size < Word
        BY HeapAssumption
  <2>2. size \in Nat
        BY <1>1, <2>1
  <2>3. heap_current + PageSize <= Word
        BY <1>1, HeapAssumption
  <2>4. address \in Nat /\ heap_current <= address /\ address < heap_current + PageSize
        BY <1>1, <2>3, AlignBound
  <2> HIDE DEF address
  <2>6. Uint32(size) = size
        BY <2>1, <2>2, Uint32Id
  <2>7. IF Fits(address, size) THEN Take(address, size) ELSE UNCHANGED heapVars
        BY <1>3, <2>6 DEF MonPageAlloc, address
  <2> HIDE DEF size
  <2>8. Take(address, size) => address + size < Word
        BY <2>2, <2>4, TakenBelow
  <2> QED
        BY <2>2, <2>4, <2>7, <2>8, TakeKeeps
<1>4. CASE UNCHANGED heapVars
      BY <1>4 DEF heapVars, HeapInv, TypeOK, BelowCursor, Apart
<1> QED
      BY <1>2, <1>3, <1>4 DEF Next

LEMMA InitHeapInv == Init => HeapInv
<1> SUFFICES ASSUME Init PROVE HeapInv
    OBVIOUS
<1>1. HeapBase + HeapSize \in Nat /\ HeapBase + HeapSize < Word
      BY HeapAssumption
<1>2. Uint32(HeapBase + HeapSize) = HeapBase + HeapSize
      BY <1>1, Uint32Id
<1> QED
      BY <1>2, HeapAssumption DEF Init, InitializeMemoryManager, HeapInv, TypeOK,
         BelowCursor, Apart

LEMMA HeapBounds ==
  ASSUME HeapInv, NEW b \in blocks
  PROVE  HeapBase <= b.base /\ b.base + b.size <= HeapBase + HeapSize
BY HeapAssumption DEF HeapInv, TypeOK, BelowCursor

\* Blocks are never given back, so a heap that has not gone round never had.
LEMMA NoWrapBefore == [Next]_heapVars /\ NoWrap' => NoWrap
<1>1. [Next]_heapVars => blocks \subseteq blocks'
      BY DEF Next, AllocateMemory, MonPageAlloc, Take, heapVars
<1> QED
      BY <1>1 DEF NoWrap

\* The invariant of every run, whatever is requested.
SoundHeap == NoWrap => HeapInv

LEMMA NextSoundHeap == SoundHeap /\ [Next]_heapVars => SoundHeap'
BY NextHeapInv, NoWrapBefore DEF SoundHeap

LEMMA SoundHeapSafe == SoundHeap => BlocksInHeap /\ BlocksDisjoint
<1> SUFFICES ASSUME SoundHeap, NoWrap
             PROVE  BlocksInHeap /\ BlocksDisjoint
    BY DEF BlocksInHeap, BlocksDisjoint
<1>1. HeapInv
      BY DEF SoundHeap
<1>2. BlocksInHeap
      BY <1>1, HeapBounds DEF BlocksInHeap
<1>3. BlocksDisjoint
      BY <1>1 DEF HeapInv, Apart, BlocksDisjoint
<1> QED
      BY <1>2, <1>3

\* Whatever is requested in whatever order, blocks lie inside the heap and do
\* not overlap, up to the first request whose 32-bit sum goes round and which the
\* test of memory.c:40 therefore lets through.
THEOREM HeapSafe == Spec => [](BlocksInHeap /\ BlocksDisjoint)
<1>1. Init => SoundHeap
      BY InitHeapInv DEF SoundHeap
<1> QED
      BY <1>1, NextSoundHeap, SoundHeapSafe, PTL DEF Spec
=============================================================================
